------------------------------ MODULE Mapping ------------------------------
(* mmap and munmap (src/mman.c): Windows maps views at multiples of an         *)
(* allocation granularity, so an offset is rounded down to one, the address     *)
(* returned lies inside the view, and munmap rounds an address down to find     *)
(* the view again.  One file; the addresses Windows chooses are external.      *)
EXTENDS Integers

CONSTANTS
    Gran,           \* the allocation granularity
    Wide,           \* 2^32: a larger view is refused
    MapOffsets,     \* offsets and lengths clients ask for
    MapLengths,
    MapPlaces       \* addresses where Windows may put a view

ASSUME MappingAssumption ==
    /\ Gran \in Nat \ {0} /\ Wide \in Nat
    /\ MapOffsets \subseteq Nat /\ MapLengths \subseteq Nat \ {0}
    /\ MapPlaces \subseteq Nat /\ \A p \in MapPlaces : p % Gran = 0

VARIABLES
    views,          \* [base, size] of the views mapped
    maps,           \* [addr, len, base] the clients hold, and the view behind each
    file            \* size of the file

mapVars == <<views, maps, file>>

MapInit == views = {} /\ maps = {} /\ file = 0

RoundDown(x) == (x \div Gran) * Gran

Apart(v, b, size) == b + size <= v.base \/ v.base + v.size <= b

\* A bug the call might have: the view has the length asked for.
MapAtUnrounded(off, len, b) ==
    /\ \A v \in views : Apart(v, b, len)
    /\ views' = views \cup {[base |-> b, size |-> len]}
    /\ maps' = maps \cup {[addr |-> b + (off - RoundDown(off)), len |-> len, base |-> b]}

ViewSize(off, len) == off + len - RoundDown(off)

\* MapViewOfFile places the view at b.
MapAt(off, len, b) ==
    /\ \A v \in views : Apart(v, b, ViewSize(off, len))
    /\ views' = views \cup {[base |-> b, size |-> ViewSize(off, len)]}
    /\ maps' = maps \cup {[addr |-> b + (off - RoundDown(off)), len |-> len, base |-> b]}

\* CreateFileMapping extends the file to the end of the mapping; its handle is
\* closed in either case, and a view keeps the mapping.
wpdk_mmap(off, len) ==
    /\ ViewSize(off, len) < Wide
    /\ \E b \in MapPlaces : MapAt(off, len, b)
    /\ file' = IF off + len > file THEN off + len ELSE file

\* A failure of MapViewOfFile: the file may have grown.
MapFails(off, len) ==
    /\ ViewSize(off, len) < Wide
    /\ file' = IF off + len > file THEN off + len ELSE file
    /\ UNCHANGED <<views, maps>>

\* UnmapViewOfFile removes the view that starts at the address, if there is one.
wpdk_munmap(m) ==
    /\ views' = {v \in views : v.base # RoundDown(m.addr)}
    /\ maps' = maps \ {m}
    /\ UNCHANGED file

MapNext ==
    \/ \E off \in MapOffsets, len \in MapLengths : wpdk_mmap(off, len) \/ MapFails(off, len)
    \/ \E m \in maps : wpdk_munmap(m)

MapSpec == MapInit /\ [][MapNext]_mapVars
-----------------------------------------------------------------------------
(* Each mapping a client holds lies inside a live view from its first byte to *)
(* its last: munmap of one never takes the view of another.                   *)
InsideLiveView ==
    \A m \in maps : \E v \in views :
        /\ v.base = m.base
        /\ v.base <= m.addr /\ m.addr + m.len <= v.base + v.size

(* munmap finds the view of the address mmap returned, although the offset was *)
(* not a multiple of the granularity; and no view outlives its mapping.       *)
UnmapsItsView ==
    /\ \A m \in maps : RoundDown(m.addr) = m.base
    /\ \A v \in views : \E m \in maps : m.base = v.base

(* Together: mmap and munmap keep mappings and views in step.                 *)
MappingsSound == InsideLiveView /\ UnmapsItsView
=========================================================================
