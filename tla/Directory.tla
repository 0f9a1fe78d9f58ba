------------------------------ MODULE Directory ------------------------------
(* Directory streams (src/dirent.c) over one directory that does not change:    *)
(* the stream, the handle, descriptor and search it owns while it is opened,    *)
(* read, rewound and closed, and the entries it returns.  The calls of Windows  *)
(* and of the C runtime are external and may fail.                            *)
EXTENDS Integers, Sequences

CONSTANTS
    Streams,        \* addresses calloc returns
    Entries,        \* the names of the directory, in the order Windows has them
    NULL

VARIABLES
    dir,            \* struct _DIR by address, NULL where none is allocated
    handles, fds, finds,    \* what is open, named by the stream that opened it
    seen, ended     \* entries returned since the start, and whether all were

vars == <<dir, handles, fds, finds, seen, ended>>
reading == <<seen, ended>>

Init ==
    /\ dir = [d \in Streams |-> NULL]
    /\ handles = {} /\ fds = {} /\ finds = {}
    /\ seen = [d \in Streams |-> <<>>] /\ ended = [d \in Streams |-> FALSE]

Step(d, s) == dir[d] # NULL /\ dir[d].step = s

\* wpdk_closedir's body.  _findclose fails for the 0 that calloc left in h.
Release(d, fd, h) ==
    /\ fds' = IF fd # -1 THEN fds \ {d} ELSE fds
    /\ finds' = IF h # -1 THEN finds \ {d} ELSE finds
    /\ dir' = [dir EXCEPT ![d] = NULL]
    /\ seen' = [seen EXCEPT ![d] = <<>>]
    /\ ended' = [ended EXCEPT ![d] = FALSE]
-----------------------------------------------------------------------------
(* wpdk_opendir, one call of the system at a time.                           *)

\* The name is checked, the stream allocated and the path translated; a failure
\* of any leaves nothing behind.
wpdk_opendir(d) ==
    /\ dir[d] = NULL
    /\ dir' = [dir EXCEPT ![d] = [fd |-> 0, h |-> 0, first |-> FALSE, at |-> 0, step |-> "file"]]
    /\ UNCHANGED <<handles, fds, finds, reading>>

OpenFile(d) ==
    /\ Step(d, "file")
    /\ \/ /\ dir' = [dir EXCEPT ![d].step = "fd"]
          /\ handles' = handles \cup {d}
       \/ dir' = [dir EXCEPT ![d] = NULL] /\ UNCHANGED handles
    /\ UNCHANGED <<fds, finds, reading>>

\* The descriptor takes the handle over; without one the handle is closed here.
OpenDescriptor(d) ==
    /\ Step(d, "fd")
    /\ handles' = handles \ {d}
    /\ \/ /\ dir' = [dir EXCEPT ![d].fd = d, ![d].step = "search"]
          /\ fds' = fds \cup {d}
          /\ UNCHANGED <<finds, reading>>
       \/ Release(d, -1, 0)

\* A bug the call might have: a stream without a search is freed, no more.
StartSearchFrees(d) ==
    /\ Step(d, "search")
    /\ \/ /\ dir' = [dir EXCEPT ![d].h = d, ![d].first = TRUE, ![d].at = 1, ![d].step = "open"]
          /\ finds' = finds \cup {d}
       \/ dir' = [dir EXCEPT ![d] = NULL] /\ UNCHANGED finds
    /\ UNCHANGED <<handles, fds, reading>>

StartSearch(d) ==
    /\ Step(d, "search")
    /\ \/ /\ dir' = [dir EXCEPT ![d].h = d, ![d].first = TRUE, ![d].at = 1, ![d].step = "open"]
          /\ finds' = finds \cup {d}
          /\ UNCHANGED <<fds, reading>>
       \/ Release(d, dir[d].fd, -1)
    /\ UNCHANGED handles
-----------------------------------------------------------------------------
wpdk_closedir(d) ==
    /\ Step(d, "open")
    /\ Release(d, dir[d].fd, dir[d].h)
    /\ UNCHANGED handles

\* _findfirst has left the first entry in the stream.
wpdk_readdir(d) ==
    /\ Step(d, "open") /\ dir[d].h # -1
    /\ LET at == IF dir[d].first THEN dir[d].at ELSE dir[d].at + 1 IN
       IF at > Len(Entries)
       THEN ended' = [ended EXCEPT ![d] = TRUE] /\ UNCHANGED <<dir, seen>>
       ELSE /\ dir' = [dir EXCEPT ![d].at = at, ![d].first = FALSE]
            /\ seen' = [seen EXCEPT ![d] = Append(@, Entries[at])]
            /\ UNCHANGED ended
    /\ UNCHANGED <<handles, fds, finds>>

\* The search is closed and started again; when that fails the stream has none.
wpdk_rewinddir(d) ==
    /\ Step(d, "open")
    /\ \E ok \in BOOLEAN :
        /\ dir' = [dir EXCEPT ![d].h = IF ok THEN d ELSE -1, ![d].at = 1, ![d].first = TRUE]
        /\ finds' = IF ok THEN finds \cup {d} ELSE finds \ {d}
    /\ seen' = [seen EXCEPT ![d] = <<>>] /\ ended' = [ended EXCEPT ![d] = FALSE]
    /\ UNCHANGED <<handles, fds>>

Next ==
    \E d \in Streams :
        \/ wpdk_opendir(d) \/ OpenFile(d) \/ OpenDescriptor(d) \/ StartSearch(d)
        \/ wpdk_closedir(d) \/ wpdk_readdir(d) \/ wpdk_rewinddir(d)

Spec == Init /\ [][Next]_vars
-----------------------------------------------------------------------------
(* Whatever fails, on the way to an open stream or while it is used, what is   *)
(* open is what live streams own, and an open stream owns what it says.       *)
OwnedExactly ==
    \A d \in Streams :
        /\ d \in handles <=> Step(d, "fd")
        /\ d \in fds <=> Step(d, "search") \/ Step(d, "open")
        /\ d \in finds <=> Step(d, "open") /\ dir[d].h # -1

(* A stream returns the entries of the directory in order, none twice and none *)
(* left out, and says there are no more only after the last, however often it  *)
(* is rewound, also after a rewind that failed.                               *)
EntriesInOrder ==
    \A d \in Streams :
        /\ seen[d] = SubSeq(Entries, 1, Len(seen[d])) /\ Len(seen[d]) <= Len(Entries)
        /\ ended[d] => seen[d] = Entries
=========================================================================
