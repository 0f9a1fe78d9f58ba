------------------------------ MODULE PathMap ------------------------------
(* The translation of POSIX paths to Windows ones (src/fcntl.c): the table is *)
(* built from the environment by the first thread that needs it, under        *)
(* map_lock, and read without the lock.                                       *)
(*                                                                            *)
(* A path is the sequence of the names that follow its slashes: /a/b is       *)
(* <<"a", "b">>, a doubled slash is an empty name, / is <<"">>.                 *)
(* Plain stores become visible in program order, as the x86 targets keep it.  *)
EXTENDS Naturals, Sequences, SequencesExt, FiniteSets

CONSTANTS
    Threads,
    Environments,       \* the environments the process may start in
    Paths,              \* the paths looked up
    Longest,            \* the longest path, in names, that fits a buffer
    MapSize,            \* elements of map[]
    NULL, none, garbage

PathMapAssumption ==
    /\ MapSize \in Nat \ {0}
    /\ Longest \in Nat \ {0}
    /\ \A p \in Paths : Len(p) > 0

VARIABLES
    env,            \* the environment: constant once the process has started
    map,            \* map[0 .. map_count - 1]
    map_init,
    map_lock,       \* the thread that holds it, or NULL
    adding,         \* the mappings the initialising thread has yet to add
    pc, path, result    \* wpdk_get_path in each thread

vars == <<env, map, map_init, map_lock, adding, pc, path, result>>

Root == <<"">>
Tmp == <<"tmp">>
VarTmp == <<"var", "tmp">>
Home == <<"home">>

-----------------------------------------------------------------------------
(* The mappings the process asks for, in order.                              *)

Ask(dir, dest) == [dir |-> dir, dest |-> dest]

\* wpdk_add_mapping with prefix set: the directory is appended to dest.
AskIn(dir, dest) == Ask(dir, dest \o dir)

wpdk_add_system_drive(prefix) ==
    IF env.drive = NULL THEN <<>> ELSE <<Ask(prefix \o <<"c">>, env.drive)>>

wpdk_add_wsl_paths == <<AskIn(Home, env.wsl)>> \o wpdk_add_system_drive(<<"mnt">>)

\* dir is NULL unless it names a directory below an MSYS2 root.
wpdk_add_msys_paths(dir) ==
    IF dir = NULL THEN <<>>
    ELSE <<AskIn(Tmp, dir), AskIn(VarTmp, dir), AskIn(Home, dir)>>
            \o wpdk_add_system_drive(<<>>)

DefaultTmp == IF env.tmp = NULL THEN <<>> ELSE <<Ask(Tmp, env.tmp), Ask(VarTmp, env.tmp)>>

Asked ==
    env.pathmap
        \o (IF env.wsl # NULL THEN wpdk_add_wsl_paths
            ELSE wpdk_add_msys_paths(env.msystem) \o wpdk_add_msys_paths(env.msystmp))
        \o DefaultTmp

-----------------------------------------------------------------------------
(* Adding one mapping.                                                       *)

\* Characters in a path, a name counting as one: only a directory and those
\* inside it are compared, and they are ordered the same way.
strlen(d) == Len(d) + Cardinality({i \in DOMAIN d : d[i] # ""})

\* The memmove loop over "//", and "/" becoming the empty string.
Normal(d) ==
    LET s == [i \in DOMAIN d |-> [name |-> d[i], keep |-> d[i] # "" \/ i = Len(d)]]
        t == SelectSeq(s, LAMBDA x : x.keep)
        n == [i \in DOMAIN t |-> t[i].name]
    IN  IF n = Root THEN <<>> ELSE n

\* Longest first; among equals the earlier stays in front.
InsertSorted(m, x) ==
    LET shorter == {i \in DOMAIN m : strlen(m[i].dir) < strlen(x.dir)}
        i == IF shorter = {} THEN Len(m) + 1 ELSE CHOOSE k \in shorter : \A j \in shorter : k <= j
    IN  InsertAt(m, i, x)

\* A bug wpdk_add_mapping might have: one entry too many is allowed.
AddMappingOver(m, a) ==
    IF Len(m) > MapSize \/ (\E i \in DOMAIN m : m[i].dir = a.dir) \/ a.dest \in env.missing
    THEN m
    ELSE InsertSorted(m, [dir |-> Normal(a.dir), dest |-> a.dest, len |-> strlen(a.dir)])

wpdk_add_mapping(m, a) ==
    IF \/ Len(m) >= MapSize
       \/ \E i \in DOMAIN m : m[i].dir = a.dir
       \/ a.dest \in env.missing
    THEN m
    ELSE InsertSorted(m, [dir |-> Normal(a.dir), dest |-> a.dest, len |-> strlen(a.dir)])

-----------------------------------------------------------------------------
(* Looking a path up.                                                        *)

\* strncmp over the recorded length, and a slash after it.  A recorded length
\* beyond the directory's own makes strncmp stop at its end, and the slash is
\* looked for past the end of an equal path: it may be found or not.
Matches(p, e) ==
    IF e.len = strlen(e.dir)
    THEN {IsPrefix(e.dir, p) /\ Len(p) > Len(e.dir)}
    ELSE IF p = e.dir THEN BOOLEAN ELSE {FALSE}

Fits(p) == IF Len(p) <= Longest THEN p ELSE NULL

\* The answers the loop over the table may give; none when no entry matches.
Scan(m, p) ==
    {IF \E i \in DOMAIN m : hit[i]
     THEN LET i == CHOOSE i \in DOMAIN m : hit[i] /\ \A j \in 1..i - 1 : ~hit[j]
          IN  Fits(m[i].dest \o SubSeq(p, Len(m[i].dir) + 1, Len(p)))
     ELSE none :
        hit \in {h \in [DOMAIN m -> BOOLEAN] : \A i \in DOMAIN m : h[i] \in Matches(p, m[i])}}

IsRootFile(p) == Len(p) = 1 /\ p # Root

\* The remapped name is built in a local array: without a mapping for /tmp its
\* address is returned, and what the caller finds there is arbitrary.
wpdk_remap_root_file(m, p) ==
    IF Len(Tmp \o p) > Longest THEN {NULL}
    ELSE LET found == Scan(m, Tmp \o p) IN
         (found \ {none}) \cup (IF none \in found THEN {Tmp \o p, garbage} ELSE {})

Answers(m, p) ==
    IF Len(p) > Longest THEN {NULL}
    ELSE IF IsRootFile(p) THEN wpdk_remap_root_file(m, p)
    ELSE {IF r = none THEN p ELSE r : r \in Scan(m, p)}

-----------------------------------------------------------------------------
Init ==
    /\ env \in Environments
    /\ map = <<>> /\ map_init = FALSE /\ map_lock = NULL /\ adding = <<>>
    /\ pc = [t \in Threads |-> "idle"]
    /\ path = [t \in Threads |-> NULL]
    /\ result = [t \in Threads |-> NULL]

table == <<env, map, map_init, map_lock, adding>>

Go(t, l) == pc' = [pc EXCEPT ![t] = l]

\* map_init is tested without the lock.
wpdk_get_path(t, p) ==
    /\ pc[t] = "idle"
    /\ path' = [path EXCEPT ![t] = p]
    /\ Go(t, IF map_init \/ Len(p) > Longest THEN "scan" ELSE "lock")
    /\ UNCHANGED <<table, result>>

\* A bug wpdk_init_map might have: the flag is not tested again under the lock.
AcquireUnchecked(t) ==
    /\ pc[t] = "lock" /\ map_lock = NULL
    /\ map_lock' = t /\ adding' = Asked /\ map' = <<>> /\ Go(t, "add")
    /\ UNCHANGED <<env, map_init, path, result>>

\* wpdk_init_map: another thread may have built the table by now.
Acquire(t) ==
    /\ pc[t] = "lock" /\ map_lock = NULL
    /\ IF map_init
       THEN Go(t, "scan") /\ UNCHANGED <<map_lock, adding>>
       ELSE map_lock' = t /\ adding' = Asked /\ Go(t, "add")
    /\ UNCHANGED <<env, map, map_init, path, result>>

Add(t) ==
    /\ pc[t] = "add" /\ adding # <<>>
    /\ map' = wpdk_add_mapping(map, Head(adding))
    /\ adding' = Tail(adding)
    /\ UNCHANGED <<env, map_init, map_lock, pc, path, result>>

Release(t) ==
    /\ pc[t] = "add" /\ adding = <<>>
    /\ map_init' = TRUE /\ map_lock' = NULL
    /\ Go(t, "scan")
    /\ UNCHANGED <<env, map, adding, path, result>>

Lookup(t) ==
    /\ pc[t] = "scan"
    /\ \E r \in Answers(map, path[t]) : result' = [result EXCEPT ![t] = r]
    /\ Go(t, "done")
    /\ UNCHANGED <<table, path>>

Return(t) ==
    /\ pc[t] = "done"
    /\ path' = [path EXCEPT ![t] = NULL]
    /\ result' = [result EXCEPT ![t] = NULL]
    /\ Go(t, "idle")
    /\ UNCHANGED table

Next == \E t \in Threads :
    \/ \E p \in Paths : wpdk_get_path(t, p)
    \/ Acquire(t) \/ Add(t) \/ Release(t) \/ Lookup(t) \/ Return(t)

Spec == Init /\ [][Next]_vars

-----------------------------------------------------------------------------
TypeOK ==
    /\ env \in Environments
    /\ Len(map) <= MapSize
    /\ map_init \in BOOLEAN
    /\ map_lock \in Threads \cup {NULL}
    /\ pc \in [Threads -> {"idle", "lock", "add", "scan", "done"}]
    /\ path \in [Threads -> Paths \cup {NULL}]

\* What the environment asks for: the first mapping of a directory whose target
\* exists, while there is room.
Wanted ==
    FoldLeft(LAMBDA got, a :
                 IF \/ Cardinality(got) >= MapSize \/ a.dest \in env.missing
                    \/ \E w \in got : Normal(w.dir) = Normal(a.dir)
                 THEN got ELSE got \cup {a},
             {}, Asked)

Expected(p) ==
    LET q == IF IsRootFile(p) THEN Tmp \o p ELSE p
        over == {w \in Wanted :
                    IsPrefix(Normal(w.dir), q) /\ Len(q) > Len(Normal(w.dir))}
    IN  IF Len(q) > Longest THEN NULL
        ELSE IF over = {} THEN q
        ELSE LET w == CHOOSE w \in over :
                          \A v \in over : Len(Normal(v.dir)) <= Len(Normal(w.dir))
             IN  Fits(w.dest \o SubSeq(q, Len(Normal(w.dir)) + 1, Len(q)))

(* Whichever thread builds the table and whenever the others look, every path *)
(* is translated by the longest directory that holds it, and among several    *)
(* targets of one directory by the first that exists: no thread ever reads a  *)
(* table that is still being built.                                           *)
LookupExact == \A t \in Threads : pc[t] = "done" => result[t] = Expected(path[t])
=============================================================================
