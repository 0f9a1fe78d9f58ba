------------------------------ MODULE TempFile ------------------------------
(* wpdk_mkstemp (src/stdlib.c): callers that share a template compete for the  *)
(* names _mktemp can make from it.  _mktemp and the file system are external. *)
EXTENDS Naturals, FiniteSets

CONSTANTS
    Callers,
    Letters,        \* the names _mktemp makes from one template, 26
    Attempts,       \* turns of the loop, 26
    MaxDeletes,     \* bound on the files deleted
    NULL

TempFileAssumption == Attempts \in Nat /\ MaxDeletes \in Nat

VARIABLES
    exists,         \* names in the file system
    held,           \* the names each caller was given and has not deleted
    pc, path, i,    \* each caller's call
    deleted         \* files deleted so far

vars == <<exists, held, pc, path, i, deleted>>

Init ==
    /\ exists = {} /\ deleted = 0
    /\ held = [c \in Callers |-> {}]
    /\ pc = [c \in Callers |-> "idle"]
    /\ path = [c \in Callers |-> NULL]
    /\ i = [c \in Callers |-> 0]

Return(c) ==
    /\ pc' = [pc EXCEPT ![c] = "idle"]
    /\ path' = [path EXCEPT ![c] = NULL]
    /\ i' = [i EXCEPT ![c] = 0]

\* A template that is refused changes nothing.
wpdk_mkstemp(c) ==
    /\ pc[c] = "idle"
    /\ pc' = [pc EXCEPT ![c] = "name"]
    /\ UNCHANGED <<exists, held, path, i, deleted>>

\* _mktemp answers with a name that did not exist when it looked, or fails: there
\* is none, or the buffer holds no template because the path was not translated.
Mktemp(c) ==
    /\ pc[c] = "name"
    /\ \/ \E n \in Letters \ exists :
            /\ path' = [path EXCEPT ![c] = n]
            /\ pc' = [pc EXCEPT ![c] = "open"]
            /\ UNCHANGED i
       \/ Return(c)
    /\ UNCHANGED <<exists, held, deleted>>

\* The bound on files deleted, those about to be removed included.
MayDelete == deleted + Cardinality({c \in Callers : pc[c] = "undo"}) < MaxDeletes

\* _open with O_EXCL: the file is created, or the open fails for another reason
\* than EEXIST, which ends the call.
Open(c) ==
    /\ pc[c] = "open"
    /\ path[c] \notin exists
    /\ \/ /\ exists' = exists \cup {path[c]}
          /\ held' = [held EXCEPT ![c] = @ \cup {path[c]}]
          /\ Return(c)
       \/ /\ MayDelete
          /\ exists' = exists \cup {path[c]}
          /\ pc' = [pc EXCEPT ![c] = "undo"]
          /\ UNCHANGED <<held, path, i>>
       \/ Return(c) /\ UNCHANGED <<exists, held>>
    /\ UNCHANGED deleted

\* The name does not fit the template: the file is closed and removed.
Undo(c) ==
    /\ pc[c] = "undo"
    /\ exists' = exists \ {path[c]}
    /\ deleted' = deleted + 1
    /\ Return(c)
    /\ UNCHANGED held

\* A bug the loop might have: it ends a turn early.
RetryLess(c) ==
    /\ pc[c] = "open"
    /\ path[c] \in exists
    /\ i' = [i EXCEPT ![c] = @ + 1]
    /\ pc' = [pc EXCEPT ![c] = IF i[c] + 2 < Attempts THEN "name" ELSE "EEXIST"]
    /\ UNCHANGED <<exists, held, path, deleted>>

\* EEXIST: another turn with another name.
Retry(c) ==
    /\ pc[c] = "open"
    /\ path[c] \in exists
    /\ i' = [i EXCEPT ![c] = @ + 1]
    /\ pc' = [pc EXCEPT ![c] = IF i[c] + 1 < Attempts THEN "name" ELSE "EEXIST"]
    /\ UNCHANGED <<exists, held, path, deleted>>

GiveUp(c) == pc[c] = "EEXIST" /\ Return(c) /\ UNCHANGED <<exists, held, deleted>>

\* The client deletes a file it was given.
Delete(c, n) ==
    /\ MayDelete
    /\ n \in held[c]
    /\ exists' = exists \ {n}
    /\ held' = [held EXCEPT ![c] = @ \ {n}]
    /\ deleted' = deleted + 1
    /\ UNCHANGED <<pc, path, i>>

Next ==
    \E c \in Callers :
        \/ wpdk_mkstemp(c) \/ Mktemp(c) \/ Open(c) \/ Undo(c)
        \/ Retry(c) \/ GiveUp(c)
        \/ \E n \in Letters : Delete(c, n)

Spec == Init /\ [][Next]_vars
-----------------------------------------------------------------------------
(* No two callers are given one file, and no file is left that no caller was   *)
(* given or is about to remove, although every name was free when it was made. *)
GivenOnce ==
    /\ \A c, d \in Callers : c # d => held[c] \cap held[d] = {}
    /\ exists = UNION {held[c] : c \in Callers}
                \cup {path[c] : c \in {d \in Callers : pc[d] = "undo"}}

(* "Try this up to 26 times, to cover all of the possible temporary files": a  *)
(* call gives up with EEXIST only after others made as many files as there are *)
(* names.                                                                     *)
GivesUpFull ==
    \A c \in Callers : pc[c] = "EEXIST" =>
        Cardinality(exists) + deleted >= Cardinality(Letters)
=========================================================================
