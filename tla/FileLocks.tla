------------------------------ MODULE FileLocks ------------------------------
(***************************************************************************)
(* Record locks on one file: fcntl and wpdk_lockfile of src/fcntl.c, lockf *)
(* of src/unistd.c and flock of src/file.c, over the byte-range locks of   *)
(* Windows.                                                                *)
(*                                                                         *)
(* Each call of LockFileEx and UnlockFileEx is one action.  A handle       *)
(* stands for an open file of a process that makes one call at a time.     *)
(***************************************************************************)
EXTENDS LockRange

CONSTANTS
    Handles,
    Requests,   \* pairs <<call, operation>> clients make
    Positions,  \* what SEEK_SET, SEEK_CUR and SEEK_END may stand for
    Offsets,    \* l_start of the requests
    Sizes       \* l_len, or the size given to lockf

Ops == {"F_RDLCK", "F_WRLCK", "F_UNLCK"}
FcntlCalls == {"F_GETLK", "F_SETLK", "F_SETLKW"}
FlockCalls == {"flock", "flock_nb"}

\* lockf names its operation by its function; F_TEST tries a write lock.
AllRequests ==
    ((FcntlCalls \cup FlockCalls) \X Ops) \cup
    {<<"F_LOCK", "F_WRLCK">>, <<"F_TLOCK", "F_WRLCK">>, <<"F_ULOCK", "F_UNLCK">>,
     <<"F_TEST", "F_WRLCK">>}

ASSUME RequestsAssumption == Requests \subseteq AllRequests
ASSUME InputsAssumption ==
    /\ Positions \subseteq off_t /\ Offsets \subseteq off_t /\ Sizes \subseteq off_t
    /\ 0 \in Positions /\ 0 \in Offsets /\ 0 \in Sizes
    /\ \A posn \in Positions, offset \in Offsets, size \in Sizes : Ordinary(posn, offset, size)

VARIABLES
    locks,  \* the locks Windows holds on the file
    pc,     \* where the call on each handle is
    loc,    \* its request and result
    held    \* what the caller knows it holds, from the results it was given

vars == <<locks, pc, loc, held>>

\* wpdk_lockfile moves ranges past the space files use.
At(start) == LOCKFILE_MAX + start
GuardAt == At(LOCKFILE_GUARD)
Places == At(0) .. GuardAt
Lengths == 0 .. LOCKFILE_MAX

Lock == [own : Handles, at : Places, len : Lengths, excl : BOOLEAN]
Claim == [at : Places, len : Lengths, excl : BOOLEAN]
Locals == [call : FcntlCalls \cup FlockCalls \cup
                  {"none", "F_LOCK", "F_TLOCK", "F_ULOCK", "F_TEST"},
           op : Ops, at : Places, len : Lengths, rc : {"0", "EINVAL", "EACCES"}]
NoCall == [call |-> "none", op |-> "F_UNLCK", at |-> At(0), len |-> 0, rc |-> "0"]

Nowait(call) == call \in {"F_GETLK", "F_SETLK", "F_TLOCK", "F_TEST", "flock_nb"}
Probe(call) == call \in {"F_GETLK", "F_TEST"}

(***************************************************************************)
(* Windows.  An exclusive lock overlaps no other; a shared lock overlaps   *)
(* shared locks, and exclusive ones of its own handle.  A range is         *)
(* unlocked exactly as it was locked, its exclusive lock first.            *)
(***************************************************************************)
Overlap(l, at, len) == l.at < at + len /\ at < l.at + l.len
Denied(h, at, len, excl) ==
    \E l \in locks : Overlap(l, at, len) /\ (excl \/ (l.excl /\ l.own # h))
Entry(h, at, len, excl) == [own |-> h, at |-> at, len |-> len, excl |-> excl]

Locked(h, at, len) == {l \in locks : l.own = h /\ l.at = at /\ l.len = len}
Unlock(h, at, len) ==
    LET mine == Locked(h, at, len)
        first == {l \in mine : l.excl \/ \A m \in mine : ~m.excl} IN
    IF mine = {} THEN locks' = locks ELSE \E l \in first : locks' = locks \ {l}

(***************************************************************************)
(* The results a caller sees, and what it then knows it holds.             *)
(***************************************************************************)
Goto(h, label) == pc' = [pc EXCEPT ![h] = label]
Without(h, at, len) == {c \in held[h] : c.at # at \/ c.len # len}

Acquired(r) == r.rc = "0" /\ r.op # "F_UNLCK" /\ ~Probe(r.call)
Released(r) == r.rc = "0" /\ r.op = "F_UNLCK"

Finish(h, r) ==
    /\ Goto(h, "return")
    /\ loc' = [loc EXCEPT ![h] = r]
    /\ held' = [held EXCEPT ![h] =
         IF Acquired(r)
         THEN held[h] \cup {[at |-> r.at, len |-> r.len, excl |-> r.op = "F_WRLCK"]}
         ELSE IF Released(r) THEN Without(h, r.at, r.len) ELSE held[h]]

(***************************************************************************)
(* Clients that do not lock again what they hold: Windows stacks locks     *)
(* where POSIX replaces them.  A handle is used with flock or with the     *)
(* range calls, not both.  Asking whether bytes could be write-locked is   *)
(* always fine.                                                            *)
(***************************************************************************)
Whole == [at |-> At(0), len |-> LOCKFILE_MAX]
Disciplined(h, call, op, at, len) ==
    IF call \in FlockCalls
    THEN \A c \in held[h] : c.at = Whole.at /\ c.len = Whole.len
    ELSE \/ op = "F_UNLCK"
         \/ Probe(call) /\ op = "F_WRLCK" /\ len > 0
         \/ \A c \in held[h] : ~Overlap(c, at, len) /\ ~(c.at = at /\ c.len = len)

Init ==
    /\ locks = {}
    /\ pc = [h \in Handles |-> "ready"]
    /\ loc = [h \in Handles |-> NoCall]
    /\ held = [h \in Handles |-> {}]

(***************************************************************************)
(* A call.  Its range is settled first; then wpdk_lockfile runs, inside    *)
(* the guard lock when it must not wait, and a probe unlocks again what it *)
(* managed to lock.                                                        *)
(***************************************************************************)
Enter(call) == IF Nowait(call) THEN "guard" ELSE "op"

Start(h) ==
    /\ pc[h] = "ready"
    /\ \E r \in Requests, posn \in Positions, offset \in Offsets, size \in Sizes :
        LET range == GetRange(posn, offset, size)
            req == [call |-> r[1], op |-> r[2], at |-> At(range.start),
                    len |-> range.bytes, rc |-> "0"] IN
        /\ r[1] \in FlockCalls => posn = 0 /\ offset = 0 /\ size = 0
        /\ IF ~range.ok \/ r = <<"F_GETLK", "F_UNLCK">>
           THEN Finish(h, [NoCall EXCEPT !.call = r[1], !.rc = "EINVAL"])
           ELSE /\ Disciplined(h, r[1], r[2], req.at, req.len)
                /\ loc' = [loc EXCEPT ![h] = req]
                /\ Goto(h, IF r[1] \in FlockCalls THEN "convert" ELSE Enter(r[1]))
                /\ UNCHANGED held
    /\ UNCHANGED locks

\* Mutant: flock asks for the new lock on top of the old one.
FlockUnlockKeep(h) ==
    /\ pc[h] = "convert"
    /\ IF loc[h].op = "F_UNLCK"
       THEN Unlock(h, loc[h].at, loc[h].len) /\ Finish(h, loc[h])
       ELSE /\ locks' = locks
            /\ held' = held
            /\ Goto(h, Enter(loc[h].call)) /\ UNCHANGED loc

\* flock gives up the lock it has, if any, before it asks for another.
FlockUnlock(h) ==
    /\ pc[h] = "convert"
    /\ Unlock(h, loc[h].at, loc[h].len)
    /\ IF loc[h].op = "F_UNLCK"
       THEN Finish(h, loc[h])
       ELSE /\ held' = [held EXCEPT ![h] = {}]
            /\ Goto(h, Enter(loc[h].call)) /\ UNCHANGED loc

\* The guard lock is waited for, even by a call that must not wait.
TakeGuard(h) ==
    /\ pc[h] = "guard"
    /\ ~Denied(h, GuardAt, 1, TRUE)
    /\ locks' = locks \cup {Entry(h, GuardAt, 1, TRUE)}
    /\ Goto(h, "op")
    /\ UNCHANGED <<loc, held>>

\* After LockFileEx or UnlockFileEx: the guard lock is released in any case.
Issued(h, rc) ==
    LET r == [loc[h] EXCEPT !.rc = rc] IN
    IF Nowait(r.call)
    THEN Goto(h, "unguard") /\ loc' = [loc EXCEPT ![h] = r] /\ UNCHANGED held
    ELSE Finish(h, r)

LockGranted(h) ==
    LET excl == loc[h].op = "F_WRLCK" IN
    /\ pc[h] = "op" /\ loc[h].op # "F_UNLCK"
    /\ ~Denied(h, loc[h].at, loc[h].len, excl)
    /\ locks' = locks \cup {Entry(h, loc[h].at, loc[h].len, excl)}
    /\ Issued(h, "0")

\* Mutant: the error return skips the release of the guard lock.
LockRefusedKeep(h) ==
    /\ pc[h] = "op" /\ loc[h].op # "F_UNLCK" /\ Nowait(loc[h].call)
    /\ Denied(h, loc[h].at, loc[h].len, loc[h].op = "F_WRLCK")
    /\ Finish(h, [loc[h] EXCEPT !.rc = "EACCES"])
    /\ UNCHANGED locks

LockRefused(h) ==
    /\ pc[h] = "op" /\ loc[h].op # "F_UNLCK" /\ Nowait(loc[h].call)
    /\ Denied(h, loc[h].at, loc[h].len, loc[h].op = "F_WRLCK")
    /\ Issued(h, "EACCES")
    /\ UNCHANGED locks

UnlockIssued(h) ==
    /\ pc[h] = "op" /\ loc[h].op = "F_UNLCK"
    /\ Unlock(h, loc[h].at, loc[h].len)
    /\ Issued(h, IF Locked(h, loc[h].at, loc[h].len) = {} THEN "EINVAL" ELSE "0")

ReleaseGuard(h) ==
    /\ pc[h] = "unguard"
    /\ Unlock(h, GuardAt, 1)
    /\ IF Probe(loc[h].call) /\ loc[h].rc = "0"
       THEN Goto(h, "undo") /\ UNCHANGED <<loc, held>>
       ELSE Finish(h, loc[h])

\* F_GETLK and F_TEST unlock the range once the guard is gone.
ProbeUndo(h) ==
    /\ pc[h] = "undo"
    /\ Unlock(h, loc[h].at, loc[h].len)
    /\ Finish(h, loc[h])

Return(h) ==
    /\ pc[h] = "return"
    /\ Goto(h, "ready")
    /\ loc' = [loc EXCEPT ![h] = NoCall]
    /\ UNCHANGED <<locks, held>>

\* The file is closed, or its process dies inside a call: Windows drops the
\* locks of the handle, the guard lock included.
Close(h) ==
    /\ locks' = {l \in locks : l.own # h}
    /\ Goto(h, "ready")
    /\ loc' = [loc EXCEPT ![h] = NoCall]
    /\ held' = [held EXCEPT ![h] = {}]

Step(h) ==
    \/ FlockUnlock(h) \/ TakeGuard(h) \/ LockGranted(h) \/ LockRefused(h)
    \/ UnlockIssued(h) \/ ReleaseGuard(h) \/ ProbeUndo(h) \/ Return(h)

Next == \E h \in Handles : Start(h) \/ Step(h) \/ Close(h)

Spec == Init /\ [][Next]_vars

(***************************************************************************)
(* A call goes on when it can.  Windows queues the requests that wait for  *)
(* the guard byte, so one that could be granted again and again is.        *)
(***************************************************************************)
Fairness == \A h \in Handles : WF_vars(Step(h)) /\ SF_vars(TakeGuard(h))
FairSpec == Spec /\ Fairness

-----------------------------------------------------------------------------
\* The state of the calls and of the locks Windows holds is well formed.
TypeOK ==
    /\ locks \subseteq Lock
    /\ pc \in [Handles -> {"ready", "convert", "guard", "op", "unguard", "undo", "return"}]
    /\ loc \in [Handles -> Locals]
    /\ held \in [Handles -> SUBSET Claim]

Guarded(h) == pc[h] \in {"op", "unguard"} /\ Nowait(loc[h].call)

\* The guard byte of wpdk_lockfile is locked by exactly the calls between
\* taking and releasing it, and by nothing else: no error path keeps it, no
\* lock of a client reaches it as long as requests are Ordinary, and so a call
\* that must not wait waits for nothing but another such call.
GuardExact ==
    /\ \A h \in Handles : Guarded(h) <=> Entry(h, GuardAt, 1, TRUE) \in locks
    /\ \A l \in locks : Overlap(l, GuardAt, 1) => l = Entry(l.own, GuardAt, 1, TRUE)
    /\ \A h, k \in Handles : Guarded(h) /\ Guarded(k) => h = k

\* Between calls, a handle has exactly the locks its results told the caller
\* it has: a refused request or a probe (F_GETLK, F_TEST) leaves nothing
\* locked and nothing unlocked, and a conversion by flock leaves one lock.
HeldIsLocked ==
    \A h \in Handles : pc[h] \in {"ready", "return"} =>
        held[h] = {[at |-> l.at, len |-> l.len, excl |-> l.excl] :
                      l \in {m \in locks : m.own = h}}

\* What a caller may rely on: its claims, unless it is giving them up.
Relied(h) ==
    IF pc[h] \notin {"ready", "return"} /\ loc[h].op = "F_UNLCK" THEN {} ELSE held[h]

\* Two callers never both rely on overlapping locks of which one is exclusive,
\* whatever mixture of fcntl, lockf and flock got them there.
Exclusion ==
    \A h, k \in Handles : h # k =>
        \A a \in Relied(h), b \in Relied(k) :
            Overlap(a, b.at, b.len) => ~a.excl /\ ~b.excl

\* Together: the locks callers were told they have are there, and exclude.
ClaimsHold == HeldIsLocked /\ Exclusion

\* A call that must not wait returns, though it waits for the guard lock.
NowaitReturns ==
    \A h \in Handles : (pc[h] # "ready" /\ Nowait(loc[h].call)) ~> (pc[h] = "ready")

\* A lock that is there only because its owner is asking whether it could be.
Probing(l) ==
    /\ pc[l.own] \in {"unguard", "undo"} /\ Probe(loc[l.own].call)
    /\ l.at = loc[l.own].at /\ l.len = loc[l.own].len

\* A request is refused only because of a lock someone asked for, never
\* because someone is testing the range: what the guard lock is for.
RefusedByHolder ==
    [][\A h \in Handles :
         LockRefused(h) => \E l \in locks : Overlap(l, loc[h].at, loc[h].len) /\ ~Probing(l)]_vars
=============================================================================
