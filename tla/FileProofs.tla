------------------------------ MODULE FileProofs -------------------------------
(***************************************************************************)
(* The guard lock of wpdk_lockfile and the locks callers rely on, for      *)
(* every set of handles, every width of off_t and every set of Ordinary    *)
(* requests; and, at the end, mmap and munmap for every granularity,       *)
(* placement and sequence of calls.                                        *)
(***************************************************************************)
EXTENDS FileLocks, Mapping, TLAPS

(***************************************************************************)
(* The inductive invariant.  GuardExact alone is not inductive: that a     *)
(* client's lock stays clear of the guard byte depends on the range its    *)
(* call computed some steps earlier.                                       *)
(***************************************************************************)
Clear == \A h \in Handles : loc[h].at + loc[h].len < GuardAt
ClientOrGuard ==
    \A l \in locks : l = Entry(l.own, GuardAt, 1, TRUE) \/ l.at + l.len < GuardAt
Waiting == \A h \in Handles : pc[h] = "guard" => Nowait(loc[h].call)
GuardInv == TypeOK /\ Clear /\ Waiting /\ ClientOrGuard /\ GuardExact

-----------------------------------------------------------------------------
\* The limits of internal.h and fcntl.c: the guard byte is the last of off_t.
LEMMA Limits ==
    /\ LOCKFILE_MAX \in Nat /\ LOCKFILE_MAX > 0
    /\ INT64_MAX = 2 * LOCKFILE_MAX + 1
    /\ GuardAt = INT64_MAX /\ At(0) = LOCKFILE_MAX
  BY WidthAssumption DEF LOCKFILE_MAX, GuardAt, At, LOCKFILE_GUARD

\* For every width of off_t, wpdk_lockfile_get_range (src/fcntl.c) accepts the
\* Ordinary requests that lie in the space for locks, with exactly the range
\* asked for, and refuses the others, although it computes in arithmetic that
\* wraps.
THEOREM RangesExact ==
    \A posn \in off_t, offset \in off_t, size \in off_t : RangeExact(posn, offset, size)
<1>. SUFFICES ASSUME NEW posn \in off_t, NEW offset \in off_t, NEW size \in off_t,
                     Ordinary(posn, offset, size)
              PROVE  RangeExact(posn, offset, size)
  BY Zenon DEF RangeExact
<1>. DEFINE from == posn + offset
            range == GetRange(posn, offset, size)
            lo == Low(posn, offset, size)
            hi == High(posn, offset, size)
            Exact == /\ range.ok => /\ range.start = lo /\ range.start + range.bytes = hi
                                    /\ 0 <= lo /\ lo <= hi /\ hi <= LOCKFILE_MAX
                     /\ /\ 0 <= lo /\ hi <= LOCKFILE_MAX
                        /\ posn < LOCKFILE_MAX /\ offset < LOCKFILE_MAX
                        => range.ok
<1>. SUFFICES Exact
  BY DEF RangeExact
<1>0. /\ LOCKFILE_MAX \in Nat /\ INT64_MAX = 2 * LOCKFILE_MAX + 1 /\ INT64_MIN = -INT64_MAX - 1
      /\ posn \in 0 .. INT64_MAX /\ offset \in Int /\ size \in Int
      /\ INT64_MIN < offset /\ offset <= INT64_MAX /\ INT64_MIN < size /\ size <= INT64_MAX
      /\ from \in Int /\ from <= LOCKFILE_MAX
  BY Limits DEF off_t, INT64_MIN, Ordinary
<1>1. Wrap(-offset) = -offset /\ Wrap(-size) = -size
  BY <1>0 DEF Wrap
<1>2. CASE posn >= LOCKFILE_MAX \/ offset >= LOCKFILE_MAX \/ (offset < 0 /\ posn < -offset)
  <2>1. range = EINVAL
    BY <1>1, <1>2 DEF GetRange
  <2>2. ~range.ok
    BY <2>1 DEF EINVAL
  <2>3. posn >= LOCKFILE_MAX \/ offset >= LOCKFILE_MAX \/ lo < 0
    BY <1>0, <1>2 DEF Low
  <2>4. lo \in Int /\ (posn >= LOCKFILE_MAX => ~(posn < LOCKFILE_MAX))
        /\ (offset >= LOCKFILE_MAX => ~(offset < LOCKFILE_MAX)) /\ (lo < 0 => ~(0 <= lo))
    BY <1>0 DEF Low
  <2>. QED
    BY <2>2, <2>3, <2>4, Zenon
<1>3. CASE posn < LOCKFILE_MAX /\ offset < LOCKFILE_MAX /\ ~(offset < 0 /\ posn < -offset)
  <2>1. from \in 0 .. LOCKFILE_MAX /\ Wrap(from) = from
    BY <1>0, <1>3 DEF Wrap
  <2>2. range = IF size < 0 THEN Backward(from, size) ELSE Forward(from, size)
    BY <1>0, <1>1, <1>3, <2>1 DEF GetRange
  <2>3. CASE size < 0
    <3>1. lo = from + size /\ hi = from
      BY <1>0, <2>3 DEF Low, High
    <3>2. CASE from < -size
      <4>1. range = EINVAL
        BY <1>1, <2>2, <2>3, <3>2 DEF Backward
      <4>2. ~range.ok /\ ~(0 <= lo)
        BY <1>0, <3>1, <3>2, <4>1 DEF EINVAL
      <4>. QED
        BY <4>2, Zenon
    <3>3. CASE ~(from < -size)
      <4>1. range = Span(from + size, -size)
        BY <1>0, <1>1, <2>1, <2>2, <2>3, <3>3 DEF Backward, Wrap
      <4>2. range.ok /\ range.start = from + size /\ range.bytes = -size
        BY <4>1 DEF Span
      <4>. QED
        BY <1>0, <2>1, <2>3, <3>1, <3>3, <4>2
    <3>. QED
      BY <3>2, <3>3
  <2>4. CASE ~(size < 0)
    <3>1. lo = from /\ hi = IF size = 0 THEN LOCKFILE_MAX ELSE from + size
      BY <1>0, <2>4 DEF Low, High
    <3>2. size <= LOCKFILE_MAX => Wrap(from + size) = from + size
      BY <1>0, <2>1, <2>4 DEF Wrap
    <3>3. CASE size > LOCKFILE_MAX \/ from + size > LOCKFILE_MAX
      <4>1. range = EINVAL
        BY <1>0, <2>1, <2>2, <2>4, <3>2, <3>3 DEF Forward
      <4>2. ~range.ok /\ ~(hi <= LOCKFILE_MAX)
        BY <1>0, <2>1, <2>4, <3>1, <3>3, <4>1 DEF EINVAL
      <4>. QED
        BY <4>2, Zenon
    <3>4. CASE ~(size > LOCKFILE_MAX \/ from + size > LOCKFILE_MAX)
      <4>1. range = Span(from, IF size = 0 THEN LOCKFILE_MAX - from ELSE size)
        BY <1>0, <2>1, <2>2, <2>4, <3>2, <3>4 DEF Forward
      <4>2. /\ range.ok /\ range.start = from
            /\ range.bytes = IF size = 0 THEN LOCKFILE_MAX - from ELSE size
        BY <4>1 DEF Span
      <4>. QED
        BY <1>0, <2>1, <2>4, <3>1, <3>4, <4>2
    <3>. QED
      BY <3>3, <3>4
  <2>. QED
    BY <2>3, <2>4
<1>. QED
  BY <1>0, <1>2, <1>3

\* wpdk_lockfile_get_range accepts an Ordinary request only with a range that
\* lies inside the space for locks.
LEMMA RangeInSpace ==
    ASSUME NEW posn \in off_t, NEW offset \in off_t, NEW size \in off_t,
           Ordinary(posn, offset, size), GetRange(posn, offset, size).ok
    PROVE  /\ GetRange(posn, offset, size).start \in 0 .. LOCKFILE_MAX
           /\ GetRange(posn, offset, size).bytes \in 0 .. LOCKFILE_MAX
           /\ GetRange(posn, offset, size).start
                + GetRange(posn, offset, size).bytes <= LOCKFILE_MAX
<1>. DEFINE range == GetRange(posn, offset, size)
            lo == Low(posn, offset, size)
            hi == High(posn, offset, size)
<1>1. /\ LOCKFILE_MAX \in Nat
      /\ posn \in Int /\ offset \in Int /\ size \in Int /\ lo \in Int /\ hi \in Int
  BY Limits DEF off_t, INT64_MIN, Low, High
<1>2. /\ range.start = lo /\ range.start + range.bytes = hi
      /\ 0 <= lo /\ lo <= hi /\ hi <= LOCKFILE_MAX
  BY RangesExact DEF RangeExact
<1>3. range.bytes \in Int
  BY <1>1, WidthAssumption DEF LOCKFILE_MAX, GetRange, Backward, Forward, Span, EINVAL, Wrap, off_t, INT64_MIN
<1>. QED
  BY <1>1, <1>2, <1>3

\* UnlockFileEx removes at most locks of the handle with that exact range.
LEMMA UnlockParts ==
    ASSUME NEW h, NEW at, NEW len, Unlock(h, at, len)
    PROVE  /\ locks' \subseteq locks
           /\ \A l \in locks : l \notin locks' => l.own = h /\ l.at = at /\ l.len = len
  BY Zenon DEF Unlock, Locked

\* The result a call leaves with is stored and the caller's claims stay typed.
LEMMA FinishType ==
    ASSUME TypeOK, NEW h \in Handles, NEW r \in Locals, Finish(h, r)
    PROVE  /\ pc' = [pc EXCEPT ![h] = "return"] /\ loc' = [loc EXCEPT ![h] = r]
           /\ held' \in [Handles -> SUBSET Claim]
           /\ r.rc # "0" => held' = held
<1>1. [at |-> r.at, len |-> r.len, excl |-> r.op = "F_WRLCK"] \in Claim
  BY Zenon DEF Locals, Claim
<1>2. Without(h, r.at, r.len) \subseteq held[h]
  BY Zenon DEF Without
<1>3. r.rc # "0" => held' = held
  BY Zenon DEF Finish, TypeOK, Acquired, Released
<1> QED BY <1>1, <1>2, <1>3 DEF Finish, Goto, TypeOK

\* What LockFileEx or UnlockFileEx leads to: the guarded call goes on to release
\* the guard, any other returns.
LEMMA IssuedType ==
    ASSUME TypeOK, NEW h \in Handles, NEW rc \in {"0", "EINVAL", "EACCES"}, Issued(h, rc)
    PROVE  /\ pc' = [pc EXCEPT ![h] = IF Nowait(loc[h].call) THEN "unguard" ELSE "return"]
           /\ loc' = [loc EXCEPT ![h] = [loc[h] EXCEPT !.rc = rc]]
           /\ held' \in [Handles -> SUBSET Claim]
<1> DEFINE r == [loc[h] EXCEPT !.rc = rc]
<1>1. r \in Locals /\ r.call = loc[h].call
  BY Zenon DEF TypeOK, Locals
<1>2. CASE Nowait(loc[h].call)
  BY <1>1, <1>2, Zenon DEF Issued, Goto, TypeOK
<1>3. CASE ~Nowait(loc[h].call)
  <2>1. Finish(h, r)
    BY <1>1, <1>3, Zenon DEF Issued
  <2> QED BY <1>1, <1>3, <2>1, FinishType
<1> QED BY <1>2, <1>3

\* flock locks the whole space for locks.
LEMMA WholeRange ==
    At(GetRange(0, 0, 0).start) = Whole.at /\ GetRange(0, 0, 0).bytes = Whole.len
  BY Limits DEF GetRange, Forward, Span, EINVAL, Wrap, INT64_MIN, Whole, At

\* A request r of a disciplined client that goes on at to.
Accepted(h, r, to) ==
    /\ r.rc = "0" /\ (Probe(r.call) => r.op # "F_UNLCK")
    /\ Disciplined(h, r.call, r.op, r.at, r.len)
    /\ IF r.call \in FlockCalls THEN to = "convert" /\ r.at = Whole.at /\ r.len = Whole.len
       ELSE to # "convert"

\* A request that passed wpdk_lockfile_get_range, or that failed it, is typed
\* and clear of the guard byte.
LEMMA StartType ==
    ASSUME TypeOK, NEW h \in Handles, Start(h)
    PROVE  \E r \in Locals, to \in {"convert", "guard", "op", "return"} :
               /\ r.at + r.len < GuardAt
               /\ to = "op" => ~Nowait(r.call)
               /\ to = "guard" => Nowait(r.call)
               /\ pc' = [pc EXCEPT ![h] = to] /\ loc' = [loc EXCEPT ![h] = r]
               /\ held' = held /\ locks' = locks
               /\ to # "return" => Accepted(h, r, to)
<1>1. PICK q \in Requests, posn \in Positions, offset \in Offsets, size \in Sizes :
        LET range == GetRange(posn, offset, size)
            req == [call |-> q[1], op |-> q[2], at |-> At(range.start),
                    len |-> range.bytes, rc |-> "0"] IN
        /\ q[1] \in FlockCalls => posn = 0 /\ offset = 0 /\ size = 0
        /\ IF ~range.ok \/ q = <<"F_GETLK", "F_UNLCK">>
           THEN Finish(h, [NoCall EXCEPT !.call = q[1], !.rc = "EINVAL"])
           ELSE /\ Disciplined(h, q[1], q[2], req.at, req.len)
                /\ loc' = [loc EXCEPT ![h] = req]
                /\ Goto(h, IF q[1] \in FlockCalls THEN "convert" ELSE Enter(q[1]))
                /\ UNCHANGED held
  BY Zenon DEF Start
<1> DEFINE range == GetRange(posn, offset, size)
           bad == [NoCall EXCEPT !.call = q[1], !.rc = "EINVAL"]
           req == [call |-> q[1], op |-> q[2], at |-> At(range.start),
                   len |-> range.bytes, rc |-> "0"]
<1>2. locks' = locks
  BY Zenon DEF Start
<1>3. /\ q[1] \in FcntlCalls \cup FlockCalls \cup {"F_LOCK", "F_TLOCK", "F_ULOCK", "F_TEST"}
      /\ q[2] \in Ops
  BY RequestsAssumption DEF AllRequests, Ops
<1>4. CASE ~range.ok \/ q = <<"F_GETLK", "F_UNLCK">>
  <2>1. bad \in Locals /\ bad.at + bad.len < GuardAt
    <3>1. At(0) \in Places /\ 0 \in Lengths /\ At(0) + 0 < GuardAt
      BY Limits DEF Places, Lengths
    <3>2. NoCall \in Locals /\ NoCall.at = At(0) /\ NoCall.len = 0
      BY <3>1, Zenon DEF NoCall, Locals, Ops
    <3>3. bad \in Locals /\ bad.at = NoCall.at /\ bad.len = NoCall.len
      BY <1>3, <3>2, Zenon DEF Locals
    <3> QED BY <3>1, <3>2, <3>3
  <2>2. Finish(h, bad)
    BY <1>1, <1>4
  <2>3. bad.rc = "EINVAL"
    BY Zenon DEF NoCall
  <2>4. held' = held /\ pc' = [pc EXCEPT ![h] = "return"] /\ loc' = [loc EXCEPT ![h] = bad]
    BY <2>1, <2>2, <2>3, FinishType, Zenon
  <2> HIDE DEF bad
  <2> QED BY <1>2, <2>1, <2>4, Zenon
<1>5. CASE ~(~range.ok \/ q = <<"F_GETLK", "F_UNLCK">>)
  <2>1. /\ range.start \in 0 .. LOCKFILE_MAX /\ range.bytes \in 0 .. LOCKFILE_MAX
        /\ range.start + range.bytes <= LOCKFILE_MAX
    <3>1. /\ posn \in off_t /\ offset \in off_t /\ size \in off_t
          /\ Ordinary(posn, offset, size)
      BY InputsAssumption
    <3> QED BY <1>5, <3>1, RangeInSpace, Zenon
  <2>2. req \in Locals /\ req.at + req.len < GuardAt
    <3> HIDE DEF range
    <3>1. At(range.start) = LOCKFILE_MAX + range.start
      BY Zenon DEF At
    <3> QED BY <1>3, <2>1, <3>1, Limits DEF Locals, Places, Lengths
  <2> DEFINE to == IF q[1] \in FlockCalls THEN "convert" ELSE Enter(q[1])
  <2>3. to \in {"convert", "guard", "op", "return"} /\ (to = "op" => ~Nowait(req.call))
        /\ (to = "guard" => Nowait(req.call))
    BY Zenon DEF Enter
  <2>4. /\ pc' = [pc EXCEPT ![h] = to] /\ loc' = [loc EXCEPT ![h] = req] /\ held' = held
    BY <1>1, <1>5 DEF Goto
  <2>5. /\ req.call = q[1] /\ req.op = q[2] /\ req.rc = "0"
        /\ req.at = At(range.start) /\ req.len = range.bytes
    BY Zenon
  <2>6. Probe(q[1]) => q[2] # "F_UNLCK"
    BY <1>5, RequestsAssumption DEF Probe, AllRequests, FcntlCalls, FlockCalls, Ops
  <2>7. Disciplined(h, req.call, req.op, req.at, req.len)
    BY <1>1, <1>5, Zenon
  <2>8. q[1] \in FlockCalls => req.at = Whole.at /\ req.len = Whole.len
    BY <1>1, <2>5, WholeRange, Zenon
  <2>9. IF q[1] \in FlockCalls THEN to = "convert" ELSE to # "convert"
    BY Zenon DEF Enter
  <2> HIDE DEF to, req
  <2>10. Accepted(h, req, to)
    BY <2>5, <2>6, <2>7, <2>8, <2>9, Zenon DEF Accepted
  <2> QED BY <1>2, <2>2, <2>3, <2>4, <2>10, Zenon
<1> QED BY <1>4, <1>5

-----------------------------------------------------------------------------
\* A step that changes no lock, moves one call and keeps it on the same side of
\* the guard preserves the invariant.
LEMMA MoveKeeps ==
    ASSUME GuardInv, NEW h \in Handles, NEW r \in Locals,
           NEW to \in {"ready", "convert", "guard", "op", "unguard", "undo", "return"},
           pc' = [pc EXCEPT ![h] = to], loc' = [loc EXCEPT ![h] = r],
           held' \in [Handles -> SUBSET Claim], r.at + r.len < GuardAt,
           to = "guard" => Nowait(r.call),
           locks' \subseteq Lock,
           \A l \in locks' : l = Entry(l.own, GuardAt, 1, TRUE) \/ l.at + l.len < GuardAt,
           \A k \in Handles \ {h} :
               Entry(k, GuardAt, 1, TRUE) \in locks' <=> Entry(k, GuardAt, 1, TRUE) \in locks,
           Entry(h, GuardAt, 1, TRUE) \in locks' <=> (to \in {"op", "unguard"} /\ Nowait(r.call)),
           (to \in {"op", "unguard"} /\ Nowait(r.call)) =>
               \A k \in Handles \ {h} : ~Guarded(k)
    PROVE  GuardInv'
<1>1. /\ \A k \in Handles \ {h} : pc'[k] = pc[k] /\ loc'[k] = loc[k]
      /\ pc'[h] = to /\ loc'[h] = r
  BY Zenon DEF GuardInv, TypeOK
<1>2. TypeOK'
  BY Zenon DEF GuardInv, TypeOK
<1>3. Clear'
  BY <1>1, Zenon DEF GuardInv, Clear, GuardAt, At
<1>4. ClientOrGuard'
  BY Zenon DEF ClientOrGuard, Entry, GuardAt, At
<1>5. \A k \in Handles \ {h} : Guarded(k)' <=> Guarded(k)
  BY <1>1, Zenon DEF Guarded, Nowait
<1>6. Guarded(h)' <=> (to \in {"op", "unguard"} /\ Nowait(r.call))
  BY <1>1, Zenon DEF Guarded, Nowait
<1>7. \A k \in Handles : Guarded(k)' <=> Entry(k, GuardAt, 1, TRUE) \in locks'
  BY <1>5, <1>6, Zenon DEF GuardInv, GuardExact
<1>8. \A l \in locks' : Overlap(l, GuardAt, 1) => l = Entry(l.own, GuardAt, 1, TRUE)
  <2> SUFFICES ASSUME NEW l \in locks', l.at + l.len < GuardAt
               PROVE  ~Overlap(l, GuardAt, 1)
    OBVIOUS
  <2>1. l.at \in Int /\ l.len \in Int /\ GuardAt \in Int
    BY Limits DEF Lock, Places, Lengths
  <2> QED BY <2>1 DEF Overlap
<1>9. \A j, k \in Handles : Guarded(j)' /\ Guarded(k)' => j = k
  BY <1>5, <1>6, Zenon DEF GuardInv, GuardExact
<1>10. GuardExact'
  BY <1>7, <1>8, <1>9, Zenon DEF GuardExact, Entry, Overlap, GuardAt, At, Guarded, Nowait
<1>11. Waiting'
  BY <1>1, Zenon DEF GuardInv, Waiting, Nowait
<1> QED BY <1>2, <1>3, <1>4, <1>10, <1>11 DEF GuardInv

\* The initial states satisfy the invariant.
LEMMA GuardInit == Init => GuardInv
<1> SUFFICES ASSUME Init PROVE GuardInv
  OBVIOUS
<1>1. NoCall \in Locals /\ NoCall.at + NoCall.len < GuardAt
  BY Limits DEF NoCall, Locals, Places, Lengths, Ops
<1>2. TypeOK /\ Clear /\ Waiting
  BY <1>1, Zenon DEF Init, TypeOK, Clear, Waiting
<1>3. \A h \in Handles : ~Guarded(h)
  BY Zenon DEF Init, Guarded
<1> QED BY <1>2, <1>3 DEF Init, GuardInv, ClientOrGuard, GuardExact

\* Unlocking the range of a call leaves every lock on the guard byte alone.
LEMMA UnlockRange ==
    ASSUME GuardInv, NEW h \in Handles, Unlock(h, loc[h].at, loc[h].len)
    PROVE  /\ locks' \subseteq locks
           /\ \A k \in Handles :
                Entry(k, GuardAt, 1, TRUE) \in locks' <=> Entry(k, GuardAt, 1, TRUE) \in locks
<1>1. loc[h].at + loc[h].len < GuardAt /\ loc[h].at \in Int /\ loc[h].len \in Int /\ GuardAt \in Int
  BY Limits DEF GuardInv, Clear, TypeOK, Locals, Places, Lengths
<1>2. ~(loc[h].at = GuardAt /\ loc[h].len = 1)
  BY <1>1
<1>3. locks' \subseteq locks
  BY UnlockParts, Zenon
<1>4. ASSUME NEW g \in locks, g.at = GuardAt, g.len = 1 PROVE g \in locks'
  BY <1>2, <1>4, UnlockParts
<1>5. ASSUME NEW k \in Handles, Entry(k, GuardAt, 1, TRUE) \in locks
      PROVE  Entry(k, GuardAt, 1, TRUE) \in locks'
  <2>1. Entry(k, GuardAt, 1, TRUE).at = GuardAt /\ Entry(k, GuardAt, 1, TRUE).len = 1
    BY DEF Entry
  <2> QED BY <1>4, <1>5, <2>1
<1> QED BY <1>3, <1>5

\* Unlocking the guard byte removes the caller's lock on it and no other.
LEMMA UnlockGuard ==
    ASSUME GuardInv, NEW h \in Handles, Unlock(h, GuardAt, 1)
    PROVE  /\ locks' \subseteq locks
           /\ Entry(h, GuardAt, 1, TRUE) \notin locks'
           /\ \A k \in Handles \ {h} :
                Entry(k, GuardAt, 1, TRUE) \in locks' <=> Entry(k, GuardAt, 1, TRUE) \in locks
<1> DEFINE g == Entry(h, GuardAt, 1, TRUE)
<1>1. g.own = h /\ g.at = GuardAt /\ g.len = 1 /\ g.excl
  BY Zenon DEF Entry
<1>2. \A l \in Locked(h, GuardAt, 1) : l = g
  <2> SUFFICES ASSUME NEW l \in locks, l.own = h, l.at = GuardAt, l.len = 1
               PROVE  l = g
    BY Zenon DEF Locked
  <2>1. GuardAt \in Int /\ ~(l.at + l.len < GuardAt)
    BY Limits
  <2> QED BY <2>1, Zenon DEF GuardInv, ClientOrGuard
<1>3. locks' \subseteq locks
  BY UnlockParts, Zenon
<1>4. g \notin locks'
  <2>1. CASE Locked(h, GuardAt, 1) = {}
    BY <1>1, <2>1, Zenon DEF Unlock, Locked
  <2>2. CASE Locked(h, GuardAt, 1) # {}
    <3>1. PICK l \in Locked(h, GuardAt, 1) : locks' = locks \ {l}
      BY <2>2 DEF Unlock
    <3> QED BY <1>2, <3>1
  <2> QED BY <2>1, <2>2
<1>5. \A k \in Handles \ {h} : Entry(k, GuardAt, 1, TRUE).own # h
  BY Zenon DEF Entry
<1>6. \A l \in locks : l \notin locks' => l.own = h
  BY UnlockParts
<1> QED BY <1>3, <1>4, <1>5, <1>6, Zenon

\* LockFileEx on the range of a call adds a lock clear of the guard byte.
LEMMA GrantRange ==
    ASSUME GuardInv, NEW h \in Handles, NEW excl \in BOOLEAN,
           locks' = locks \cup {Entry(h, loc[h].at, loc[h].len, excl)}
    PROVE  /\ locks' \subseteq Lock
           /\ \A l \in locks' : l = Entry(l.own, GuardAt, 1, TRUE) \/ l.at + l.len < GuardAt
           /\ \A k \in Handles :
                Entry(k, GuardAt, 1, TRUE) \in locks' <=> Entry(k, GuardAt, 1, TRUE) \in locks
<1> DEFINE e == Entry(h, loc[h].at, loc[h].len, excl)
<1>1. /\ loc[h].at + loc[h].len < GuardAt /\ loc[h].at \in Places /\ loc[h].len \in Lengths
  BY Zenon DEF GuardInv, Clear, TypeOK, Locals
<1>2. e \in Lock /\ e.at = loc[h].at /\ e.len = loc[h].len
  BY <1>1, Zenon DEF Entry, Lock
<1>3. GuardAt \in Int /\ ~(GuardAt + 1 < GuardAt)
  BY Limits
<1>4. \A k \in Handles : Entry(k, GuardAt, 1, TRUE) # e
  <2>1. \A k \in Handles : /\ Entry(k, GuardAt, 1, TRUE).at = GuardAt
                           /\ Entry(k, GuardAt, 1, TRUE).len = 1
    BY DEF Entry
  <2> QED BY <1>1, <1>2, <1>3, <2>1
<1>5. \A l \in locks : l = Entry(l.own, GuardAt, 1, TRUE) \/ l.at + l.len < GuardAt
  BY Zenon DEF GuardInv, ClientOrGuard
<1> HIDE DEF e
<1>6. locks' = locks \cup {e}
  BY DEF e
<1> QED BY <1>1, <1>2, <1>4, <1>5, <1>6 DEF GuardInv, TypeOK

\* Every step of every call, and the death of any process, preserves the
\* invariant.
LEMMA GuardStep == GuardInv /\ [Next]_vars => GuardInv'
<1> SUFFICES ASSUME GuardInv, [Next]_vars PROVE GuardInv'
  OBVIOUS
<1> USE DEF GuardInv
<1>0. /\ locks \subseteq Lock
      /\ \A l \in locks : l = Entry(l.own, GuardAt, 1, TRUE) \/ l.at + l.len < GuardAt
      /\ \A k \in Handles : Guarded(k) <=> Entry(k, GuardAt, 1, TRUE) \in locks
      /\ \A j, k \in Handles : Guarded(j) /\ Guarded(k) => j = k
      /\ \A k \in Handles : loc[k] \in Locals /\ loc[k].at + loc[k].len < GuardAt
  BY Zenon DEF TypeOK, ClientOrGuard, GuardExact, Clear
<1>n. NoCall \in Locals /\ NoCall.at + NoCall.len < GuardAt /\ ~Nowait(NoCall.call)
  BY Limits DEF NoCall, Locals, Places, Lengths, Ops, Nowait
<1>1. ASSUME NEW h \in Handles, Start(h) PROVE GuardInv'
  <2>1. PICK r \in Locals, to \in {"convert", "guard", "op", "return"} :
               /\ r.at + r.len < GuardAt
               /\ to = "op" => ~Nowait(r.call)
               /\ to = "guard" => Nowait(r.call)
               /\ pc' = [pc EXCEPT ![h] = to] /\ loc' = [loc EXCEPT ![h] = r]
               /\ held' \in [Handles -> SUBSET Claim]
               /\ locks' = locks
    BY <1>1, StartType, Zenon DEF TypeOK
  <2>2. ~Guarded(h)
    BY <1>1 DEF Start, Guarded
  <2> QED BY <1>0, <2>1, <2>2, MoveKeeps, Zenon
<1>2. ASSUME NEW h \in Handles, FlockUnlock(h) PROVE GuardInv'
  <2>1. ~Guarded(h)
    BY <1>2, Zenon DEF FlockUnlock, Guarded
  <2>2. Unlock(h, loc[h].at, loc[h].len)
    BY <1>2, Zenon DEF FlockUnlock
  <2>3. /\ locks' \subseteq locks
        /\ \A k \in Handles :
             Entry(k, GuardAt, 1, TRUE) \in locks' <=> Entry(k, GuardAt, 1, TRUE) \in locks
    BY <2>2, UnlockRange, Zenon
  <2>4. CASE loc[h].op = "F_UNLCK"
    <3>1. /\ pc' = [pc EXCEPT ![h] = "return"] /\ loc' = [loc EXCEPT ![h] = loc[h]]
          /\ held' \in [Handles -> SUBSET Claim]
      BY <1>0, <1>2, <2>4, FinishType DEF FlockUnlock
    <3> QED BY <1>0, <2>1, <2>3, <3>1, MoveKeeps, Zenon
  <2>5. CASE loc[h].op # "F_UNLCK"
    <3> DEFINE to == Enter(loc[h].call)
    <3>1. /\ pc' = [pc EXCEPT ![h] = to] /\ loc' = [loc EXCEPT ![h] = loc[h]]
          /\ held' \in [Handles -> SUBSET Claim]
      BY <1>2, <2>5, Zenon DEF FlockUnlock, Goto, TypeOK
    <3>2. to \in {"guard", "op"} /\ (to = "op" => ~Nowait(loc[h].call))
          /\ (to = "guard" => Nowait(loc[h].call))
      BY DEF Enter
    <3> HIDE DEF to
    <3> QED BY <1>0, <2>1, <2>3, <3>1, <3>2, MoveKeeps, Zenon
  <2> QED BY <2>4, <2>5
<1>3. ASSUME NEW h \in Handles, TakeGuard(h) PROVE GuardInv'
  <2> DEFINE g == Entry(h, GuardAt, 1, TRUE)
  <2>1. /\ pc[h] = "guard" /\ Nowait(loc[h].call)
        /\ pc' = [pc EXCEPT ![h] = "op"] /\ loc' = [loc EXCEPT ![h] = loc[h]]
        /\ held' \in [Handles -> SUBSET Claim] /\ locks' = locks \cup {g}
    BY <1>3, Zenon DEF TakeGuard, Goto, Waiting, TypeOK
  <2>2. g \in Lock /\ g.own = h /\ g = Entry(g.own, GuardAt, 1, TRUE)
    <3>1. GuardAt \in Places /\ 1 \in Lengths
      BY Limits DEF Places, Lengths
    <3> QED BY <3>1 DEF Entry, Lock
  <2>3. \A k \in Handles : Entry(k, GuardAt, 1, TRUE) \notin locks
    <3> SUFFICES ASSUME NEW k \in Handles, Entry(k, GuardAt, 1, TRUE) \in locks PROVE FALSE
      OBVIOUS
    <3>1. Overlap(Entry(k, GuardAt, 1, TRUE), GuardAt, 1)
      BY Limits DEF Overlap, Entry
    <3> QED BY <1>3, <3>1 DEF TakeGuard, Denied
  <2>4. \A k \in Handles \ {h} : Entry(k, GuardAt, 1, TRUE) # g
    BY Zenon DEF Entry
  <2> HIDE DEF g
  <2>5. Entry(h, GuardAt, 1, TRUE) = g
    BY DEF g
  <2> QED BY <1>0, <2>1, <2>2, <2>3, <2>4, <2>5, MoveKeeps, Zenon
<1>4. ASSUME NEW h \in Handles, NEW rc \in {"0", "EINVAL", "EACCES"},
             pc[h] = "op", Issued(h, rc), locks' \subseteq Lock,
             \A l \in locks' : l = Entry(l.own, GuardAt, 1, TRUE) \/ l.at + l.len < GuardAt,
             \A k \in Handles :
                 Entry(k, GuardAt, 1, TRUE) \in locks' <=> Entry(k, GuardAt, 1, TRUE) \in locks
      PROVE  GuardInv'
  <2> DEFINE r == [loc[h] EXCEPT !.rc = rc]
             to == IF Nowait(loc[h].call) THEN "unguard" ELSE "return"
  <2>1. /\ r \in Locals /\ r.call = loc[h].call /\ r.at + r.len < GuardAt
    BY <1>0, Zenon DEF Locals
  <2>2. /\ pc' = [pc EXCEPT ![h] = to] /\ loc' = [loc EXCEPT ![h] = r]
        /\ held' \in [Handles -> SUBSET Claim]
    BY <1>4, IssuedType, Zenon
  <2>3. Guarded(h) <=> (to \in {"op", "unguard"} /\ Nowait(r.call))
    BY <1>4, <2>1, Zenon DEF Guarded
  <2>4. to \in {"unguard", "return"}
    OBVIOUS
  <2> HIDE DEF r, to
  <2> QED BY <1>0, <1>4, <2>1, <2>2, <2>3, <2>4, MoveKeeps, Zenon
<1>5. ASSUME NEW h \in Handles, LockGranted(h) PROVE GuardInv'
  <2>1. /\ pc[h] = "op" /\ Issued(h, "0")
        /\ locks' = locks \cup {Entry(h, loc[h].at, loc[h].len, loc[h].op = "F_WRLCK")}
    BY <1>5, Zenon DEF LockGranted
  <2>2. (loc[h].op = "F_WRLCK") \in BOOLEAN
    OBVIOUS
  <2> QED BY <1>4, <2>1, <2>2, GrantRange, Zenon
<1>6. ASSUME NEW h \in Handles, LockRefused(h) PROVE GuardInv'
  BY <1>0, <1>4, <1>6, Zenon DEF LockRefused
<1>7. ASSUME NEW h \in Handles, UnlockIssued(h) PROVE GuardInv'
  <2>1. PICK rc \in {"0", "EINVAL"} : Issued(h, rc)
    BY <1>7, Zenon DEF UnlockIssued
  <2>2. pc[h] = "op" /\ Unlock(h, loc[h].at, loc[h].len)
    BY <1>7 DEF UnlockIssued
  <2> QED BY <1>0, <1>4, <2>1, <2>2, UnlockRange, Zenon
<1>8. ASSUME NEW h \in Handles, ReleaseGuard(h) PROVE GuardInv'
  <2>1. /\ locks' \subseteq locks /\ Entry(h, GuardAt, 1, TRUE) \notin locks'
        /\ \A k \in Handles \ {h} :
             Entry(k, GuardAt, 1, TRUE) \in locks' <=> Entry(k, GuardAt, 1, TRUE) \in locks
    BY <1>8, UnlockGuard, Zenon DEF ReleaseGuard
  <2>2. PICK to \in {"undo", "return"} :
          /\ pc' = [pc EXCEPT ![h] = to] /\ loc' = [loc EXCEPT ![h] = loc[h]]
          /\ held' \in [Handles -> SUBSET Claim]
    <3>1. CASE Probe(loc[h].call) /\ loc[h].rc = "0"
      BY <1>8, <3>1, Zenon DEF ReleaseGuard, Goto, TypeOK
    <3>2. CASE ~(Probe(loc[h].call) /\ loc[h].rc = "0")
      BY <1>0, <1>8, <3>2, FinishType DEF ReleaseGuard
    <3> QED BY <3>1, <3>2
  <2> QED BY <1>0, <2>1, <2>2, MoveKeeps, Zenon
<1>9. ASSUME NEW h \in Handles, ProbeUndo(h) PROVE GuardInv'
  <2>1. ~Guarded(h) /\ Unlock(h, loc[h].at, loc[h].len) /\ Finish(h, loc[h])
    BY <1>9, Zenon DEF ProbeUndo, Guarded
  <2>2. /\ pc' = [pc EXCEPT ![h] = "return"] /\ loc' = [loc EXCEPT ![h] = loc[h]]
        /\ held' \in [Handles -> SUBSET Claim]
    BY <1>0, <2>1, FinishType
  <2> QED BY <1>0, <2>1, <2>2, UnlockRange, MoveKeeps, Zenon
<1>10. ASSUME NEW h \in Handles, Return(h) PROVE GuardInv'
  <2>1. /\ ~Guarded(h) /\ pc' = [pc EXCEPT ![h] = "ready"] /\ loc' = [loc EXCEPT ![h] = NoCall]
        /\ held' \in [Handles -> SUBSET Claim] /\ locks' = locks
    BY <1>10 DEF Return, Goto, Guarded, TypeOK
  <2> QED BY <1>0, <1>n, <2>1, MoveKeeps, Zenon
<1>11. ASSUME NEW h \in Handles, Close(h) PROVE GuardInv'
  <2>1. /\ pc' = [pc EXCEPT ![h] = "ready"] /\ loc' = [loc EXCEPT ![h] = NoCall]
        /\ held' \in [Handles -> SUBSET Claim] /\ locks' = {l \in locks : l.own # h}
    BY <1>11, Zenon DEF Close, Goto, TypeOK
  <2>2. \A k \in Handles : Entry(k, GuardAt, 1, TRUE).own = k
    BY DEF Entry
  <2> QED BY <1>0, <1>n, <2>1, <2>2, MoveKeeps, Zenon
<1>12. CASE UNCHANGED vars
  BY <1>12, Zenon DEF vars, TypeOK, Clear, Waiting, ClientOrGuard, GuardExact, Guarded, Overlap,
               Entry, GuardAt, At, Nowait
<1> QED BY <1>1, <1>2, <1>3, <1>5, <1>6, <1>7, <1>8, <1>9, <1>10, <1>11, <1>12 DEF Next, Step

\* In every behaviour of any number of processes, the guard byte of
\* wpdk_lockfile is locked exactly by the calls inside the guarded section, by
\* one at a time, and never by a client's Ordinary range.
THEOREM GuardHolds == Spec => []GuardExact
<1>1. GuardInv => GuardExact
  BY DEF GuardInv
<1> QED BY GuardInit, GuardStep, <1>1, PTL DEF Spec

\* The locks Windows holds, the ranges of the calls and the callers' claims
\* stay inside the space wpdk_lockfile gives to locks.
THEOREM LockTypes == Spec => []TypeOK
<1>1. GuardInv => TypeOK
  BY DEF GuardInv
<1> QED BY GuardInit, GuardStep, <1>1, PTL DEF Spec

-----------------------------------------------------------------------------
(***************************************************************************)
(* The locks callers were told they have.  What Windows holds for a handle *)
(* besides the guard lock is Expected(h): its claims, and inside a call    *)
(* what the call has locked or unlocked without saying so yet.  That one   *)
(* UnlockFileEx is enough rests on Fresh: the range a call asks for is     *)
(* never one that the handle has already.                                  *)
(***************************************************************************)
SameRange(c, d) == c.at = d.at /\ c.len = d.len
ClearOfGuard(c) == c.at + c.len < GuardAt

\* For a handle with a call at p, its request r and the caller's claims cs:
\* the lock it asks for, whether it has it, and what Windows then holds.
Asked(r) == [at |-> r.at, len |-> r.len, excl |-> r.op = "F_WRLCK"]
Granted(p, r) == p \in {"unguard", "undo"} /\ r.rc = "0" /\ r.op # "F_UNLCK"
Others(r, cs) == {c \in cs : ~SameRange(c, r)}
Expected(p, r, cs) ==
    IF Granted(p, r) THEN cs \cup {Asked(r)}
    ELSE IF p = "unguard" /\ r.rc = "0" THEN Others(r, cs)
    ELSE cs

Fresh(r, cs) == \A c \in cs : ~SameRange(c, r)
InCall(p) == p \notin {"ready", "return"}

CallOK(p, r, cs) ==
    /\ InCall(p) /\ Probe(r.call) => r.op # "F_UNLCK"
    /\ p \in {"convert", "guard", "op", "undo"} => r.rc = "0"
    /\ p = "convert" => \A c \in cs : SameRange(c, r)
    /\ p \in {"guard", "op"} /\ r.op # "F_UNLCK" =>
         Fresh(r, cs) \/ (Probe(r.call) /\ r.op = "F_WRLCK" /\ r.len > 0)
    /\ Granted(p, r) => Fresh(r, cs)
    /\ p = "undo" => Granted(p, r) /\ Probe(r.call)

ClaimsOK(cs) ==
    /\ \A c \in cs : ClearOfGuard(c)
    /\ \A c, d \in cs : SameRange(c, d) => c = d

\* Windows holds exactly the claims cs for h, the guard lock aside.
Holds(h, cs, lks) ==
    \A c \in Claim : ClearOfGuard(c) => (Entry(h, c.at, c.len, c.excl) \in lks <=> c \in cs)

HandleOK(h, p, r, cs, lks) ==
    ClaimsOK(cs) /\ CallOK(p, r, cs) /\ Holds(h, Expected(p, r, cs), lks)

HandleInv(h) == HandleOK(h, pc[h], loc[h], held[h], locks)

\* What Windows promises: locks of different owners overlap only when shared.
Shared == \A l, m \in locks : l.own # m.own /\ Overlap(l, m.at, m.len) => ~l.excl /\ ~m.excl

ClaimInv == (\A h \in Handles : HandleInv(h)) /\ Shared

-----------------------------------------------------------------------------
LEMMA HandleNext ==
    ASSUME NEW h \in Handles, HandleOK(h, pc'[h], loc'[h], held'[h], locks')
    PROVE  HandleInv(h)'
BY Zenon DEF HandleInv

LEMMA EntryFields ==
    ASSUME NEW h, NEW at, NEW len, NEW excl
    PROVE  /\ Entry(h, at, len, excl).own = h /\ Entry(h, at, len, excl).at = at
           /\ Entry(h, at, len, excl).len = len /\ Entry(h, at, len, excl).excl = excl
BY Zenon DEF Entry

LEMMA LockIsEntry ==
    ASSUME NEW l \in Lock
    PROVE  l = Entry(l.own, l.at, l.len, l.excl)
BY DEF Entry, Lock

LEMMA AskedFields ==
    ASSUME NEW r \in Locals
    PROVE  /\ Asked(r) \in Claim /\ Asked(r).at = r.at /\ Asked(r).len = r.len
           /\ Asked(r).excl = (r.op = "F_WRLCK")
BY Zenon DEF Asked, Locals, Claim

LEMMA ClaimEqual ==
    ASSUME NEW c \in Claim, NEW d \in Claim, c.at = d.at, c.len = d.len, c.excl = d.excl
    PROVE  c = d
BY DEF Claim

\* LockFileEx adds the lock asked for to those of its handle.
LEMMA HoldsMore ==
    ASSUME NEW h \in Handles, NEW cs, NEW c \in Claim, Holds(h, cs, locks),
           locks' = locks \cup {Entry(h, c.at, c.len, c.excl)}
    PROVE  Holds(h, cs \cup {c}, locks')
<1>1. SUFFICES ASSUME NEW d \in Claim, ClearOfGuard(d)
               PROVE  Entry(h, d.at, d.len, d.excl) \in locks' <=> d \in cs \cup {c}
      BY Zenon DEF Holds
<1>2. Entry(h, d.at, d.len, d.excl) \in locks <=> d \in cs BY <1>1, Zenon DEF Holds
<1>3. Entry(h, d.at, d.len, d.excl) = Entry(h, c.at, c.len, c.excl) => d = c
      BY EntryFields, ClaimEqual
<1>. QED BY <1>2, <1>3, Zenon

LEMMA HoldsOther ==
    ASSUME NEW h \in Handles, NEW k \in Handles \ {h}, NEW cs, NEW at, NEW len, NEW excl,
           Holds(k, cs, locks), locks' = locks \cup {Entry(h, at, len, excl)}
    PROVE  Holds(k, cs, locks')
<1>1. \A c \in Claim : Entry(k, c.at, c.len, c.excl) # Entry(h, at, len, excl)
      BY EntryFields
<1>. QED BY <1>1, Zenon DEF Holds

LEMMA HoldsGuard ==
    ASSUME NEW h \in Handles, NEW k \in Handles, NEW cs, Holds(k, cs, locks),
           locks' = locks \cup {Entry(h, GuardAt, 1, TRUE)}
    PROVE  Holds(k, cs, locks')
<1>1. ASSUME NEW c \in Claim, ClearOfGuard(c)
      PROVE  Entry(k, c.at, c.len, c.excl) # Entry(h, GuardAt, 1, TRUE)
  <2>1. ~(c.at = GuardAt /\ c.len = 1) BY <1>1, Limits DEF ClearOfGuard
  <2>2. /\ Entry(k, c.at, c.len, c.excl).at = c.at /\ Entry(k, c.at, c.len, c.excl).len = c.len
        /\ Entry(h, GuardAt, 1, TRUE).at = GuardAt /\ Entry(h, GuardAt, 1, TRUE).len = 1
        BY Zenon DEF Entry
  <2>. QED BY <2>1, <2>2, Zenon
<1>. QED BY <1>1, Zenon DEF Holds

\* UnlockFileEx takes nothing from the other handles, and on the guard byte no
\* client's lock.
LEMMA HoldsUnlockOther ==
    ASSUME NEW h \in Handles, NEW k \in Handles \ {h}, NEW cs, NEW at, NEW len,
           Holds(k, cs, locks), Unlock(h, at, len)
    PROVE  Holds(k, cs, locks')
<1>1. \A c \in Claim : Entry(k, c.at, c.len, c.excl) \in locks' <=> Entry(k, c.at, c.len, c.excl) \in locks
      BY EntryFields, UnlockParts
<1>. QED BY <1>1, Zenon DEF Holds

LEMMA HoldsUnlockGuard ==
    ASSUME NEW h \in Handles, NEW k \in Handles, NEW cs, Holds(k, cs, locks), Unlock(h, GuardAt, 1)
    PROVE  Holds(k, cs, locks')
<1>1. ASSUME NEW c \in Claim, ClearOfGuard(c)
      PROVE  Entry(k, c.at, c.len, c.excl) \in locks' <=> Entry(k, c.at, c.len, c.excl) \in locks
  <2>1. ~(c.at = GuardAt /\ c.len = 1) BY <1>1, Limits DEF ClearOfGuard
  <2>. QED BY <2>1, EntryFields, UnlockParts
<1>. QED BY <1>1, Zenon DEF Holds

\* One UnlockFileEx is enough: a handle has at most one lock on a range.
LEMMA HoldsFewer ==
    ASSUME TypeOK, NEW h \in Handles, NEW r \in Locals, ClearOfGuard(r), NEW cs, Holds(h, cs, locks),
           \A c, d \in cs : SameRange(c, d) => c = d, Unlock(h, r.at, r.len)
    PROVE  Holds(h, Others(r, cs), locks')
<1>1. ASSUME NEW l \in Locked(h, r.at, r.len)
      PROVE  /\ [at |-> l.at, len |-> l.len, excl |-> l.excl] \in cs
             /\ l = Entry(h, r.at, r.len, l.excl) /\ l.at = r.at /\ l.len = r.len
  <2>1. l \in Lock /\ l.own = h /\ l.at = r.at /\ l.len = r.len /\ l \in locks
        BY <1>1, Zenon DEF Locked, TypeOK
  <2>2. l = Entry(h, r.at, r.len, l.excl) BY <2>1, LockIsEntry
  <2>. DEFINE c == [at |-> l.at, len |-> l.len, excl |-> l.excl]
  <2>3. c \in Claim BY <2>1, Zenon DEF Lock, Claim
  <2>4. c.at = r.at /\ c.len = r.len /\ c.excl = l.excl BY <2>1, Zenon
  <2>5. ClearOfGuard(c) BY <2>4, Zenon DEF ClearOfGuard
  <2>. HIDE DEF c
  <2>6. Entry(h, c.at, c.len, c.excl) \in locks BY <2>1, <2>2, <2>4, Zenon
  <2>7. c \in cs BY <2>3, <2>5, <2>6, Zenon DEF Holds
  <2>. QED BY <2>1, <2>2, <2>7, Zenon DEF c
<1>2. ASSUME NEW l \in Locked(h, r.at, r.len), NEW m \in Locked(h, r.at, r.len) PROVE l = m
  <2>. DEFINE c == [at |-> l.at, len |-> l.len, excl |-> l.excl]
              d == [at |-> m.at, len |-> m.len, excl |-> m.excl]
  <2>1. c \in cs /\ d \in cs /\ SameRange(c, d) BY <1>1, Zenon DEF SameRange
  <2>2. c.excl = l.excl /\ d.excl = m.excl BY Zenon
  <2>3. c = d BY <2>1, Zenon
  <2>4. l.excl = m.excl BY <2>2, <2>3, Zenon
  <2>. QED BY <1>1, <2>4, Zenon
<1>3. SUFFICES ASSUME NEW c \in Claim, ClearOfGuard(c)
               PROVE  Entry(h, c.at, c.len, c.excl) \in locks' <=> c \in Others(r, cs)
      BY Zenon DEF Holds
<1>. DEFINE e == Entry(h, c.at, c.len, c.excl)
<1>4. e \in locks <=> c \in cs BY <1>3, Zenon DEF Holds
<1>5. e \in Locked(h, r.at, r.len) <=> e \in locks /\ SameRange(c, r)
      BY EntryFields DEF Locked, SameRange
<1>6. e \in locks' <=> e \in locks /\ e \notin Locked(h, r.at, r.len)
  <2>1. CASE Locked(h, r.at, r.len) = {} BY <2>1, Zenon DEF Unlock
  <2>2. CASE Locked(h, r.at, r.len) # {}
    <3>1. PICK l \in Locked(h, r.at, r.len) : locks' = locks \ {l} BY <2>2, Zenon DEF Unlock
    <3>. QED BY <1>2, <3>1, Zenon
  <2>. QED BY <2>1, <2>2
<1>. QED BY <1>4, <1>5, <1>6, Zenon DEF Others

\* With Fresh requests no two locks Windows holds for a handle share a range.
LEMMA ExpectedUnique ==
    ASSUME NEW p, NEW r \in Locals, NEW cs, ClaimsOK(cs), CallOK(p, r, cs)
    PROVE  \A c, d \in Expected(p, r, cs) : SameRange(c, d) => c = d
<1>1. CASE Granted(p, r)
  <2>1. Fresh(r, cs) /\ Expected(p, r, cs) = cs \cup {Asked(r)}
        BY <1>1, Zenon DEF CallOK, Expected
  <2>2. \A c \in cs : ~SameRange(c, Asked(r)) /\ ~SameRange(Asked(r), c)
        BY <2>1, AskedFields DEF Fresh, SameRange
  <2>. QED BY <2>1, <2>2, Zenon DEF ClaimsOK
<1>2. CASE ~Granted(p, r)
  <2>1. Expected(p, r, cs) \subseteq cs BY <1>2, Zenon DEF Expected, Others
  <2>. QED BY <2>1, Zenon DEF ClaimsOK
<1>. QED BY <1>1, <1>2

\* The claims of a caller that the result of its call adds to.
LEMMA ClaimsMore ==
    ASSUME NEW r \in Locals, ClearOfGuard(r), NEW cs, ClaimsOK(cs), Fresh(r, cs)
    PROVE  ClaimsOK(cs \cup {Asked(r)})
<1>1. \A c \in cs : ~SameRange(c, Asked(r)) /\ ~SameRange(Asked(r), c)
      BY AskedFields DEF Fresh, SameRange
<1>2. ClearOfGuard(Asked(r)) BY AskedFields DEF ClearOfGuard
<1>. QED BY <1>1, <1>2, Zenon DEF ClaimsOK

\* Locks of different owners overlap only when shared.
LEMMA SharedGrant ==
    ASSUME Shared, NEW h \in Handles, NEW at, NEW len, NEW excl \in BOOLEAN, ~Denied(h, at, len, excl),
           locks' = locks \cup {Entry(h, at, len, excl)}
    PROVE  Shared'
<1>. DEFINE e == Entry(h, at, len, excl)
<1>1. e.own = h /\ e.at = at /\ e.len = len /\ e.excl = excl BY Zenon DEF Entry
<1>2. ASSUME NEW l \in locks, l.own # h, Overlap(l, at, len) PROVE ~l.excl /\ ~excl
      BY <1>2, Zenon DEF Denied
<1>. HIDE DEF e
<1>3. locks' = locks \cup {e} BY Zenon DEF e
<1>4. \A l \in locks : l.own # e.own /\ (Overlap(l, e.at, e.len) \/ Overlap(e, l.at, l.len)) =>
        ~l.excl /\ ~e.excl
  <2>1. \A l \in locks : Overlap(e, l.at, l.len) => Overlap(l, at, len)
        BY <1>1, Zenon DEF Overlap
  <2>. QED BY <1>1, <1>2, <2>1, Zenon
<1>5. \A l, m \in locks' : l.own # m.own /\ Overlap(l, m.at, m.len) => ~l.excl /\ ~m.excl
      BY <1>3, <1>4, Zenon DEF Shared
<1>. QED BY <1>5, Zenon DEF Shared

LEMMA SharedFewer ==
    ASSUME Shared, locks' \subseteq locks
    PROVE  Shared'
<1>1. \A l, m \in locks' : l.own # m.own /\ Overlap(l, m.at, m.len) => ~l.excl /\ ~m.excl
      BY Zenon DEF Shared
<1>. QED BY <1>1, Zenon DEF Shared

-----------------------------------------------------------------------------
\* The other handles: their calls stay where they are.
Only(h) == \A k \in Handles \ {h} : pc'[k] = pc[k] /\ loc'[k] = loc[k] /\ held'[k] = held[k]

\* The invariant after a step of h.
LEMMA ClaimStep ==
    ASSUME ClaimInv, NEW h \in Handles, Only(h), Shared',
           HandleOK(h, pc'[h], loc'[h], held'[h], locks'),
           \A k \in Handles \ {h} : \A cs : Holds(k, cs, locks) => Holds(k, cs, locks')
    PROVE  ClaimInv'
<1>1. ASSUME NEW k \in Handles \ {h} PROVE HandleOK(k, pc'[k], loc'[k], held'[k], locks')
  <2>1. HandleOK(k, pc[k], loc[k], held[k], locks) BY Zenon DEF ClaimInv, HandleInv
  <2>2. HandleOK(k, pc[k], loc[k], held[k], locks') BY <2>1, Zenon DEF HandleOK
  <2>. QED BY <2>2, Zenon DEF Only
<1>2. \A k \in Handles : HandleOK(k, pc'[k], loc'[k], held'[k], locks') BY <1>1, Zenon
<1>3. \A k \in Handles : HandleInv(k)' BY <1>2, HandleNext, Zenon
<1>. QED BY <1>3, Zenon DEF ClaimInv

\* The claims of a caller with claims cs once it has the result in r.
After(r, cs) ==
    IF Acquired(r) THEN cs \cup {Asked(r)} ELSE IF Released(r) THEN Others(r, cs) ELSE cs

LEMMA ClaimsFewer ==
    ASSUME NEW cs, ClaimsOK(cs), NEW ds, ds \subseteq cs
    PROVE  ClaimsOK(ds)
BY Zenon DEF ClaimsOK

LEMMA AfterOK ==
    ASSUME NEW r \in Locals, ClearOfGuard(r), NEW cs, ClaimsOK(cs), Acquired(r) => Fresh(r, cs)
    PROVE  ClaimsOK(After(r, cs))
<1>1. Others(r, cs) \subseteq cs BY Zenon DEF Others
<1>2. CASE Acquired(r) BY <1>2, ClaimsMore, Zenon DEF After
<1>3. CASE ~Acquired(r) BY <1>1, <1>3, ClaimsFewer, Zenon DEF After
<1>. QED BY <1>2, <1>3

\* Unless it probed, a call about to return has done what its result says.
LEMMA AfterExpected ==
    ASSUME NEW r \in Locals, NEW cs, ~(Probe(r.call) /\ r.rc = "0")
    PROVE  After(r, cs) = Expected("unguard", r, cs)
BY Zenon DEF After, Expected, Granted, Acquired, Released

LEMMA FinishClaims ==
    ASSUME TypeOK, NEW h \in Handles, NEW r \in Locals, Finish(h, r)
    PROVE  Only(h) /\ pc'[h] = "return" /\ loc'[h] = r /\ held'[h] = After(r, held[h])
<1>1. Only(h) /\ pc'[h] = "return" /\ loc'[h] = r BY Zenon DEF Finish, Goto, TypeOK, Only
<1>2. held'[h] = IF Acquired(r) THEN held[h] \cup {[at |-> r.at, len |-> r.len, excl |-> r.op = "F_WRLCK"]}
                 ELSE IF Released(r) THEN Without(h, r.at, r.len) ELSE held[h]
      BY Zenon DEF Finish, TypeOK
<1>3. Without(h, r.at, r.len) = Others(r, held[h]) BY Zenon DEF Without, Others, SameRange
<1>. QED BY <1>1, <1>2, <1>3, Zenon DEF Asked, After

\* A handle whose call returned with all its claims locked and nothing more.
LEMMA ReturnOK ==
    ASSUME NEW h \in Handles, NEW r, NEW cs, NEW lks, ClaimsOK(cs), Holds(h, cs, lks),
           NEW p \in {"ready", "return"}
    PROVE  HandleOK(h, p, r, cs, lks)
<1>1. CallOK(p, r, cs) BY Zenon DEF CallOK, InCall, Granted
<1>2. Expected(p, r, cs) = cs BY Zenon DEF Expected, Granted
<1>. QED BY <1>1, <1>2, Zenon DEF HandleOK

LEMMA Mine ==
    ASSUME GuardInv, ClaimInv, NEW h \in Handles
    PROVE  /\ TypeOK /\ Shared /\ loc[h] \in Locals /\ ClearOfGuard(loc[h]) /\ held[h] \in SUBSET Claim
           /\ ClaimsOK(held[h]) /\ CallOK(pc[h], loc[h], held[h])
           /\ Holds(h, Expected(pc[h], loc[h], held[h]), locks)
BY Zenon DEF GuardInv, TypeOK, Clear, ClearOfGuard, ClaimInv, HandleInv, HandleOK

\* What UnlockFileEx leaves as it is.
LEMMA UnlockAround ==
    ASSUME Shared, NEW h \in Handles, NEW at, NEW len, Unlock(h, at, len)
    PROVE  Shared' /\ \A k \in Handles \ {h} : \A cs : Holds(k, cs, locks) => Holds(k, cs, locks')
<1>1. Shared' BY UnlockParts, SharedFewer, Zenon
<1>. QED BY <1>1, HoldsUnlockOther, Zenon

-----------------------------------------------------------------------------
\* A request that is accepted comes from a disciplined client.
LEMMA StartClaims ==
    ASSUME GuardInv, ClaimInv, NEW h \in Handles, Start(h)
    PROVE  ClaimInv'
<1>1. PICK r \in Locals, to \in {"convert", "guard", "op", "return"} :
        /\ pc' = [pc EXCEPT ![h] = to] /\ loc' = [loc EXCEPT ![h] = r]
        /\ held' = held /\ locks' = locks
        /\ to # "return" => Accepted(h, r, to)
      BY Mine, StartType, ZenonT(30)
<1>2. Only(h) /\ pc'[h] = to /\ loc'[h] = r /\ held'[h] = held[h]
      BY <1>1, Mine, Zenon DEF Only, TypeOK
<1>3. Holds(h, held[h], locks)
  <2>1. pc[h] = "ready" BY Zenon DEF Start
  <2>2. Expected(pc[h], loc[h], held[h]) = held[h] BY <2>1, Zenon DEF Expected, Granted
  <2>. QED BY <2>2, Mine, Zenon
<1>4. CASE to = "return"
      BY <1>1, <1>2, <1>3, <1>4, Mine, ReturnOK, SharedFewer, ClaimStep, SMTT(30)
<1>5. CASE to # "return"
  <2>1. to = "convert" => \A c \in held[h] : SameRange(c, r)
        BY <1>1, <1>5, Zenon DEF Accepted, Disciplined, SameRange
  <2>2. to # "convert" /\ r.op # "F_UNLCK" =>
          Fresh(r, held[h]) \/ (Probe(r.call) /\ r.op = "F_WRLCK" /\ r.len > 0)
        BY <1>1, <1>5, Zenon DEF Accepted, Disciplined, Fresh, SameRange
  <2>3. CallOK(to, r, held[h])
        BY <1>1, <1>5, <2>1, <2>2, Zenon DEF Accepted, CallOK, Granted
  <2>4. Expected(to, r, held[h]) = held[h] BY <1>5, Zenon DEF Expected, Granted
  <2>5. HandleOK(h, pc'[h], loc'[h], held'[h], locks')
        BY <1>1, <1>2, <1>3, <2>3, <2>4, Mine, Zenon DEF HandleOK
  <2>. QED BY <1>1, <1>2, <2>5, Mine, SharedFewer, ClaimStep, Zenon
<1>. QED BY <1>4, <1>5

\* flock releases the whole range and holds nothing when it asks for it again.
LEMMA FlockClaims ==
    ASSUME GuardInv, ClaimInv, NEW h \in Handles, FlockUnlock(h)
    PROVE  ClaimInv'
<1>. DEFINE r == loc[h]
<1>1. /\ pc[h] = "convert" /\ Unlock(h, r.at, r.len) /\ r.rc = "0"
      /\ \A c \in held[h] : SameRange(c, r)
      BY Mine, Zenon DEF FlockUnlock, CallOK
<1>2. Expected(pc[h], r, held[h]) = held[h] BY <1>1, Zenon DEF Expected, Granted
<1>3. Holds(h, Others(r, held[h]), locks')
      BY <1>1, <1>2, Mine, HoldsFewer, Zenon DEF ClaimsOK
<1>4. Others(r, held[h]) = {} BY <1>1, Zenon DEF Others
<1>5. HandleOK(h, pc'[h], loc'[h], held'[h], locks') /\ Only(h)
  <2>1. CASE r.op = "F_UNLCK"
    <3>1. Only(h) /\ pc'[h] = "return" /\ loc'[h] = r /\ held'[h] = After(r, held[h])
          BY <2>1, Mine, FinishClaims, Zenon DEF FlockUnlock
    <3>2. After(r, held[h]) = Others(r, held[h])
          BY <1>1, <2>1, Zenon DEF After, Acquired, Released
    <3>3. ClaimsOK(After(r, held[h]))
          BY <2>1, Mine, AfterOK, Zenon DEF Acquired
    <3>. QED BY <1>3, <3>1, <3>2, <3>3, ReturnOK, Zenon
  <2>2. CASE r.op # "F_UNLCK"
    <3>. DEFINE to == Enter(r.call)
    <3>1. Only(h) /\ pc'[h] = to /\ loc'[h] = r /\ held'[h] = {}
          BY <2>2, Mine, Zenon DEF FlockUnlock, Goto, TypeOK, Only
    <3>2. to \in {"guard", "op"} BY Zenon DEF Enter
    <3>. HIDE DEF to
    <3>3. CallOK(to, r, {}) BY <1>1, <2>2, <3>2, Zenon DEF CallOK, Fresh, Granted
    <3>4. Expected(to, r, {}) = {} BY <3>2, Zenon DEF Expected, Granted
    <3>5. ClaimsOK({}) BY Zenon DEF ClaimsOK
    <3>. QED BY <1>3, <1>4, <3>1, <3>3, <3>4, <3>5, Zenon DEF HandleOK
  <2>. QED BY <2>1, <2>2, Zenon
<1>. QED BY <1>1, <1>5, Mine, UnlockAround, ClaimStep, Zenon

LEMMA TakeGuardClaims ==
    ASSUME GuardInv, ClaimInv, NEW h \in Handles, TakeGuard(h)
    PROVE  ClaimInv'
<1>1. /\ pc[h] = "guard" /\ ~Denied(h, GuardAt, 1, TRUE) /\ locks' = locks \cup {Entry(h, GuardAt, 1, TRUE)}
      /\ Only(h) /\ pc'[h] = "op" /\ loc'[h] = loc[h] /\ held'[h] = held[h]
      BY Mine, Zenon DEF TakeGuard, Goto, TypeOK, Only
<1>2. CallOK("op", loc[h], held[h]) BY <1>1, Mine, Zenon DEF CallOK, InCall, Granted
<1>3. Expected("op", loc[h], held[h]) = Expected("guard", loc[h], held[h])
      BY Zenon DEF Expected, Granted
<1>4. Holds(h, Expected("op", loc[h], held[h]), locks') BY <1>1, <1>3, Mine, HoldsGuard, Zenon
<1>5. HandleOK(h, pc'[h], loc'[h], held'[h], locks')
      BY <1>1, <1>2, <1>4, Mine, Zenon DEF HandleOK
<1>6. Shared' BY <1>1, Mine, SharedGrant, Zenon
<1>. QED BY <1>1, <1>5, <1>6, HoldsGuard, ClaimStep, Zenon

\* LockFileEx or UnlockFileEx has done what the result will say: the call goes
\* on to release the guard lock, or returns.
LEMMA IssuedClaims ==
    ASSUME GuardInv, ClaimInv, NEW h \in Handles, NEW rc \in {"0", "EINVAL", "EACCES"},
           pc[h] = "op", Issued(h, rc), NEW r, r = [loc[h] EXCEPT !.rc = rc],
           rc = "0" /\ r.op # "F_UNLCK" => Fresh(r, held[h]),
           Holds(h, Expected("unguard", r, held[h]), locks')
    PROVE  Only(h) /\ HandleOK(h, pc'[h], loc'[h], held'[h], locks')
<1>1. /\ r \in Locals /\ r.call = loc[h].call /\ r.op = loc[h].op /\ r.rc = rc
      /\ r.at = loc[h].at /\ r.len = loc[h].len
      BY Mine, Zenon DEF Locals
<1>2. ClearOfGuard(r) BY <1>1, Mine, Zenon DEF ClearOfGuard
<1>3. Probe(r.call) => r.op # "F_UNLCK" BY <1>1, Mine, Zenon DEF CallOK, InCall
<1>4. CASE Nowait(r.call)
  <2>1. Only(h) /\ pc'[h] = "unguard" /\ loc'[h] = r /\ held'[h] = held[h]
        BY <1>4, Mine, Zenon DEF Issued, Goto, TypeOK, Only
  <2>2. CallOK("unguard", r, held[h]) BY <1>1, <1>3, Zenon DEF CallOK, Granted
  <2>. QED BY <2>1, <2>2, Mine, Zenon DEF HandleOK
<1>5. CASE ~Nowait(r.call)
  <2>1. Finish(h, r) BY <1>5, Zenon DEF Issued
  <2>2. Only(h) /\ pc'[h] = "return" /\ loc'[h] = r /\ held'[h] = After(r, held[h])
        BY <1>1, <2>1, Mine, FinishClaims, Zenon
  <2>3. ~Probe(r.call) BY <1>5, Zenon DEF Nowait, Probe
  <2>4. After(r, held[h]) = Expected("unguard", r, held[h]) BY <1>1, <2>3, AfterExpected, Zenon
  <2>5. ClaimsOK(After(r, held[h])) BY <1>1, <1>2, Mine, AfterOK, Zenon DEF Acquired
  <2>. QED BY <2>2, <2>4, <2>5, ReturnOK, SMT
<1>. QED BY <1>4, <1>5

\* A lock is granted only on a range the handle has no lock on: a disciplined
\* client asked for no such range, or for a write lock Windows would refuse.
LEMMA GrantedFresh ==
    ASSUME GuardInv, ClaimInv, NEW h \in Handles, LockGranted(h)
    PROVE  Fresh(loc[h], held[h])
<1>. DEFINE r == loc[h]
<1>1. pc[h] = "op" /\ r.op # "F_UNLCK" /\ ~Denied(h, r.at, r.len, r.op = "F_WRLCK")
      BY Zenon DEF LockGranted
<1>2. SUFFICES ASSUME r.op = "F_WRLCK", r.len > 0, NEW c \in held[h], SameRange(c, r)
               PROVE  FALSE
      BY <1>1, Mine, Zenon DEF CallOK, Fresh
<1>3. Expected(pc[h], r, held[h]) = held[h] BY <1>1, Zenon DEF Expected, Granted
<1>. DEFINE e == Entry(h, c.at, c.len, c.excl)
<1>4. e \in locks BY <1>3, Mine, Zenon DEF ClaimsOK, Holds
<1>5. e.at = r.at /\ e.len = r.len BY <1>2, EntryFields, SMT DEF SameRange
<1>6. r.at \in Int /\ r.len \in Int BY Mine, Limits DEF Locals, Places, Lengths
<1>. HIDE DEF e
<1>7. Overlap(e, r.at, r.len) BY <1>2, <1>5, <1>6 DEF Overlap
<1>. QED BY <1>1, <1>2, <1>4, <1>7, Zenon DEF Denied

LEMMA GrantClaims ==
    ASSUME GuardInv, ClaimInv, NEW h \in Handles, LockGranted(h)
    PROVE  ClaimInv'
<1>. DEFINE excl == loc[h].op = "F_WRLCK"
            r == [loc[h] EXCEPT !.rc = "0"]
<1>1. /\ pc[h] = "op" /\ loc[h].op # "F_UNLCK" /\ Issued(h, "0")
      /\ ~Denied(h, loc[h].at, loc[h].len, excl)
      /\ locks' = locks \cup {Entry(h, loc[h].at, loc[h].len, excl)}
      BY Zenon DEF LockGranted
<1>2. r \in Locals /\ r.op = loc[h].op /\ r.rc = "0" /\ r.at = loc[h].at /\ r.len = loc[h].len
      BY Mine, Zenon DEF Locals
<1>3. excl \in BOOLEAN OBVIOUS
<1>. HIDE DEF r
<1>4. Asked(r) \in Claim /\ Asked(r).at = loc[h].at /\ Asked(r).len = loc[h].len /\ Asked(r).excl = excl
      BY <1>2, AskedFields, Zenon
<1>. HIDE DEF excl
<1>5. Expected(pc[h], loc[h], held[h]) = held[h] BY <1>1, Zenon DEF Expected, Granted
<1>6. Expected("unguard", r, held[h]) = held[h] \cup {Asked(r)}
      BY <1>1, <1>2, Zenon DEF Expected, Granted
<1>7. Holds(h, held[h] \cup {Asked(r)}, locks')
      BY <1>1, <1>4, <1>5, Mine, HoldsMore, Zenon
<1>8. Fresh(r, held[h]) BY <1>2, GrantedFresh, Zenon DEF Fresh, SameRange
<1>9. Only(h) /\ HandleOK(h, pc'[h], loc'[h], held'[h], locks')
      BY <1>1, <1>6, <1>7, <1>8, IssuedClaims, Zenon DEF r
<1>10. Shared' BY <1>1, <1>3, Mine, SharedGrant, Zenon
<1>11. \A k \in Handles \ {h} : \A cs : Holds(k, cs, locks) => Holds(k, cs, locks')
      BY <1>1, HoldsOther, Zenon
<1>. QED BY <1>9, <1>10, <1>11, ClaimStep, Zenon

LEMMA RefusedClaims ==
    ASSUME GuardInv, ClaimInv, NEW h \in Handles, LockRefused(h)
    PROVE  ClaimInv'
<1>. DEFINE r == [loc[h] EXCEPT !.rc = "EACCES"]
<1>1. pc[h] = "op" /\ Issued(h, "EACCES") /\ locks' = locks BY Zenon DEF LockRefused
<1>2. r.rc = "EACCES" BY Mine, Zenon DEF Locals
<1>. HIDE DEF r
<1>3. Expected("unguard", r, held[h]) = Expected(pc[h], loc[h], held[h])
      BY <1>1, <1>2, Zenon DEF Expected, Granted
<1>4. Only(h) /\ HandleOK(h, pc'[h], loc'[h], held'[h], locks')
      BY <1>1, <1>2, <1>3, Mine, IssuedClaims, Zenon DEF r
<1>. QED BY <1>1, <1>4, Mine, SharedFewer, ClaimStep, Zenon

LEMMA UnlockClaims ==
    ASSUME GuardInv, ClaimInv, NEW h \in Handles, UnlockIssued(h)
    PROVE  ClaimInv'
<1>. DEFINE none == Locked(h, loc[h].at, loc[h].len) = {}
            rc == IF none THEN "EINVAL" ELSE "0"
            r == [loc[h] EXCEPT !.rc = rc]
<1>1. /\ pc[h] = "op" /\ loc[h].op = "F_UNLCK" /\ Unlock(h, loc[h].at, loc[h].len) /\ Issued(h, rc)
      BY Zenon DEF UnlockIssued
<1>2. r.rc = rc /\ r.op = loc[h].op /\ r.at = loc[h].at /\ r.len = loc[h].len
      BY Mine, Zenon DEF Locals
<1>3. rc \in {"0", "EINVAL", "EACCES"} /\ (none => rc = "EINVAL") /\ (~none => rc = "0") BY Zenon
<1>4. none => locks' = locks BY <1>1, Zenon DEF Unlock
<1>. HIDE DEF r, rc, none
<1>5. Expected(pc[h], loc[h], held[h]) = held[h] BY <1>1, Zenon DEF Expected, Granted
<1>6. Holds(h, Expected("unguard", r, held[h]), locks')
  <2>1. CASE none
    <3>1. Expected("unguard", r, held[h]) = held[h] BY <1>2, <1>3, <2>1, Zenon DEF Expected, Granted
    <3>. QED BY <1>4, <1>5, <2>1, <3>1, Mine, Zenon
  <2>2. CASE ~none
    <3>1. Expected("unguard", r, held[h]) = Others(r, held[h])
          BY <1>1, <1>2, <1>3, <2>2, Zenon DEF Expected, Granted
    <3>2. Others(r, held[h]) = Others(loc[h], held[h]) BY <1>2, Zenon DEF Others, SameRange
    <3>3. Holds(h, Others(loc[h], held[h]), locks')
          BY <1>1, <1>5, Mine, HoldsFewer, Zenon DEF ClaimsOK
    <3>. QED BY <3>1, <3>2, <3>3, Zenon
  <2>. QED BY <2>1, <2>2
<1>7. Only(h) /\ HandleOK(h, pc'[h], loc'[h], held'[h], locks')
      BY <1>1, <1>2, <1>3, <1>6, IssuedClaims, Zenon DEF r
<1>. QED BY <1>1, <1>7, Mine, UnlockAround, ClaimStep, Zenon

LEMMA ReleaseGuardClaims ==
    ASSUME GuardInv, ClaimInv, NEW h \in Handles, ReleaseGuard(h)
    PROVE  ClaimInv'
<1>. DEFINE r == loc[h]
<1>1. pc[h] = "unguard" /\ Unlock(h, GuardAt, 1) BY Zenon DEF ReleaseGuard
<1>2. Holds(h, Expected("unguard", r, held[h]), locks') BY <1>1, Mine, HoldsUnlockGuard, Zenon
<1>3. Only(h) /\ HandleOK(h, pc'[h], loc'[h], held'[h], locks')
  <2>1. CASE Probe(r.call) /\ r.rc = "0"
    <3>1. Only(h) /\ pc'[h] = "undo" /\ loc'[h] = r /\ held'[h] = held[h]
          BY <2>1, Mine, Zenon DEF ReleaseGuard, Goto, TypeOK, Only
    <3>2. Granted("unguard", r) /\ Granted("undo", r) /\ Fresh(r, held[h])
          BY <1>1, <2>1, Mine, Zenon DEF CallOK, InCall, Granted
    <3>3. CallOK("undo", r, held[h]) BY <2>1, <3>2, Zenon DEF CallOK, Granted
    <3>4. Expected("undo", r, held[h]) = Expected("unguard", r, held[h])
          BY <3>2, Zenon DEF Expected
    <3>. QED BY <1>2, <3>1, <3>3, <3>4, Mine, Zenon DEF HandleOK
  <2>2. CASE ~(Probe(r.call) /\ r.rc = "0")
    <3>1. Only(h) /\ pc'[h] = "return" /\ loc'[h] = r /\ held'[h] = After(r, held[h])
          BY <2>2, Mine, FinishClaims, Zenon DEF ReleaseGuard
    <3>2. After(r, held[h]) = Expected("unguard", r, held[h]) BY <2>2, Mine, AfterExpected, Zenon
    <3>3. Acquired(r) => Fresh(r, held[h])
          BY <1>1, Mine, Zenon DEF CallOK, Granted, Acquired
    <3>4. ClaimsOK(After(r, held[h])) BY <3>3, Mine, AfterOK, Zenon
    <3>. QED BY <1>2, <3>1, <3>2, <3>4, ReturnOK
  <2>. QED BY <2>1, <2>2
<1>. QED BY <1>1, <1>3, Mine, UnlockAround, ClaimStep, Zenon

\* A probe unlocks what it locked, which was no claim of its caller.
LEMMA UndoClaims ==
    ASSUME GuardInv, ClaimInv, NEW h \in Handles, ProbeUndo(h)
    PROVE  ClaimInv'
<1>. DEFINE r == loc[h]
            cs == held[h] \cup {Asked(r)}
<1>1. pc[h] = "undo" /\ Unlock(h, r.at, r.len) /\ Finish(h, r) BY Zenon DEF ProbeUndo
<1>2. Granted(pc[h], r) /\ Probe(r.call) /\ r.op # "F_UNLCK" /\ Fresh(r, held[h])
      BY <1>1, Mine, Zenon DEF CallOK, Granted
<1>3. Expected(pc[h], r, held[h]) = cs BY <1>2, Zenon DEF Expected
<1>4. \A c, d \in cs : SameRange(c, d) => c = d BY <1>3, Mine, ExpectedUnique, Zenon
<1>5. SameRange(Asked(r), r) BY Mine, AskedFields, Zenon DEF SameRange
<1>6. Others(r, cs) = held[h] BY <1>2, <1>5, Zenon DEF Others, Fresh
<1>. HIDE DEF cs
<1>7. Holds(h, cs, locks) BY <1>3, Mine
<1>8. Holds(h, held[h], locks') BY <1>1, <1>4, <1>6, <1>7, Mine, HoldsFewer
<1>9. Only(h) /\ pc'[h] = "return" /\ loc'[h] = r /\ held'[h] = After(r, held[h])
      BY <1>1, Mine, FinishClaims, Zenon
<1>10. After(r, held[h]) = held[h] BY <1>2, Zenon DEF After, Acquired, Released
<1>11. HandleOK(h, pc'[h], loc'[h], held'[h], locks') BY <1>8, <1>9, <1>10, Mine, ReturnOK
<1>. QED BY <1>1, <1>9, <1>11, Mine, UnlockAround, ClaimStep, Zenon

LEMMA ReturnClaims ==
    ASSUME GuardInv, ClaimInv, NEW h \in Handles, Return(h)
    PROVE  ClaimInv'
<1>1. /\ pc[h] = "return" /\ Only(h) /\ pc'[h] = "ready" /\ loc'[h] = NoCall
      /\ held'[h] = held[h] /\ locks' = locks
      BY Mine, Zenon DEF Return, Goto, TypeOK, Only
<1>2. Expected(pc[h], loc[h], held[h]) = held[h] BY <1>1, Zenon DEF Expected, Granted
<1>3. Holds(h, held[h], locks) BY <1>2, Mine
<1>4. HandleOK(h, pc'[h], loc'[h], held'[h], locks') BY <1>1, <1>3, Mine, ReturnOK
<1>. QED BY <1>1, <1>4, Mine, SharedFewer, ClaimStep, Zenon

LEMMA CloseClaims ==
    ASSUME GuardInv, ClaimInv, NEW h \in Handles, Close(h)
    PROVE  ClaimInv'
<1>1. /\ locks' = {l \in locks : l.own # h} /\ Only(h) /\ pc'[h] = "ready" /\ loc'[h] = NoCall
      /\ held'[h] = {}
      BY Mine, Zenon DEF Close, Goto, TypeOK, Only
<1>2. Holds(h, {}, locks') BY <1>1, Zenon DEF Holds, Entry
<1>3. ASSUME NEW k \in Handles \ {h}, NEW cs, Holds(k, cs, locks) PROVE Holds(k, cs, locks')
  <2>1. \A c \in Claim : Entry(k, c.at, c.len, c.excl).own # h BY Zenon DEF Entry
  <2>. QED BY <1>1, <1>3, <2>1, Zenon DEF Holds
<1>4. ClaimsOK({}) BY Zenon DEF ClaimsOK
<1>5. HandleOK(h, pc'[h], loc'[h], held'[h], locks') BY <1>1, <1>2, <1>4, ReturnOK
<1>6. Shared' BY <1>1, Mine, SharedFewer, Zenon
<1>. QED BY <1>1, <1>3, <1>5, <1>6, ClaimStep, Zenon

-----------------------------------------------------------------------------
LEMMA ClaimInit == Init => ClaimInv
<1>. SUFFICES ASSUME Init PROVE ClaimInv OBVIOUS
<1>1. Shared BY Zenon DEF Init, Shared
<1>2. ASSUME NEW h \in Handles PROVE HandleInv(h)
  <2>1. pc[h] = "ready" /\ held[h] = {} /\ locks = {} BY Zenon DEF Init
  <2>2. ClaimsOK({}) /\ Holds(h, {}, {}) BY Zenon DEF ClaimsOK, Holds
  <2>. QED BY <2>1, <2>2, ReturnOK DEF HandleInv
<1>. QED BY <1>1, <1>2, Zenon DEF ClaimInv

\* Every step of every call, and the death of any process, preserves the
\* invariant.
LEMMA ClaimNext == GuardInv /\ ClaimInv /\ [Next]_vars => ClaimInv'
<1>. SUFFICES ASSUME GuardInv, ClaimInv, [Next]_vars PROVE ClaimInv' OBVIOUS
<1>1. CASE UNCHANGED vars
  <2>1. Shared' BY <1>1, SharedFewer, Zenon DEF vars, ClaimInv
  <2>2. \A h \in Handles : HandleOK(h, pc'[h], loc'[h], held'[h], locks')
        BY <1>1, Zenon DEF vars, ClaimInv, HandleInv
  <2>. QED BY <2>1, <2>2, HandleNext, Zenon DEF ClaimInv
<1>2. CASE Next
      BY <1>2, StartClaims, FlockClaims, TakeGuardClaims, GrantClaims, RefusedClaims, UnlockClaims,
         ReleaseGuardClaims, UndoClaims, ReturnClaims, CloseClaims, Zenon DEF Next, Step
<1>. QED BY <1>1, <1>2

LEMMA ClaimsAreLocked == GuardInv /\ ClaimInv => HeldIsLocked
<1>. SUFFICES ASSUME GuardInv, ClaimInv, NEW h \in Handles, pc[h] \in {"ready", "return"}
              PROVE  held[h] = {[at |-> l.at, len |-> l.len, excl |-> l.excl] :
                                   l \in {m \in locks : m.own = h}}
     BY Zenon DEF HeldIsLocked
<1>. DEFINE Of(l) == [at |-> l.at, len |-> l.len, excl |-> l.excl]
<1>1. Holds(h, held[h], locks)
  <2>1. Expected(pc[h], loc[h], held[h]) = held[h] BY Zenon DEF Expected, Granted
  <2>. QED BY <2>1, Mine
<1>2. ASSUME NEW c \in held[h] PROVE \E l \in locks : l.own = h /\ c = Of(l)
  <2>1. c \in Claim /\ Entry(h, c.at, c.len, c.excl) \in locks
        BY <1>1, Mine, Zenon DEF ClaimsOK, Holds
  <2>2. Of(Entry(h, c.at, c.len, c.excl)) = c BY <2>1, EntryFields DEF Claim
  <2>. QED BY <2>1, <2>2, Zenon DEF Entry
<1>3. ASSUME NEW l \in locks, l.own = h PROVE Of(l) \in held[h]
  <2>1. l \in Lock /\ l = Entry(h, l.at, l.len, l.excl) BY <1>3, Mine, LockIsEntry DEF TypeOK
  <2>2. ~Guarded(h) BY Zenon DEF Guarded
  <2>3. l.at + l.len < GuardAt BY <1>3, <2>2, Zenon DEF GuardInv, ClientOrGuard, GuardExact
  <2>4. Of(l) \in Claim /\ Of(l).at = l.at /\ Of(l).len = l.len /\ Of(l).excl = l.excl
        BY <2>1, Zenon DEF Lock, Claim
  <2>. HIDE DEF Of
  <2>. QED BY <1>1, <2>1, <2>3, <2>4, Zenon DEF Holds, ClearOfGuard
<1>. QED BY <1>2, <1>3, Zenon

\* What a caller relies on is locked, also while its next call is under way.
LEMMA ReliedLocked ==
    ASSUME GuardInv, ClaimInv, NEW h \in Handles, NEW c \in Relied(h)
    PROVE  c \in Claim /\ Entry(h, c.at, c.len, c.excl) \in locks
<1>1. c \in held[h] BY Zenon DEF Relied
<1>2. c \in Expected(pc[h], loc[h], held[h]) BY <1>1, Zenon DEF Relied, Expected, Granted
<1>. QED BY <1>1, <1>2, Mine, Zenon DEF ClaimsOK, Holds

LEMMA ClaimsExclude == GuardInv /\ ClaimInv => Exclusion
<1>. SUFFICES ASSUME GuardInv, ClaimInv, NEW h \in Handles, NEW k \in Handles, h # k,
                     NEW a \in Relied(h), NEW b \in Relied(k), Overlap(a, b.at, b.len)
              PROVE  ~a.excl /\ ~b.excl
     BY Zenon DEF Exclusion
<1>. DEFINE l == Entry(h, a.at, a.len, a.excl)
            m == Entry(k, b.at, b.len, b.excl)
<1>1. /\ l.own = h /\ l.at = a.at /\ l.len = a.len /\ l.excl = a.excl
      /\ m.own = k /\ m.at = b.at /\ m.len = b.len /\ m.excl = b.excl
      BY EntryFields, SMTT(30)
<1>2. l \in locks /\ m \in locks BY ReliedLocked, Zenon
<1>. HIDE DEF l, m
<1>3. Overlap(l, m.at, m.len) BY <1>1, Zenon DEF Overlap
<1>. QED BY <1>1, <1>2, <1>3, Mine, Zenon DEF Shared

\* In every behaviour of any number of processes that lock with fcntl, lockf
\* and flock in any mixture, the locks a caller was told it has are the ones
\* Windows holds for it between its calls, and no two callers rely on
\* overlapping locks of which one is exclusive.
THEOREM CallersHoldTheirClaims == Spec => []ClaimsHold
<1>1. Init => GuardInv /\ ClaimInv BY GuardInit, ClaimInit
<1>2. (GuardInv /\ ClaimInv) /\ [Next]_vars => (GuardInv /\ ClaimInv)'
      BY GuardStep, ClaimNext
<1>3. GuardInv /\ ClaimInv => ClaimsHold BY ClaimsAreLocked, ClaimsExclude DEF ClaimsHold
<1>. QED BY <1>1, <1>2, <1>3, PTL DEF Spec

-----------------------------------------------------------------------------
(* Mappings of files: mmap and munmap (src/mman.c).                          *)

(* Multiples of the granularity are ordered as their factors.                *)
LEMMA Monotone ==
    ASSUME NEW a \in Int, NEW b \in Int, NEW g \in Nat, a <= b
    PROVE  a * g <= b * g
<1>1. b - a \in Nat BY SMT
<1>2. (b - a) * g \in Nat BY <1>1
<1>3. (b - a) * g = b * g - a * g BY SMT
<1>. QED BY <1>2, <1>3

(* Rounding down gives the multiple of the granularity at or below a number.  *)
LEMMA RoundDownBounds ==
    ASSUME NEW x \in Nat
    PROVE  /\ RoundDown(x) \in Nat /\ RoundDown(x) <= x /\ x < RoundDown(x) + Gran
<1>1. Gran \in Nat \ {0} BY MappingAssumption
<1>2. x \div Gran \in Nat /\ (x \div Gran) * Gran + (x % Gran) = x /\ (x % Gran) \in 0..Gran - 1
      BY <1>1
<1>3. (x \div Gran) * Gran \in Nat BY <1>1, <1>2
<1>. QED BY <1>1, <1>2, <1>3 DEF RoundDown

(* An address less than a granularity above a multiple rounds down to it.     *)
LEMMA RoundDownFinds ==
    ASSUME NEW b \in Nat, b % Gran = 0, NEW x \in Nat, b <= x, x < b + Gran
    PROVE  RoundDown(x) = b
<1>1. Gran \in Nat \ {0} BY MappingAssumption
<1>. DEFINE q == b \div Gran
            r == x \div Gran
<1>2. q \in Nat /\ q * Gran = b
  <2>1. q \in Nat /\ q * Gran + (b % Gran) = b BY <1>1
  <2>2. q * Gran \in Nat BY <1>1, <2>1
  <2>. QED BY <2>1, <2>2
<1>3. r \in Nat /\ r * Gran <= x /\ x < r * Gran + Gran
      BY RoundDownBounds, <1>1 DEF RoundDown
<1>. HIDE DEF q, r
<1>4. ~(r < q)
  <2>1. SUFFICES ASSUME r < q PROVE FALSE OBVIOUS
  <2>2. r + 1 \in Int /\ r + 1 <= q BY <1>2, <1>3, <2>1
  <2>3. (r + 1) * Gran <= q * Gran BY <1>1, <1>2, <2>2, Monotone
  <2>4. (r + 1) * Gran = r * Gran + Gran BY <1>1, <1>3
  <2>5. r * Gran \in Int BY <1>1, <1>3
  <2>. QED BY <1>1, <1>2, <1>3, <2>3, <2>4, <2>5
<1>5. ~(q < r)
  <2>1. SUFFICES ASSUME q < r PROVE FALSE OBVIOUS
  <2>2. q + 1 \in Int /\ q + 1 <= r BY <1>2, <1>3, <2>1
  <2>3. (q + 1) * Gran <= r * Gran BY <1>1, <1>3, <2>2, Monotone
  <2>4. (q + 1) * Gran = q * Gran + Gran BY <1>1, <1>2
  <2>5. r * Gran \in Int BY <1>1, <1>3
  <2>. QED BY <1>1, <1>2, <1>3, <2>3, <2>4, <2>5
<1>6. r = q BY <1>2, <1>3, <1>4, <1>5
<1>7. RoundDown(x) = r * Gran BY DEF RoundDown, r
<1>. QED BY <1>2, <1>6, <1>7
-----------------------------------------------------------------------------
MapOK(m) ==
    /\ m \in [addr : Nat, len : Nat \ {0}, base : Nat]
    /\ m.base % Gran = 0 /\ m.base <= m.addr /\ m.addr < m.base + Gran

(* What the invariants need of a step: no two mappings share a base, and views *)
(* are not empty, so that a place found apart from them has another base.      *)
MapInv ==
    /\ \A m \in maps : MapOK(m)
    /\ \A v \in views : v \in [base : Nat, size : Nat \ {0}]
    /\ \A m1, m2 \in maps : m1.base = m2.base => m1 = m2
    /\ InsideLiveView
    /\ \A v \in views : \E m \in maps : m.base = v.base

(* Every mapping's address rounds down to its view.                           *)
LEMMA Rounds == MapInv => \A m \in maps : RoundDown(m.addr) = m.base
  BY RoundDownFinds DEF MapInv, MapOK

LEMMA MmapKeeps ==
    ASSUME MapInv, NEW off \in MapOffsets, NEW len \in MapLengths, wpdk_mmap(off, len)
    PROVE  MapInv'
<1>1. off \in Nat /\ len \in Nat \ {0} /\ Gran \in Nat \ {0} BY MappingAssumption
<1>4. PICK b \in MapPlaces : MapAt(off, len, b) BY DEF wpdk_mmap
<1>. DEFINE start == RoundDown(off)
            size == off + len - start
<1>2. start \in Nat /\ start <= off /\ off < start + Gran BY <1>1, RoundDownBounds
<1>16. /\ \A v \in views : Apart(v, b, size)
       /\ views' = views \cup {[base |-> b, size |-> size]}
       /\ maps' = maps \cup {[addr |-> b + (off - start), len |-> len, base |-> b]}
       BY <1>4 DEF MapAt, ViewSize
<1>. HIDE DEF start
<1>3. size \in Nat \ {0} /\ len <= size - (off - start) BY <1>1, <1>2
<1>. DEFINE w == [base |-> b, size |-> size]
            n == [addr |-> b + (off - start), len |-> len, base |-> b]
<1>5. b \in Nat /\ b % Gran = 0 BY MappingAssumption
<1>6. MapOK(n) BY <1>1, <1>2, <1>5 DEF MapOK
<1>7. w \in [base : Nat, size : Nat \ {0}] BY <1>3, <1>5
<1>8. \A v \in views : v.base # b
  <2>1. SUFFICES ASSUME NEW v \in views, v.base = b PROVE FALSE OBVIOUS
  <2>2. v.base \in Nat /\ v.size \in Nat \ {0} BY DEF MapInv
  <2>3. Apart(v, b, size) BY <1>16
  <2>. HIDE DEF size
  <2>. QED BY <1>3, <1>5, <2>1, <2>2, <2>3 DEF Apart
<1>9. \A m \in maps : m.base # b BY <1>8 DEF MapInv, InsideLiveView
<1>10. w.base = n.base /\ w.base <= n.addr /\ n.addr + n.len <= w.base + w.size
       BY <1>1, <1>2, <1>3, <1>5
<1>11. (\A m \in maps : MapOK(m))' BY <1>16, <1>6 DEF MapInv, MapOK
<1>12. (\A v \in views : v \in [base : Nat, size : Nat \ {0}])' BY <1>16, <1>7 DEF MapInv
<1>13. (\A m1, m2 \in maps : m1.base = m2.base => m1 = m2)' BY <1>16, <1>9 DEF MapInv
<1>14. InsideLiveView' BY <1>16, <1>10 DEF MapInv, InsideLiveView
<1>15. (\A v \in views : \E m \in maps : m.base = v.base)'
  <2>1. n \in maps' /\ n.base = b BY <1>16
  <2>2. w.base = b OBVIOUS
  <2>3. \A v \in views' : v \in views \/ v = w BY <1>16
  <2>4. maps \subseteq maps' BY <1>16
  <2>. HIDE DEF n, w
  <2>. QED BY <2>1, <2>2, <2>3, <2>4 DEF MapInv
<1>. QED BY <1>11, <1>12, <1>13, <1>14, <1>15 DEF MapInv

LEMMA MunmapKeeps ==
    ASSUME MapInv, NEW m \in maps, wpdk_munmap(m)
    PROVE  MapInv'
<1>1. /\ views' = {v \in views : v.base # m.base}
      /\ maps' = maps \ {m}
      BY Rounds DEF wpdk_munmap
<1>2. \A n \in maps : n # m => n.base # m.base BY DEF MapInv
<1>3. (\A n \in maps : MapOK(n))' BY <1>1 DEF MapInv, MapOK
<1>4. (\A v \in views : v \in [base : Nat, size : Nat \ {0}])' BY <1>1 DEF MapInv
<1>5. (\A m1, m2 \in maps : m1.base = m2.base => m1 = m2)' BY <1>1 DEF MapInv
<1>6. InsideLiveView' BY <1>1, <1>2 DEF MapInv, InsideLiveView
<1>7. (\A v \in views : \E n \in maps : n.base = v.base)' BY <1>1 DEF MapInv
<1>. QED BY <1>3, <1>4, <1>5, <1>6, <1>7 DEF MapInv

LEMMA MapInvHolds == MapSpec => []MapInv
<1>1. MapInit => MapInv BY DEF MapInit, MapInv, InsideLiveView
<1>2. MapInv /\ [MapNext]_mapVars => MapInv'
  <2>. SUFFICES ASSUME MapInv, [MapNext]_mapVars PROVE MapInv' OBVIOUS
  <2>1. CASE UNCHANGED mapVars BY <2>1 DEF mapVars, MapInv, InsideLiveView, MapOK
  <2>2. CASE \E off \in MapOffsets, len \in MapLengths : wpdk_mmap(off, len) BY <2>2, MmapKeeps
  <2>3. CASE \E off \in MapOffsets, len \in MapLengths : MapFails(off, len)
        BY <2>3 DEF MapFails, MapInv, InsideLiveView, MapOK
  <2>4. CASE \E m \in maps : wpdk_munmap(m) BY <2>4, MunmapKeeps
  <2>. QED BY <2>1, <2>2, <2>3, <2>4 DEF MapNext
<1>. QED BY <1>1, <1>2, PTL DEF MapSpec

(* For every granularity and every choice of addresses by Windows, a mapping  *)
(* stays inside a live view until it is unmapped itself, and munmap finds the *)
(* view that mmap made for the address, and leaves none.                      *)
THEOREM MappingsStaySound == MapSpec => []MappingsSound
<1>1. MapInv => InsideLiveView BY DEF MapInv
<1>2. MapInv => UnmapsItsView BY Rounds DEF MapInv, UnmapsItsView
<1>3. MapInv => MappingsSound BY <1>1, <1>2 DEF MappingsSound
<1>. QED BY <1>3, MapInvHolds, PTL
=============================================================================
