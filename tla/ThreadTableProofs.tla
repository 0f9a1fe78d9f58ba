------------------------- MODULE ThreadTableProofs -------------------------
(***************************************************************************)
(* The thread table for every number of structs, callers, ids and slots.   *)
(* First the types, for every client behaviour, and memory safety, for     *)
(* every one but pthread_detach(0); then handles and searches by id, under *)
(* the same clients; then what joins return.                               *)
(*                                                                         *)
(* Memory safety follows from Ownership, which every step keeps.           *)
(* Each lemma about a step first says what the step does to Creating,      *)
(* Unread, Frees and InTable, and then proves the conjuncts of Ownership   *)
(* from that: the steps of pthread_create first, then those of starting    *)
(* threads, joins and detaches.                                            *)
(***************************************************************************)
EXTENDS ThreadTable, TLAPS

LEMMA ZeroedType == Zeroed \in Thread
BY MaxThreadsAssumption DEF Zeroed, Thread, Ref, Slots

LEMMA NoCallType == NoCall \in Locals
BY Zenon DEF NoCall, Locals, Ref, Codes

\* The parts of TypeOK the steps below start from, the pointers apart.
LEMMA Typing ==
    ASSUME TypeOK
    PROVE  /\ mem \in [Structs -> {"unused", "live", "freed"}]
           /\ heap \in [Structs -> Thread]
           /\ table \in [Slots -> Ref]
           /\ hwm \in 0 .. maxthreads
           /\ os \in [Structs -> {"none", "suspended", "runnable", "terminated"}]
           /\ tid \in [Structs -> Ids \cup {0}]
           /\ hopen \in [Structs -> BOOLEAN]
           /\ pc \in [Procs -> Labels]
           /\ loc \in [Procs -> Locals]
           /\ info \in [Structs -> Slots \cup {-1}]
           /\ PointersOK
BY Zenon DEF TypeOK

\* What wpdk_detach_thread does to the variables it changes.
LEMMA DetachThreadType ==
    ASSUME TypeOK, NEW p \in Procs, NEW l \in Locals, NEW found \in Codes, NEW missing \in Codes,
           DetachThread(p, l, found, missing)
    PROVE  /\ heap' \in [Structs -> Thread]
           /\ table' \in [Slots -> Ref]
           /\ pc' \in [Procs -> Labels]
           /\ loc' \in [Procs -> Locals]
           /\ PointersOK'
<1>1. CASE \E i \in Slots : Located(i, l.index, IdOf(l.tgt)) /\
             LET c == table[i] IN
              /\ heap' = [heap EXCEPT ![c] = [heap[c] EXCEPT !.index = -1]]
              /\ table' = [table EXCEPT ![i] = NULL]
              /\ loc' = [loc EXCEPT ![p] =
                   [l EXCEPT !.ptr = c, !.start = heap[c].start, !.h = heap[c].h, !.rc = found,
                             !.val = IF l.op = "join" THEN heap[c].result ELSE NULL]]
              /\ Goto(p, "close")
  <2>0. PICK i \in Slots :
         /\ Located(i, l.index, IdOf(l.tgt))
         /\ heap' = [heap EXCEPT ![table[i]] = [heap[table[i]] EXCEPT !.index = -1]]
         /\ table' = [table EXCEPT ![i] = NULL]
         /\ loc' = [loc EXCEPT ![p] =
              [l EXCEPT !.ptr = table[i], !.start = heap[table[i]].start, !.h = heap[table[i]].h,
                        !.rc = found,
                        !.val = IF l.op = "join" THEN heap[table[i]].result ELSE NULL]]
         /\ Goto(p, "close")
    BY <1>1, Zenon
  <2>1. PICK c \in Structs : c = table[i]
    BY <2>0, Typing, Zenon DEF Located, First, Holds, Ref
  <2>2. heap[c] \in Thread /\ [heap[c] EXCEPT !.index = -1] \in Thread
    <3>1. heap[c] \in Thread
      BY Typing, Zenon
    <3>. QED
      BY <3>1, Zenon DEF Thread
  <2>3. heap' \in [Structs -> Thread]
    <3>1. heap' = [heap EXCEPT ![c] = [heap[c] EXCEPT !.index = -1]]
      BY <2>0, <2>1, Zenon
    <3>. QED
      BY <3>1, <2>2, Typing, Zenon
  <2>4. PICK l2 \in Locals : l2.ptr = c /\ loc' = [loc EXCEPT ![p] = l2]
    <3>1. PICK val \in Ref : val = IF l.op = "join" THEN heap[c].result ELSE NULL
      BY <2>2, Zenon DEF Thread, Ref
    <3>2. c \in Ref /\ heap[c].start \in BOOLEAN /\ heap[c].h \in Ref
      BY <2>2, Zenon DEF Thread, Ref
    <3>3. LET r == [l EXCEPT !.ptr = c, !.start = heap[c].start, !.h = heap[c].h,
                              !.rc = found, !.val = val]
          IN  r \in Locals /\ r.ptr = c
      BY <3>2, Zenon DEF Locals
    <3>. QED
      BY <2>0, <2>1, <3>1, <3>3, Zenon
  <2>6. loc' \in [Procs -> Locals]
    BY <2>4, Typing, Zenon
  <2>7. pc' = [pc EXCEPT ![p] = "close"] /\ pc' \in [Procs -> Labels]
    BY <2>0, Typing, Zenon DEF Goto, Labels
  <2>8. PointersOK'
    BY <2>4, <2>7, Typing, Zenon DEF PointersOK
  <2>9. table' \in [Slots -> Ref]
    BY <2>0, Typing, Zenon DEF Ref
  <2>. QED
    BY <2>3, <2>6, <2>7, <2>8, <2>9, Zenon
<1>2. CASE Leave(p, l, missing) /\ UNCHANGED <<heap, table>>
  <2>1. [l EXCEPT !.rc = missing] \in Locals
    BY Zenon DEF Locals
  <2>2. pc' = [pc EXCEPT ![p] = "return"] /\ loc' = [loc EXCEPT ![p] = [l EXCEPT !.rc = missing]]
    BY <1>2, Zenon DEF Leave, Goto
  <2>3. pc' \in [Procs -> Labels] /\ loc' \in [Procs -> Locals]
    BY <2>1, <2>2, Typing, Zenon DEF Labels
  <2>4. PointersOK'
    BY <2>2, Typing, Zenon DEF PointersOK
  <2>. QED
    BY <1>2, <2>3, <2>4, Typing, Zenon
<1>. QED
  BY <1>1, <1>2, Zenon DEF DetachThread

\* Every step keeps the variables of the thread table in their types: in
\* particular index, hwmthreads and the slots a search returns stay in range,
\* and no call goes on with a null pointer or handle.
LEMMA TypeStep == TypeOK /\ [Next]_vars => TypeOK'
<1> SUFFICES ASSUME TypeOK, [Next]_vars PROVE TypeOK'
  OBVIOUS
<1>1. ASSUME NEW p \in Procs, CreateNoMemory(p) PROVE TypeOK'
  <2>1. pc' = [pc EXCEPT ![p] = "return"]
        /\ loc' = [loc EXCEPT ![p] = [[NoCall EXCEPT !.op = "create"] EXCEPT !.rc = "ENOMEM"]]
    BY <1>1, Zenon DEF CreateNoMemory, Leave, Goto
  <2>2. [[NoCall EXCEPT !.op = "create"] EXCEPT !.rc = "ENOMEM"] \in Locals
    BY Zenon DEF NoCall, Locals, Codes, Ref
  <2>3. loc' \in [Procs -> Locals] /\ pc' \in [Procs -> Labels]
    BY <2>1, <2>2, Typing, Zenon DEF Labels
  <2>4. PointersOK'
    BY <2>1, Typing, Zenon DEF PointersOK
  <2>. QED
    BY <1>1, <2>3, <2>4, Zenon DEF CreateNoMemory, TypeOK, tableVars, osVars
<1>2. ASSUME NEW p \in Procs, NEW c \in Structs, CreateAllocate(p, c) PROVE TypeOK'
  <2>1. PICK i \in Slots :
          /\ table' = [table EXCEPT ![i] = c]
          /\ heap' = [heap EXCEPT ![c] = [Zeroed EXCEPT !.index = i]]
          /\ hwm' = IF i >= hwm THEN i + 1 ELSE hwm
    BY <1>2, Zenon DEF CreateAllocate
  <2>2. [Zeroed EXCEPT !.index = i] \in Thread
    BY Zenon DEF Zeroed, Thread, Ref
  <2>3. heap' \in [Structs -> Thread] /\ table' \in [Slots -> Ref]
    BY <2>1, <2>2, Typing, Zenon DEF Ref
  <2>4. hwm' \in 0 .. maxthreads
    BY <2>1, Typing, MaxThreadsAssumption DEF Slots
  <2>5. PICK l \in Locals : l.ptr = c /\ loc' = [loc EXCEPT ![p] = l]
    <3>1. [NoCall EXCEPT !.op = "create", !.ptr = c] \in Locals
          /\ [NoCall EXCEPT !.op = "create", !.ptr = c].ptr = c
      BY Zenon DEF NoCall, Locals, Codes, Ref
    <3>. QED
      BY <1>2, <3>1, Zenon DEF CreateAllocate
  <2>6. loc' \in [Procs -> Locals]
    BY <2>5, Typing, Zenon
  <2>7. pc' = [pc EXCEPT ![p] = "c_start"] /\ pc' \in [Procs -> Labels]
    BY <1>2, Typing, Zenon DEF CreateAllocate, Goto, Labels
  <2>8. PointersOK'
    BY <2>5, <2>7, Typing, Zenon DEF PointersOK
  <2>. QED
    BY <1>2, <2>3, <2>4, <2>6, <2>7, <2>8, Zenon DEF CreateAllocate, TypeOK, osVars
<1>3. ASSUME NEW p \in Procs, NEW c \in Structs, CreateTableFull(p, c) PROVE TypeOK'
  <2>5. PICK l \in Locals : l.ptr = c /\ loc' = [loc EXCEPT ![p] = l]
    <3>1. [NoCall EXCEPT !.op = "create", !.ptr = c, !.rc = "EMFILE"] \in Locals
          /\ [NoCall EXCEPT !.op = "create", !.ptr = c, !.rc = "EMFILE"].ptr = c
      BY Zenon DEF NoCall, Locals, Codes, Ref
    <3>. QED
      BY <1>3, <3>1, Zenon DEF CreateTableFull
  <2>6. loc' \in [Procs -> Locals]
    BY <2>5, Typing, Zenon
  <2>7. pc' = [pc EXCEPT ![p] = "free"] /\ pc' \in [Procs -> Labels]
    BY <1>3, Typing, Zenon DEF CreateTableFull, Goto, Labels
  <2>8. PointersOK'
    BY <2>5, <2>7, Typing, Zenon DEF PointersOK
  <2>. QED
    BY <1>3, <2>6, <2>7, <2>8, Zenon DEF CreateTableFull, TypeOK, tableVars, osVars
<1>4. ASSUME NEW p \in Procs, CreateSetStart(p) PROVE TypeOK'
  <2>1. PICK c \in Structs : c = loc[p].ptr
    BY <1>4, Typing, Zenon DEF CreateSetStart, PointersOK
  <2>. heap[c] \in Thread
    BY Typing, Zenon
  <2>2. [heap[c] EXCEPT !.start = TRUE] \in Thread
    BY Zenon DEF Thread
  <2>3. heap' \in [Structs -> Thread]
    BY <1>4, <2>1, <2>2, Typing, Zenon DEF CreateSetStart
  <2>4. pc' = [pc EXCEPT ![p] = "c_begin"] /\ loc' = loc /\ pc' \in [Procs -> Labels]
    BY <1>4, Typing, Zenon DEF CreateSetStart, Goto, Labels
  <2>5. PointersOK'
    BY <2>1, <2>4, Typing, Zenon DEF PointersOK
  <2>. QED
    BY <1>4, <2>3, <2>4, <2>5, Zenon DEF CreateSetStart, TypeOK, tableVars, osVars
<1>5. ASSUME NEW p \in Procs, CreateBegin(p) PROVE TypeOK'
  <2>1. PICK c \in Structs : c = loc[p].ptr
    BY <1>5, Typing, Zenon DEF CreateBegin, PointersOK
  <2>2. PICK det \in BOOLEAN :
          \/ /\ \E id \in Ids : tid' = [tid EXCEPT ![c] = id]
             /\ os' = [os EXCEPT ![c] = "suspended"]
             /\ hopen' = [hopen EXCEPT ![c] = TRUE]
             /\ loc' = [loc EXCEPT ![p] = [loc[p] EXCEPT !.det = det, !.h = c]]
             /\ claimed' \subseteq claimed \cup {c}
          \/ /\ loc' = [loc EXCEPT ![p] = [loc[p] EXCEPT !.det = det, !.rc = "EAGAIN"]]
             /\ os' = os /\ tid' = tid /\ hopen' = hopen /\ claimed' = claimed
    BY <1>5, <2>1, Zenon DEF CreateBegin, NewIds, Claim, osVars
  <2>3. PICK l \in Locals : l.ptr = c /\ loc' = [loc EXCEPT ![p] = l]
    <3>. loc[p] \in Locals
      BY Typing, Zenon
    <3>1. /\ [loc[p] EXCEPT !.det = det, !.h = c] \in Locals
          /\ [loc[p] EXCEPT !.det = det, !.rc = "EAGAIN"] \in Locals
          /\ [loc[p] EXCEPT !.det = det, !.h = c].ptr = c
          /\ [loc[p] EXCEPT !.det = det, !.rc = "EAGAIN"].ptr = c
      BY <2>1, Zenon DEF Locals, Codes, Ref
    <3>. QED
      BY <2>2, <3>1, Zenon
  <2>4. loc' \in [Procs -> Locals]
    BY <2>3, Typing, Zenon
  <2>5. /\ os' \in [Structs -> {"none", "suspended", "runnable", "terminated"}]
        /\ hopen' \in [Structs -> BOOLEAN]
    BY <2>2, Typing, Zenon
  <2>6. tid' \in [Structs -> Ids \cup {0}]
    BY <2>2, Typing, Zenon
  <2>7. claimed' \subseteq Structs
    BY <2>1, <2>2, Zenon DEF TypeOK
  <2>8. pc' = [pc EXCEPT ![p] = "c_info"] /\ pc' \in [Procs -> Labels]
    BY <1>5, Typing, Zenon DEF CreateBegin, Goto, Labels
  <2>9. PointersOK'
    BY <2>3, <2>8, Typing, Zenon DEF PointersOK
  <2>. QED
    BY <1>5, <2>4, <2>5, <2>6, <2>7, <2>8, <2>9, Zenon DEF CreateBegin, TypeOK, tableVars
<1>6. ASSUME NEW p \in Procs, CreateSetInfo(p) PROVE TypeOK'
  <2>1. PICK c \in Structs : c = loc[p].ptr
    BY <1>6, Typing, Zenon DEF CreateSetInfo, PointersOK
  <2>2. PICK h \in Ref : h = IF loc[p].det THEN NULL ELSE loc[p].h
    BY Typing, Zenon DEF Locals, Ref
  <2>3. PICK id \in Ids \cup {0} :
          heap' = [heap EXCEPT ![c] = [heap[c] EXCEPT !.id = id, !.h = h,
                                        !.index = IF h = NULL THEN -1 ELSE heap[c].index]]
    BY <1>6, <2>1, <2>2, Zenon DEF CreateSetInfo
  <2>. heap[c] \in Thread
    BY Typing, Zenon
  <2>4. [heap[c] EXCEPT !.id = id, !.h = h,
                         !.index = IF h = NULL THEN -1 ELSE heap[c].index] \in Thread
    BY Zenon DEF Thread
  <2>5. heap' \in [Structs -> Thread]
    BY <2>3, <2>4, Typing, Zenon
  <2>6. table' \in [Slots -> Ref]
    BY <1>6, Typing, Zenon DEF CreateSetInfo, Ref
  <2>7. loc' = loc /\ pc' = [pc EXCEPT ![p] = IF loc[p].h = NULL THEN "free" ELSE "c_resume"]
    BY <1>6, Zenon DEF CreateSetInfo, Goto
  <2>8. pc' \in [Procs -> Labels]
    BY <2>7, Typing, Zenon DEF Labels
  <2>9. PointersOK'
    <3>1. loc[p].h \in Ref
      BY Typing, Zenon DEF Locals
    <3>. QED
      BY <2>1, <2>7, <3>1, Typing, Zenon DEF PointersOK, Ref
  <2>. QED
    BY <1>6, <2>5, <2>6, <2>8, <2>9, Zenon DEF CreateSetInfo, TypeOK, osVars
<1>7. ASSUME NEW p \in Procs, CreateResume(p) PROVE TypeOK'
  <2>1. pc' = [pc EXCEPT ![p] = IF loc[p].det THEN "c_close" ELSE "return"] /\ loc' = loc
    BY <1>7, Zenon DEF CreateResume, Goto
  <2>2. pc' \in [Procs -> Labels]
    BY <2>1, Typing, Zenon DEF Labels
  <2>3. PointersOK'
    BY <1>7, <2>1, Typing, Zenon DEF PointersOK, CreateResume
  <2>. QED
    BY <1>7, <2>2, <2>3, Zenon DEF CreateResume, TypeOK, tableVars
<1>8. ASSUME NEW p \in Procs, CreateClose(p) PROVE TypeOK'
  <2>1. pc' = [pc EXCEPT ![p] = "return"] /\ loc' = loc /\ pc' \in [Procs -> Labels]
    BY <1>8, Typing, Zenon DEF CreateClose, Goto, Labels
  <2>2. PointersOK'
    BY <2>1, Typing, Zenon DEF PointersOK
  <2>. QED
    BY <1>8, <2>1, <2>2, Zenon DEF CreateClose, TypeOK, tableVars
<1>9. ASSUME NEW p \in Procs, DetachClose(p) PROVE TypeOK'
  <2>1. pc' = [pc EXCEPT ![p] = IF loc[p].start THEN "return" ELSE "free"] /\ loc' = loc
    BY <1>9, Zenon DEF DetachClose, Goto
  <2>2. pc' \in [Procs -> Labels]
    BY <2>1, Typing, Zenon DEF Labels
  <2>3. PointersOK'
    BY <1>9, <2>1, Typing, Zenon DEF PointersOK, DetachClose
  <2>. QED
    BY <1>9, <2>2, <2>3, Zenon DEF DetachClose, TypeOK, tableVars
<1>10. ASSUME NEW p \in Procs, FreeStruct(p) PROVE TypeOK'
  <2>1. pc' = [pc EXCEPT ![p] = "return"] /\ loc' = loc /\ pc' \in [Procs -> Labels]
    BY <1>10, Typing, Zenon DEF FreeStruct, Goto, Labels
  <2>2. PointersOK'
    BY <2>1, Typing, Zenon DEF PointersOK
  <2>3. heap' \in [Structs -> Thread] /\ mem' \in [Structs -> {"unused", "live", "freed"}]
    BY <1>10, ZeroedType, Typing, Zenon DEF FreeStruct, Free
  <2>. QED
    BY <1>10, <2>1, <2>2, <2>3, Zenon DEF FreeStruct, TypeOK, tableVars, osVars
<1>11. ASSUME NEW p \in Procs, NEW t \in Ref, PthreadDetach(p, t) PROVE TypeOK'
  <2>1. [NoCall EXCEPT !.op = "detach", !.tgt = t] \in Locals
    BY Zenon DEF NoCall, Locals, Codes, Ref
  <2>2. /\ heap' \in [Structs -> Thread] /\ table' \in [Slots -> Ref]
        /\ pc' \in [Procs -> Labels] /\ loc' \in [Procs -> Locals] /\ PointersOK'
    <3>1. "0" \in Codes /\ "EINVAL" \in Codes
      BY Zenon DEF Codes
    <3>2. DetachThread(p, [NoCall EXCEPT !.op = "detach", !.tgt = t], "0", "EINVAL")
      BY <1>11, Zenon DEF PthreadDetach
    <3>. QED
      BY <2>1, <3>1, <3>2, DetachThreadType, Zenon
  <2>3. claimed' \subseteq Structs
    BY <1>11, Zenon DEF PthreadDetach, Claim, TypeOK, Ref
  <2>. QED
    BY <1>11, <2>2, <2>3, Zenon DEF PthreadDetach, TypeOK, osVars
<1>12. ASSUME NEW p \in Procs, NEW t \in Structs, PthreadJoin(p, t) PROVE TypeOK'
  <2>1. CASE \E i \in Slots :
          /\ First(i, tid[t])
          /\ loc' = [loc EXCEPT ![p] = [[NoCall EXCEPT !.op = "join", !.tgt = t]
                                          EXCEPT !.h = heap[table[i]].h, !.index = i]]
          /\ Goto(p, "j_wait")
    <3>1. PICK i \in Slots :
          /\ First(i, tid[t])
          /\ loc' = [loc EXCEPT ![p] = [[NoCall EXCEPT !.op = "join", !.tgt = t]
                                          EXCEPT !.h = heap[table[i]].h, !.index = i]]
          /\ Goto(p, "j_wait")
      BY <2>1, Zenon
    <3>2. table[i] \in Structs
      BY <3>1, Typing, Zenon DEF First, Holds, Ref
    <3>3. PICK h \in Ref : h = heap[table[i]].h
      BY <3>2, Typing, Zenon DEF Thread
    <3>4. PICK l \in Locals : l.tgt = t /\ loc' = [loc EXCEPT ![p] = l]
      <4>1. LET l == [[NoCall EXCEPT !.op = "join", !.tgt = t] EXCEPT !.h = h, !.index = i]
            IN  l \in Locals /\ l.tgt = t
        BY Zenon DEF NoCall, Locals, Codes, Ref
      <4>. QED
        BY <3>1, <3>3, <4>1, Zenon
    <3>5. loc' \in [Procs -> Locals]
      BY <3>4, Typing, Zenon
    <3>6. pc' = [pc EXCEPT ![p] = "j_wait"] /\ pc' \in [Procs -> Labels]
      BY <3>1, Typing, Zenon DEF Goto, Labels
    <3>7. PointersOK'
      BY <3>4, <3>6, Typing, Zenon DEF PointersOK
    <3>8. claimed' \subseteq Structs
      BY <1>12, Zenon DEF PthreadJoin, Claim, TypeOK
    <3>. QED
      BY <1>12, <3>5, <3>6, <3>7, <3>8, Zenon DEF PthreadJoin, TypeOK, tableVars, osVars
  <2>2. CASE Leave(p, [NoCall EXCEPT !.op = "join", !.tgt = t], "EINVAL")
    <3>1. [[NoCall EXCEPT !.op = "join", !.tgt = t] EXCEPT !.rc = "EINVAL"] \in Locals
      BY Zenon DEF NoCall, Locals, Codes, Ref
    <3>2. loc' \in [Procs -> Locals]
      BY <2>2, <3>1, Typing, Zenon DEF Leave
    <3>3. pc' = [pc EXCEPT ![p] = "return"] /\ pc' \in [Procs -> Labels]
      BY <2>2, Typing, Zenon DEF Leave, Goto, Labels
    <3>4. PointersOK'
      BY <2>2, <3>3, Typing, Zenon DEF Leave, PointersOK
    <3>5. claimed' \subseteq Structs
      BY <1>12, Zenon DEF PthreadJoin, Claim, TypeOK
    <3>. QED
      BY <1>12, <3>2, <3>3, <3>4, <3>5, Zenon DEF PthreadJoin, TypeOK, tableVars, osVars
  <2>. QED
    BY <1>12, <2>1, <2>2, Zenon DEF PthreadJoin
<1>13. ASSUME NEW p \in Procs, JoinWait(p) PROVE TypeOK'
  <2>1. PICK l \in Locals : l.tgt = loc[p].tgt /\ loc' = [loc EXCEPT ![p] = l]
    <3>1. loc[p] \in Locals /\ loc = [loc EXCEPT ![p] = loc[p]]
      BY Typing, Zenon
    <3>2. \A rc \in {"0", "WAIT_FAILED"} :
            [loc[p] EXCEPT !.rc = rc] \in Locals /\ [loc[p] EXCEPT !.rc = rc].tgt = loc[p].tgt
      BY <3>1, Zenon DEF Locals, Codes
    <3>. QED
      BY <1>13, <3>1, <3>2, Zenon DEF JoinWait
  <2>2. loc' \in [Procs -> Locals]
    BY <2>1, Typing, Zenon
  <2>3. PICK label \in {"j_blocked", "j_detach"} : pc' = [pc EXCEPT ![p] = label]
    BY <1>13, Zenon DEF JoinWait, Goto
  <2>4. pc' \in [Procs -> Labels]
    BY <2>3, Typing, Zenon DEF Labels
  <2>5. PointersOK'
    BY <1>13, <2>1, <2>3, Typing, Zenon DEF PointersOK, JoinWait
  <2>. QED
    BY <1>13, <2>2, <2>4, <2>5, Zenon DEF JoinWait, TypeOK, tableVars, osVars
<1>14. ASSUME NEW p \in Procs, JoinAlerted(p) \/ JoinWake(p) PROVE TypeOK'
  <2>1. PICK label \in {"j_wait", "j_detach"} : pc' = [pc EXCEPT ![p] = label]
    BY <1>14, Zenon DEF JoinAlerted, JoinWake, Goto
  <2>2. pc' \in [Procs -> Labels]
    BY <2>1, Typing, Zenon DEF Labels
  <2>3. PointersOK'
    BY <1>14, <2>1, Typing, Zenon DEF PointersOK, JoinAlerted, JoinWake
  <2>. QED
    BY <1>14, <2>2, <2>3, Zenon DEF JoinAlerted, JoinWake, TypeOK, tableVars, osVars
<1>15. ASSUME NEW p \in Procs, JoinDetach(p) PROVE TypeOK'
  <2>1. PICK found \in Codes, missing \in Codes : DetachThread(p, loc[p], found, missing)
    BY <1>15, Zenon DEF JoinDetach, Codes
  <2>2. loc[p] \in Locals
    BY Typing, Zenon
  <2>3. /\ heap' \in [Structs -> Thread] /\ table' \in [Slots -> Ref]
        /\ pc' \in [Procs -> Labels] /\ loc' \in [Procs -> Locals] /\ PointersOK'
    BY <2>1, <2>2, DetachThreadType, Zenon
  <2>. QED
    BY <1>15, <2>3, Zenon DEF JoinDetach, TypeOK, osVars
<1>16. ASSUME NEW p \in Procs, Return(p) PROVE TypeOK'
  <2>1. pc' = [pc EXCEPT ![p] = "ready"] /\ loc' = [loc EXCEPT ![p] = NoCall]
    BY <1>16, Zenon DEF Return, Goto
  <2>2. pc' \in [Procs -> Labels] /\ loc' \in [Procs -> Locals]
    BY <2>1, NoCallType, Typing, Zenon DEF Labels
  <2>3. PointersOK'
    BY <2>1, Typing, Zenon DEF PointersOK
  <2>. QED
    BY <1>16, <2>2, <2>3, Zenon DEF Return, TypeOK, tableVars, osVars
<1>17. ASSUME NEW t \in Structs, ThreadStarting(t) PROVE TypeOK'
  <2>1. t \in Procs /\ pc' = [pc EXCEPT ![t] = IF heap[t].index = -1 THEN "t_free" ELSE "ready"] /\ loc' = loc
    BY <1>17, Zenon DEF ThreadStarting, Goto, Procs
  <2>2. heap[t] \in Thread /\ [heap[t] EXCEPT !.start = FALSE] \in Thread /\ heap[t].index \in Slots \cup {-1}
    <3>1. heap[t] \in Thread
      BY Typing, Zenon
    <3>. QED
      BY <3>1, Zenon DEF Thread
  <2>3. heap' \in [Structs -> Thread] /\ info' \in [Structs -> Slots \cup {-1}]
    BY <1>17, <2>2, Typing, Zenon DEF ThreadStarting
  <2>4. pc' \in [Procs -> Labels]
    BY <2>1, Typing, Zenon DEF Labels
  <2>5. PointersOK'
    BY <2>1, Typing, Zenon DEF PointersOK
  <2>. QED
    BY <1>17, <2>3, <2>4, <2>5, Zenon DEF ThreadStarting, TypeOK, tableVars, osVars
<1>18. ASSUME NEW t \in Structs, ThreadFree(t) PROVE TypeOK'
  <2>1. t \in Procs /\ pc' = [pc EXCEPT ![t] = "ready"] /\ loc' = loc /\ pc' \in [Procs -> Labels]
    BY <1>18, Typing, Zenon DEF ThreadFree, Goto, Labels, Procs
  <2>2. PointersOK'
    BY <2>1, Typing, Zenon DEF PointersOK
  <2>3. heap' \in [Structs -> Thread] /\ mem' \in [Structs -> {"unused", "live", "freed"}]
    BY <1>18, ZeroedType, Typing, Zenon DEF ThreadFree, Free
  <2>. QED
    BY <1>18, <2>1, <2>2, <2>3, Zenon DEF ThreadFree, TypeOK, tableVars, osVars
<1>19. ASSUME NEW t \in Structs, NEW index \in Slots \cup {-1}, ThreadDone(t, index) PROVE TypeOK'
  <2>1. t \in Procs /\ pc' = [pc EXCEPT ![t] = "t_exit"] /\ loc' = loc /\ pc' \in [Procs -> Labels]
    BY <1>19, Typing, Zenon DEF ThreadDone, Goto, Labels, Procs
  <2>2. PointersOK'
    BY <2>1, Typing, Zenon DEF PointersOK
  <2>3. ASSUME NEW c \in Structs PROVE heap[c] \in Thread /\ [heap[c] EXCEPT !.result = t] \in Thread
    <3>. heap[c] \in Thread
      BY Typing, Zenon
    <3>. QED
      BY Zenon DEF Thread, Ref
  <2>4. heap' \in [Structs -> Thread]
    BY <1>19, <2>3, Zenon DEF ThreadDone
  <2>. QED
    BY <1>19, <2>1, <2>2, <2>4, Zenon DEF ThreadDone, TypeOK, tableVars, osVars
<1>20. ASSUME NEW t \in Structs, ThreadEnd(t) PROVE TypeOK'
  <2>1. t \in Procs /\ pc' = [pc EXCEPT ![t] = "gone"] /\ loc' = loc /\ pc' \in [Procs -> Labels]
    BY <1>20, Typing, Zenon DEF ThreadEnd, Goto, Labels, Procs
  <2>2. PointersOK'
    BY <2>1, Typing, Zenon DEF PointersOK
  <2>. QED
    BY <1>20, <2>1, <2>2, Zenon DEF ThreadEnd, TypeOK, tableVars
<1>21. CASE UNCHANGED vars
  BY <1>21, Zenon DEF vars, TypeOK, PointersOK
<1>22. \A t \in Structs : info[t] \in Slots \cup {-1}
  BY Typing, Zenon
<1>. QED
  BY <1>1, <1>2, <1>3, <1>4, <1>5, <1>6, <1>7, <1>8, <1>9, <1>10, <1>11, <1>12, <1>13,
     <1>14, <1>15, <1>16, <1>17, <1>18, <1>19, <1>20, <1>21, <1>22, Zenon
     DEF Next, Call, Step, Lifecycle

LEMMA TypeInit == Init => TypeOK
<1> SUFFICES ASSUME Init PROVE TypeOK
  OBVIOUS
<1>1. heap \in [Structs -> Thread] /\ loc \in [Procs -> Locals]
  BY ZeroedType, NoCallType, Zenon DEF Init
<1>2. pc \in [Procs -> Labels] /\ PointersOK
  BY Zenon DEF Init, Labels, PointersOK
<1>. QED
  BY <1>1, <1>2, MaxThreadsAssumption DEF Init, TypeOK, Ref

\* The type invariant of the thread table holds in every reachable state.
THEOREM TypeCorrect == Spec => []TypeOK
BY TypeInit, TypeStep, PTL DEF Spec

-----------------------------------------------------------------------------

\* A struct calloc has not returned yet is in nobody's hands.
LEMMA Fresh ==
    ASSUME TypeOK, Ownership, NEW c \in Structs, mem[c] = "unused"
    PROVE  /\ os[c] = "none" /\ pc[c] = "start"
           /\ \A q \in Procs : ~Creating(q, c) /\ ~Frees(q, c)
           /\ \A j \in Slots : table[j] # c
<1>1. heap[c].index \in Slots \cup {-1}
  BY Typing, Zenon DEF Thread
<1>2. os[c] = "none" /\ pc[c] = "start"
  BY Zenon DEF Ownership, KernelInv
<1>3. \A j \in Slots : table[j] # c
  BY NamesAssumption, Zenon DEF Ownership, SlotsInv
<1>4. \A q \in Procs : ~Creating(q, c)
  BY <1>1, <1>3, Zenon DEF Ownership, CreatingInv, SetUp
<1>5. \A q \in Procs : ~Frees(q, c)
  BY Zenon DEF Ownership, FreesInv
<1>. QED
  BY <1>2, <1>3, <1>4, <1>5, Zenon

\* A step that leaves a struct and its creator alone leaves it set up.
LEMMA SetUpKept ==
    ASSUME NEW q \in Procs, NEW d \in Structs, SetUp(q, d),
           heap'[d] = heap[d], table'[heap[d].index] = table[heap[d].index],
           pc'[q] = pc[q], loc'[q] = loc[q], os'[d] = os[d],
           \A r \in Procs : Creating(r, d)' => Creating(r, d)
    PROVE  SetUp(q, d)'
BY Zenon DEF SetUp

\* A struct has one creator at most.
LEMMA OneCreator ==
    ASSUME Ownership, NEW p \in Procs, NEW q \in Procs, NEW c \in Structs, Creating(p, c), Creating(q, c)
    PROVE  p = q
<1>1. SetUp(p, c)
  BY Zenon DEF Ownership, CreatingInv
<1>. QED
  BY <1>1, Zenon DEF SetUp

\* A step that leaves the structs being created and their creators alone.
LEMMA CreatingKept ==
    ASSUME Ownership,
           \A q \in Procs, d \in Structs : Creating(q, d)' => Creating(q, d),
           \A q \in Procs, d \in Structs : Creating(q, d)' =>
             /\ heap'[d] = heap[d] /\ table'[heap[d].index] = table[heap[d].index]
             /\ pc'[q] = pc[q] /\ loc'[q] = loc[q] /\ os'[d] = os[d]
    PROVE  CreatingInv'
<1>. SUFFICES ASSUME NEW q \in Procs, NEW d \in Structs, Creating(q, d)' PROVE SetUp(q, d)'
  BY Zenon DEF CreatingInv
<1>1. SetUp(q, d)
  BY Zenon DEF Ownership, CreatingInv
<1>2. \A r \in Procs : Creating(r, d)' => Creating(r, d)
  OBVIOUS
<1>. QED
  BY <1>1, <1>2, SetUpKept, Zenon

\* A step that enters no call that waits for or resumes a thread.
LEMMA CallKept ==
    ASSUME TypeOK, Ownership,
           \A d \in Structs : os[d] # "none" => os'[d] # "none",
           \A q \in Procs, d \in Structs : Creating(q, d)' => Creating(q, d),
           \A q \in Procs : pc'[q] \in {"j_wait", "j_blocked", "j_detach", "c_resume"} =>
             pc'[q] = pc[q] /\ loc'[q] = loc[q]
    PROVE  CallInv'
<1>1. ASSUME NEW q \in Procs, pc'[q] \in {"j_wait", "j_blocked", "j_detach"}
      PROVE  os'[loc'[q].tgt] # "none"
  <2>1. pc[q] = pc'[q] /\ loc'[q].tgt = loc[q].tgt
    BY <1>1, Zenon
  <2>2. loc[q].tgt \in Structs /\ os[loc[q].tgt] # "none"
    BY <1>1, <2>1, Typing, Zenon DEF PointersOK, Ownership, CallInv
  <2>. QED
    BY <2>1, <2>2, Zenon
<1>2. ASSUME NEW q \in Procs, pc'[q] = "c_resume"
      PROVE  os'[loc'[q].h] # "none" /\ \A r \in Procs : ~Creating(r, loc[q].h)'
  <2>1. pc[q] = "c_resume" /\ loc'[q].h = loc[q].h
    BY <1>2, Zenon
  <2>2. PICK d \in Structs : d = loc[q].h
    BY <2>1, Typing, Zenon DEF PointersOK
  <2>3. os[d] # "none" /\ \A r \in Procs : ~Creating(r, d)
    BY <2>1, <2>2, Zenon DEF Ownership, CallInv, Creating
  <2>4. \A r \in Procs : ~Creating(r, d)'
    BY <2>3, Zenon
  <2>. QED
    BY <2>1, <2>2, <2>3, <2>4 DEF Creating
<1>. QED
  BY <1>1, <1>2, Zenon DEF CallInv

\* A step that creates, starts and resumes no thread.
LEMMA KernelKept ==
    ASSUME Ownership, os' = os, tid' = tid,
           \A d \in Structs : mem'[d] = "unused" => mem[d] = "unused",
           \A d \in Structs : pc'[d] # "start" => pc[d] # "start"
    PROVE  KernelInv'
BY Zenon DEF Ownership, KernelInv

\* A step that leaves the structs of threads yet to read them where they are.
LEMMA UnreadKept ==
    ASSUME TypeOK, Ownership,
           \A d \in Structs : Unread(d)' =>
             /\ Unread(d) /\ mem'[d] = mem[d] /\ heap'[d].start = heap[d].start
             /\ heap'[d].index = heap[d].index /\ \A j \in Slots : table[j] = d => table'[j] = d
    PROVE  UnreadInv'
<1>. SUFFICES ASSUME NEW d \in Structs, Unread(d)' PROVE Kept(d)'
  BY Zenon DEF UnreadInv
<1>1. Kept(d) /\ heap[d].index \in Slots \cup {-1}
  BY Typing, Zenon DEF Ownership, UnreadInv, Thread
<1>. QED
  BY <1>1 DEF Kept

\* A step after which a stored start routine is one stored before, of a
\* struct that is still being created or read.
LEMMA StartKept ==
    ASSUME TypeOK, TypeOK', Ownership,
           \A j \in Slots, d \in Structs : table'[j] = d /\ heap'[d].start =>
             \/ table[j] = d /\ heap[d].start /\ (Unread(d) => Unread(d)')
             \/ \E q \in Procs : Creating(q, d)',
           \A q \in Procs, d \in Structs : Creating(q, d) => Creating(q, d)'
    PROVE  StartInv'
<1>. SUFFICES ASSUME NEW j \in Slots, NEW d \in Structs, table'[j] = d, heap'[d].start
              PROVE  Unread(d)' \/ \E q \in Procs : Creating(q, d)'
  <2>1. \A i \in Slots : table'[i] \in Structs \cup {NULL}
    BY Zenon DEF TypeOK, Ref
  <2>. QED
    BY <2>1 DEF StartInv, Unread, Creating
<1>1. CASE table[j] = d /\ heap[d].start /\ (Unread(d) => Unread(d)')
  <2>1. Unread(d) \/ \E q \in Procs : Creating(q, d)
    BY <1>1, NamesAssumption, Zenon DEF Ownership, StartInv
  <2>. QED
    BY <1>1, <2>1, Zenon
<1>. QED
  BY <1>1, Zenon

\* Labels at which a process holds no struct.
Idle == {"ready", "return", "c_close", "j_wait", "j_blocked", "j_detach", "t_exit", "gone"}

\* A step between such labels that leaves the structs alone.
LEMMA QuietStep ==
    ASSUME TypeOK, TypeOK', Ownership, NEW p \in Procs, NEW label \in Idle,
           UNCHANGED <<mem, table, tid>>,
           \A c \in Structs :
             /\ heap'[c].id = heap[c].id /\ heap'[c].start = heap[c].start
             /\ heap'[c].index = heap[c].index
             /\ os'[c] = os[c] \/ (c = p /\ os'[c] = "terminated"),
           pc[p] \in Idle, pc' = [pc EXCEPT ![p] = label],
           \A q \in Procs : q # p => loc'[q] = loc[q],
           label \in {"j_wait", "j_blocked", "j_detach"} =>
             loc'[p].tgt \in Structs /\ os[loc'[p].tgt] # "none"
    PROVE  Ownership'
<1>0. pc \in [Procs -> Labels] /\ Structs \subseteq Procs /\ pc'[p] \in Idle /\ \A q \in Procs : q # p => pc'[q] = pc[q]
  BY Typing, Zenon DEF Procs
<1>1. \A q \in Procs, c \in Structs : Creating(q, c)' <=> Creating(q, c)
  BY <1>0, Zenon DEF Creating, Idle
<1>2. \A c \in Structs : Unread(c)' <=> Unread(c)
  BY <1>0, Zenon DEF Unread, Idle
<1>3. \A q \in Procs, c \in Structs : Frees(q, c)' <=> Frees(q, c)
  BY <1>0, <1>2, Zenon DEF Frees, Idle
<1>4. \A c \in Structs : InTable(c)' <=> InTable(c)
  BY Zenon DEF InTable
<1>5. SlotsInv'
  BY Typing DEF Ownership, SlotsInv, Ref
<1>6. KernelInv'
  BY <1>0 DEF Ownership, KernelInv, Idle
<1>7. CreatingInv'
  <2>1. \A q \in Procs : p \in Structs => ~Creating(q, p)
    BY Zenon DEF Ownership, CreatingInv, SetUp, KernelInv, Idle
  <2>2. \A q \in Procs, c \in Structs : Creating(q, c) => q # p
    BY Zenon DEF Creating, Idle
  <2>. QED
    BY <1>0, <1>1, <2>1, <2>2 DEF Ownership, CreatingInv, SetUp
<1>8. UnreadInv'
  BY <1>2, UnreadKept, Zenon
<1>9. StartInv'
  BY <1>1, <1>2, StartKept, Zenon
<1>10. CallInv'
  BY <1>0, <1>1, Typing DEF Ownership, CallInv, PointersOK, Idle
<1>11. FreesInv'
  BY <1>3, Zenon DEF Ownership, FreesInv
<1>12. FreedOnce'
  BY <1>2, <1>3, <1>4, Zenon DEF Ownership, FreedOnce
<1>13. NoLeak'
  BY <1>1, <1>3, <1>4, Zenon DEF Ownership, NoLeak
<1>. QED
  BY <1>5, <1>6, <1>7, <1>8, <1>9, <1>10, <1>11, <1>12, <1>13, Zenon DEF Ownership

LEMMA AllocateStep ==
    ASSUME TypeOK, TypeOK', Ownership, NEW p \in Procs, NEW c \in Structs, CreateAllocate(p, c)
    PROVE  Ownership'
<1>0. /\ pc \in [Procs -> Labels] /\ Structs \subseteq Procs /\ mem[c] = "unused" /\ pc[p] = "ready"
      /\ pc'[p] = "c_start" /\ \A q \in Procs : q # p => pc'[q] = pc[q]
  BY Typing, Zenon DEF Procs, CreateAllocate, Goto
<1>1. PICK i \in Slots :
        /\ table[i] = NULL /\ table' = [table EXCEPT ![i] = c]
        /\ heap' = [heap EXCEPT ![c] = [Zeroed EXCEPT !.index = i]]
  BY Zenon DEF CreateAllocate
<1>2. /\ heap'[c].index = i /\ heap'[c].id = 0 /\ ~heap'[c].start
      /\ \A d \in Structs : d # c => heap'[d] = heap[d]
  BY <1>1, Typing, Zenon DEF Zeroed
<1>3. table'[i] = c /\ \A j \in Slots : j # i => table'[j] = table[j]
  BY <1>1, Typing, Zenon
<1>4. /\ loc'[p].ptr = c /\ loc'[p].h = NULL /\ \A q \in Procs : q # p => loc'[q] = loc[q]
      /\ mem'[c] = "live" /\ \A d \in Structs : d # c => mem'[d] = mem[d]
      /\ os' = os /\ tid' = tid
  BY Typing, Zenon DEF CreateAllocate, NoCall, osVars
<1>5. /\ os[c] = "none" /\ pc[c] = "start" /\ \A q \in Procs : ~Creating(q, c) /\ ~Frees(q, c)
      /\ \A j \in Slots : table[j] # c
  BY <1>0, Fresh, Zenon
<1>6. \A q \in Procs, d \in Structs : Creating(q, d)' <=> Creating(q, d) \/ (q = p /\ d = c)
  BY <1>0, <1>4, Zenon DEF Creating
<1>7. \A d \in Structs : Unread(d)' <=> Unread(d)
  BY <1>0, <1>4, <1>5, Zenon DEF Unread
<1>8. \A q \in Procs, d \in Structs : Frees(q, d)' <=> Frees(q, d)
  BY <1>0, <1>2, <1>4, <1>5, <1>7 DEF Frees, Unread
<1>9. \A d \in Structs : InTable(d)' <=> InTable(d) \/ d = c
  BY <1>1, <1>3, NamesAssumption, Zenon DEF InTable
<1>10. SlotsInv'
  BY <1>2, <1>3, <1>4, <1>5, Typing DEF Ownership, SlotsInv, Ref
<1>11. KernelInv'
  BY <1>0, <1>4, KernelKept, Zenon
<1>12. CreatingInv'
  <2> SUFFICES ASSUME NEW q \in Procs, NEW d \in Structs, Creating(q, d)'
               PROVE  SetUp(q, d)'
    BY Zenon DEF CreatingInv
  <2>1. CASE d = c
    BY <2>1, <1>0, <1>1, <1>2, <1>3, <1>4, <1>5, <1>6, NamesAssumption DEF SetUp, Slots
  <2>2. CASE d # c
    <3>1. Creating(q, d) /\ q # p
      BY <2>2, <1>0, <1>6, Zenon DEF Creating
    <3>2. heap[d].index \in Slots \cup {-1}
      BY Typing, Zenon DEF Thread
    <3>. QED
      BY <2>2, <3>1, <3>2, <1>0, <1>1, <1>2, <1>3, <1>4, <1>6, NamesAssumption DEF Ownership, CreatingInv, SetUp
  <2>. QED
    BY <2>1, <2>2, Zenon
<1>13. UnreadInv'
  <2>1. ~Unread(c)
    BY <1>5, Zenon DEF Unread
  <2>2. \A j \in Slots : table[j] # NULL => table'[j] = table[j]
    BY <1>1, <1>3, Zenon
  <2>. QED
    BY <2>1, <2>2, <1>2, <1>4, <1>7, UnreadKept, NamesAssumption, Zenon
<1>14. StartInv'
  <2>1. ASSUME NEW j \in Slots, NEW d \in Structs, table'[j] = d, heap'[d].start
        PROVE  table[j] = d /\ heap[d].start
    BY <2>1, <1>2, <1>3, Zenon
  <2>. QED
    BY <2>1, <1>6, <1>7, StartKept, Zenon
<1>15. CallInv'
  <2>1. ASSUME NEW q \in Procs, pc'[q] \in {"j_wait", "j_blocked", "j_detach"}
        PROVE  os'[loc'[q].tgt] # "none"
    <3>1. q # p /\ pc[q] = pc'[q]
      BY <2>1, <1>0, Zenon
    <3>. QED
      BY <2>1, <3>1, <1>4, Zenon DEF Ownership, CallInv
  <2>2. ASSUME NEW q \in Procs, pc'[q] = "c_resume"
        PROVE  os'[loc'[q].h] # "none" /\ \A r \in Procs : ~Creating(r, loc[q].h)'
    <3>1. q # p /\ pc[q] = "c_resume" /\ loc'[q] = loc[q]
      BY <2>2, <1>0, <1>4, Zenon
    <3>2. PICK d \in Structs : d = loc[q].h
      BY <3>1, Typing, Zenon DEF PointersOK
    <3>3. os[d] # "none" /\ d # c /\ \A r \in Procs : ~Creating(r, d)
      BY <3>1, <3>2, <1>5, Zenon DEF Ownership, CallInv, Creating
    <3>4. \A r \in Procs : ~Creating(r, d)'
      BY <3>3, <1>6, Zenon
    <3>. QED
      BY <3>1, <3>2, <3>3, <3>4, <1>4, Zenon DEF Creating
  <2>. QED
    BY <2>1, <2>2, Zenon DEF CallInv
<1>16. FreesInv'
  BY <1>4, <1>5, <1>8, Zenon DEF Ownership, FreesInv
<1>17. FreedOnce'
  <2> SUFFICES ASSUME NEW q \in Procs, NEW d \in Structs, Frees(q, d)'
               PROVE  /\ ~InTable(d)' /\ (Unread(d)' => q = d)
                      /\ \A r \in Procs : r # q => ~Frees(r, d)'
    BY Zenon DEF FreedOnce
  <2>1. Frees(q, d) /\ d # c
    BY <1>5, <1>8, Zenon
  <2>. QED
    BY <2>1, <1>7, <1>8, <1>9, Zenon DEF Ownership, FreedOnce
<1>18. NoLeak'
  BY <1>4, <1>6, <1>8, <1>9, Zenon DEF Ownership, NoLeak
<1>. QED
  BY <1>10, <1>11, <1>12, <1>13, <1>14, <1>15, <1>16, <1>17, <1>18, Zenon DEF Ownership

LEMMA TableFullStep ==
    ASSUME TypeOK, TypeOK', Ownership, NEW p \in Procs, NEW c \in Structs, CreateTableFull(p, c)
    PROVE  Ownership'
<1>0. /\ pc \in [Procs -> Labels] /\ Structs \subseteq Procs /\ mem[c] = "unused" /\ pc[p] = "ready"
      /\ pc'[p] = "free" /\ \A q \in Procs : q # p => pc'[q] = pc[q]
  BY Typing, Zenon DEF Procs, CreateTableFull, Goto
<1>4. /\ loc'[p].ptr = c /\ \A q \in Procs : q # p => loc'[q] = loc[q]
      /\ mem'[c] = "live" /\ \A d \in Structs : d # c => mem'[d] = mem[d]
      /\ os' = os /\ tid' = tid /\ heap' = heap /\ table' = table
  BY Typing, Zenon DEF CreateTableFull, NoCall, osVars, tableVars
<1>5. /\ os[c] = "none" /\ pc[c] = "start" /\ \A q \in Procs : ~Creating(q, c) /\ ~Frees(q, c)
      /\ \A j \in Slots : table[j] # c
  BY <1>0, Fresh, Zenon
<1>6. \A q \in Procs, d \in Structs : Creating(q, d)' <=> Creating(q, d)
  BY <1>0, <1>4, Zenon DEF Creating
<1>7. \A d \in Structs : Unread(d)' <=> Unread(d)
  BY <1>0, <1>4, <1>5, Zenon DEF Unread
<1>8. \A q \in Procs, d \in Structs : Frees(q, d)' <=> Frees(q, d) \/ (q = p /\ d = c)
  BY <1>0, <1>4, <1>5, <1>7 DEF Frees, Unread
<1>9. \A d \in Structs : InTable(d)' <=> InTable(d)
  BY <1>4, Zenon DEF InTable
<1>10. SlotsInv'
  BY <1>4, <1>5, Typing DEF Ownership, SlotsInv, Ref
<1>11. KernelInv'
  BY <1>0, <1>4, KernelKept, Zenon
<1>12. CreatingInv'
  <2>1. \A q \in Procs, d \in Structs : Creating(q, d)' => pc'[q] = pc[q] /\ loc'[q] = loc[q]
    BY <1>0, <1>4, Zenon DEF Creating
  <2>. QED
    BY <2>1, <1>4, <1>6, CreatingKept, Zenon
<1>13. UnreadInv'
  <2>1. ~Unread(c)
    BY <1>5, Zenon DEF Unread
  <2>. QED
    BY <2>1, <1>4, <1>7, UnreadKept, Zenon
<1>14. StartInv'
  BY <1>4, <1>6, <1>7, StartKept, Zenon
<1>15. CallInv'
  BY <1>0, <1>4, <1>6, CallKept, Zenon
<1>16. FreesInv'
  BY <1>4, <1>8, Zenon DEF Ownership, FreesInv
<1>17. FreedOnce'
  BY <1>4, <1>5, <1>7, <1>8, <1>9 DEF Ownership, FreedOnce, InTable, Unread
<1>18. NoLeak'
  BY <1>4, <1>6, <1>8, <1>9, Zenon DEF Ownership, NoLeak
<1>. QED
  BY <1>10, <1>11, <1>12, <1>13, <1>14, <1>15, <1>16, <1>17, <1>18, Zenon DEF Ownership

LEMMA SetStartStep ==
    ASSUME TypeOK, TypeOK', Ownership, NEW p \in Procs, CreateSetStart(p)
    PROVE  Ownership'
<1>0. /\ pc \in [Procs -> Labels] /\ Structs \subseteq Procs /\ pc[p] = "c_start"
      /\ pc'[p] = "c_begin" /\ \A q \in Procs : q # p => pc'[q] = pc[q]
  BY Typing, Zenon DEF Procs, CreateSetStart, Goto
<1>1. PICK c \in Structs : c = loc[p].ptr
  BY <1>0, Typing, Zenon DEF PointersOK
<1>2. /\ heap'[c].start /\ heap'[c].index = heap[c].index /\ heap'[c].id = heap[c].id
      /\ \A d \in Structs : d # c => heap'[d] = heap[d]
  <2>1. heap[c] \in Thread
    BY Typing, Zenon
  <2>. QED
    BY <1>1, <2>1, Typing, Zenon DEF CreateSetStart, Thread
<1>3. mem' = mem /\ table' = table /\ os' = os /\ tid' = tid /\ loc' = loc
  BY Zenon DEF CreateSetStart, tableVars, osVars
<1>4. Creating(p, c) /\ loc[p].h = NULL /\ os[c] = "none" /\ pc[c] = "start" /\ c # p
  BY <1>0, <1>1, NamesAssumption DEF Creating, Ownership, CreatingInv, SetUp, KernelInv
<1>5. \A q \in Procs, d \in Structs : Creating(q, d)' <=> Creating(q, d)
  BY <1>0, <1>3, Zenon DEF Creating
<1>6. \A d \in Structs : Unread(d)' <=> Unread(d)
  BY <1>0, <1>3, <1>4, Zenon DEF Unread
<1>7. \A q \in Procs, d \in Structs : Frees(q, d)' <=> Frees(q, d)
  BY <1>0, <1>2, <1>3, <1>6, Zenon DEF Frees
<1>8. \A d \in Structs : InTable(d)' <=> InTable(d)
  BY <1>3, Zenon DEF InTable
<1>9. SlotsInv'
  BY <1>2, <1>3, Typing DEF Ownership, SlotsInv, Ref
<1>10. KernelInv'
  BY <1>0, <1>3, KernelKept, Zenon
<1>11. CreatingInv'
  <2> SUFFICES ASSUME NEW q \in Procs, NEW d \in Structs, Creating(q, d)'
               PROVE  SetUp(q, d)'
    BY Zenon DEF CreatingInv
  <2>1. Creating(q, d) /\ SetUp(q, d) /\ \A r \in Procs : Creating(r, d)' => Creating(r, d)
    BY <1>5, Zenon DEF Ownership, CreatingInv
  <2>2. d = c <=> q = p
    BY <2>1, <1>1, <1>4, OneCreator, Zenon DEF Creating
  <2>3. CASE d = c
    BY <2>1, <2>2, <2>3, <1>0, <1>2, <1>3, <1>4, Zenon DEF SetUp
  <2>4. CASE d # c
    BY <2>1, <2>2, <2>4, <1>0, <1>2, <1>3, SetUpKept, Zenon
  <2>. QED
    BY <2>3, <2>4, Zenon
<1>12. UnreadInv'
  <2>1. ~Unread(c)
    BY <1>4, Zenon DEF Unread
  <2>. QED
    BY <2>1, <1>2, <1>3, <1>6, UnreadKept, Zenon
<1>13. StartInv'
  <2>1. Creating(p, c)'
    BY <1>4, <1>5, Zenon
  <2>. QED
    BY <2>1, <1>2, <1>3, <1>5, <1>6, StartKept, Zenon
<1>14. CallInv'
  BY <1>0, <1>3, <1>5, CallKept, Zenon
<1>15. FreesInv'
  BY <1>3, <1>7, Zenon DEF Ownership, FreesInv
<1>16. FreedOnce'
  BY <1>6, <1>7, <1>8, Zenon DEF Ownership, FreedOnce
<1>17. NoLeak'
  BY <1>3, <1>5, <1>7, <1>8, Zenon DEF Ownership, NoLeak
<1>. QED
  BY <1>9, <1>10, <1>11, <1>12, <1>13, <1>14, <1>15, <1>16, <1>17, Zenon DEF Ownership

LEMMA BeginStep ==
    ASSUME TypeOK, TypeOK', Ownership, NEW p \in Procs, CreateBegin(p)
    PROVE  Ownership'
<1>0. /\ pc \in [Procs -> Labels] /\ Structs \subseteq Procs /\ pc[p] = "c_begin"
      /\ pc'[p] = "c_info" /\ \A q \in Procs : q # p => pc'[q] = pc[q]
  BY Typing, Zenon DEF Procs, CreateBegin, Goto
<1>1. PICK c \in Structs : c = loc[p].ptr
  BY <1>0, Typing, Zenon DEF PointersOK
<1>2. mem' = mem /\ table' = table /\ heap' = heap
  BY Zenon DEF CreateBegin, tableVars
<1>3. /\ Creating(p, c) /\ loc[p].h = NULL /\ os[c] = "none" /\ pc[c] = "start" /\ c # p
      /\ heap[c].start /\ heap[c].index # -1 /\ table[heap[c].index] = c
  BY <1>0, <1>1, NamesAssumption DEF Creating, Ownership, CreatingInv, SetUp, KernelInv
<1>4. /\ loc'[p].ptr = c /\ \A q \in Procs : q # p => loc'[q] = loc[q]
      /\ \/ /\ os'[c] = "suspended" /\ tid'[c] # 0 /\ loc'[p].h = c
            /\ \A d \in Structs : d # c => os'[d] = os[d] /\ tid'[d] = tid[d]
         \/ os' = os /\ tid' = tid /\ loc'[p].h = NULL
  <2>1. \A det \in BOOLEAN :
          /\ [loc[p] EXCEPT !.det = det, !.h = c].ptr = loc[p].ptr
          /\ [loc[p] EXCEPT !.det = det, !.h = c].h = c
          /\ [loc[p] EXCEPT !.det = det, !.rc = "EAGAIN"].ptr = loc[p].ptr
          /\ [loc[p] EXCEPT !.det = det, !.rc = "EAGAIN"].h = loc[p].h
    <3>1. loc[p] \in Locals
      BY Typing, Zenon
    <3>. QED
      BY <3>1, Zenon DEF Locals
  <2>2. CASE \E det \in BOOLEAN, id \in NewIds :
               /\ os' = [os EXCEPT ![c] = "suspended"]
               /\ tid' = [tid EXCEPT ![c] = id]
               /\ loc' = [loc EXCEPT ![p] = [loc[p] EXCEPT !.det = det, !.h = c]]
    <3>1. \A id \in NewIds : id # 0
      BY IdsAssumption, Zenon DEF NewIds
    <3>. QED
      BY <1>1, <2>1, <2>2, <3>1, Typing
  <2>3. CASE \E det \in BOOLEAN :
               /\ loc' = [loc EXCEPT ![p] = [loc[p] EXCEPT !.det = det, !.rc = "EAGAIN"]]
               /\ os' = os /\ tid' = tid
    BY <1>1, <1>3, <2>1, <2>3, Typing, Zenon
  <2>. QED
    BY <1>1, <2>2, <2>3, Zenon DEF CreateBegin, osVars
<1>6. heap[c].index \in Slots /\ InTable(c) /\ mem[c] = "live"
  <2>1. heap[c].index \in Slots
    BY <1>3, Typing, Zenon DEF Thread
  <2>. QED
    BY <2>1, <1>3, NamesAssumption, Zenon DEF InTable, Ownership, SlotsInv
<1>7. \A q \in Procs, d \in Structs : Creating(q, d)' <=> Creating(q, d)
  BY <1>0, <1>1, <1>4, Zenon DEF Creating
<1>8. \A d \in Structs : Unread(d)' <=> Unread(d) \/ (d = c /\ os'[c] = "suspended")
  BY <1>0, <1>3, <1>4 DEF Unread
<1>9. \A q \in Procs, d \in Structs : Frees(q, d)' <=> Frees(q, d)
  BY <1>0, <1>2, <1>3, <1>4, <1>8, Zenon DEF Frees
<1>10. \A d \in Structs : InTable(d)' <=> InTable(d)
  BY <1>2, Zenon DEF InTable
<1>11. SlotsInv'
  BY <1>2, Zenon DEF Ownership, SlotsInv
<1>12. KernelInv'
  <2> SUFFICES ASSUME NEW d \in Structs
               PROVE  /\ mem'[d] = "unused" => os'[d] = "none"
                      /\ pc'[d] # "start" => os'[d] \in {"runnable", "terminated"}
                      /\ os'[d] # "none" => tid'[d] # 0
    BY Zenon DEF KernelInv
  <2>1. CASE d = c
    BY <2>1, <1>0, <1>2, <1>3, <1>4, <1>6, Zenon DEF Ownership, KernelInv
  <2>2. CASE d # c
    BY <2>2, <1>0, <1>2, <1>4 DEF Ownership, KernelInv
  <2>. QED
    BY <2>1, <2>2, Zenon
<1>13. CreatingInv'
  <2> SUFFICES ASSUME NEW q \in Procs, NEW d \in Structs, Creating(q, d)'
               PROVE  SetUp(q, d)'
    BY Zenon DEF CreatingInv
  <2>1. Creating(q, d)
    BY <1>7, Zenon
  <2>2. CASE q = p
    <3>1. d = c
      BY <2>1, <2>2, <1>1, Zenon DEF Creating
    <3>2. SetUp(p, c)
      BY <1>3, Zenon DEF Ownership, CreatingInv
    <3>3. \A r \in Procs : Creating(r, c)' => r = p
      BY <1>3, <1>7, OneCreator, Zenon
    <3>. QED
      BY <2>2, <3>1, <3>2, <3>3, <1>0, <1>2, <1>3, <1>4, NamesAssumption, Zenon DEF SetUp
  <2>3. CASE q # p
    <3>1. d # c
      BY <2>1, <2>3, <1>3, OneCreator, Zenon
    <3>2. SetUp(q, d) /\ pc'[q] = pc[q] /\ loc'[q] = loc[q] /\ os'[d] = os[d]
      BY <2>1, <2>3, <3>1, <1>0, <1>4, Zenon DEF Ownership, CreatingInv
    <3>. QED
      BY <3>2, <1>2, <1>7, SetUpKept, Zenon
  <2>. QED
    BY <2>2, <2>3, Zenon
<1>14. UnreadInv'
  BY <1>2, <1>3, <1>6, <1>8, Zenon DEF Ownership, UnreadInv, Kept
<1>15. StartInv'
  BY <1>2, <1>7, <1>8, Typing, Zenon DEF Ownership, StartInv, Ref
<1>16. CallInv'
  <2>1. \A d \in Structs : os[d] # "none" => os'[d] # "none"
    BY <1>3, <1>4, Zenon
  <2>. QED
    BY <2>1, <1>0, <1>4, <1>7, CallKept, Zenon
<1>17. FreesInv'
  BY <1>2, <1>9, Zenon DEF Ownership, FreesInv
<1>18. FreedOnce'
  BY <1>6, <1>8, <1>9, <1>10, Zenon DEF Ownership, FreedOnce
<1>19. NoLeak'
  BY <1>2, <1>7, <1>9, <1>10, Zenon DEF Ownership, NoLeak
<1>. QED
  BY <1>11, <1>12, <1>13, <1>14, <1>15, <1>16, <1>17, <1>18, <1>19, Zenon DEF Ownership

LEMMA ResumeStep ==
    ASSUME TypeOK, TypeOK', Ownership, NEW p \in Procs, CreateResume(p)
    PROVE  Ownership'
<1>0. /\ pc \in [Procs -> Labels] /\ Structs \subseteq Procs /\ pc[p] = "c_resume"
      /\ pc'[p] \in {"c_close", "return"} /\ \A q \in Procs : q # p => pc'[q] = pc[q]
  BY Typing, Zenon DEF Procs, CreateResume, Goto
<1>1. PICK c \in Structs : c = loc[p].h
  BY <1>0, Typing, Zenon DEF PointersOK
<1>2. mem' = mem /\ table' = table /\ heap' = heap /\ tid' = tid /\ loc' = loc
  BY Zenon DEF CreateResume, tableVars
<1>3. /\ os[c] # "none" /\ os'[c] # "none" /\ (os'[c] = os[c] \/ os'[c] = "runnable")
      /\ \A d \in Structs : d # c => os'[d] = os[d]
  BY <1>0, <1>1, Typing, Zenon DEF CreateResume, Ownership, CallInv
<1>4. \A q \in Procs, d \in Structs : Creating(q, d)' <=> Creating(q, d)
  BY <1>0, <1>2, Zenon DEF Creating
<1>5. \A d \in Structs : Unread(d)' <=> Unread(d)
  BY <1>0, <1>3, Zenon DEF Unread
<1>6. \A q \in Procs, d \in Structs : Frees(q, d)' <=> Frees(q, d)
  BY <1>0, <1>2, <1>5, Zenon DEF Frees
<1>7. \A d \in Structs : InTable(d)' <=> InTable(d)
  BY <1>2, Zenon DEF InTable
<1>8. SlotsInv'
  BY <1>2, Zenon DEF Ownership, SlotsInv
<1>9. KernelInv'
  BY <1>0, <1>2, <1>3, Zenon DEF Ownership, KernelInv
<1>10. CreatingInv'
  <2>1. \A q \in Procs : ~Creating(q, c)
    BY <1>0, <1>1, Zenon DEF Ownership, CallInv, Creating
  <2>2. \A q \in Procs, d \in Structs : Creating(q, d)' =>
          pc'[q] = pc[q] /\ loc'[q] = loc[q] /\ d # c /\ os'[d] = os[d]
    BY <2>1, <1>0, <1>2, <1>3, <1>4 DEF Creating
  <2>. QED
    BY <2>2, <1>2, <1>4, CreatingKept, Zenon
<1>11. UnreadInv'
  BY <1>2, <1>5, UnreadKept, Zenon
<1>12. StartInv'
  BY <1>2, <1>4, <1>5, StartKept, Zenon
<1>13. CallInv'
  BY <1>0, <1>2, <1>3, <1>4, CallKept, Zenon
<1>14. FreesInv'
  BY <1>2, <1>6, Zenon DEF Ownership, FreesInv
<1>15. FreedOnce'
  BY <1>5, <1>6, <1>7, Zenon DEF Ownership, FreedOnce
<1>16. NoLeak'
  BY <1>2, <1>4, <1>6, <1>7, Zenon DEF Ownership, NoLeak
<1>. QED
  BY <1>8, <1>9, <1>10, <1>11, <1>12, <1>13, <1>14, <1>15, <1>16, Zenon DEF Ownership

LEMMA SetInfoStep ==
    ASSUME TypeOK, TypeOK', Ownership, NEW p \in Procs, CreateSetInfo(p)
    PROVE  Ownership'
<1>0. /\ pc \in [Procs -> Labels] /\ Structs \subseteq Procs /\ pc[p] = "c_info"
      /\ pc'[p] = (IF loc[p].h = NULL THEN "free" ELSE "c_resume")
      /\ \A q \in Procs : q # p => pc'[q] = pc[q]
  BY Typing, Zenon DEF Procs, CreateSetInfo, Goto
<1>1. PICK c \in Structs : c = loc[p].ptr
  BY <1>0, Typing, Zenon DEF PointersOK
<1>2. mem' = mem /\ os' = os /\ tid' = tid /\ loc' = loc
  BY Zenon DEF CreateSetInfo, osVars
<1>3. Creating(p, c) /\ SetUp(p, c)
  BY <1>0, <1>1, Zenon DEF Creating, Ownership, CreatingInv
<1>4. PICK k \in Slots : k = heap[c].index
  BY <1>3, Typing, Zenon DEF SetUp, Thread
<1>5. PICK h \in {NULL, c} : h = IF loc[p].det THEN NULL ELSE loc[p].h
  BY <1>3, Zenon DEF SetUp
<1>6. /\ heap'[c].start = heap[c].start /\ heap'[c].index = IF h = NULL THEN -1 ELSE k
      /\ \A d \in Structs : d # c => heap'[d] = heap[d]
  <2>1. PICK id \in Ids \cup {0} :
          heap' = [heap EXCEPT ![c] =
                    [heap[c] EXCEPT !.id = id, !.h = h,
                                    !.index = IF h = NULL THEN -1 ELSE k]]
    <3>1. PICK id \in Ids \cup {0} :
            heap' = [heap EXCEPT ![loc[p].ptr] =
                      [heap[loc[p].ptr] EXCEPT
                        !.id = id, !.h = IF loc[p].det THEN NULL ELSE loc[p].h,
                        !.index = IF (IF loc[p].det THEN NULL ELSE loc[p].h) = NULL
                                  THEN -1 ELSE heap[loc[p].ptr].index]]
      BY Zenon DEF CreateSetInfo
    <3>. QED
      BY <3>1, <1>1, <1>4, <1>5, Zenon
  <2>2. heap[c] \in Thread
    BY Typing, Zenon
  <2>. QED
    BY <2>1, <2>2, Typing, Zenon DEF Thread
<1>7. table'[k] = (IF h = NULL THEN NULL ELSE c) /\ \A j \in Slots : j # k => table'[j] = table[j]
  <2>1. table' = IF h = NULL THEN [table EXCEPT ![k] = NULL] ELSE table
    BY <1>1, <1>4, <1>5, Zenon DEF CreateSetInfo
  <2>. QED
    BY <2>1, <1>3, <1>4, Typing, Zenon DEF SetUp
<1>8. /\ pc[c] = "start" /\ c # p /\ mem[c] = "live" /\ InTable(c)
      /\ \A q \in Procs : ~Frees(q, c)
      /\ \A j \in Slots : table[j] = c => j = k
  <2>1. InTable(c)
    BY <1>3, <1>4, Zenon DEF InTable, SetUp
  <2>. QED
    <3>1. pc[c] = "start" /\ c # p
      BY <1>0, <1>3, Zenon DEF SetUp, Ownership, KernelInv
    <3>2. mem[c] = "live" /\ \A j \in Slots : table[j] = c => j = k
      BY <2>1, <1>4, NamesAssumption, Zenon DEF Ownership, SlotsInv, InTable
    <3>3. \A q \in Procs : ~Frees(q, c)
      BY <2>1, Zenon DEF Ownership, FreedOnce
    <3>. QED
      BY <2>1, <3>1, <3>2, <3>3, Zenon
<1>9. \A q \in Procs, d \in Structs : Creating(q, d)' <=> Creating(q, d) /\ q # p
  BY <1>0, <1>2, Zenon DEF Creating
<1>10. /\ \A d \in Structs : Unread(d)' <=> Unread(d)
       /\ Unread(c) <=> loc[p].h = c
  BY <1>0, <1>2, <1>3, <1>8, NamesAssumption, Zenon DEF Unread, SetUp
<1>11. \A q \in Procs, d \in Structs : Frees(q, d)' <=>
         \/ Frees(q, d)
         \/ d = c /\ q = p /\ loc[p].h = NULL
         \/ d = c /\ q = c /\ loc[p].h = c /\ h = NULL
  <2>1. loc[p].h \in {NULL, c} /\ k # -1
    BY <1>3, <1>4, Zenon DEF SetUp, Slots
  <2>2. ASSUME NEW q \in Procs, NEW d \in Structs, q # p
        PROVE  Frees(q, d)' <=> Frees(q, d) \/ (d = c /\ q = c /\ loc[p].h = c /\ h = NULL)
    BY <2>1, <2>2, <1>0, <1>2, <1>4, <1>6, <1>10, Zenon DEF Frees
  <2>3. ASSUME NEW d \in Structs
        PROVE  Frees(p, d)' <=> Frees(p, d) \/ (d = c /\ loc[p].h = NULL)
    BY <2>1, <1>0, <1>1, <1>2, <1>8, <1>10, NamesAssumption, Zenon DEF Frees, Unread
  <2>. QED
    BY <2>2, <2>3, <1>8, Zenon
<1>12. \A d \in Structs : InTable(d)' <=> InTable(d) /\ (d = c => h # NULL)
  <2>1. table[k] = c /\ c # NULL
    BY <1>3, <1>4, NamesAssumption, Zenon DEF SetUp
  <2>2. InTable(c)' <=> h # NULL
    BY <2>1, <1>7, <1>8, Zenon DEF InTable
  <2>3. ASSUME NEW d \in Structs, d # c PROVE InTable(d)' <=> InTable(d)
    BY <2>1, <2>3, <1>7, NamesAssumption, Zenon DEF InTable
  <2>. QED
    BY <2>2, <2>3, <1>8, Zenon
<1>13. SlotsInv'
  <2> SUFFICES ASSUME NEW j \in Slots, table'[j] # NULL
               PROVE  mem'[table'[j]] = "live" /\ heap'[table'[j]].index = j
    BY Zenon DEF SlotsInv
  <2>1. CASE j = k
    BY <2>1, <1>2, <1>6, <1>7, <1>8, Zenon
  <2>2. CASE j # k
    <3>1. table'[j] = table[j] /\ table[j] \in Structs /\ table[j] # c
      BY <2>2, <1>7, <1>8, Typing, Zenon DEF Ref
    <3>. QED
      BY <3>1, <1>2, <1>6, Zenon DEF Ownership, SlotsInv
  <2>. QED
    BY <2>1, <2>2, Zenon
<1>14. KernelInv'
  BY <1>0, <1>2, <1>8, Zenon DEF Ownership, KernelInv
<1>15. CreatingInv'
  <2> SUFFICES ASSUME NEW q \in Procs, NEW d \in Structs, Creating(q, d)' PROVE SetUp(q, d)'
    BY Zenon DEF CreatingInv
  <2>1. Creating(q, d) /\ q # p /\ d # c /\ SetUp(q, d)
    <3>1. Creating(q, d) /\ q # p /\ SetUp(q, d)
      BY <1>9, Zenon DEF Ownership, CreatingInv
    <3>. QED
      BY <3>1, <1>3, OneCreator, Zenon
  <2>2. heap[d].index \in Slots /\ heap[d].index # k
    BY <2>1, <1>3, <1>4, Typing, Zenon DEF SetUp, Thread
  <2>3. heap'[d] = heap[d] /\ table'[heap[d].index] = table[heap[d].index] /\ pc'[q] = pc[q]
    BY <2>1, <2>2, <1>0, <1>6, <1>7, Zenon
  <2>. QED
    BY <2>1, <2>3, <1>2, <1>9, SetUpKept, Zenon
<1>16. UnreadInv'
  <2> SUFFICES ASSUME NEW d \in Structs, Unread(d)' PROVE Kept(d)'
    BY Zenon DEF UnreadInv
  <2>1. Unread(d) /\ Kept(d) /\ heap[d].index \in Slots \cup {-1}
    BY <1>10, Typing, Zenon DEF Ownership, UnreadInv, Thread
  <2>2. CASE d = c
    BY <2>1, <2>2, <1>2, <1>6, <1>7, Zenon DEF Kept
  <2>3. CASE d # c
    <3>1. heap[d].index # k
      BY <2>1, <2>3, <1>3, <1>4, Typing, Zenon DEF Kept, SetUp, Slots
    <3>. QED
      BY <2>1, <2>3, <3>1, <1>2, <1>6, <1>7, Zenon DEF Kept
  <2>. QED
    BY <2>2, <2>3, Zenon
<1>17. StartInv'
  <2> SUFFICES ASSUME NEW i \in Slots, table'[i] # NULL, heap'[table'[i]].start
               PROVE  (Unread(table[i]) \/ \E q \in Procs : Creating(q, table[i]))'
    BY Zenon DEF StartInv
  <2>1. PICK d \in Structs : d = table[i] /\ d = table'[i]
    BY <1>3, <1>4, <1>7, Typing, Zenon DEF Ref, SetUp
  <2>2. CASE d = c
    BY <2>1, <2>2, <1>3, <1>5, <1>7, <1>8, <1>10, Zenon DEF SetUp
  <2>3. CASE d # c
    <3>1. Unread(d) \/ \E q \in Procs : Creating(q, d)
      BY <2>1, <2>3, <1>6, NamesAssumption, Zenon DEF Ownership, StartInv
    <3>2. Unread(d)' \/ \E q \in Procs : Creating(q, d)'
      BY <3>1, <2>3, <1>1, <1>9, <1>10, Zenon DEF Creating
    <3>. QED
      BY <3>2, <2>1, Zenon DEF Unread, Creating
  <2>. QED
    BY <2>2, <2>3, Zenon
<1>18. CallInv'
  <2>1. ASSUME NEW q \in Procs, pc'[q] \in {"j_wait", "j_blocked", "j_detach"}
        PROVE  os'[loc'[q].tgt] # "none"
    <3>1. pc[q] = pc'[q]
      BY <2>1, <1>0, Zenon
    <3>. QED
      BY <2>1, <3>1, <1>2, Zenon DEF Ownership, CallInv
  <2>2. ASSUME NEW q \in Procs, pc'[q] = "c_resume"
        PROVE  os'[loc'[q].h] # "none" /\ \A r \in Procs : ~Creating(r, loc[q].h)'
    <3>1. PICK d \in Structs : d = loc[q].h /\ os[d] # "none" /\ \A r \in Procs : r # p => ~Creating(r, d)
      <4>1. CASE q = p
        <5>1. loc[p].h = c /\ os[c] # "none"
          BY <2>2, <4>1, <1>0, <1>3, Zenon DEF SetUp
        <5>2. \A r \in Procs : r # p => ~Creating(r, c)
          BY <1>3, OneCreator, Zenon
        <5>. QED
          BY <4>1, <5>1, <5>2, Zenon
      <4>2. CASE q # p
        <5>1. pc[q] = "c_resume"
          BY <2>2, <4>2, <1>0, Zenon
        <5>2. PICK d \in Structs : d = loc[q].h
          BY <5>1, Typing, Zenon DEF PointersOK
        <5>. QED
          BY <5>1, <5>2, Zenon DEF Ownership, CallInv, Creating
      <4>. QED
        BY <4>1, <4>2, Zenon
    <3>2. \A r \in Procs : ~Creating(r, d)'
      BY <3>1, <1>9, Zenon
    <3>. QED
      BY <3>1, <3>2, <1>2, Zenon DEF Creating
  <2>. QED
    BY <2>1, <2>2, Zenon DEF CallInv
<1>19. FreesInv'
  BY <1>2, <1>8, <1>11, Zenon DEF Ownership, FreesInv
<1>20. FreedOnce'
  <2> SUFFICES ASSUME NEW q \in Procs, NEW d \in Structs, Frees(q, d)'
               PROVE  /\ ~InTable(d)' /\ (Unread(d)' => q = d)
                      /\ \A r \in Procs : r # q => ~Frees(r, d)'
    BY Zenon DEF FreedOnce
  <2>1. CASE d = c
    BY <2>1, <1>5, <1>8, <1>10, <1>11, <1>12, NamesAssumption, Zenon
  <2>2. CASE d # c
    BY <2>2, <1>10, <1>11, <1>12, Zenon DEF Ownership, FreedOnce
  <2>. QED
    BY <2>1, <2>2, Zenon
<1>21. NoLeak'
  <2>1. h = NULL => \E q \in Procs : Frees(q, c)'
    BY <1>0, <1>3, <1>5, <1>11, Zenon DEF SetUp
  <2>2. \A d \in Structs, q \in Procs : Creating(q, d) /\ d # c => Creating(q, d)'
    BY <1>1, <1>9, Zenon DEF Creating
  <2>. QED
    BY <2>1, <2>2, <1>2, <1>8, <1>11, <1>12, Zenon DEF Ownership, NoLeak
<1>. QED
  BY <1>13, <1>14, <1>15, <1>16, <1>17, <1>18, <1>19, <1>20, <1>21, Zenon DEF Ownership

-----------------------------------------------------------------------------
LEMMA StartingStep ==
    ASSUME TypeOK, TypeOK', Ownership, NEW t \in Structs, ThreadStarting(t)
    PROVE  Ownership'
<1>0. /\ pc \in [Procs -> Labels] /\ t \in Procs /\ pc[t] = "start" /\ os[t] = "runnable"
      /\ pc'[t] = (IF heap[t].index = -1 THEN "t_free" ELSE "ready")
      /\ \A q \in Procs : q # t => pc'[q] = pc[q]
  BY Typing, Zenon DEF Procs, ThreadStarting, Goto
<1>1. mem' = mem /\ table' = table /\ os' = os /\ tid' = tid /\ loc' = loc
  BY Zenon DEF ThreadStarting, tableVars, osVars
<1>2. /\ ~heap'[t].start /\ heap'[t].index = heap[t].index
      /\ \A d \in Structs : d # t => heap'[d] = heap[d]
  <2>1. heap[t] \in Thread
    BY Typing, Zenon
  <2>. QED
    BY <2>1, Typing, Zenon DEF ThreadStarting, Thread
<1>3. Structs \subseteq Procs /\ Unread(t) /\ \A q \in Procs : ~Creating(q, t)
  BY <1>0, Zenon DEF Procs, Unread, Ownership, CreatingInv, SetUp
<1>4. \A q \in Procs, d \in Structs : Creating(q, d)' <=> Creating(q, d)
  BY <1>0, <1>1, Zenon DEF Creating
<1>5. \A d \in Structs : Unread(d)' <=> Unread(d) /\ d # t
  BY <1>0, <1>1, <1>3, Zenon DEF Unread
<1>6. \A q \in Procs, d \in Structs : Frees(q, d)' <=> Frees(q, d)
  BY <1>0, <1>1, <1>2, <1>3, <1>5, Zenon DEF Frees
<1>7. \A d \in Structs : InTable(d)' <=> InTable(d)
  BY <1>1, Zenon DEF InTable
<1>8. SlotsInv'
  BY <1>1, <1>2, Typing DEF Ownership, SlotsInv, Ref
<1>9. KernelInv'
  BY <1>0, <1>1, <1>3, Zenon DEF Ownership, KernelInv
<1>10. CreatingInv'
  BY <1>0, <1>1, <1>2, <1>3, <1>4 DEF Ownership, CreatingInv, SetUp, Creating
<1>11. UnreadInv'
  BY <1>1, <1>2, <1>5, UnreadKept, Zenon
<1>12. StartInv'
  BY <1>1, <1>2, <1>4, <1>5, StartKept, Zenon
<1>13. CallInv'
  BY <1>0, <1>1, <1>4, CallKept, Zenon
<1>14. FreesInv'
  BY <1>1, <1>6, Zenon DEF Ownership, FreesInv
<1>15. FreedOnce'
  BY <1>5, <1>6, <1>7, Zenon DEF Ownership, FreedOnce
<1>16. NoLeak'
  BY <1>1, <1>4, <1>6, <1>7, Zenon DEF Ownership, NoLeak
<1>. QED
  BY <1>8, <1>9, <1>10, <1>11, <1>12, <1>13, <1>14, <1>15, <1>16, Zenon DEF Ownership

\* DetachClose moves on to the free it is answerable for, or leaves it.
LEMMA CloseStep ==
    ASSUME TypeOK, TypeOK', Ownership, NEW p \in Procs, DetachClose(p)
    PROVE  Ownership'
<1>0. /\ pc \in [Procs -> Labels] /\ Structs \subseteq Procs /\ pc[p] = "close"
      /\ pc'[p] = (IF loc[p].start THEN "return" ELSE "free")
      /\ \A q \in Procs : q # p => pc'[q] = pc[q]
  BY Typing, Zenon DEF Procs, DetachClose, Goto
<1>1. mem' = mem /\ heap' = heap /\ table' = table /\ os' = os /\ tid' = tid /\ loc' = loc
  BY Zenon DEF DetachClose, tableVars
<1>2. \A q \in Procs, d \in Structs : Creating(q, d)' <=> Creating(q, d)
  BY <1>0, <1>1, Zenon DEF Creating
<1>3. \A d \in Structs : Unread(d)' <=> Unread(d)
  BY <1>0, <1>1, Zenon DEF Unread
<1>4. \A q \in Procs, d \in Structs : Frees(q, d)' <=> Frees(q, d)
  BY <1>0, <1>1, <1>3, Zenon DEF Frees
<1>5. \A d \in Structs : InTable(d)' <=> InTable(d)
  BY <1>1, Zenon DEF InTable
<1>6. SlotsInv' /\ UnreadInv' /\ FreesInv'
  BY <1>1, <1>3, <1>4, Zenon DEF Ownership, SlotsInv, UnreadInv, Kept, FreesInv
<1>7. KernelInv'
  BY <1>0, <1>1, Zenon DEF Ownership, KernelInv
<1>8. CreatingInv'
  BY <1>0, <1>1, <1>2 DEF Ownership, CreatingInv, SetUp, Creating
<1>9. StartInv'
  BY <1>1, <1>2, <1>3, StartKept, Zenon
<1>10. CallInv'
  BY <1>0, <1>1, <1>2, CallKept, Zenon
<1>11. FreedOnce' /\ NoLeak'
  BY <1>1, <1>2, <1>3, <1>4, <1>5, Zenon DEF Ownership, FreedOnce, NoLeak
<1>. QED
  BY <1>6, <1>7, <1>8, <1>9, <1>10, <1>11, Zenon DEF Ownership

\* The two places that free: whoever frees is the only one left to know c.
LEMMA FreeStep ==
    ASSUME TypeOK, TypeOK', Ownership, NEW p \in Procs, NEW c \in Structs, NEW label \in {"ready", "return"},
           (pc[p] = "free" /\ loc[p].ptr = c) \/ (pc[p] = "t_free" /\ p = c),
           Free(c), pc' = [pc EXCEPT ![p] = label], UNCHANGED <<table, os, tid, loc>>
    PROVE  Ownership'
<1>0. /\ pc \in [Procs -> Labels] /\ Structs \subseteq Procs /\ pc'[p] \in {"ready", "return"}
      /\ \A q \in Procs : q # p => pc'[q] = pc[q]
      /\ mem'[c] = "freed" /\ \A d \in Structs : d # c => mem'[d] = mem[d] /\ heap'[d] = heap[d]
  BY Typing, Zenon DEF Procs, Free
<1>1. Frees(p, c) /\ ~InTable(c) /\ mem[c] = "live" /\ \A q \in Procs : q # p => ~Frees(q, c)
  BY Zenon DEF Frees, Ownership, FreedOnce, FreesInv
<1>2. ~Unread(c) /\ \A q \in Procs : ~Creating(q, c)
  <2>1. ~Unread(c)
    BY <1>1, Zenon DEF Ownership, FreedOnce, Unread
  <2>2. \A q \in Procs : ~Creating(q, c)
    <3>1. heap[c].index \in Slots \cup {-1}
      BY Typing, Zenon DEF Thread
    <3>. QED
      BY <3>1, <1>1, Zenon DEF Ownership, CreatingInv, SetUp, InTable
  <2>. QED
    BY <2>1, <2>2, Zenon
<1>3. \A q \in Procs, d \in Structs : Creating(q, d)' <=> Creating(q, d)
  BY <1>0, Zenon DEF Creating
<1>4. \A d \in Structs : Unread(d)' <=> Unread(d)
  BY <1>0, Zenon DEF Unread
<1>5. \A q \in Procs, d \in Structs : Frees(q, d)' <=> Frees(q, d) /\ d # c
  BY <1>0, <1>1, <1>2, <1>4 DEF Frees, Unread
<1>6. \A d \in Structs : InTable(d)' <=> InTable(d)
  BY Zenon DEF InTable
<1>7. SlotsInv'
  BY <1>0, <1>1, Typing DEF Ownership, SlotsInv, InTable, Ref
<1>8. KernelInv'
  BY <1>0, Zenon DEF Ownership, KernelInv
<1>9. CreatingInv'
  BY <1>0, <1>2, <1>3 DEF Ownership, CreatingInv, SetUp, Creating
<1>10. UnreadInv'
  <2> SUFFICES ASSUME NEW d \in Structs, Unread(d)' PROVE Kept(d)'
    BY Zenon DEF UnreadInv
  <2>1. d # c /\ Kept(d)
    BY <1>2, <1>4, Zenon DEF Ownership, UnreadInv
  <2>2. mem'[d] = mem[d] /\ heap'[d] = heap[d] /\ table' = table
    BY <2>1, <1>0, Zenon
  <2>. QED
    BY <2>1, <2>2, Zenon DEF Kept
<1>11. StartInv'
  <2> SUFFICES ASSUME NEW j \in Slots, table[j] # NULL, heap'[table[j]].start
               PROVE  Unread(table[j])' \/ \E q \in Procs : Creating(q, table[j])'
    BY Zenon DEF StartInv
  <2>1. PICK d \in Structs : d = table[j] /\ d # c
    BY <1>1, Typing, Zenon DEF InTable, Ref
  <2>. QED
    BY <2>1, <1>0, <1>3, <1>4, Zenon DEF Ownership, StartInv
<1>12. CallInv'
  BY <1>0, <1>3, CallKept, Zenon
<1>13. FreesInv'
  BY <1>0, <1>5, Zenon DEF Ownership, FreesInv
<1>14. FreedOnce'
  BY <1>4, <1>5, <1>6, Zenon DEF Ownership, FreedOnce
<1>15. NoLeak'
  BY <1>0, <1>3, <1>5, <1>6, Zenon DEF Ownership, NoLeak
<1>. QED
  BY <1>7, <1>8, <1>9, <1>10, <1>11, <1>12, <1>13, <1>14, <1>15, Zenon DEF Ownership

\* wpdk_detach_thread takes over the struct it finds, unless the thread has
\* not started: then the thread is left to free it.
LEMMA DetachStep ==
    ASSUME TypeOK, TypeOK', Ownership, NEW p \in Procs, NEW l \in Locals, NEW found, NEW missing,
           pc[p] \in {"ready", "j_detach"}, l.tgt \in Structs, os[l.tgt] # "none",
           DetachThread(p, l, found, missing), UNCHANGED <<mem, os, tid>>
    PROVE  Ownership'
<1>0. pc \in [Procs -> Labels] /\ Structs \subseteq Procs
  BY Typing, Zenon DEF Procs
<1>1. CASE Leave(p, l, missing) /\ UNCHANGED <<heap, table>>
  <2>1. pc' = [pc EXCEPT ![p] = "return"] /\ "return" \in Idle /\ pc[p] \in Idle
    BY <1>1, Zenon DEF Leave, Goto, Idle
  <2>2. \A q \in Procs : q # p => loc'[q] = loc[q]
    BY <1>1, Typing, Zenon DEF Leave
  <2>. QED
    BY <1>1, <2>1, <2>2, QuietStep, Zenon
<1>2. CASE \E i \in Slots :
            /\ Located(i, l.index, IdOf(l.tgt))
            /\ heap' = [heap EXCEPT ![table[i]] = [heap[table[i]] EXCEPT !.index = -1]]
            /\ table' = [table EXCEPT ![i] = NULL]
            /\ loc' = [loc EXCEPT ![p] =
                 [l EXCEPT !.ptr = table[i], !.start = heap[table[i]].start, !.h = heap[table[i]].h,
                           !.rc = found,
                           !.val = IF l.op = "join" THEN heap[table[i]].result ELSE NULL]]
            /\ Goto(p, "close")
  <2>0. PICK i \in Slots :
            /\ Located(i, l.index, IdOf(l.tgt))
            /\ heap' = [heap EXCEPT ![table[i]] = [heap[table[i]] EXCEPT !.index = -1]]
            /\ table' = [table EXCEPT ![i] = NULL]
            /\ loc' = [loc EXCEPT ![p] =
                 [l EXCEPT !.ptr = table[i], !.start = heap[table[i]].start, !.h = heap[table[i]].h,
                           !.rc = found,
                           !.val = IF l.op = "join" THEN heap[table[i]].result ELSE NULL]]
            /\ Goto(p, "close")
    BY <1>2, Zenon
  <2>1. PICK c \in Structs : c = table[i]
    BY <2>0, Typing, Zenon DEF Located, First, Holds, Ref
  <2>2. heap[c].id # 0
    <3>1. heap[c].id = tid[l.tgt]
      BY <2>0, <2>1, NamesAssumption, Zenon DEF Located, First, Holds, IdOf
    <3>. QED
      BY <3>1, Zenon DEF Ownership, KernelInv
  <2>3. /\ heap[c].index = i /\ mem[c] = "live" /\ InTable(c) /\ \A j \in Slots : table[j] = c => j = i
        /\ \A q \in Procs : ~Creating(q, c) /\ ~Frees(q, c)
        /\ heap[c].start <=> Unread(c)
    <3>1. heap[c].index = i /\ mem[c] = "live" /\ \A j \in Slots : table[j] = c => j = i
      BY <2>1, NamesAssumption DEF Ownership, SlotsInv
    <3>2. InTable(c)
      BY <2>1, Zenon DEF InTable
    <3>3. \A q \in Procs : ~Creating(q, c) /\ ~Frees(q, c)
      BY <2>2, <3>2, Zenon DEF Ownership, CreatingInv, SetUp, FreedOnce
    <3>4. heap[c].start <=> Unread(c)
      BY <2>1, <3>3, NamesAssumption, Zenon DEF Ownership, StartInv, UnreadInv, Kept
    <3>. QED
      BY <3>1, <3>2, <3>3, <3>4, Zenon
  <2>4. /\ heap'[c].index = -1 /\ heap'[c].start = heap[c].start
        /\ \A d \in Structs : d # c => heap'[d] = heap[d]
    <3>1. heap[c] \in Thread
      BY Typing, Zenon
    <3>. QED
      BY <2>0, <2>1, <3>1, Typing, Zenon DEF Thread
  <2>5. table'[i] = NULL /\ \A j \in Slots : j # i => table'[j] = table[j]
    BY <2>0, Typing, Zenon
  <2>6. /\ loc'[p].ptr = c /\ loc'[p].start = heap[c].start
        /\ \A q \in Procs : q # p => loc'[q] = loc[q]
    BY <2>0, <2>1, Typing, Zenon DEF Locals
  <2>7. pc'[p] = "close" /\ \A q \in Procs : q # p => pc'[q] = pc[q]
    BY <2>0, <1>0, Zenon DEF Goto
  <2>8. \A q \in Procs, d \in Structs : Creating(q, d)' <=> Creating(q, d)
    BY <2>6, <2>7, Zenon DEF Creating
  <2>9. \A d \in Structs : Unread(d)' <=> Unread(d)
    BY <2>7, <1>0, Zenon DEF Unread
  <2>10. \A q \in Procs, d \in Structs : Frees(q, d)' <=>
           Frees(q, d) \/ (d = c /\ q = IF Unread(c) THEN c ELSE p)
    <3>1. ASSUME NEW q \in Procs, NEW d \in Structs, q # p
          PROVE  Frees(q, d)' <=> Frees(q, d) \/ (d = c /\ q = c /\ Unread(c))
      BY <3>1, <2>4, <2>6, <2>7, <2>9, Zenon DEF Frees
    <3>2. ASSUME NEW d \in Structs
          PROVE  Frees(p, d)' <=> Frees(p, d) \/ (d = c /\ ~Unread(c))
      BY <2>3, <2>6, <2>7, <2>9, Zenon DEF Frees, Unread
    <3>3. Unread(c) => c # p
      BY Zenon DEF Unread
    <3>. QED
      BY <3>1, <3>2, <3>3, Zenon
  <2>11. \A d \in Structs : InTable(d)' <=> InTable(d) /\ d # c
    <3>1. ~InTable(c)'
      BY <2>3, <2>5, NamesAssumption, Zenon DEF InTable
    <3>2. ASSUME NEW d \in Structs, d # c PROVE InTable(d)' <=> InTable(d)
      BY <3>2, <2>1, <2>5, NamesAssumption, Zenon DEF InTable
    <3>. QED
      BY <3>1, <3>2, Zenon
  <2>12. SlotsInv'
    BY <2>1, <2>3, <2>4, <2>5, Typing DEF Ownership, SlotsInv, Ref
  <2>13. KernelInv'
    BY <1>0, <2>7, Zenon DEF Ownership, KernelInv
  <2>14. CreatingInv'
    <3> SUFFICES ASSUME NEW q \in Procs, NEW d \in Structs, Creating(q, d)' PROVE SetUp(q, d)'
      BY Zenon DEF CreatingInv
    <3>1. Creating(q, d) /\ q # p /\ d # c /\ SetUp(q, d)
      <4>1. Creating(q, d)
        BY <2>8, Zenon
      <4>. QED
        BY <4>1, <2>3, Zenon DEF Ownership, CreatingInv, Creating
    <3>2. heap[d].index \in Slots /\ heap[d].index # i
      BY <3>1, <2>1, Typing, Zenon DEF SetUp, Thread
    <3>3. heap'[d] = heap[d] /\ table'[heap[d].index] = table[heap[d].index]
      BY <3>1, <3>2, <2>4, <2>5, Zenon
    <3>4. pc'[q] = pc[q] /\ loc'[q] = loc[q] /\ os' = os
      BY <3>1, <2>6, <2>7, Zenon
    <3>. QED
      BY <3>1, <3>3, <3>4, <2>8, SetUpKept, Zenon
  <2>15. UnreadInv'
    <3> SUFFICES ASSUME NEW d \in Structs, Unread(d)' PROVE Kept(d)'
      BY Zenon DEF UnreadInv
    <3>1. Unread(d) /\ Kept(d) /\ heap[d].index \in Slots \cup {-1}
      BY <2>9, Typing, Zenon DEF Ownership, UnreadInv, Thread
    <3>2. CASE d = c
      BY <3>1, <3>2, <2>4, Zenon DEF Kept
    <3>3. CASE d # c
      <4>1. heap[d].index # i
        BY <3>1, <3>3, <2>1 DEF Kept, Slots
      <4>. QED
        BY <3>1, <3>3, <4>1, <2>4, <2>5 DEF Kept
    <3>. QED
      BY <3>2, <3>3, Zenon
  <2>16. StartInv'
    <3> SUFFICES ASSUME NEW j \in Slots, table'[j] # NULL, heap'[table'[j]].start
                 PROVE  (Unread(table[j]) \/ \E q \in Procs : Creating(q, table[j]))'
      BY Zenon DEF StartInv
    <3>1. PICK d \in Structs : d = table[j] /\ d = table'[j] /\ d # c
      BY <2>3, <2>5, Typing, Zenon DEF Ref
    <3>2. Unread(d) \/ \E q \in Procs : Creating(q, d)
      <4>1. table[j] # NULL /\ heap[table[j]].start
        BY <3>1, <2>4, NamesAssumption, Zenon
      <4>. QED
        BY <3>1, <4>1, Zenon DEF Ownership, StartInv
    <3>3. Unread(d)' \/ \E q \in Procs : Creating(q, d)'
      BY <3>2, <2>8, <2>9, Zenon
    <3>. QED
      BY <3>1, <3>3, Zenon DEF Unread, Creating
  <2>17. CallInv'
    BY <2>6, <2>7, <2>8, CallKept, Zenon
  <2>18. FreesInv'
    BY <2>3, <2>10, Zenon DEF Ownership, FreesInv
  <2>19. FreedOnce'
    <3> SUFFICES ASSUME NEW q \in Procs, NEW d \in Structs, Frees(q, d)'
                 PROVE  /\ ~InTable(d)' /\ (Unread(d)' => q = d)
                        /\ \A r \in Procs : r # q => ~Frees(r, d)'
      BY Zenon DEF FreedOnce
    <3>1. CASE d = c
      BY <3>1, <2>3, <2>9, <2>10, <2>11, Zenon
    <3>2. CASE d # c
      BY <3>2, <2>9, <2>10, <2>11, Zenon DEF Ownership, FreedOnce
    <3>. QED
      BY <3>1, <3>2, Zenon
  <2>20. NoLeak'
    BY <1>0, <2>8, <2>10, <2>11, Zenon DEF Ownership, NoLeak
  <2>. QED
    BY <2>12, <2>13, <2>14, <2>15, <2>16, <2>17, <2>18, <2>19, <2>20, Zenon DEF Ownership
<1>. QED
  BY <1>1, <1>2, Zenon DEF DetachThread

\* The steps that free nothing, hand nothing over and create nothing.
LEMMA QuietSteps ==
    ASSUME TypeOK, TypeOK', Ownership, NEW p \in Procs,
           \/ CreateNoMemory(p) \/ CreateClose(p) \/ Return(p)
           \/ \E c \in Structs : PthreadJoin(p, c)
           \/ JoinWait(p) \/ JoinAlerted(p) \/ JoinWake(p)
    PROVE  Ownership'
<1>1. UNCHANGED <<mem, heap, table, tid, os>>
  BY Zenon DEF CreateNoMemory, CreateClose, Return, PthreadJoin, JoinWait, JoinAlerted, JoinWake,
         tableVars, osVars
<1>2. pc[p] \in Idle /\ \A q \in Procs : q # p => loc'[q] = loc[q]
  BY Typing, Zenon DEF CreateNoMemory, CreateClose, Return, PthreadJoin, JoinWait, JoinAlerted, JoinWake,
                Idle, Leave
<1>3. CASE \E label \in {"ready", "return"} : pc' = [pc EXCEPT ![p] = label]
  BY <1>1, <1>2, <1>3, QuietStep, Zenon DEF Idle
<1>4. CASE /\ \E label \in {"j_wait", "j_blocked", "j_detach"} : pc' = [pc EXCEPT ![p] = label]
           /\ loc'[p].tgt \in Structs /\ os[loc'[p].tgt] # "none"
  BY <1>1, <1>2, <1>4, QuietStep, Zenon DEF Idle
<1>5. CASE CreateNoMemory(p) \/ CreateClose(p) \/ Return(p)
  BY <1>3, <1>5, Zenon DEF CreateNoMemory, CreateClose, Return, Leave, Goto
<1>6. ASSUME NEW c \in Structs, PthreadJoin(p, c)
      PROVE  Ownership'
  <2>1. CASE Leave(p, [NoCall EXCEPT !.op = "join", !.tgt = c], "EINVAL")
    BY <1>3, <2>1, Zenon DEF Leave, Goto
  <2>2. CASE \E i \in Slots :
               /\ loc' = [loc EXCEPT ![p] = [[NoCall EXCEPT !.op = "join", !.tgt = c]
                                               EXCEPT !.h = heap[table[i]].h, !.index = i]]
               /\ Goto(p, "j_wait")
    <3>1. loc'[p].tgt = c
      BY <2>2, Typing, Zenon DEF NoCall
    <3>2. os[c] # "none"
      BY <1>6, Zenon DEF PthreadJoin, MayReap, Known
    <3>. QED
      BY <1>4, <2>2, <3>1, <3>2, Zenon DEF Goto
  <2>. QED
    BY <1>6, <2>1, <2>2, Zenon DEF PthreadJoin
<1>7. CASE JoinWait(p) \/ JoinAlerted(p) \/ JoinWake(p)
  <2>1. pc[p] \in {"j_wait", "j_blocked"} /\ loc[p].tgt \in Structs /\ os[loc[p].tgt] # "none"
    BY <1>7, Typing, Zenon DEF JoinWait, JoinAlerted, JoinWake, PointersOK, Ownership, CallInv
  <2>2. loc'[p].tgt = loc[p].tgt
    <3>1. loc[p] \in Locals
      BY Typing, Zenon
    <3>. QED
      BY <1>7, <3>1, Typing DEF JoinWait, JoinAlerted, JoinWake, Locals
  <2>. QED
    BY <1>4, <1>7, <2>1, <2>2, Zenon DEF JoinWait, JoinAlerted, JoinWake, Goto
<1>. QED
  BY <1>5, <1>6, <1>7, Zenon

\* A thread that ends leaves its struct where it is.
LEMMA EndSteps ==
    ASSUME TypeOK, TypeOK', Ownership, NEW t \in Structs, NEW index,
           ThreadDone(t, index) \/ ThreadEnd(t)
    PROVE  Ownership'
<1>1. t \in Procs /\ pc[t] \in Idle /\ UNCHANGED <<mem, table, tid, loc>>
  BY Zenon DEF Procs, ThreadDone, ThreadEnd, Idle, tableVars, osVars
<1>2. \A c \in Structs :
        /\ heap'[c].id = heap[c].id /\ heap'[c].start = heap[c].start
        /\ heap'[c].index = heap[c].index
        /\ os'[c] = os[c] \/ (c = t /\ os'[c] = "terminated")
  <2> SUFFICES ASSUME NEW c \in Structs
               PROVE  /\ heap'[c].id = heap[c].id /\ heap'[c].start = heap[c].start
                      /\ heap'[c].index = heap[c].index
                      /\ os'[c] = os[c] \/ (c = t /\ os'[c] = "terminated")
    OBVIOUS
  <2>1. heap'[c] = heap[c] \/ heap'[c] = [heap[c] EXCEPT !.result = t]
    BY Zenon DEF ThreadDone, ThreadEnd
  <2>2. heap[c] \in Thread
    BY Typing, Zenon
  <2>3. os'[c] = os[c] \/ (c = t /\ os'[c] = "terminated")
    BY Typing, Zenon DEF ThreadDone, ThreadEnd, osVars
  <2>. QED
    BY <2>1, <2>2, <2>3, Zenon DEF Thread
<1>3. CASE pc' = [pc EXCEPT ![t] = "t_exit"]
  BY <1>1, <1>2, <1>3, QuietStep, Zenon DEF Idle
<1>4. CASE pc' = [pc EXCEPT ![t] = "gone"]
  BY <1>1, <1>2, <1>4, QuietStep, Zenon DEF Idle
<1>. QED
  BY <1>3, <1>4, Zenon DEF ThreadDone, ThreadEnd, Goto

LEMMA OwnershipStep ==
    ASSUME ~ZeroDetach, TypeOK, TypeOK', Ownership, [Next]_vars
    PROVE  Ownership'
<1>1. ASSUME NEW p \in Procs, Call(p)
      PROVE  Ownership'
  <2>1. ASSUME NEW c \in Structs, PthreadDetach(p, c)
        PROVE  Ownership'
    <3>1. PICK l \in Locals : l.tgt = c /\ DetachThread(p, l, "0", "EINVAL")
      <4>1. [NoCall EXCEPT !.op = "detach", !.tgt = c] \in Locals
        BY NoCallType, Zenon DEF Locals, Ref
      <4>2. [NoCall EXCEPT !.op = "detach", !.tgt = c].tgt = c
        BY Zenon DEF NoCall
      <4>. QED
        BY <2>1, <4>1, <4>2, Zenon DEF PthreadDetach
    <3>2. pc[p] = "ready" /\ os[c] # "none" /\ UNCHANGED <<mem, os, tid>>
      BY <2>1, NamesAssumption, Zenon DEF PthreadDetach, MayReap, Known, osVars
    <3>. QED
      BY <3>1, <3>2, DetachStep
  <2>2. ~PthreadDetach(p, NULL)
    BY Zenon DEF PthreadDetach
  <2>. QED
    BY <1>1, <2>1, <2>2, AllocateStep, TableFullStep, QuietSteps, Zenon DEF Call, Ref
<1>2. ASSUME NEW p \in Procs, Step(p)
      PROVE  Ownership'
  <2>1. CASE JoinDetach(p)
    <3>1. loc[p] \in Locals /\ loc[p].tgt \in Structs /\ os[loc[p].tgt] # "none" /\ pc[p] = "j_detach"
      BY <2>1, Typing, Zenon DEF JoinDetach, PointersOK, Ownership, CallInv
    <3>2. PICK found, missing \in Codes : DetachThread(p, loc[p], found, missing)
      BY <2>1, Zenon DEF JoinDetach, Codes
    <3>3. UNCHANGED <<mem, os, tid>>
      BY <2>1, Zenon DEF JoinDetach, osVars
    <3>4. pc[p] \in {"ready", "j_detach"}
      BY <3>1, Zenon
    <3>. QED
      BY <3>1, <3>2, <3>3, <3>4, DetachStep, SMTT(30)
  <2>2. CASE FreeStruct(p)
    <3>1. PICK c \in Structs : c = loc[p].ptr /\ pc[p] = "free"
      BY <2>2, Typing, Zenon DEF FreeStruct, PointersOK
    <3>. QED
      BY <2>2, <3>1, FreeStep, Zenon DEF FreeStruct, Goto, tableVars, osVars
  <2>. QED
    BY <1>2, <2>1, <2>2, SetStartStep, BeginStep, SetInfoStep, ResumeStep, CloseStep, QuietSteps, Zenon
       DEF Step
<1>3. ASSUME NEW p \in Procs, JoinAlerted(p) \/ JoinWake(p)
      PROVE  Ownership'
  BY <1>3, QuietSteps, Zenon
<1>4. ASSUME NEW t \in Structs, Lifecycle(t)
      PROVE  Ownership'
  <2>1. CASE ThreadFree(t)
    BY <2>1, FreeStep, Zenon DEF ThreadFree, Procs, Goto, tableVars, osVars
  <2>. QED
    BY <1>4, <2>1, StartingStep, EndSteps, Zenon DEF Lifecycle
<1>5. CASE UNCHANGED vars
  <2>0. UNCHANGED <<mem, heap, table, os, tid, pc, loc>>
    BY <1>5, Zenon DEF vars
  <2>1. \A p \in Procs, c \in Structs : Creating(p, c)' <=> Creating(p, c)
    BY <2>0, Zenon DEF Creating
  <2>2. \A c \in Structs : (Unread(c)' <=> Unread(c)) /\ (InTable(c)' <=> InTable(c))
    BY <2>0, Zenon DEF Unread, InTable
  <2>3. \A p \in Procs, c \in Structs : Frees(p, c)' <=> Frees(p, c)
    BY <2>0, <2>2, Zenon DEF Frees
  <2>4. SlotsInv' /\ KernelInv' /\ UnreadInv' /\ FreesInv'
    BY <2>0, <2>2, <2>3, Zenon DEF Ownership, SlotsInv, KernelInv, UnreadInv, Kept, FreesInv
  <2>5. CreatingInv'
    BY <2>0, <2>1, CreatingKept, Zenon
  <2>6. StartInv'
    BY <2>0, <2>1, <2>2, StartKept, Zenon
  <2>7. CallInv'
    BY <2>0, <2>1, CallKept, Zenon
  <2>8. FreedOnce' /\ NoLeak'
    BY <2>0, <2>1, <2>2, <2>3, Zenon DEF Ownership, FreedOnce, NoLeak
  <2>. QED
    BY <2>4, <2>5, <2>6, <2>7, <2>8, Zenon DEF Ownership
<1>. QED
  BY <1>1, <1>2, <1>3, <1>4, <1>5, Zenon DEF Next

LEMMA OwnershipInit ==
    ASSUME Init
    PROVE  Ownership
<1>1. /\ \A c \in Structs : ~Unread(c) /\ mem[c] = "unused" /\ pc[c] = "start" /\ os[c] = "none"
      /\ \A p \in Procs, c \in Structs : ~Creating(p, c) /\ ~Frees(p, c)
      /\ \A i \in Slots : table[i] = NULL
      /\ \A p \in Procs : pc[p] \in {"ready", "start"}
  BY NamesAssumption, Zenon DEF Init, Unread, Creating, Frees, Procs
<1>. QED
  BY <1>1, Zenon DEF Ownership, SlotsInv, KernelInv, CreatingInv, UnreadInv, Kept, StartInv, CallInv,
              FreesInv, FreedOnce, NoLeak

\* Every live struct thread has exactly one party answerable for it, as long
\* as no client calls pthread_detach(0): the inductive invariant.
THEOREM OwnershipHolds ==
    ASSUME ~ZeroDetach
    PROVE  Spec => []Ownership
<1>1. Init => TypeOK /\ Ownership
  BY TypeInit, OwnershipInit, Zenon
<1>2. TypeOK /\ Ownership /\ [Next]_vars => TypeOK' /\ Ownership'
  BY TypeStep, OwnershipStep, Zenon
<1>. QED
  BY <1>1, <1>2, PTL DEF Spec

\* However creations, joins, detaches, failed creations and starting threads
\* interleave in src/pthread.c, no struct thread is used after it was freed,
\* freed twice or lost.
THEOREM MemorySafe ==
    ASSUME ~ZeroDetach
    PROVE  Spec => []MemorySound
<1>1. TypeOK /\ Ownership => MemorySound
  <2> SUFFICES ASSUME TypeOK, Ownership PROVE NoUseAfterFree
    BY Zenon DEF Ownership, MemorySound
  <2>1. ASSUME NEW c \in Structs, InTable(c) PROVE mem[c] = "live"
    BY <2>1, NamesAssumption, Zenon DEF InTable, Ownership, SlotsInv
  <2>2. ASSUME NEW p \in Procs, NEW c \in Structs, Creating(p, c) PROVE InTable(c)
    <3>1. heap[c].index \in Slots \cup {-1}
      BY Typing, Zenon DEF Thread
    <3>. QED
      BY <2>2, <3>1, Zenon DEF InTable, Ownership, CreatingInv, SetUp
  <2>. QED
    BY <2>1, <2>2, Zenon DEF NoUseAfterFree, Ownership, UnreadInv, Kept, FreesInv
<1>. QED
  BY <1>1, TypeCorrect, OwnershipHolds, PTL

-----------------------------------------------------------------------------
(***************************************************************************)
(* The handles of the thread table and the searches by id, for every       *)
(* number of structs, callers, ids and slots, whatever clients do but      *)
(* pthread_detach(0).                                                      *)
(***************************************************************************)
(***************************************************************************)
(* A handle that is open is offered by the table, or in the hands of the   *)
(* call that created its thread, or in those of one call about to close    *)
(* it.  That a search by id finds the handle of the thread it is meant for *)
(* rests on the ids of open handles being distinct.                        *)
(***************************************************************************)
InSetUp(c) == \E p \in Procs : Creating(p, c)
Offered(c) == InTable(c) /\ heap[c].h = c
Making(p, c) == Creating(p, c) /\ loc[p].h = c
Taken(c) == os[c] \in {"suspended", "runnable"} \/ hopen[c]

\* A struct in the table is being set up, or offers an open handle and the id
\* of its thread.
EntryInv ==
    \A c \in Structs : InTable(c) =>
        IF InSetUp(c) THEN heap[c].h = NULL
        ELSE heap[c].h = c /\ heap[c].id = tid[c] /\ hopen[c]

HandleInv ==
    /\ \A p \in Procs, c \in Structs : Closes(p, c) \/ Making(p, c) =>
         /\ hopen[c] /\ ~Offered(c)
         /\ \A q \in Procs : q # p => ~Closes(q, c) /\ ~Making(q, c)
    /\ \A c \in Structs : hopen[c] =>
         Offered(c) \/ \E p \in Procs : Closes(p, c) \/ Making(p, c)

\* The kernel: what has not been created has no id and no handle, and the ids
\* in use are distinct.
IdsInv ==
    /\ \A c \in Structs : os[c] = "none" => tid[c] = 0 /\ ~hopen[c]
    /\ \A c, d \in Structs : Taken(c) /\ Taken(d) /\ tid[c] = tid[d] => c = d

\* A thread is resumed once, by the call that created it, and runs until it
\* has made its last step.
ResumeInv ==
    /\ \A p \in Procs : pc[p] = "c_resume" =>
         /\ os[loc[p].h] = "suspended"
         /\ \A q \in Procs : pc[q] = "c_resume" /\ loc[q].h = loc[p].h => q = p
    /\ \A c \in Structs : os[c] = "terminated" <=> pc[c] = "gone"

MarkInv == \A i \in Slots : table[i] # NULL => i < hwm

\* A thread in the table knows its slot, and leaves its result there.
ResultInv ==
    \A c \in Structs : InTable(c) /\ pc[c] # "start" =>
        /\ info[c] = heap[c].index
        /\ pc[c] \in {"t_exit", "gone"} => heap[c].result = c

TableInv == EntryInv /\ HandleInv /\ IdsInv /\ ResumeInv /\ MarkInv /\ ResultInv

\* A thread has terminated when it has made its last step.
LEMMA Ended ==
    ASSUME TableInv
    PROVE  \A c \in Structs : os[c] = "terminated" <=> pc[c] = "gone"
BY Zenon DEF TableInv, ResumeInv

-----------------------------------------------------------------------------
(***************************************************************************)
(* What Ownership says about the table.                                    *)
(***************************************************************************)
LEMMA InSlot ==
    ASSUME TypeOK, Ownership, NEW c \in Structs, InTable(c)
    PROVE  /\ heap[c].index \in Slots /\ table[heap[c].index] = c
           /\ \A i \in Slots : table[i] = c => i = heap[c].index
BY NamesAssumption, Zenon DEF InTable, Ownership, SlotsInv

LEMMA SetUpIn ==
    ASSUME TypeOK, Ownership, NEW p \in Procs, NEW c \in Structs, Creating(p, c)
    PROVE  /\ InTable(c) /\ heap[c].id = 0 /\ os[c] \in {"none", "suspended"} /\ pc[c] = "start"
           /\ loc[p].h \in {NULL, c} /\ (os[c] = "none" <=> loc[p].h = NULL)
           /\ \A q \in Procs : Creating(q, c) => q = p
<1>1. SetUp(p, c) BY Zenon DEF Ownership, CreatingInv
<1>2. heap[c].index \in Slots \cup {-1} BY Typing, Zenon DEF Thread
<1>3. InTable(c) BY <1>1, <1>2, Zenon DEF SetUp, InTable
<1>4. os[c] \in {"none", "suspended"} /\ (os[c] = "none" <=> loc[p].h = NULL)
      BY <1>1, NamesAssumption, Zenon DEF SetUp
<1>5. pc[c] = "start" BY <1>4, Zenon DEF Ownership, KernelInv
<1>. QED BY <1>1, <1>3, <1>4, <1>5, Zenon DEF SetUp

\* What a search for the id of a thread finds.
LEMMA Found ==
    ASSUME TypeOK, Ownership, EntryInv, NEW i \in Slots, NEW id, id # 0, Holds(i, id)
    PROVE  /\ table[i] \in Structs /\ Offered(table[i]) /\ hopen[table[i]] /\ tid[table[i]] = id
           /\ ~InSetUp(table[i]) /\ heap[table[i]].index = i
<1>1. table[i] \in Structs /\ heap[table[i]].id = id BY Typing, Zenon DEF Holds, Ref
<1>. DEFINE c == table[i]
<1>2. InTable(c) BY Zenon DEF InTable
<1>. HIDE DEF c
<1>3. c \in Structs /\ heap[c].id = id BY <1>1, Zenon DEF c
<1>4. ~InSetUp(c) BY <1>3, SetUpIn, Zenon DEF InSetUp
<1>5. heap[c].h = c /\ tid[c] = id /\ hopen[c] BY <1>2, <1>3, <1>4, Zenon DEF EntryInv
<1>6. heap[c].index = i BY <1>2, <1>3, InSlot, Zenon DEF c
<1>. QED BY <1>2, <1>3, <1>4, <1>5, <1>6, Zenon DEF c, Offered

LEMMA LocatedHolds ==
    ASSUME NEW i, NEW index, NEW id, Located(i, index, id)
    PROVE  Holds(i, id)
BY Zenon DEF Located, First

-----------------------------------------------------------------------------
(***************************************************************************)
(* Steps that leave a part of the invariant alone.                         *)
(***************************************************************************)
LEMMA EntryKept ==
    ASSUME EntryInv, tid' = tid,
           \A c \in Structs : InTable(c)' =>
             /\ InTable(c) /\ heap'[c].h = heap[c].h /\ heap'[c].id = heap[c].id
             /\ InSetUp(c)' <=> InSetUp(c)
             /\ heap[c].h = c /\ hopen[c] => hopen'[c]
    PROVE  EntryInv'
<1>. SUFFICES ASSUME NEW c \in Structs, InTable(c)'
              PROVE  IF InSetUp(c)' THEN heap'[c].h = NULL
                     ELSE heap'[c].h = c /\ heap'[c].id = tid'[c] /\ hopen'[c]
     BY Zenon DEF EntryInv
<1>. QED BY Zenon DEF EntryInv

LEMMA HandleKept ==
    ASSUME HandleInv, hopen' = hopen,
           \A c \in Structs : Offered(c)' <=> Offered(c),
           \A p \in Procs, c \in Structs : (Closes(p, c)' <=> Closes(p, c)) /\ (Making(p, c)' <=> Making(p, c))
    PROVE  HandleInv'
BY Zenon DEF HandleInv

LEMMA IdsKept ==
    ASSUME IdsInv, tid' = tid,
           \A c \in Structs : os'[c] = "none" => os[c] = "none",
           \A c \in Structs : hopen'[c] => hopen[c],
           \A c \in Structs : Taken(c)' => Taken(c)
    PROVE  IdsInv'
BY Zenon DEF IdsInv

LEMMA MarkKept ==
    ASSUME MarkInv, hwm' = hwm, \A i \in Slots : table'[i] # NULL => table[i] # NULL
    PROVE  MarkInv'
BY Zenon DEF MarkInv

LEMMA ResultKept ==
    ASSUME ResultInv,
           \A c \in Structs : InTable(c)' /\ pc'[c] # "start" =>
             /\ InTable(c) /\ pc[c] # "start"
             /\ info'[c] = info[c] /\ heap'[c].index = heap[c].index
             /\ pc'[c] \in {"t_exit", "gone"} =>
                  pc[c] \in {"t_exit", "gone"} /\ heap'[c].result = heap[c].result
    PROVE  ResultInv'
<1>. SUFFICES ASSUME NEW c \in Structs, InTable(c)', pc'[c] # "start"
              PROVE  /\ info'[c] = heap'[c].index
                     /\ pc'[c] \in {"t_exit", "gone"} => heap'[c].result = c
     BY Zenon DEF ResultInv
<1>. QED BY Zenon DEF ResultInv

LEMMA ResumeKept ==
    ASSUME TypeOK, ResumeInv,
           \A p \in Procs : pc'[p] = "c_resume" => pc[p] = "c_resume" /\ loc'[p].h = loc[p].h,
           \A c \in Structs : os[c] = "suspended" => os'[c] = "suspended",
           \A c \in Structs : os'[c] = "terminated" <=> pc'[c] = "gone"
    PROVE  ResumeInv'
<1>1. ASSUME NEW p \in Procs, pc'[p] = "c_resume"
      PROVE  /\ os'[loc'[p].h] = "suspended"
             /\ \A q \in Procs : pc'[q] = "c_resume" /\ loc'[q].h = loc'[p].h => q = p
  <2>1. pc[p] = "c_resume" /\ loc'[p].h = loc[p].h BY <1>1, Zenon
  <2>2. loc[p].h \in Structs BY <2>1, Typing, Zenon DEF PointersOK
  <2>3. os[loc[p].h] = "suspended" BY <2>1, Zenon DEF ResumeInv
  <2>4. ASSUME NEW q \in Procs, pc'[q] = "c_resume", loc'[q].h = loc'[p].h PROVE q = p
    <3>1. pc[q] = "c_resume" /\ loc'[q].h = loc[q].h BY <2>4, Zenon
    <3>2. loc[q].h = loc[p].h BY <2>1, <2>4, <3>1, Zenon
    <3>. QED BY <2>1, <3>1, <3>2, Zenon DEF ResumeInv
  <2>5. os'[loc'[p].h] = "suspended" BY <2>1, <2>2, <2>3
  <2>. QED BY <2>4, <2>5, Zenon
<1>. QED BY <1>1, Zenon DEF ResumeInv

\* A step of a call that neither takes over nor gives up a handle.
LEMMA QuietTable ==
    ASSUME TypeOK, Ownership, TableInv, NEW p \in Procs,
           UNCHANGED <<table, hwm, os, tid, hopen, info>>,
           \A q \in Procs : q # p => pc'[q] = pc[q] /\ loc'[q] = loc[q],
           \A c \in Structs : InTable(c) =>
             /\ heap'[c].h = heap[c].h /\ heap'[c].id = heap[c].id
             /\ heap'[c].index = heap[c].index /\ heap'[c].result = heap[c].result,
           \A c \in Structs : /\ Creating(p, c)' <=> Creating(p, c)
                              /\ Closes(p, c)' <=> Closes(p, c)
                              /\ Making(p, c)' <=> Making(p, c),
           pc[p] \notin {"start", "gone"},
           pc'[p] \notin {"c_resume", "start", "t_exit", "gone"}
    PROVE  TableInv'
<1>1. \A q \in Procs, c \in Structs : /\ Creating(q, c)' <=> Creating(q, c)
                                      /\ Closes(q, c)' <=> Closes(q, c)
                                      /\ Making(q, c)' <=> Making(q, c)
  <2>. SUFFICES ASSUME NEW q \in Procs, NEW c \in Structs
                PROVE  /\ Creating(q, c)' <=> Creating(q, c)
                       /\ Closes(q, c)' <=> Closes(q, c)
                       /\ Making(q, c)' <=> Making(q, c)
       BY Zenon
  <2>1. CASE q = p BY <2>1, Zenon
  <2>2. CASE q # p BY <2>2, Zenon DEF Creating, Closes, Making
  <2>. QED BY <2>1, <2>2, Zenon
<1>2. \A c \in Structs : (InTable(c)' <=> InTable(c)) /\ (InSetUp(c)' <=> InSetUp(c))
  BY <1>1, Zenon DEF InTable, InSetUp
<1>3. \A c \in Structs : (Offered(c)' <=> Offered(c)) /\ (Taken(c)' <=> Taken(c))
  BY <1>2, Zenon DEF Offered, Taken
<1>4. EntryInv' BY <1>2, EntryKept, Zenon DEF TableInv
<1>5. HandleInv' BY <1>1, <1>3, HandleKept, Zenon DEF TableInv
<1>6. IdsInv' BY <1>3, IdsKept, Zenon DEF TableInv
<1>7. MarkInv' BY MarkKept, Zenon DEF TableInv
<1>8. ResultInv'
  <2>1. \A c \in Structs : pc'[c] \in {"t_exit", "gone"} => pc[c] \in {"t_exit", "gone"}
    BY Zenon DEF Procs
  <2>2. \A c \in Structs : pc'[c] # "start" => pc[c] # "start"
    BY Zenon DEF Procs
  <2>. QED BY <1>2, <2>1, <2>2, ResultKept, Zenon DEF TableInv
<1>9. ResumeInv'
  <2>1. \A c \in Structs : os'[c] = "terminated" <=> pc'[c] = "gone"
    BY Ended, Zenon DEF Procs
  <2>2. \A q \in Procs : pc'[q] = "c_resume" => pc[q] = "c_resume" /\ loc'[q].h = loc[q].h
    BY Zenon
  <2>. QED BY <2>1, <2>2, ResumeKept, Zenon DEF TableInv
<1>. QED BY <1>4, <1>5, <1>6, <1>7, <1>8, <1>9, Zenon DEF TableInv

\* The same for a step that is at no label of a creation or a close.
LEMMA IdleTable ==
    ASSUME TypeOK, Ownership, TableInv, NEW p \in Procs, NEW label,
           UNCHANGED <<table, hwm, os, tid, hopen, info>>,
           pc' = [pc EXCEPT ![p] = label],
           \A q \in Procs : q # p => loc'[q] = loc[q],
           \A c \in Structs : InTable(c) =>
             /\ heap'[c].h = heap[c].h /\ heap'[c].id = heap[c].id
             /\ heap'[c].index = heap[c].index /\ heap'[c].result = heap[c].result,
           pc[p] \in {"ready", "t_free", "free", "return", "j_wait", "j_blocked", "j_detach"},
           label \in {"ready", "free", "return", "j_wait", "j_blocked", "j_detach"}
    PROVE  TableInv'
<1>1. pc'[p] = label /\ \A q \in Procs : q # p => pc'[q] = pc[q] BY Typing, Zenon
<1>2. \A c \in Structs : ~Creating(p, c) /\ ~Closes(p, c) /\ ~Making(p, c)
  BY Zenon DEF Creating, Closes, Making
<1>3. \A c \in Structs : ~Creating(p, c)' /\ ~Closes(p, c)' /\ ~Making(p, c)'
  BY <1>1, Zenon DEF Creating, Closes, Making
<1>4. pc[p] \notin {"start", "gone"} /\ pc'[p] \notin {"c_resume", "start", "t_exit", "gone"}
  BY <1>1, Zenon
<1>. QED BY <1>1, <1>2, <1>3, <1>4, QuietTable, Zenon

LEMMA OthersKept ==
    ASSUME NEW p \in Procs, \A q \in Procs : q # p => pc'[q] = pc[q] /\ loc'[q] = loc[q]
    PROVE  \A q \in Procs, c \in Structs : q # p =>
             /\ Creating(q, c)' <=> Creating(q, c)
             /\ Closes(q, c)' <=> Closes(q, c)
             /\ Making(q, c)' <=> Making(q, c)
BY Zenon DEF Creating, Closes, Making

\* A step of p that changes hands on the handle of c and no other.
LEMMA HandleMoved ==
    ASSUME HandleInv, NEW p \in Procs, NEW c \in Structs,
           \A d \in Structs : d # c => (hopen'[d] <=> hopen[d]) /\ (Offered(d)' <=> Offered(d)),
           \A q \in Procs, d \in Structs : d # c =>
             (Closes(q, d)' <=> Closes(q, d)) /\ (Making(q, d)' <=> Making(q, d)),
           \A q \in Procs : q # p => ~Closes(q, c)' /\ ~Making(q, c)',
           Closes(p, c)' \/ Making(p, c)' => hopen'[c] /\ ~Offered(c)',
           hopen'[c] => Offered(c)' \/ Closes(p, c)' \/ Making(p, c)'
    PROVE  HandleInv'
<1>1. ASSUME NEW q \in Procs, NEW d \in Structs, Closes(q, d)' \/ Making(q, d)'
      PROVE  /\ hopen'[d] /\ ~Offered(d)'
             /\ \A r \in Procs : r # q => ~Closes(r, d)' /\ ~Making(r, d)'
  <2>1. CASE d = c BY <1>1, <2>1, Zenon
  <2>2. CASE d # c
    <3>1. Closes(q, d) \/ Making(q, d) BY <1>1, <2>2, Zenon
    <3>2. hopen[d] /\ ~Offered(d) /\ \A r \in Procs : r # q => ~Closes(r, d) /\ ~Making(r, d)
      BY <3>1, Zenon DEF HandleInv
    <3>. QED BY <2>2, <3>2, Zenon
  <2>. QED BY <2>1, <2>2, Zenon
<1>2. ASSUME NEW d \in Structs, hopen'[d]
      PROVE  Offered(d)' \/ \E q \in Procs : Closes(q, d)' \/ Making(q, d)'
  <2>1. CASE d = c BY <1>2, <2>1, Zenon
  <2>2. CASE d # c
    <3>1. Offered(d) \/ \E q \in Procs : Closes(q, d) \/ Making(q, d)
      BY <1>2, <2>2, Zenon DEF HandleInv
    <3>. QED BY <2>2, <3>1, Zenon
  <2>. QED BY <2>1, <2>2, Zenon
<1>. QED BY <1>1, <1>2, Zenon DEF HandleInv

-----------------------------------------------------------------------------
(***************************************************************************)
(* The steps, one lemma for each kind.                                     *)
(***************************************************************************)
LEMMA IdleSteps ==
    ASSUME TypeOK, Ownership, TableInv, NEW p \in Procs,
           \/ CreateNoMemory(p) \/ Return(p)
           \/ \E c \in Structs : CreateTableFull(p, c) \/ PthreadJoin(p, c)
           \/ JoinWait(p) \/ JoinAlerted(p) \/ JoinWake(p)
    PROVE  TableInv'
<1>1. UNCHANGED <<heap, table, hwm, os, tid, hopen, info>>
  BY Zenon DEF CreateNoMemory, Return, CreateTableFull, PthreadJoin, JoinWait, JoinAlerted, JoinWake,
               tableVars, osVars
<1>2. \A q \in Procs : q # p => loc'[q] = loc[q]
  BY Typing, Zenon DEF CreateNoMemory, Return, CreateTableFull, PthreadJoin, JoinWait, JoinAlerted,
                       JoinWake, Leave
<1>3. pc[p] \in {"ready", "t_free", "free", "return", "j_wait", "j_blocked", "j_detach"}
  BY Zenon DEF CreateNoMemory, Return, CreateTableFull, PthreadJoin, JoinWait, JoinAlerted, JoinWake
<1>4. \E label \in {"ready", "free", "return", "j_wait", "j_blocked", "j_detach"} :
        pc' = [pc EXCEPT ![p] = label]
  BY Zenon DEF CreateNoMemory, Return, CreateTableFull, PthreadJoin, JoinWait, JoinAlerted, JoinWake,
               Leave, Goto
<1>. QED BY <1>1, <1>2, <1>3, <1>4, IdleTable, Zenon

\* free(c), by the thread or by whoever reaped it: c is not in the table.
LEMMA FreeTable ==
    ASSUME TypeOK, Ownership, TableInv, NEW p \in Procs, FreeStruct(p) \/ (p \in Structs /\ ThreadFree(p))
    PROVE  TableInv'
<1>1. PICK c \in Structs : Frees(p, c) /\ heap' = [heap EXCEPT ![c] = Zeroed]
  BY Typing, Zenon DEF FreeStruct, ThreadFree, Free, Frees, PointersOK
<1>2. ~InTable(c) BY <1>1, Zenon DEF Ownership, FreedOnce
<1>3. \A d \in Structs : InTable(d) => heap'[d] = heap[d] BY <1>1, <1>2, Typing, Zenon
<1>4. UNCHANGED <<table, hwm, os, tid, hopen, info, loc>>
  BY Zenon DEF FreeStruct, ThreadFree, tableVars, osVars
<1>5. pc[p] \in {"ready", "t_free", "free", "return", "j_wait", "j_blocked", "j_detach"}
  BY Zenon DEF FreeStruct, ThreadFree
<1>6. \E label \in {"ready", "free", "return", "j_wait", "j_blocked", "j_detach"} :
        pc' = [pc EXCEPT ![p] = label]
  BY Zenon DEF FreeStruct, ThreadFree, Goto
<1>. QED BY <1>3, <1>4, <1>5, <1>6, IdleTable, Zenon

LEMMA SetStartTable ==
    ASSUME TypeOK, Ownership, TableInv, NEW p \in Procs, CreateSetStart(p)
    PROVE  TableInv'
<1>1. PICK c \in Structs : c = loc[p].ptr /\ heap' = [heap EXCEPT ![c] = [heap[c] EXCEPT !.start = TRUE]]
  BY Typing, Zenon DEF CreateSetStart, PointersOK
<1>2. ASSUME NEW d \in Structs
      PROVE  /\ heap'[d].h = heap[d].h /\ heap'[d].id = heap[d].id
             /\ heap'[d].index = heap[d].index /\ heap'[d].result = heap[d].result
  <2>1. heap[d] \in Thread BY Typing, Zenon
  <2>2. heap'[d] = heap[d] \/ heap'[d] = [heap[d] EXCEPT !.start = TRUE] BY <1>1, Typing, Zenon
  <2>. QED BY <2>1, <2>2, Zenon DEF Thread
<1>3. /\ UNCHANGED <<table, hwm, os, tid, hopen, info, loc>>
      /\ pc[p] = "c_start" /\ pc'[p] = "c_begin" /\ \A q \in Procs : q # p => pc'[q] = pc[q]
  BY Typing, Zenon DEF CreateSetStart, Goto, tableVars, osVars
<1>4. \A d \in Structs : /\ Creating(p, d)' <=> Creating(p, d)
                         /\ Closes(p, d)' <=> Closes(p, d)
                         /\ Making(p, d)' <=> Making(p, d)
  BY <1>3, Zenon DEF Creating, Closes, Making
<1>. QED BY <1>2, <1>3, <1>4, QuietTable, Zenon

\* A new struct enters the table with neither id nor handle.
LEMMA AllocateTable ==
    ASSUME TypeOK, Ownership, TableInv, NEW p \in Procs, NEW c \in Structs, CreateAllocate(p, c)
    PROVE  TableInv'
<1>1. PICK i \in Slots : /\ table[i] = NULL
                         /\ table' = [table EXCEPT ![i] = c]
                         /\ heap' = [heap EXCEPT ![c] = [Zeroed EXCEPT !.index = i]]
                         /\ hwm' = IF i >= hwm THEN i + 1 ELSE hwm
  BY Zenon DEF CreateAllocate
<1>2. /\ pc[p] = "ready" /\ pc'[p] = "c_start"
      /\ \A q \in Procs : q # p => pc'[q] = pc[q] /\ loc'[q] = loc[q]
      /\ loc'[p] = [NoCall EXCEPT !.op = "create", !.ptr = c]
      /\ UNCHANGED <<os, tid, hopen, info>>
  BY Typing, Zenon DEF CreateAllocate, Goto, osVars
<1>3. loc'[p].ptr = c /\ loc'[p].h = NULL BY <1>2, Zenon DEF NoCall
<1>4. /\ os[c] = "none" /\ pc[c] = "start" /\ ~InTable(c) /\ c # p
      /\ \A q \in Procs : ~Creating(q, c)
  BY <1>2, Fresh, Zenon DEF CreateAllocate, InTable
<1>5. heap'[c].h = NULL /\ \A d \in Structs : d # c => heap'[d] = heap[d]
  <2>1. heap'[c] = [Zeroed EXCEPT !.index = i] /\ \A d \in Structs : d # c => heap'[d] = heap[d]
    BY <1>1, Typing, Zenon
  <2>. QED BY <2>1, Zenon DEF Zeroed
<1>6. /\ table'[i] = c /\ \A j \in Slots : j # i => table'[j] = table[j]
  BY <1>1, Typing, Zenon
<1>7. \A d \in Structs : InTable(d)' <=> InTable(d) \/ d = c
  BY <1>1, <1>6, NamesAssumption, Zenon DEF InTable
<1>8. \A d \in Structs : /\ Creating(p, d)' <=> d = c
                         /\ ~Closes(p, d) /\ ~Closes(p, d)' /\ ~Making(p, d) /\ ~Making(p, d)'
                         /\ ~Creating(p, d)
  BY <1>2, <1>3, NamesAssumption, Zenon DEF Creating, Closes, Making
<1>9. \A q \in Procs, d \in Structs : /\ Creating(q, d)' <=> Creating(q, d) \/ (q = p /\ d = c)
                                      /\ Closes(q, d)' <=> Closes(q, d)
                                      /\ Making(q, d)' <=> Making(q, d)
  BY <1>2, <1>8, OthersKept, Zenon
<1>10. \A d \in Structs : InSetUp(d)' <=> InSetUp(d) \/ d = c BY <1>9, Zenon DEF InSetUp
<1>11. \A d \in Structs : Offered(d)' <=> Offered(d)
  BY <1>4, <1>5, <1>7, NamesAssumption, Zenon DEF Offered
<1>12. EntryInv'
  <2>. SUFFICES ASSUME NEW d \in Structs, InTable(d)'
                PROVE  IF InSetUp(d)' THEN heap'[d].h = NULL
                       ELSE heap'[d].h = d /\ heap'[d].id = tid'[d] /\ hopen'[d]
       BY Zenon DEF EntryInv
  <2>1. CASE d = c BY <1>5, <1>10, <2>1, Zenon
  <2>2. CASE d # c
    <3>1. InTable(d) /\ heap'[d] = heap[d] /\ (InSetUp(d)' <=> InSetUp(d)) /\ UNCHANGED <<tid, hopen>>
      BY <1>2, <1>5, <1>7, <1>10, <2>2, Zenon
    <3>2. IF InSetUp(d) THEN heap[d].h = NULL
          ELSE heap[d].h = d /\ heap[d].id = tid[d] /\ hopen[d]
      BY <3>1, Zenon DEF TableInv, EntryInv
    <3>. QED BY <3>1, <3>2, Zenon
  <2>. QED BY <2>1, <2>2, Zenon
<1>13. HandleInv' BY <1>2, <1>9, <1>11, HandleKept, Zenon DEF TableInv
<1>14. \A d \in Structs : Taken(d)' <=> Taken(d) BY <1>2, Zenon DEF Taken
<1>15. IdsInv' BY <1>2, <1>14, IdsKept, Zenon DEF TableInv
<1>16. MarkInv'
  <2>1. \A j \in Slots : table'[j] # NULL => j = i \/ j < hwm
    BY <1>6, Zenon DEF TableInv, MarkInv
  <2>2. hwm \in Int /\ \A j \in Slots : j \in Int BY Typing, MaxThreadsAssumption DEF Slots
  <2>. QED BY <1>1, <2>1, <2>2 DEF MarkInv
<1>17. pc'[c] = "start" /\ \A d \in Structs : pc'[d] = pc[d] \/ (pc[d] = "ready" /\ pc'[d] = "c_start")
  BY <1>2, <1>4, Zenon DEF Procs
<1>18. ResultInv'
  <2>1. ASSUME NEW d \in Structs, InTable(d)', pc'[d] # "start"
        PROVE  /\ InTable(d) /\ pc[d] # "start"
               /\ info'[d] = info[d] /\ heap'[d].index = heap[d].index
               /\ pc'[d] \in {"t_exit", "gone"} =>
                    pc[d] \in {"t_exit", "gone"} /\ heap'[d].result = heap[d].result
    <3>1. d # c /\ InTable(d) /\ heap'[d] = heap[d] BY <1>5, <1>7, <1>17, <2>1, Zenon
    <3>2. pc[d] # "start" /\ (pc'[d] \in {"t_exit", "gone"} => pc[d] \in {"t_exit", "gone"})
      BY <1>17, <2>1, Zenon
    <3>. QED BY <1>2, <3>1, <3>2, Zenon
  <2>. QED BY <2>1, ResultKept, Zenon DEF TableInv
<1>19. ResumeInv'
  <2>1. \A q \in Procs : pc'[q] = "c_resume" => pc[q] = "c_resume" /\ loc'[q].h = loc[q].h
    BY <1>2, Zenon
  <2>2. \A d \in Structs : os'[d] = "terminated" <=> pc'[d] = "gone"
    BY <1>2, <1>17, Ended, Zenon
  <2>. QED BY <1>2, <2>1, <2>2, ResumeKept, Zenon DEF TableInv
<1>. QED BY <1>12, <1>13, <1>15, <1>16, <1>18, <1>19, Zenon DEF TableInv

\* _beginthreadex: the new handle is in the hands of the call, and its id is
\* that of no other thread.
LEMMA BeginTable ==
    ASSUME TypeOK, Ownership, TableInv, NEW p \in Procs, CreateBegin(p)
    PROVE  TableInv'
<1>1. PICK c \in Structs : c = loc[p].ptr BY Typing, Zenon DEF CreateBegin, PointersOK
<1>2. /\ pc[p] = "c_begin" /\ pc'[p] = "c_info" /\ \A q \in Procs : q # p => pc'[q] = pc[q]
      /\ UNCHANGED <<mem, heap, table, hwm, info>>
  BY Typing, Zenon DEF CreateBegin, Goto, tableVars
<1>3. Creating(p, c) /\ SetUp(p, c) /\ loc[p].h = NULL /\ os[c] = "none"
  <2>1. Creating(p, c) BY <1>1, <1>2, Zenon DEF Creating
  <2>2. SetUp(p, c) BY <2>1, Zenon DEF Ownership, CreatingInv
  <2>3. loc[p].h = NULL BY <1>2, <2>2, Zenon DEF SetUp
  <2>. QED BY <2>1, <2>2, <2>3, SetUpIn, Zenon
<1>4. pc[c] = "start" /\ c # p /\ InTable(c) /\ heap[c].h = NULL /\ tid[c] = 0 /\ ~hopen[c]
  <2>1. pc[c] = "start" /\ InTable(c) BY <1>3, SetUpIn, Zenon
  <2>. QED BY <1>2, <1>3, <2>1, Zenon DEF TableInv, EntryInv, IdsInv, InSetUp
<1>5. \A q \in Procs : ~Closes(q, c) /\ ~Making(q, c) BY <1>4, Zenon DEF TableInv, HandleInv
<1>6. \A d \in Structs : /\ InTable(d)' <=> InTable(d)
                         /\ Offered(d)' <=> Offered(d)
  BY <1>2, Zenon DEF InTable, Offered
<1>7. PICK det \in BOOLEAN :
        \/ \E id \in NewIds :
             /\ os' = [os EXCEPT ![c] = "suspended"]
             /\ tid' = [tid EXCEPT ![c] = id]
             /\ hopen' = [hopen EXCEPT ![c] = TRUE]
             /\ loc' = [loc EXCEPT ![p] = [loc[p] EXCEPT !.det = det, !.h = c]]
        \/ /\ loc' = [loc EXCEPT ![p] = [loc[p] EXCEPT !.det = det, !.rc = "EAGAIN"]]
           /\ UNCHANGED <<os, tid, hopen>>
  BY <1>1, Zenon DEF CreateBegin, osVars
<1>8. loc[p] \in Locals BY Typing, Zenon
<1>9. CASE /\ loc' = [loc EXCEPT ![p] = [loc[p] EXCEPT !.det = det, !.rc = "EAGAIN"]]
           /\ UNCHANGED <<os, tid, hopen>>
  <2>1. loc'[p] = [loc[p] EXCEPT !.det = det, !.rc = "EAGAIN"] /\ \A q \in Procs : q # p => loc'[q] = loc[q]
    BY <1>9, Typing, Zenon
  <2>2. loc'[p].ptr = loc[p].ptr /\ loc'[p].h = loc[p].h BY <1>8, <2>1, Zenon DEF Locals
  <2>3. \A d \in Structs : /\ Creating(p, d)' <=> Creating(p, d)
                           /\ Closes(p, d)' <=> Closes(p, d)
                           /\ Making(p, d)' <=> Making(p, d)
    BY <1>2, <1>3, <2>2, NamesAssumption, Zenon DEF Creating, Closes, Making
  <2>. QED BY <1>2, <1>9, <2>1, <2>3, QuietTable, Zenon
<1>10. ASSUME NEW id \in NewIds, os' = [os EXCEPT ![c] = "suspended"],
              tid' = [tid EXCEPT ![c] = id], hopen' = [hopen EXCEPT ![c] = TRUE],
              loc' = [loc EXCEPT ![p] = [loc[p] EXCEPT !.det = det, !.h = c]]
       PROVE  TableInv'
  <2>1. loc'[p] = [loc[p] EXCEPT !.det = det, !.h = c] /\ \A q \in Procs : q # p => loc'[q] = loc[q]
    BY <1>10, Typing, Zenon
  <2>2. loc'[p].ptr = c /\ loc'[p].h = c BY <1>1, <1>8, <2>1, Zenon DEF Locals
  <2>3. /\ os'[c] = "suspended" /\ tid'[c] = id /\ hopen'[c]
        /\ \A d \in Structs : d # c => os'[d] = os[d] /\ tid'[d] = tid[d] /\ hopen'[d] = hopen[d]
    BY <1>10, Typing, Zenon
  <2>4. \A d \in Structs : /\ Creating(p, d)' <=> Creating(p, d)
                           /\ ~Closes(p, d) /\ ~Making(p, d)
                           /\ Making(p, d)' <=> d = c
                           /\ Closes(p, d)' => d = c
    BY <1>1, <1>2, <1>3, <2>2, NamesAssumption, Zenon DEF Creating, Closes, Making
  <2>5. \A q \in Procs, d \in Structs : q # p => /\ Creating(q, d)' <=> Creating(q, d)
                                                 /\ Closes(q, d)' <=> Closes(q, d)
                                                 /\ Making(q, d)' <=> Making(q, d)
    BY <1>2, <2>1, OthersKept, Zenon
  <2>6. \A d \in Structs : InSetUp(d)' <=> InSetUp(d) BY <2>4, <2>5, Zenon DEF InSetUp
  <2>7. ~Offered(c) BY <1>4, NamesAssumption, Zenon DEF Offered
  <2>8. EntryInv'
    <3>. SUFFICES ASSUME NEW d \in Structs, InTable(d)'
                  PROVE  IF InSetUp(d)' THEN heap'[d].h = NULL
                         ELSE heap'[d].h = d /\ heap'[d].id = tid'[d] /\ hopen'[d]
         BY Zenon DEF EntryInv
    <3>1. CASE d = c BY <1>2, <1>3, <1>4, <2>6, <3>1, Zenon DEF InSetUp
    <3>2. CASE d # c
      <4>1. InTable(d) /\ heap'[d] = heap[d] /\ tid'[d] = tid[d] /\ hopen'[d] = hopen[d]
        BY <1>2, <1>6, <2>3, <3>2, Zenon
      <4>2. IF InSetUp(d) THEN heap[d].h = NULL
            ELSE heap[d].h = d /\ heap[d].id = tid[d] /\ hopen[d]
        BY <4>1, Zenon DEF TableInv, EntryInv
      <4>. QED BY <2>6, <4>1, <4>2, Zenon
    <3>. QED BY <3>1, <3>2, Zenon
  <2>9. HandleInv'
    <3>1. \A q \in Procs, d \in Structs : d # c =>
            (Closes(q, d)' <=> Closes(q, d)) /\ (Making(q, d)' <=> Making(q, d))
      BY <2>4, <2>5, Zenon
    <3>2. \A q \in Procs : q # p => ~Closes(q, c)' /\ ~Making(q, c)' BY <1>5, <2>5, Zenon
    <3>. QED BY <1>6, <2>3, <2>4, <2>7, <3>1, <3>2, HandleMoved, Zenon DEF TableInv
  <2>10. IdsInv'
    <3>1. \A d \in Structs : d # c => (Taken(d)' <=> Taken(d)) BY <2>3, Zenon DEF Taken
    <3>2. \A d \in Structs : Taken(d) => tid[d] # id BY Zenon DEF NewIds, InUse, Taken
    <3>3. ASSUME NEW d \in Structs, NEW e \in Structs, Taken(d)', Taken(e)', tid'[d] = tid'[e]
          PROVE  d = e
      <4>1. CASE d = c /\ e # c BY <2>3, <3>1, <3>2, <3>3, <4>1, Zenon
      <4>2. CASE d # c /\ e = c BY <2>3, <3>1, <3>2, <3>3, <4>2, Zenon
      <4>3. CASE d # c /\ e # c BY <2>3, <3>1, <3>3, <4>3, Zenon DEF TableInv, IdsInv
      <4>. QED BY <4>1, <4>2, <4>3, Zenon
    <3>4. \A d \in Structs : os'[d] = "none" => tid'[d] = 0 /\ ~hopen'[d]
      BY <2>3, Zenon DEF TableInv, IdsInv
    <3>. QED BY <3>3, <3>4, Zenon DEF IdsInv
  <2>11. MarkInv' BY <1>2, MarkKept, Zenon DEF TableInv
  <2>12. pc'[c] = "start" /\ \A d \in Structs : pc'[d] = pc[d] \/ (pc[d] = "c_begin" /\ pc'[d] = "c_info")
    BY <1>2, <1>4, Zenon DEF Procs
  <2>13. ResultInv'
    <3>1. \A d \in Structs : /\ pc'[d] # "start" => pc[d] # "start"
                             /\ pc'[d] \in {"t_exit", "gone"} => pc[d] \in {"t_exit", "gone"}
      BY <2>12, Zenon
    <3>. QED BY <1>2, <1>6, <3>1, ResultKept, Zenon DEF TableInv
  <2>14. ResumeInv'
    <3>1. \A q \in Procs : pc'[q] = "c_resume" => pc[q] = "c_resume" /\ loc'[q].h = loc[q].h
      BY <1>2, <2>1, Zenon
    <3>2. \A d \in Structs : os'[d] = "terminated" <=> pc'[d] = "gone"
      BY <2>3, <2>12, Ended, Zenon
    <3>3. \A d \in Structs : os[d] = "suspended" => os'[d] = "suspended" BY <2>3, Zenon
    <3>. QED BY <3>1, <3>2, <3>3, ResumeKept, Zenon DEF TableInv
  <2>. QED BY <2>8, <2>9, <2>10, <2>11, <2>13, <2>14, Zenon DEF TableInv
<1>. QED BY <1>7, <1>9, <1>10, Zenon

\* wpdk_set_thread_info: a joinable thread is offered, any other leaves the
\* table, and a detached one leaves its handle with the call.
LEMMA SetInfoTable ==
    ASSUME TypeOK, Ownership, TableInv, NEW p \in Procs, CreateSetInfo(p)
    PROVE  TableInv'
<1>0. PICK c \in Structs : c = loc[p].ptr BY Typing, Zenon DEF CreateSetInfo, PointersOK
<1>. DEFINE h == IF loc[p].det THEN NULL ELSE loc[p].h
            i == heap[c].index
<1>1. c \in Structs /\ pc[p] = "c_info" BY Zenon DEF CreateSetInfo
<1>2. PICK id \in Ids \cup {0} :
        /\ loc[p].h # NULL => id = tid[c]
        /\ heap' = [heap EXCEPT ![c] = [heap[c] EXCEPT !.id = id, !.h = h,
                                        !.index = IF h = NULL THEN -1 ELSE heap[c].index]]
  BY <1>0, Zenon DEF CreateSetInfo
<1>3. /\ table' = IF h = NULL THEN [table EXCEPT ![i] = NULL] ELSE table
      /\ pc'[p] = (IF loc[p].h = NULL THEN "free" ELSE "c_resume")
      /\ \A q \in Procs : q # p => pc'[q] = pc[q]
      /\ UNCHANGED <<hwm, os, tid, hopen, loc, info>>
  BY <1>0, Typing, Zenon DEF CreateSetInfo, Goto, osVars
<1>. HIDE DEF h, i
<1>4. Creating(p, c) BY <1>0, <1>1, Zenon DEF Creating
<1>5. /\ InTable(c) /\ os[c] \in {"none", "suspended"} /\ pc[c] = "start" /\ c # p
      /\ loc[p].h \in {NULL, c} /\ (os[c] = "none" <=> loc[p].h = NULL)
      /\ \A q \in Procs : Creating(q, c) => q = p
  BY <1>1, <1>4, SetUpIn, Zenon
<1>6. i \in Slots /\ table[i] = c /\ \A j \in Slots : table[j] = c => j = i
  BY <1>1, <1>5, InSlot, Zenon DEF i
<1>7. /\ heap'[c].id = id /\ heap'[c].h = h /\ heap'[c].index = IF h = NULL THEN -1 ELSE i
      /\ \A d \in Structs : d # c => heap'[d] = heap[d]
  <2>1. heap[c] \in Thread BY <1>1, Typing, Zenon
  <2>2. heap'[c] = [heap[c] EXCEPT !.id = id, !.h = h, !.index = IF h = NULL THEN -1 ELSE heap[c].index]
    BY <1>1, <1>2, Typing, Zenon
  <2>3. \A d \in Structs : d # c => heap'[d] = heap[d] BY <1>1, <1>2, Typing, Zenon
  <2>. QED BY <2>1, <2>2, <2>3, Zenon DEF Thread, i
<1>8. \A d \in Structs : InTable(d)' <=> InTable(d) /\ (d = c => h # NULL)
  <2>1. CASE h = NULL
    <3>1. table'[i] = NULL /\ \A j \in Slots : j # i => table'[j] = table[j]
      BY <1>3, <1>6, <2>1, Typing, Zenon
    <3>. QED BY <1>6, <2>1, <3>1, NamesAssumption, Zenon DEF InTable
  <2>2. CASE h # NULL BY <1>3, <2>2, Zenon DEF InTable
  <2>. QED BY <2>1, <2>2, Zenon
<1>9. \A q \in Procs, d \in Structs : q # p => /\ Creating(q, d)' <=> Creating(q, d)
                                               /\ Closes(q, d)' <=> Closes(q, d)
                                               /\ Making(q, d)' <=> Making(q, d)
  BY <1>3, OthersKept, Zenon
<1>10. \A d \in Structs : /\ ~Creating(p, d)' /\ ~Making(p, d)'
                          /\ Creating(p, d) <=> d = c
                          /\ Closes(p, d)' <=> Closes(p, d)
                          /\ Closes(p, d) <=> d = c /\ loc[p].h = c /\ loc[p].det
                          /\ Making(p, d) <=> d = c /\ loc[p].h = c
  BY <1>0, <1>1, <1>3, <1>5, NamesAssumption, Zenon DEF Creating, Making, Closes
<1>11. \A d \in Structs : InSetUp(d)' <=> InSetUp(d) /\ d # c BY <1>5, <1>9, <1>10, Zenon DEF InSetUp
<1>12. h = (IF loc[p].det THEN NULL ELSE loc[p].h) BY Zenon DEF h
<1>13. EntryInv'
  <2>. SUFFICES ASSUME NEW d \in Structs, InTable(d)'
                PROVE  IF InSetUp(d)' THEN heap'[d].h = NULL
                       ELSE heap'[d].h = d /\ heap'[d].id = tid'[d] /\ hopen'[d]
       BY Zenon DEF EntryInv
  <2>1. CASE d = c
    <3>1. h # NULL /\ loc[p].h = c /\ h = c BY <1>5, <1>8, <1>12, <2>1, Zenon
    <3>2. hopen[c] BY <1>1, <1>10, <3>1, Zenon DEF TableInv, HandleInv
    <3>3. heap'[c].h = c /\ heap'[c].id = tid[c] BY <1>2, <1>7, <3>1, NamesAssumption, Zenon
    <3>4. ~InSetUp(c)' /\ tid' = tid /\ hopen' = hopen BY <1>1, <1>3, <1>11, Zenon
    <3>. QED BY <2>1, <3>2, <3>3, <3>4, Zenon
  <2>2. CASE d # c
    <3>1. InTable(d) /\ heap'[d] = heap[d] /\ (InSetUp(d)' <=> InSetUp(d)) /\ UNCHANGED <<tid, hopen>>
      BY <1>3, <1>7, <1>8, <1>11, <2>2, Zenon
    <3>2. IF InSetUp(d) THEN heap[d].h = NULL
          ELSE heap[d].h = d /\ heap[d].id = tid[d] /\ hopen[d]
      BY <3>1, Zenon DEF TableInv, EntryInv
    <3>. QED BY <3>1, <3>2, Zenon
  <2>. QED BY <2>1, <2>2, Zenon
<1>14. HandleInv'
  <2>1. \A d \in Structs : d # c => (Offered(d)' <=> Offered(d)) BY <1>7, <1>8, Zenon DEF Offered
  <2>2. \A q \in Procs, d \in Structs : d # c =>
          (Closes(q, d)' <=> Closes(q, d)) /\ (Making(q, d)' <=> Making(q, d))
    BY <1>9, <1>10, Zenon
  <2>3. ~hopen[c] \/ loc[p].h = c
    BY <1>1, <1>5, Zenon DEF TableInv, IdsInv
  <2>4. ASSUME NEW q \in Procs, q # p PROVE ~Closes(q, c)' /\ ~Making(q, c)'
    <3>1. ~Closes(q, c) /\ ~Making(q, c)
      BY <1>1, <1>10, <2>3, <2>4, Zenon DEF TableInv, HandleInv
    <3>. QED BY <1>1, <1>9, <2>4, <3>1, Zenon
  <2>5. Closes(p, c)' \/ Making(p, c)' => hopen'[c] /\ ~Offered(c)'
    <3>1. SUFFICES ASSUME Closes(p, c)' PROVE hopen'[c] /\ ~Offered(c)' BY <1>1, <1>10, Zenon
    <3>2. Closes(p, c) /\ loc[p].det BY <1>1, <1>10, <3>1, Zenon
    <3>3. hopen[c] BY <1>1, <3>2, Zenon DEF TableInv, HandleInv
    <3>. QED BY <1>1, <1>3, <1>8, <1>12, <3>2, <3>3, Zenon DEF Offered
  <2>6. hopen'[c] => Offered(c)' \/ Closes(p, c)' \/ Making(p, c)'
    <3>1. SUFFICES ASSUME hopen'[c], ~loc[p].det PROVE Offered(c)'
      BY <1>1, <1>3, <1>10, <2>3, Zenon
    <3>2. loc[p].h = c /\ h = c BY <1>3, <1>12, <2>3, <3>1, Zenon
    <3>. QED BY <1>1, <1>5, <1>7, <1>8, <3>2, NamesAssumption, Zenon DEF Offered
  <2>. QED BY <1>1, <1>3, <2>1, <2>2, <2>4, <2>5, <2>6, HandleMoved, Zenon DEF TableInv
<1>15. IdsInv'
  <2>1. \A d \in Structs : Taken(d)' <=> Taken(d) BY <1>3, Zenon DEF Taken
  <2>. QED BY <1>3, <2>1, IdsKept, Zenon DEF TableInv
<1>16. MarkInv'
  <2>1. \A j \in Slots : table'[j] # NULL => table[j] # NULL BY <1>3, <1>6, Typing, Zenon
  <2>. QED BY <1>3, <2>1, MarkKept, Zenon DEF TableInv
<1>17. pc'[c] = "start" /\ \A d \in Structs : pc'[d] = pc[d] \/ (pc[d] = "c_info" /\ pc'[d] \in {"free", "c_resume"})
  BY <1>1, <1>3, <1>5, Zenon DEF Procs
<1>18. ResultInv'
  <2>1. ASSUME NEW d \in Structs, InTable(d)', pc'[d] # "start"
        PROVE  /\ InTable(d) /\ pc[d] # "start"
               /\ info'[d] = info[d] /\ heap'[d].index = heap[d].index
               /\ pc'[d] \in {"t_exit", "gone"} =>
                    pc[d] \in {"t_exit", "gone"} /\ heap'[d].result = heap[d].result
    <3>1. d # c /\ InTable(d) /\ heap'[d] = heap[d] BY <1>7, <1>8, <1>17, <2>1, Zenon
    <3>2. pc[d] # "start" /\ (pc'[d] \in {"t_exit", "gone"} => pc[d] \in {"t_exit", "gone"})
      BY <1>17, <2>1, Zenon
    <3>. QED BY <1>3, <3>1, <3>2, Zenon
  <2>. QED BY <2>1, ResultKept, Zenon DEF TableInv
<1>19. ResumeInv'
  <2>1. ASSUME NEW q \in Procs, pc'[q] = "c_resume"
        PROVE  /\ os'[loc'[q].h] = "suspended"
               /\ \A r \in Procs : pc'[r] = "c_resume" /\ loc'[r].h = loc'[q].h => r = q
    <3>1. \A r \in Procs : pc[r] = "c_resume" => loc[r].h # c
      BY <1>4, Zenon DEF Ownership, CallInv
    <3>2. CASE q = p
      <4>1. loc[p].h = c BY <1>3, <1>5, <2>1, <3>2, Zenon
      <4>. QED BY <1>3, <1>5, <3>1, <3>2, <4>1, NamesAssumption, Zenon
    <3>3. CASE q # p
      <4>1. pc[q] = "c_resume" /\ os[loc[q].h] = "suspended" /\ loc[q].h # c
        BY <1>3, <2>1, <3>1, <3>3, Zenon DEF TableInv, ResumeInv
      <4>2. \A r \in Procs : pc[r] = "c_resume" /\ loc[r].h = loc[q].h => r = q
        BY <4>1, Zenon DEF TableInv, ResumeInv
      <4>3. pc'[p] = "c_resume" => loc[p].h = c BY <1>3, <1>5, Zenon
      <4>. QED BY <1>3, <4>1, <4>2, <4>3, Zenon
    <3>. QED BY <3>2, <3>3, Zenon
  <2>2. \A d \in Structs : os'[d] = "terminated" <=> pc'[d] = "gone"
    BY <1>3, <1>17, Ended, Zenon
  <2>. QED BY <2>1, <2>2, Zenon DEF ResumeInv
<1>. QED BY <1>13, <1>14, <1>15, <1>16, <1>18, <1>19, Zenon DEF TableInv

\* ResumeThread: the thread is still suspended.
LEMMA ResumeTable ==
    ASSUME TypeOK, Ownership, TableInv, NEW p \in Procs, CreateResume(p)
    PROVE  TableInv'
<1>1. PICK c \in Structs : c = loc[p].h BY Typing, Zenon DEF CreateResume, PointersOK
<1>2. /\ pc[p] = "c_resume" /\ pc'[p] = (IF loc[p].det THEN "c_close" ELSE "return")
      /\ \A q \in Procs : q # p => pc'[q] = pc[q]
      /\ UNCHANGED <<heap, table, hwm, tid, hopen, loc, info>>
  BY Typing, Zenon DEF CreateResume, Goto, tableVars
<1>3. os[c] = "suspended" BY <1>1, <1>2, Zenon DEF TableInv, ResumeInv
<1>4. os'[c] \in {"suspended", "runnable"} /\ \A d \in Structs : d # c => os'[d] = os[d]
  BY <1>1, <1>3, Typing, Zenon DEF CreateResume
<1>5. \A d \in Structs : /\ Creating(p, d)' <=> Creating(p, d)
                         /\ Closes(p, d)' <=> Closes(p, d)
                         /\ Making(p, d)' <=> Making(p, d)
  BY <1>2, Zenon DEF Creating, Closes, Making
<1>6. \A q \in Procs, d \in Structs : /\ Creating(q, d)' <=> Creating(q, d)
                                      /\ Closes(q, d)' <=> Closes(q, d)
                                      /\ Making(q, d)' <=> Making(q, d)
  BY <1>2, <1>5, OthersKept, Zenon
<1>7. \A d \in Structs : /\ InTable(d)' <=> InTable(d)
                         /\ InSetUp(d)' <=> InSetUp(d)
                         /\ Offered(d)' <=> Offered(d)
  BY <1>2, <1>6, Zenon DEF InTable, InSetUp, Offered
<1>8. EntryInv' BY <1>2, <1>7, EntryKept, Zenon DEF TableInv
<1>9. HandleInv' BY <1>2, <1>6, <1>7, HandleKept, Zenon DEF TableInv
<1>10. IdsInv'
  <2>1. \A d \in Structs : os'[d] = "none" => os[d] = "none" BY <1>4, Zenon
  <2>2. \A d \in Structs : Taken(d)' => Taken(d) BY <1>2, <1>3, <1>4, Zenon DEF Taken
  <2>. QED BY <1>2, <2>1, <2>2, IdsKept, Zenon DEF TableInv
<1>11. MarkInv' BY <1>2, MarkKept, Zenon DEF TableInv
<1>12. \A d \in Structs : pc'[d] = pc[d] \/ (pc[d] = "c_resume" /\ pc'[d] \in {"c_close", "return"})
  BY <1>2, Zenon DEF Procs
<1>13. ResultInv'
  <2>1. \A d \in Structs : /\ pc'[d] # "start" => pc[d] # "start"
                           /\ pc'[d] \in {"t_exit", "gone"} => pc[d] \in {"t_exit", "gone"}
    BY <1>12, Zenon
  <2>. QED BY <1>2, <1>7, <2>1, ResultKept, Zenon DEF TableInv
<1>14. ResumeInv'
  <2>1. ASSUME NEW q \in Procs, pc'[q] = "c_resume"
        PROVE  /\ os'[loc'[q].h] = "suspended"
               /\ \A r \in Procs : pc'[r] = "c_resume" /\ loc'[r].h = loc'[q].h => r = q
    <3>1. q # p /\ pc[q] = "c_resume" BY <1>2, <2>1, Zenon
    <3>2. PICK d \in Structs : d = loc[q].h BY <3>1, Typing, Zenon DEF PointersOK
    <3>3. os[d] = "suspended" /\ \A r \in Procs : pc[r] = "c_resume" /\ loc[r].h = d => r = q
      BY <3>1, <3>2, Zenon DEF TableInv, ResumeInv
    <3>4. d # c BY <1>1, <1>2, <3>1, <3>3, Zenon
    <3>5. \A r \in Procs : pc'[r] = "c_resume" => pc[r] = "c_resume" BY <1>2, Zenon
    <3>. QED BY <1>2, <1>4, <3>2, <3>3, <3>4, <3>5, Zenon
  <2>2. \A d \in Structs : os'[d] = "terminated" <=> pc'[d] = "gone"
    <3>1. \A d \in Structs : os'[d] = "terminated" <=> os[d] = "terminated" BY <1>3, <1>4, Zenon
    <3>. QED BY <1>12, <3>1, Ended, Zenon
  <2>. QED BY <2>1, <2>2, Zenon DEF ResumeInv
<1>. QED BY <1>8, <1>9, <1>10, <1>11, <1>13, <1>14, Zenon DEF TableInv

\* CloseHandle by the one call that has the handle.
LEMMA CloseTable ==
    ASSUME TypeOK, Ownership, TableInv, NEW p \in Procs, CreateClose(p) \/ DetachClose(p)
    PROVE  TableInv'
<1>1. /\ pc[p] \in {"close", "c_close"} /\ pc'[p] \in {"return", "free"}
      /\ \A q \in Procs : q # p => pc'[q] = pc[q]
      /\ UNCHANGED <<heap, table, hwm, os, tid, loc, info>>
  BY Typing, Zenon DEF CreateClose, DetachClose, Goto, tableVars
<1>2. \A d \in Structs : ~Creating(p, d) /\ ~Creating(p, d)' /\ ~Making(p, d) /\ ~Making(p, d)'
  BY <1>1, Zenon DEF Creating, Making
<1>3. CASE loc[p].h = NULL
  <2>1. hopen' = hopen
    BY <1>3, Typing, NamesAssumption, Zenon DEF CreateClose, DetachClose, PointersOK
  <2>2. \A d \in Structs : ~Closes(p, d) /\ ~Closes(p, d)' BY <1>1, <1>3, NamesAssumption, Zenon DEF Closes
  <2>. QED BY <1>1, <1>2, <2>1, <2>2, QuietTable, Zenon
<1>4. ASSUME NEW c \in Structs, c = loc[p].h PROVE TableInv'
  <2>1. hopen' = [hopen EXCEPT ![c] = FALSE] BY <1>4, NamesAssumption, Zenon DEF CreateClose, DetachClose
  <2>2. ~hopen'[c] /\ \A d \in Structs : d # c => hopen'[d] = hopen[d] BY <2>1, Typing, Zenon
  <2>3. Closes(p, c) /\ \A d \in Structs : ~Closes(p, d)' /\ (d # c => ~Closes(p, d))
    BY <1>1, <1>4, Zenon DEF Closes
  <2>4. ~Offered(c) /\ \A q \in Procs : q # p => ~Closes(q, c) /\ ~Making(q, c)
    BY <2>3, Zenon DEF TableInv, HandleInv
  <2>5. \A q \in Procs, d \in Structs : q # p => /\ Creating(q, d)' <=> Creating(q, d)
                                                 /\ Closes(q, d)' <=> Closes(q, d)
                                                 /\ Making(q, d)' <=> Making(q, d)
    BY <1>1, OthersKept, Zenon
  <2>6. \A d \in Structs : /\ InTable(d)' <=> InTable(d)
                           /\ InSetUp(d)' <=> InSetUp(d)
                           /\ Offered(d)' <=> Offered(d)
    BY <1>1, <1>2, <2>5, Zenon DEF InTable, InSetUp, Offered
  <2>7. EntryInv'
    <3>1. \A d \in Structs : InTable(d)' /\ heap[d].h = d => d # c BY <2>4, <2>6, Zenon DEF Offered
    <3>. QED BY <1>1, <2>2, <2>6, <3>1, EntryKept, Zenon DEF TableInv
  <2>8. HandleInv'
    <3>1. \A q \in Procs, d \in Structs : d # c =>
            (Closes(q, d)' <=> Closes(q, d)) /\ (Making(q, d)' <=> Making(q, d))
      BY <1>2, <2>3, <2>5, Zenon
    <3>2. \A q \in Procs : ~Closes(q, c)' /\ ~Making(q, c)' BY <1>2, <2>3, <2>4, <2>5, Zenon
    <3>. QED BY <2>2, <2>6, <3>1, <3>2, HandleMoved, Zenon DEF TableInv
  <2>9. IdsInv'
    <3>1. \A d \in Structs : Taken(d)' => Taken(d) BY <1>1, <2>2, Zenon DEF Taken
    <3>. QED BY <1>1, <2>2, <3>1, IdsKept, Zenon DEF TableInv
  <2>10. MarkInv' BY <1>1, MarkKept, Zenon DEF TableInv
  <2>11. \A d \in Structs : pc'[d] = pc[d] \/ (pc[d] \in {"close", "c_close"} /\ pc'[d] \in {"return", "free"})
    BY <1>1, Zenon DEF Procs
  <2>12. ResultInv'
    <3>1. \A d \in Structs : /\ pc'[d] # "start" => pc[d] # "start"
                             /\ pc'[d] \in {"t_exit", "gone"} => pc[d] \in {"t_exit", "gone"}
      BY <2>11, Zenon
    <3>. QED BY <1>1, <2>6, <3>1, ResultKept, Zenon DEF TableInv
  <2>13. ResumeInv'
    <3>1. \A q \in Procs : pc'[q] = "c_resume" => pc[q] = "c_resume" BY <1>1, Zenon
    <3>2. \A d \in Structs : os'[d] = "terminated" <=> pc'[d] = "gone"
      BY <1>1, <2>11, Ended, Zenon
    <3>. QED BY <1>1, <3>1, <3>2, ResumeKept, Zenon DEF TableInv
  <2>. QED BY <2>7, <2>8, <2>9, <2>10, <2>12, <2>13, Zenon DEF TableInv
<1>5. loc[p].h \in Structs \cup {NULL} BY Typing, Zenon DEF Locals, Ref
<1>. QED BY <1>3, <1>4, <1>5, Zenon

\* A step of a thread between its calls leaves all but its result alone.
LEMMA LifeTable ==
    ASSUME TypeOK, Ownership, TableInv, NEW t \in Structs, NEW label,
           UNCHANGED <<table, hwm, tid, hopen, loc>>,
           pc' = [pc EXCEPT ![t] = label],
           \A c \in Structs : heap'[c].h = heap[c].h /\ heap'[c].id = heap[c].id,
           \A c \in Structs : c # t => os'[c] = os[c],
           pc[t] \in {"start", "ready", "t_exit"}, os[t] = "runnable",
           label \in {"t_free", "ready", "t_exit", "gone"},
           os'[t] = IF label = "gone" THEN "terminated" ELSE "runnable",
           ResultInv'
    PROVE  TableInv'
<1>1. t \in Procs /\ pc'[t] = label /\ \A q \in Procs : q # t => pc'[q] = pc[q]
  BY Typing, Zenon DEF Procs
<1>2. \A d \in Structs : /\ ~Creating(t, d) /\ ~Closes(t, d) /\ ~Making(t, d)
                         /\ ~Creating(t, d)' /\ ~Closes(t, d)' /\ ~Making(t, d)'
  BY <1>1, Zenon DEF Creating, Closes, Making
<1>3. \A q \in Procs, d \in Structs : /\ Creating(q, d)' <=> Creating(q, d)
                                      /\ Closes(q, d)' <=> Closes(q, d)
                                      /\ Making(q, d)' <=> Making(q, d)
  BY <1>1, <1>2, OthersKept, Zenon
<1>4. \A d \in Structs : /\ InTable(d)' <=> InTable(d)
                         /\ InSetUp(d)' <=> InSetUp(d)
                         /\ Offered(d)' <=> Offered(d)
  BY <1>3, Zenon DEF InTable, InSetUp, Offered
<1>5. EntryInv' BY <1>4, EntryKept, Zenon DEF TableInv
<1>6. HandleInv' BY <1>3, <1>4, HandleKept, Zenon DEF TableInv
<1>7. IdsInv'
  <2>1. \A d \in Structs : os'[d] = "none" => os[d] = "none" BY Zenon
  <2>2. \A d \in Structs : Taken(d)' => Taken(d) BY Zenon DEF Taken
  <2>. QED BY <2>1, <2>2, IdsKept, Zenon DEF TableInv
<1>8. MarkInv' BY MarkKept, Zenon DEF TableInv
<1>9. ResumeInv'
  <2>1. \A q \in Procs : pc'[q] = "c_resume" => pc[q] = "c_resume" BY <1>1, Zenon
  <2>2. ASSUME NEW d \in Structs PROVE os'[d] = "terminated" <=> pc'[d] = "gone"
    <3>1. CASE d = t BY <1>1, <3>1, Zenon
    <3>2. CASE d # t
      <4>1. os'[d] = os[d] /\ pc'[d] = pc[d] BY <1>1, <3>2, Zenon DEF Procs
      <4>. QED BY <4>1, Ended, Zenon
    <3>. QED BY <3>1, <3>2, Zenon
  <2>3. \A d \in Structs : os[d] = "suspended" => os'[d] = "suspended" BY Zenon
  <2>. QED BY <2>1, <2>2, <2>3, ResumeKept, Zenon DEF TableInv
<1>. QED BY <1>5, <1>6, <1>7, <1>8, <1>9, Zenon DEF TableInv

LEMMA StartingTable ==
    ASSUME TypeOK, Ownership, TableInv, NEW t \in Structs, ThreadStarting(t)
    PROVE  TableInv'
<1>1. /\ pc[t] = "start" /\ os[t] = "runnable" /\ UNCHANGED <<table, hwm, os, tid, hopen, loc>>
      /\ info'[t] = heap[t].index /\ \A c \in Structs : c # t => info'[c] = info[c]
  BY Typing, Zenon DEF ThreadStarting, tableVars, osVars
<1>2. PICK label \in {"t_free", "ready"} : pc' = [pc EXCEPT ![t] = label]
  BY Zenon DEF ThreadStarting, Goto
<1>3. ASSUME NEW c \in Structs
      PROVE  /\ heap'[c].h = heap[c].h /\ heap'[c].id = heap[c].id
             /\ heap'[c].index = heap[c].index /\ heap'[c].result = heap[c].result
  <2>1. heap[c] \in Thread BY Typing, Zenon
  <2>2. heap'[c] = heap[c] \/ heap'[c] = [heap[c] EXCEPT !.start = FALSE]
    BY Typing, Zenon DEF ThreadStarting
  <2>. QED BY <2>1, <2>2, Zenon DEF Thread
<1>4. ResultInv'
  <2>. SUFFICES ASSUME NEW c \in Structs, InTable(c)', pc'[c] # "start"
                PROVE  /\ info'[c] = heap'[c].index
                       /\ pc'[c] \in {"t_exit", "gone"} => heap'[c].result = c
       BY Zenon DEF ResultInv
  <2>1. CASE c = t
    <3>1. pc'[t] = label BY <1>2, Typing, Zenon DEF Procs
    <3>. QED BY <1>1, <1>3, <2>1, <3>1, Zenon
  <2>2. CASE c # t
    <3>1. pc'[c] = pc[c] /\ InTable(c) BY <1>1, <1>2, <2>2, Typing, Zenon DEF InTable, Procs
    <3>. QED BY <1>1, <1>3, <2>2, <3>1, Zenon DEF TableInv, ResultInv
  <2>. QED BY <2>1, <2>2, Zenon
<1>. QED BY <1>1, <1>2, <1>3, <1>4, LifeTable, Zenon

\* A thread between its calls runs.
LEMMA Running ==
    ASSUME TypeOK, Ownership, TableInv, NEW t \in Structs, pc[t] \notin {"start", "gone"}
    PROVE  os[t] = "runnable" /\ tid[t] # 0 /\ Taken(t) /\ ~InSetUp(t)
<1>1. os[t] = "runnable" BY Zenon DEF Ownership, KernelInv, TableInv, ResumeInv
<1>2. ~InSetUp(t) BY SetUpIn, Zenon DEF InSetUp
<1>. QED BY <1>1, <1>2, Zenon DEF Taken, Ownership, KernelInv

\* wpdk_thread_done finds the slot of its own thread, if it still has one, and
\* no other.
LEMMA FindsItself ==
    ASSUME TypeOK, Ownership, TableInv, NEW t \in Structs, pc[t] = "ready", NEW index \in {info[t], -1}
    PROVE  /\ \A i \in Slots : Located(i, index, tid[t]) => table[i] = t
           /\ InTable(t) => Located(heap[t].index, index, tid[t])
<1>1. tid[t] # 0 /\ Taken(t) /\ ~InSetUp(t) BY Running, Zenon
<1>2. ASSUME NEW i \in Slots, Holds(i, tid[t]) PROVE table[i] = t
  <2>1. table[i] \in Structs /\ hopen[table[i]] /\ tid[table[i]] = tid[t]
    BY <1>1, <1>2, Found, Zenon DEF TableInv
  <2>. QED BY <1>1, <2>1, Zenon DEF TableInv, IdsInv, Taken
<1>3. ASSUME InTable(t) PROVE Located(heap[t].index, index, tid[t])
  <2>. DEFINE i == heap[t].index
  <2>1. i \in Slots /\ table[i] = t /\ \A j \in Slots : table[j] = t => j = i BY <1>3, InSlot, Zenon
  <2>2. heap[t].id = tid[t] /\ info[t] = i
    BY <1>1, <1>3, Zenon DEF TableInv, EntryInv, ResultInv
  <2>. HIDE DEF i
  <2>3. Holds(i, tid[t]) /\ i < hwm
    BY <2>1, <2>2, NamesAssumption, Zenon DEF Holds, TableInv, MarkInv
  <2>4. \A j \in Slots : j < i => ~Holds(j, tid[t])
    <3>1. \A j \in Slots : Holds(j, tid[t]) => j = i BY <1>2, <2>1, Zenon
    <3>2. \A j \in Slots : j \in Int BY MaxThreadsAssumption DEF Slots
    <3>. QED BY <2>1, <3>1, <3>2
  <2>. QED BY <2>2, <2>3, <2>4, Zenon DEF Located, First, i
<1>. QED BY <1>2, <1>3, LocatedHolds, Zenon

LEMMA DoneTable ==
    ASSUME TypeOK, Ownership, TableInv, NEW t \in Structs, NEW index \in {info[t], -1}, ThreadDone(t, index)
    PROVE  TableInv'
<1>1. /\ pc[t] = "ready" /\ UNCHANGED <<table, hwm, os, tid, hopen, loc, info>>
      /\ pc' = [pc EXCEPT ![t] = "t_exit"]
  BY Zenon DEF ThreadDone, Goto, tableVars, osVars
<1>2. ASSUME NEW c \in Structs
      PROVE  /\ heap'[c] \in {heap[c], [heap[c] EXCEPT !.result = t]}
             /\ c # t => heap'[c] = heap[c]
             /\ c = t /\ InTable(t) => heap'[c] = [heap[c] EXCEPT !.result = t]
  <2>1. heap'[c] = IF \E i \in Slots : Located(i, index, tid[t]) /\ table[i] = c
                   THEN [heap[c] EXCEPT !.result = t] ELSE heap[c]
    BY Zenon DEF ThreadDone
  <2>2. \A i \in Slots : Located(i, index, tid[t]) => table[i] = t BY <1>1, FindsItself, Zenon
  <2>3. ASSUME InTable(t) PROVE \E i \in Slots : Located(i, index, tid[t]) /\ table[i] = t
    <3>1. Located(heap[t].index, index, tid[t]) BY <1>1, <2>3, FindsItself, Zenon
    <3>2. heap[t].index \in Slots /\ table[heap[t].index] = t BY <2>3, InSlot, Zenon
    <3>. QED BY <3>1, <3>2, Zenon
  <2>4. CASE c = t
    <3>1. InTable(t) => heap'[t] = [heap[t] EXCEPT !.result = t] BY <2>1, <2>3, <2>4, Zenon
    <3>. QED BY <2>1, <2>4, <3>1, Zenon
  <2>5. CASE c # t
    <3>1. ~ \E i \in Slots : Located(i, index, tid[t]) /\ table[i] = c BY <2>2, <2>5, Zenon
    <3>. QED BY <2>1, <2>5, <3>1, Zenon
  <2>. QED BY <2>4, <2>5, Zenon
<1>3. ASSUME NEW c \in Structs
      PROVE  /\ heap'[c].h = heap[c].h /\ heap'[c].id = heap[c].id /\ heap'[c].index = heap[c].index
             /\ c # t => heap'[c].result = heap[c].result
             /\ c = t /\ InTable(t) => heap'[c].result = t
  <2>1. heap[c] \in Thread BY Typing, Zenon
  <2>. QED BY <1>2, <2>1, Zenon DEF Thread
<1>4. ResultInv'
  <2>. SUFFICES ASSUME NEW c \in Structs, InTable(c)', pc'[c] # "start"
                PROVE  /\ info'[c] = heap'[c].index
                       /\ pc'[c] \in {"t_exit", "gone"} => heap'[c].result = c
       BY Zenon DEF ResultInv
  <2>1. InTable(c) /\ (c # t => pc'[c] = pc[c]) BY <1>1, Typing, Zenon DEF InTable, Procs
  <2>2. pc[c] # "start" BY <1>1, <2>1, Zenon
  <2>. QED BY <1>1, <1>3, <2>1, <2>2, Zenon DEF TableInv, ResultInv
<1>5. os[t] = "runnable" BY <1>1, Running, Zenon
<1>. QED BY <1>1, <1>3, <1>4, <1>5, LifeTable, Zenon

LEMMA EndTable ==
    ASSUME TypeOK, Ownership, TableInv, NEW t \in Structs, ThreadEnd(t)
    PROVE  TableInv'
<1>1. /\ pc[t] = "t_exit" /\ UNCHANGED <<heap, table, hwm, tid, hopen, loc, info>>
      /\ pc' = [pc EXCEPT ![t] = "gone"]
      /\ os'[t] = "terminated" /\ \A c \in Structs : c # t => os'[c] = os[c]
  BY Typing, Zenon DEF ThreadEnd, Goto, tableVars
<1>2. ResultInv'
  <2>1. \A c \in Structs : pc'[c] = pc[c] \/ (pc[c] = "t_exit" /\ pc'[c] = "gone")
    BY <1>1, Typing, Zenon DEF Procs
  <2>2. \A c \in Structs : /\ pc'[c] # "start" => pc[c] # "start"
                           /\ pc'[c] \in {"t_exit", "gone"} => pc[c] \in {"t_exit", "gone"}
    BY <2>1, Zenon
  <2>3. \A c \in Structs : InTable(c)' => InTable(c) BY <1>1, Zenon DEF InTable
  <2>. QED BY <1>1, <2>2, <2>3, ResultKept, Zenon DEF TableInv
<1>3. os[t] = "runnable" BY <1>1, Running, Zenon
<1>. QED BY <1>1, <1>2, <1>3, LifeTable, Zenon

\* What wpdk_detach_thread does when it finds a thread: the struct leaves the
\* table and the handle it offered moves to the caller.
Takes(p, l, found, c) ==
    /\ Offered(c) /\ hopen[c] /\ ~InSetUp(c) /\ tid[c] = tid[l.tgt]
    /\ Located(heap[c].index, l.index, tid[c])
    /\ loc'[p].op = l.op /\ loc'[p].tgt = l.tgt /\ loc'[p].h = c /\ loc'[p].rc = found
    /\ l.op = "join" => loc'[p].val = heap[c].result
    /\ pc'[p] = "close"
    /\ \A q \in Procs : q # p => pc'[q] = pc[q] /\ loc'[q] = loc[q]
    /\ \A d \in Structs :
         /\ heap'[d].h = heap[d].h /\ heap'[d].id = heap[d].id /\ heap'[d].result = heap[d].result
         /\ d # c => heap'[d].index = heap[d].index
    /\ \A j \in Slots : table'[j] # NULL => table[j] # NULL
    /\ \A d \in Structs : InTable(d)' <=> InTable(d) /\ d # c

\* What it does when it finds none.
Misses(p, l, missing) ==
    /\ \A i \in Slots : ~Located(i, l.index, tid[l.tgt])
    /\ pc' = [pc EXCEPT ![p] = "return"]
    /\ loc' = [loc EXCEPT ![p] = [l EXCEPT !.rc = missing]]
    /\ UNCHANGED <<heap, table>>

LEMMA DetachEffect ==
    ASSUME TypeOK, Ownership, TableInv, NEW p \in Procs, NEW l \in Locals, l.tgt \in Structs,
           os[l.tgt] # "none", NEW found \in Codes, NEW missing \in Codes, DetachThread(p, l, found, missing)
    PROVE  Misses(p, l, missing) \/ \E c \in Structs : Takes(p, l, found, c)
<1>1. IdOf(l.tgt) = tid[l.tgt] /\ tid[l.tgt] # 0
  BY NamesAssumption, Zenon DEF IdOf, Ownership, KernelInv
<1>2. CASE /\ \A i \in Slots : ~Located(i, l.index, tid[l.tgt])
           /\ Leave(p, l, missing) /\ UNCHANGED <<heap, table>>
  BY <1>2, Zenon DEF Misses, Leave, Goto
<1>3. ASSUME NEW i \in Slots, Located(i, l.index, tid[l.tgt]),
             heap' = [heap EXCEPT ![table[i]] = [heap[table[i]] EXCEPT !.index = -1]],
             table' = [table EXCEPT ![i] = NULL],
             loc' = [loc EXCEPT ![p] =
               [l EXCEPT !.ptr = table[i], !.start = heap[table[i]].start, !.h = heap[table[i]].h,
                         !.rc = found,
                         !.val = IF l.op = "join" THEN heap[table[i]].result ELSE NULL]],
             Goto(p, "close")
      PROVE  \E c \in Structs : Takes(p, l, found, c)
  <2>1. PICK c \in Structs : c = table[i]
    BY <1>1, <1>3, LocatedHolds, Found, Zenon DEF TableInv
  <2>2. Offered(c) /\ hopen[c] /\ ~InSetUp(c) /\ heap[c].index = i /\ tid[c] = tid[l.tgt]
    <3>1. /\ Offered(table[i]) /\ hopen[table[i]] /\ ~InSetUp(table[i])
          /\ heap[table[i]].index = i /\ tid[table[i]] = tid[l.tgt]
      BY <1>1, <1>3, LocatedHolds, Found, Zenon DEF TableInv
    <3>. QED BY <2>1, <3>1, Zenon
  <2>3. /\ loc'[p].op = l.op /\ loc'[p].tgt = l.tgt /\ loc'[p].h = c /\ loc'[p].rc = found
        /\ l.op = "join" => loc'[p].val = heap[c].result
    <3>1. loc'[p] = [l EXCEPT !.ptr = table[i], !.start = heap[table[i]].start, !.h = heap[table[i]].h,
                              !.rc = found,
                              !.val = IF l.op = "join" THEN heap[table[i]].result ELSE NULL]
      BY <1>3, Typing, Zenon
    <3>2. /\ loc'[p].op = l.op /\ loc'[p].tgt = l.tgt /\ loc'[p].h = heap[c].h /\ loc'[p].rc = found
          /\ l.op = "join" => loc'[p].val = heap[c].result
      BY <2>1, <3>1, Zenon DEF Locals
    <3>. QED BY <2>2, <3>2, Zenon DEF Offered
  <2>4. /\ pc'[p] = "close"
        /\ \A q \in Procs : q # p => pc'[q] = pc[q] /\ loc'[q] = loc[q]
    BY <1>3, Typing, Zenon DEF Goto
  <2>5. ASSUME NEW d \in Structs
        PROVE  /\ heap'[d].h = heap[d].h /\ heap'[d].id = heap[d].id /\ heap'[d].result = heap[d].result
               /\ d # c => heap'[d].index = heap[d].index
    <3>1. heap[d] \in Thread BY Typing, Zenon
    <3>2. heap'[d] = IF d = c THEN [heap[d] EXCEPT !.index = -1] ELSE heap[d]
      BY <1>3, <2>1, Typing, Zenon
    <3>. QED BY <3>1, <3>2, Zenon DEF Thread
  <2>6. table'[i] = NULL /\ \A j \in Slots : j # i => table'[j] = table[j] BY <1>3, Typing, Zenon
  <2>7. \A d \in Structs : InTable(d)' <=> InTable(d) /\ d # c
    <3>1. \A j \in Slots : table[j] = c => j = i BY <2>2, InSlot, Zenon DEF Offered
    <3>. QED BY <2>1, <2>6, <3>1, NamesAssumption, Zenon DEF InTable
  <2>8. \A j \in Slots : table'[j] # NULL => table[j] # NULL BY <2>6, Zenon
  <2>9. Located(heap[c].index, l.index, tid[c]) BY <1>3, <2>2, Zenon
  <2>. QED BY <2>2, <2>3, <2>4, <2>5, <2>7, <2>8, <2>9, Zenon DEF Takes
<1>. QED BY <1>1, <1>2, <1>3, Zenon DEF DetachThread

LEMMA DetachTable ==
    ASSUME TypeOK, Ownership, TableInv, NEW p \in Procs, pc[p] \in {"ready", "j_detach"},
           NEW l \in Locals, l.tgt \in Structs, os[l.tgt] # "none", NEW found \in Codes, NEW missing \in Codes,
           DetachThread(p, l, found, missing), UNCHANGED <<hwm, os, tid, hopen, info>>
    PROVE  TableInv'
<1>1. CASE Misses(p, l, missing)
  <2>1. pc' = [pc EXCEPT ![p] = "return"] /\ \A q \in Procs : q # p => loc'[q] = loc[q]
    BY <1>1, Typing, Zenon DEF Misses
  <2>. QED BY <1>1, <2>1, IdleTable, Zenon DEF Misses
<1>2. ASSUME NEW c \in Structs, Takes(p, l, found, c)
      PROVE  TableInv'
  <2>1. Offered(c) /\ hopen[c] BY <1>2, Zenon DEF Takes
  <2>2. /\ loc'[p].h = c /\ pc'[p] = "close"
        /\ \A q \in Procs : q # p => pc'[q] = pc[q] /\ loc'[q] = loc[q]
    BY <1>2, Zenon DEF Takes
  <2>3. \A d \in Structs :
          /\ heap'[d].h = heap[d].h /\ heap'[d].id = heap[d].id /\ heap'[d].result = heap[d].result
          /\ d # c => heap'[d].index = heap[d].index
    BY <1>2, Zenon DEF Takes
  <2>4. \A d \in Structs : InTable(d)' <=> InTable(d) /\ d # c BY <1>2, Zenon DEF Takes
  <2>5. \A d \in Structs : /\ ~Creating(p, d) /\ ~Creating(p, d)' /\ ~Making(p, d) /\ ~Making(p, d)'
                           /\ ~Closes(p, d)
                           /\ Closes(p, d)' <=> d = c
    BY <2>2, Zenon DEF Creating, Closes, Making
  <2>6. \A q \in Procs, d \in Structs : q # p => /\ Creating(q, d)' <=> Creating(q, d)
                                                 /\ Closes(q, d)' <=> Closes(q, d)
                                                 /\ Making(q, d)' <=> Making(q, d)
    BY <2>2, OthersKept, Zenon
  <2>7. \A d \in Structs : InSetUp(d)' <=> InSetUp(d) BY <2>5, <2>6, Zenon DEF InSetUp
  <2>8. \A d \in Structs : Offered(d)' <=> Offered(d) /\ d # c BY <2>3, <2>4, Zenon DEF Offered
  <2>9. EntryInv' BY <2>3, <2>4, <2>7, EntryKept, Zenon DEF TableInv
  <2>10. HandleInv'
    <3>1. \A q \in Procs : ~Closes(q, c) /\ ~Making(q, c) BY <2>1, Zenon DEF TableInv, HandleInv
    <3>2. \A q \in Procs : q # p => ~Closes(q, c)' /\ ~Making(q, c)' BY <2>6, <3>1, Zenon
    <3>3. \A q \in Procs, d \in Structs : d # c =>
            (Closes(q, d)' <=> Closes(q, d)) /\ (Making(q, d)' <=> Making(q, d))
      BY <2>5, <2>6, Zenon
    <3>. QED BY <2>1, <2>5, <2>8, <3>2, <3>3, HandleMoved, Zenon DEF TableInv
  <2>11. IdsInv'
    <3>1. \A d \in Structs : Taken(d)' <=> Taken(d) BY Zenon DEF Taken
    <3>. QED BY <3>1, IdsKept, Zenon DEF TableInv
  <2>12. MarkInv' BY <1>2, MarkKept, Zenon DEF Takes, TableInv
  <2>13. \A d \in Structs : pc'[d] = pc[d] \/ (pc[d] \in {"ready", "j_detach"} /\ pc'[d] = "close")
    BY <2>2, Zenon DEF Procs
  <2>14. ResultInv'
    <3>1. \A d \in Structs : /\ pc'[d] # "start" => pc[d] # "start"
                             /\ pc'[d] \in {"t_exit", "gone"} => pc[d] \in {"t_exit", "gone"}
      BY <2>13, Zenon
    <3>. QED BY <2>3, <2>4, <3>1, ResultKept, Zenon DEF TableInv
  <2>15. ResumeInv'
    <3>1. \A q \in Procs : pc'[q] = "c_resume" => pc[q] = "c_resume" /\ loc'[q].h = loc[q].h
      BY <2>2, Zenon
    <3>2. \A d \in Structs : os'[d] = "terminated" <=> pc'[d] = "gone"
      BY <2>13, Ended, Zenon
    <3>. QED BY <3>1, <3>2, ResumeKept, Zenon DEF TableInv
  <2>. QED BY <2>9, <2>10, <2>11, <2>12, <2>14, <2>15, Zenon DEF TableInv
<1>. QED BY <1>1, <1>2, DetachEffect, Zenon

\* The two callers of wpdk_detach_thread.
LEMMA DetachCalls ==
    ASSUME TypeOK, Ownership, NEW p \in Procs,
           JoinDetach(p) \/ \E c \in Structs : PthreadDetach(p, c)
    PROVE  \E l \in Locals, found, missing \in Codes :
             /\ pc[p] \in {"ready", "j_detach"} /\ l.tgt \in Structs /\ os[l.tgt] # "none"
             /\ DetachThread(p, l, found, missing) /\ UNCHANGED <<mem, hwm, os, tid, hopen, info>>
<1>1. CASE JoinDetach(p)
  <2>1. loc[p] \in Locals /\ loc[p].tgt \in Structs /\ os[loc[p].tgt] # "none" /\ pc[p] = "j_detach"
    BY <1>1, Typing, Zenon DEF JoinDetach, PointersOK, Ownership, CallInv
  <2>2. PICK found, missing \in Codes : DetachThread(p, loc[p], found, missing)
    BY <1>1, Zenon DEF JoinDetach, Codes
  <2>. QED BY <1>1, <2>1, <2>2, Zenon DEF JoinDetach, osVars
<1>2. ASSUME NEW c \in Structs, PthreadDetach(p, c)
      PROVE  \E l \in Locals, found, missing \in Codes :
               /\ pc[p] \in {"ready", "j_detach"} /\ l.tgt \in Structs /\ os[l.tgt] # "none"
               /\ DetachThread(p, l, found, missing) /\ UNCHANGED <<mem, hwm, os, tid, hopen, info>>
  <2>1. PICK l \in Locals : l.tgt = c /\ DetachThread(p, l, "0", "EINVAL")
    <3>1. [NoCall EXCEPT !.op = "detach", !.tgt = c] \in Locals BY NoCallType, Zenon DEF Locals, Ref
    <3>2. [NoCall EXCEPT !.op = "detach", !.tgt = c].tgt = c BY Zenon DEF NoCall
    <3>. QED BY <1>2, <3>1, <3>2, Zenon DEF PthreadDetach
  <2>2. pc[p] = "ready" /\ os[c] # "none" /\ UNCHANGED <<mem, hwm, os, tid, hopen, info>>
    BY <1>2, NamesAssumption, Zenon DEF PthreadDetach, MayReap, Known, osVars
  <2>. QED BY <2>1, <2>2, Zenon DEF Codes
<1>. QED BY <1>1, <1>2, Zenon

LEMMA TableStep ==
    ASSUME ~ZeroDetach, TypeOK, Ownership, TableInv, [Next]_vars
    PROVE  TableInv'
<1>1. ASSUME NEW p \in Procs, JoinDetach(p) \/ \E c \in Structs : PthreadDetach(p, c)
      PROVE  TableInv'
  BY <1>1, DetachCalls, DetachTable, Zenon
<1>2. ASSUME NEW p \in Procs, Call(p) PROVE TableInv'
  <2>1. ~PthreadDetach(p, NULL) BY Zenon DEF PthreadDetach
  <2>. QED BY <1>1, <1>2, <2>1, AllocateTable, IdleSteps, Zenon DEF Call, Ref
<1>3. ASSUME NEW p \in Procs, Step(p) PROVE TableInv'
  BY <1>1, <1>3, SetStartTable, BeginTable, SetInfoTable, ResumeTable, CloseTable, FreeTable, IdleSteps,
     Zenon DEF Step
<1>4. ASSUME NEW p \in Procs, JoinAlerted(p) \/ JoinWake(p) PROVE TableInv'
  BY <1>4, IdleSteps, Zenon
<1>5. ASSUME NEW t \in Structs, Lifecycle(t) PROVE TableInv'
  <2>1. t \in Procs BY Zenon DEF Procs
  <2>. QED BY <1>5, <2>1, StartingTable, FreeTable, EndTable, DoneTable, Zenon DEF Lifecycle
<1>6. CASE UNCHANGED vars
  <2>0. UNCHANGED <<heap, table, hwm, os, tid, hopen, pc, loc, info>> BY <1>6, Zenon DEF vars
  <2>1. \A p \in Procs, c \in Structs : /\ Creating(p, c)' <=> Creating(p, c)
                                        /\ Closes(p, c)' <=> Closes(p, c)
                                        /\ Making(p, c)' <=> Making(p, c)
    BY <2>0, Zenon DEF Creating, Closes, Making
  <2>2. \A c \in Structs : /\ InTable(c)' <=> InTable(c)
                           /\ InSetUp(c)' <=> InSetUp(c)
                           /\ Offered(c)' <=> Offered(c)
                           /\ Taken(c)' <=> Taken(c)
    BY <2>0, <2>1, Zenon DEF InTable, InSetUp, Offered, Taken
  <2>3. EntryInv' /\ HandleInv' /\ IdsInv' BY <2>0, <2>1, <2>2, EntryKept, HandleKept, IdsKept, Zenon DEF TableInv
  <2>4. MarkInv' /\ ResultInv' /\ ResumeInv'
    BY <2>0, <2>2, Zenon DEF TableInv, MarkInv, ResultInv, ResumeInv
  <2>. QED BY <2>3, <2>4, Zenon DEF TableInv
<1>. QED BY <1>2, <1>3, <1>4, <1>5, <1>6, Zenon DEF Next

LEMMA TableInit ==
    ASSUME Init
    PROVE  TableInv
<1>1. /\ \A i \in Slots : table[i] = NULL
      /\ \A c \in Structs : os[c] = "none" /\ tid[c] = 0 /\ ~hopen[c] /\ pc[c] = "start"
      /\ \A p \in Procs : pc[p] \in {"ready", "start"}
  BY NamesAssumption, Zenon DEF Init, Procs
<1>2. \A c \in Structs : ~InTable(c) /\ ~Taken(c) BY <1>1, NamesAssumption, Zenon DEF InTable, Taken
<1>3. \A p \in Procs, c \in Structs : ~Closes(p, c) /\ ~Making(p, c)
  BY <1>1, Zenon DEF Closes, Making, Creating
<1>. QED BY <1>1, <1>2, <1>3, Zenon DEF TableInv, EntryInv, HandleInv, IdsInv, ResumeInv, MarkInv, ResultInv

-----------------------------------------------------------------------------
(***************************************************************************)
(* What that gives clients that race their joins and detaches.             *)
(***************************************************************************)
\* Every step of src/pthread.c keeps the table, its handles and its ids in
\* step, as long as no client calls pthread_detach(0): the inductive invariant
\* behind the results below.
THEOREM TableHolds ==
    ASSUME ~ZeroDetach
    PROVE  Spec => []TableInv
<1>1. Init => TypeOK /\ Ownership /\ TableInv BY TypeInit, OwnershipInit, TableInit, Zenon
<1>2. TypeOK /\ Ownership /\ TableInv /\ [Next]_vars => TypeOK' /\ Ownership' /\ TableInv'
  BY TypeStep, OwnershipStep, TableStep, Zenon
<1>. QED BY <1>1, <1>2, PTL DEF Spec

\* However creations, joins and detaches interleave, CloseHandle is called on
\* the handle of a thread at most once, while it is open and the table offers
\* it to no other call, and no open handle is lost (src/pthread.c:161-267).
THEOREM HandlesAreSound ==
    ASSUME ~ZeroDetach
    PROVE  Spec => []HandlesSound
<1>1. TypeOK /\ Ownership /\ TableInv => HandlesSound
  <2>. SUFFICES ASSUME TypeOK, Ownership, TableInv PROVE HandleClosedOnce /\ NoHandleLeak
       BY Zenon DEF HandlesSound
  <2>1. ASSUME NEW p \in Procs, NEW c \in Structs, Closes(p, c)
        PROVE  /\ hopen[c]
               /\ \A q \in Procs : q # p => ~Closes(q, c)
               /\ \A i \in Slots : table[i] # NULL => heap[table[i]].h # c
    <3>1. hopen[c] /\ ~Offered(c) /\ \A q \in Procs : q # p => ~Closes(q, c)
      BY <2>1, Zenon DEF TableInv, HandleInv
    <3>2. ASSUME NEW i \in Slots, table[i] # NULL, heap[table[i]].h = c PROVE FALSE
      <4>1. PICK d \in Structs : d = table[i] BY <3>2, Typing, Zenon DEF Ref
      <4>2. InTable(d) /\ heap[d].h = c BY <3>2, <4>1, Zenon DEF InTable
      <4>3. d = c BY <4>2, NamesAssumption, Zenon DEF TableInv, EntryInv
      <4>. QED BY <3>1, <4>2, <4>3, Zenon DEF Offered
    <3>. QED BY <3>1, <3>2, Zenon
  <2>2. ASSUME NEW c \in Structs, hopen[c]
        PROVE  \/ InTable(c) /\ heap[c].h = c
               \/ \E p \in Procs : Closes(p, c) \/ (Creating(p, c) /\ loc[p].h = c)
    BY <2>2, Zenon DEF TableInv, HandleInv, Offered, Making
  <2>. QED BY <2>1, <2>2, Zenon DEF HandleClosedOnce, NoHandleLeak
<1>. QED BY <1>1, TypeCorrect, OwnershipHolds, TableHolds, PTL

\* Slots and structs point at each other, below the high-water mark, and no
\* two threads in the table have the same id, whatever ids the operating
\* system reuses: a search by id (src/pthread.c:180-197) is unambiguous.
LEMMA Coherent ==
    ASSUME TypeOK, Ownership, TableInv
    PROVE  TableCoherent
<1>1. ASSUME NEW i \in Slots, table[i] # NULL PROVE heap[table[i]].index = i /\ i < hwm
  BY <1>1, Zenon DEF Ownership, SlotsInv, TableInv, MarkInv
<1>2. ASSUME NEW i \in Slots, NEW j \in Slots, table[i] # NULL, table[j] # NULL, i # j,
             heap[table[i]].id = heap[table[j]].id, heap[table[i]].id # 0
      PROVE  FALSE
  <2>1. PICK id : id = heap[table[i]].id BY Zenon
  <2>2. id # 0 /\ Holds(i, id) /\ Holds(j, id) BY <1>2, <2>1, Zenon DEF Holds
  <2>3. /\ table[i] \in Structs /\ hopen[table[i]] /\ tid[table[i]] = id
        /\ table[j] \in Structs /\ hopen[table[j]] /\ tid[table[j]] = id
    BY <2>2, Found, Zenon DEF TableInv
  <2>4. table[i] = table[j] BY <2>3, Zenon DEF TableInv, IdsInv, Taken
  <2>. QED BY <1>1, <1>2, <2>4, Zenon
<1>. QED BY <1>1, <1>2, Zenon DEF TableCoherent

\* The same for every run of racing clients: wpdk_get_thread_info,
\* wpdk_thread_done and wpdk_detach_thread (src/pthread.c:180-267) never have
\* two entries to choose from, and a slot is never shared or above hwmthreads.
THEOREM TableStaysCoherent ==
    ASSUME ~ZeroDetach
    PROVE  Spec => []TableCoherent
<1>1. TypeOK /\ Ownership /\ TableInv => TableCoherent BY Coherent, Zenon
<1>. QED BY <1>1, TypeCorrect, OwnershipHolds, TableHolds, PTL

-----------------------------------------------------------------------------
(***************************************************************************)
(* What joins return, for every number of structs, callers, ids and slots: *)
(* under racing clients a join never reports another thread's value, and   *)
(* under clients that join or detach each thread once it succeeds with the *)
(* value of its thread, through a handle that is open.                     *)
(***************************************************************************)
\* The calls are at the labels of their kind.
OpInv ==
    \A p \in Procs :
        /\ pc[p] \in {"c_start", "c_begin", "c_info", "c_resume", "c_close"} => loc[p].op = "create"
        /\ pc[p] \in {"j_wait", "j_blocked", "j_detach"} => loc[p].op = "join"

Joins(p, c) == pc[p] \in {"j_wait", "j_blocked", "j_detach"} /\ loc[p].tgt = c
Joined(p) == pc[p] \in {"close", "free", "return"} /\ loc[p].op = "join"

\* No id was given out twice.
IdsOnce == \A c, d \in Structs : c # d /\ tid[c] # 0 => tid[c] # tid[d]

\* Racing clients: as long as no id was given out twice, a join waits on the
\* handle of its thread, and what it takes away is that thread's result.
MixInv ==
    IdsOnce =>
    /\ \A p \in Procs, c \in Structs : Joins(p, c) =>
         /\ loc[p].h = c
         /\ pc[p] = "j_detach" => os[c] = "terminated" \/ ~hopen[c]
    /\ \A p \in Procs : Joined(p) /\ loc[p].rc = "0" => loc[p].val = loc[p].tgt

JoinsSole(p, c) ==
    /\ c \in claimed /\ Offered(c) /\ p # c /\ Known(c)
    /\ loc[p].h = c /\ loc[p].index = heap[c].index /\ loc[p].rc = "0"
    /\ pc[p] = "j_detach" => os[c] = "terminated"

\* Clients that reap each thread once: whoever joins a thread keeps it in the
\* table until then.
SoleInv ==
    /\ \A c \in Structs : os[c] # "none" /\ c \notin claimed /\ ~InSetUp(c) => Offered(c)
    /\ \A c \in claimed : os[c] # "none"
    /\ \A p \in Procs, c \in Structs : Making(p, c) => (c \in claimed <=> loc[p].det)
    /\ \A p \in Procs, c \in Structs : Joins(p, c) =>
         /\ JoinsSole(p, c)
         /\ \A q \in Procs : Joins(q, c) => q = p
    /\ \A p \in Procs, c \in Structs : pc[p] = "c_resume" /\ loc[p].h = c /\ ~loc[p].det =>
         Offered(c) /\ c \notin claimed
    /\ \A p \in Procs : Joined(p) /\ loc[p].tgt # p => loc[p].rc = "0" /\ loc[p].val = loc[p].tgt

-----------------------------------------------------------------------------
(***************************************************************************)
(* What every step keeps: the id of a created thread, that its handle is   *)
(* closed, and that it has terminated.                                     *)
(***************************************************************************)
Lasting(c) ==
    os[c] # "none" =>
        /\ os'[c] # "none" /\ tid'[c] = tid[c]
        /\ ~hopen[c] => ~hopen'[c]
        /\ Known(c) => Known(c)'
        /\ os[c] = "terminated" => os'[c] = "terminated"

LEMMA BeginLasts ==
    ASSUME TypeOK, Ownership, NEW p \in Procs, CreateBegin(p)
    PROVE  \A c \in Structs : Lasting(c)
<1>1. PICK c \in Structs : c = loc[p].ptr BY Typing, Zenon DEF CreateBegin, PointersOK
<1>2. Creating(p, c) /\ pc[p] = "c_begin" BY <1>1, Zenon DEF CreateBegin, Creating
<1>3. os[c] = "none"
  <2>1. SetUp(p, c) BY <1>2, Zenon DEF Ownership, CreatingInv
  <2>2. loc[p].h = NULL BY <1>2, <2>1, Zenon DEF SetUp
  <2>. QED BY <1>2, <2>2, SetUpIn, Zenon
<1>4. \A d \in Structs : d # c => os'[d] = os[d] /\ tid'[d] = tid[d] /\ hopen'[d] = hopen[d]
  BY <1>1, Typing, Zenon DEF CreateBegin, osVars
<1>. QED BY <1>3, <1>4, Zenon DEF Lasting, Known

LEMMA Lasts ==
    ASSUME ~ZeroDetach, TypeOK, Ownership, TableInv, Next
    PROVE  \A c \in Structs : Lasting(c)
<1>1. ASSUME UNCHANGED <<os, tid, hopen>> PROVE \A c \in Structs : Lasting(c)
  BY <1>1, Zenon DEF Lasting, Known
<1>2. ASSUME NEW p \in Procs, CreateResume(p) PROVE \A c \in Structs : Lasting(c)
  <2>1. PICK c \in Structs : c = loc[p].h BY <1>2, Typing, Zenon DEF CreateResume, PointersOK
  <2>2. os[c] = "suspended" BY <1>2, <2>1, Zenon DEF CreateResume, TableInv, ResumeInv
  <2>3. /\ os'[c] \in {"suspended", "runnable"} /\ \A d \in Structs : d # c => os'[d] = os[d]
        /\ UNCHANGED <<tid, hopen>>
    BY <1>2, <2>1, <2>2, Typing, Zenon DEF CreateResume
  <2>. QED BY <2>2, <2>3, Zenon DEF Lasting, Known
<1>3. ASSUME NEW p \in Procs, CreateClose(p) \/ DetachClose(p) PROVE \A c \in Structs : Lasting(c)
  <2>1. UNCHANGED <<os, tid>> BY <1>3, Zenon DEF CreateClose, DetachClose
  <2>2. \A c \in Structs : ~hopen[c] => ~hopen'[c] BY <1>3, Typing, Zenon DEF CreateClose, DetachClose
  <2>. QED BY <2>1, <2>2, Zenon DEF Lasting, Known
<1>4. ASSUME NEW t \in Structs, ThreadEnd(t) PROVE \A c \in Structs : Lasting(c)
  <2>1. /\ os'[t] = "terminated" /\ \A d \in Structs : d # t => os'[d] = os[d]
        /\ UNCHANGED <<tid, hopen>>
    BY <1>4, Typing, Zenon DEF ThreadEnd
  <2>. QED BY <2>1, Zenon DEF Lasting, Known
<1>5. ASSUME NEW p \in Procs, Call(p) \/ JoinAlerted(p) \/ JoinWake(p) PROVE UNCHANGED <<os, tid, hopen>>
  BY <1>5, Zenon DEF Call, CreateNoMemory, CreateAllocate, CreateTableFull, PthreadJoin, PthreadDetach,
                     JoinAlerted, JoinWake, osVars
<1>6. ASSUME NEW p \in Procs, Step(p) PROVE \A c \in Structs : Lasting(c)
  <2>1. CASE CreateSetStart(p) \/ CreateSetInfo(p) \/ FreeStruct(p) \/ JoinWait(p) \/ JoinDetach(p) \/ Return(p)
    BY <1>1, <2>1, Zenon DEF CreateSetStart, CreateSetInfo, FreeStruct, JoinWait, JoinDetach, Return, osVars
  <2>. QED BY <1>2, <1>3, <1>6, <2>1, BeginLasts, Zenon DEF Step
<1>7. ASSUME NEW t \in Structs, Lifecycle(t) PROVE \A c \in Structs : Lasting(c)
  <2>1. CASE ThreadStarting(t) \/ ThreadFree(t) \/ ThreadDone(t, info[t]) \/ ThreadDone(t, -1)
    BY <1>1, <2>1, Zenon DEF ThreadStarting, ThreadFree, ThreadDone, osVars
  <2>. QED BY <1>4, <1>7, <2>1, Zenon DEF Lifecycle
<1>. QED BY <1>1, <1>5, <1>6, <1>7, Zenon DEF Next

LEMMA OnceBefore ==
    ASSUME TableInv, \A c \in Structs : Lasting(c), IdsOnce'
    PROVE  IdsOnce
<1>. SUFFICES ASSUME NEW c \in Structs, NEW d \in Structs, c # d, tid[c] # 0, tid[c] = tid[d] PROVE FALSE
     BY Zenon DEF IdsOnce
<1>1. os[c] # "none" /\ os[d] # "none" BY Zenon DEF TableInv, IdsInv
<1>2. tid'[c] = tid[c] /\ tid'[d] = tid[d] BY <1>1, Zenon DEF Lasting
<1>. QED BY <1>2, Zenon DEF IdsOnce

-----------------------------------------------------------------------------
(***************************************************************************)
(* Where a step leaves the call it is of.                                  *)
(***************************************************************************)
JoinLabels == {"j_wait", "j_blocked", "j_detach"}
CreateLabels == {"c_start", "c_begin", "c_info", "c_resume", "c_close"}

\* The steps of anything but a join or the end of a reaping.
Elsewhere(p) ==
    \/ CreateNoMemory(p) \/ Return(p)
    \/ \E c \in Structs : CreateAllocate(p, c) \/ CreateTableFull(p, c) \/ PthreadDetach(p, c)
    \/ CreateSetStart(p) \/ CreateBegin(p) \/ CreateSetInfo(p) \/ CreateResume(p) \/ CreateClose(p)
    \/ p \in Structs /\ Lifecycle(p)

\* The steps that end a reaping.
Ending(p) == DetachClose(p) \/ FreeStruct(p)

\* The steps of a join, up to its end.
Waiting(p) ==
    \/ \E c \in Structs : PthreadJoin(p, c)
    \/ JoinWait(p) \/ JoinAlerted(p) \/ JoinWake(p) \/ JoinDetach(p)

LEMMA Kinds ==
    ASSUME ~ZeroDetach, Next
    PROVE  \E p \in Procs : Elsewhere(p) \/ Ending(p) \/ Waiting(p)
<1>1. ASSUME NEW p \in Procs, Call(p) PROVE Elsewhere(p) \/ Waiting(p)
  <2>1. ~PthreadDetach(p, NULL) BY Zenon DEF PthreadDetach
  <2>. QED BY <1>1, <2>1, Zenon DEF Call, Ref, Elsewhere, Waiting
<1>2. ASSUME NEW p \in Procs, Step(p) \/ JoinAlerted(p) \/ JoinWake(p)
      PROVE  Elsewhere(p) \/ Ending(p) \/ Waiting(p)
  BY <1>2, Zenon DEF Step, Elsewhere, Ending, Waiting
<1>3. ASSUME NEW t \in Structs, Lifecycle(t) PROVE t \in Procs /\ Elsewhere(t)
  BY <1>3, Zenon DEF Elsewhere, Procs
<1>. QED BY <1>1, <1>2, <1>3, Zenon DEF Next

LEMMA ElsewhereStays ==
    ASSUME TypeOK, OpInv, NEW p \in Procs, Elsewhere(p)
    PROVE  /\ \A q \in Procs : q # p => pc'[q] = pc[q] /\ loc'[q] = loc[q]
           /\ pc'[p] \notin JoinLabels /\ ~Joined(p)'
           /\ pc'[p] \in CreateLabels => loc'[p].op = "create"
<1>1. CASE CreateNoMemory(p) \/ \E c \in Structs : CreateAllocate(p, c) \/ CreateTableFull(p, c)
  <2>1. /\ pc'[p] \in {"return", "c_start", "free"}
        /\ \A q \in Procs : q # p => pc'[q] = pc[q] /\ loc'[q] = loc[q]
    BY <1>1, Typing, ZenonT(30) DEF CreateNoMemory, CreateAllocate, CreateTableFull, Leave, Goto
  <2>2. \/ loc'[p] = [[NoCall EXCEPT !.op = "create"] EXCEPT !.rc = "ENOMEM"]
        \/ \E c \in Structs : loc'[p] = [NoCall EXCEPT !.op = "create", !.ptr = c]
        \/ \E c \in Structs : loc'[p] = [NoCall EXCEPT !.op = "create", !.ptr = c, !.rc = "EMFILE"]
    BY <1>1, Typing, Zenon DEF CreateNoMemory, CreateAllocate, CreateTableFull, Leave
  <2>3. loc'[p].op = "create" BY <2>2, Zenon DEF NoCall
  <2>. QED BY <2>1, <2>3, Zenon DEF JoinLabels, Joined
<1>2. CASE CreateSetStart(p) \/ CreateBegin(p) \/ CreateSetInfo(p) \/ CreateResume(p) \/ CreateClose(p)
  <2>1. pc[p] \in CreateLabels /\ loc[p] \in Locals
    BY <1>2, Typing, Zenon DEF CreateSetStart, CreateBegin, CreateSetInfo, CreateResume, CreateClose, CreateLabels
  <2>2. loc[p].op = "create" BY <2>1, Zenon DEF CreateLabels, OpInv
  <2>3. \/ loc' = loc
        \/ \E det \in BOOLEAN, c \in Structs : loc' = [loc EXCEPT ![p] = [loc[p] EXCEPT !.det = det, !.h = c]]
        \/ \E det \in BOOLEAN : loc' = [loc EXCEPT ![p] = [loc[p] EXCEPT !.det = det, !.rc = "EAGAIN"]]
    BY <1>2, Typing, Zenon DEF CreateSetStart, CreateBegin, CreateSetInfo, CreateResume, CreateClose, PointersOK
  <2>4. \A q \in Procs : q # p => loc'[q] = loc[q] BY <2>3, Typing, Zenon
  <2>5. loc'[p].op = "create"
    <3>1. \/ loc'[p] = loc[p]
          \/ \E det \in BOOLEAN, c \in Structs : loc'[p] = [loc[p] EXCEPT !.det = det, !.h = c]
          \/ \E det \in BOOLEAN : loc'[p] = [loc[p] EXCEPT !.det = det, !.rc = "EAGAIN"]
      BY <2>3, Typing, Zenon
    <3>. QED BY <2>1, <2>2, <3>1, Zenon DEF Locals
  <2>6. /\ pc'[p] \in {"c_begin", "c_info", "free", "c_resume", "c_close", "return"}
        /\ \A q \in Procs : q # p => pc'[q] = pc[q]
    BY <1>2, Typing, Zenon DEF CreateSetStart, CreateBegin, CreateSetInfo, CreateResume, CreateClose, Goto
  <2>. QED BY <2>4, <2>5, <2>6, Zenon DEF JoinLabels, Joined
<1>3. ASSUME NEW c \in Structs, PthreadDetach(p, c)
      PROVE  /\ \A q \in Procs : q # p => pc'[q] = pc[q] /\ loc'[q] = loc[q]
             /\ pc'[p] \in {"close", "return"} /\ loc'[p].op = "detach"
  <2>. DEFINE l == [NoCall EXCEPT !.op = "detach", !.tgt = c]
  <2>1. l \in Locals /\ l.op = "detach" BY NoCallType, Zenon DEF Locals, Ref, NoCall
  <2>2. DetachThread(p, l, "0", "EINVAL") BY <1>3, Zenon DEF PthreadDetach
  <2>. HIDE DEF l
  <2>3. /\ pc'[p] \in {"close", "return"}
        /\ \A q \in Procs : q # p => pc'[q] = pc[q] /\ loc'[q] = loc[q]
    BY <2>2, Typing, Zenon DEF DetachThread, Leave, Goto
  <2>4. loc'[p].op = "detach"
    <3>1. CASE Leave(p, l, "EINVAL") BY <2>1, <3>1, Typing, Zenon DEF Leave, Locals
    <3>2. ASSUME NEW i \in Slots,
                 loc' = [loc EXCEPT ![p] =
                   [l EXCEPT !.ptr = table[i], !.start = heap[table[i]].start, !.h = heap[table[i]].h,
                             !.rc = "0",
                             !.val = IF l.op = "join" THEN heap[table[i]].result ELSE NULL]]
          PROVE  loc'[p].op = "detach"
      BY <2>1, <3>2, Typing, Zenon DEF Locals
    <3>. QED BY <2>2, <3>1, <3>2, Zenon DEF DetachThread
  <2>. QED BY <2>3, <2>4, Zenon
<1>4. CASE Return(p)
  <2>1. pc'[p] = "ready" /\ \A q \in Procs : q # p => pc'[q] = pc[q] /\ loc'[q] = loc[q]
    BY <1>4, Typing, Zenon DEF Return, Goto
  <2>. QED BY <2>1, Zenon DEF JoinLabels, CreateLabels, Joined
<1>5. CASE p \in Structs /\ Lifecycle(p)
  <2>1. /\ pc'[p] \in {"t_free", "ready", "t_exit", "gone"} /\ loc' = loc
        /\ \A q \in Procs : q # p => pc'[q] = pc[q]
    BY <1>5, Typing, Zenon DEF Lifecycle, ThreadStarting, ThreadFree, ThreadEnd, ThreadDone, Goto
  <2>. QED BY <2>1, Zenon DEF JoinLabels, CreateLabels, Joined
<1>6. ASSUME NEW c \in Structs, PthreadDetach(p, c)
      PROVE  /\ \A q \in Procs : q # p => pc'[q] = pc[q] /\ loc'[q] = loc[q]
             /\ pc'[p] \notin JoinLabels /\ ~Joined(p)'
             /\ pc'[p] \in CreateLabels => loc'[p].op = "create"
  BY <1>3, <1>6, Zenon DEF JoinLabels, CreateLabels, Joined
<1>. QED BY <1>1, <1>2, <1>4, <1>5, <1>6, Zenon DEF Elsewhere

LEMMA EndingStays ==
    ASSUME TypeOK, NEW p \in Procs, Ending(p)
    PROVE  /\ loc' = loc /\ \A q \in Procs : q # p => pc'[q] = pc[q]
           /\ pc[p] \in {"close", "free"} /\ pc'[p] \in {"free", "return"}
           /\ Joined(p)' <=> Joined(p)
<1>1. /\ loc' = loc /\ \A q \in Procs : q # p => pc'[q] = pc[q]
      /\ pc[p] \in {"close", "free"} /\ pc'[p] \in {"free", "return"}
  BY Typing, Zenon DEF Ending, DetachClose, FreeStruct, Goto
<1>. QED BY <1>1, Zenon DEF Joined

\* The start of a join: wpdk_get_thread_info finds the thread, or does not.
LEMMA JoinEffect ==
    ASSUME TypeOK, NEW p \in Procs, NEW t \in Structs, PthreadJoin(p, t)
    PROVE  /\ pc[p] = "ready" /\ MayReap(t) /\ Claim(t)
           /\ UNCHANGED <<mem, heap, table, hwm, os, tid, hopen, info>>
           /\ \A q \in Procs : q # p => pc'[q] = pc[q] /\ loc'[q] = loc[q]
           /\ loc'[p].op = "join" /\ loc'[p].tgt = t
           /\ \/ /\ pc'[p] = "j_wait" /\ loc'[p].rc = "0" /\ ~(p \in Structs /\ tid[p] = tid[t])
                 /\ \E i \in Slots : First(i, tid[t]) /\ loc'[p].h = heap[table[i]].h /\ loc'[p].index = i
              \/ /\ pc'[p] = "return" /\ loc'[p].rc = "EINVAL"
                 /\ (p \in Structs /\ tid[p] = tid[t]) \/ \A i \in Slots : ~First(i, tid[t])
<1>1. /\ pc[p] = "ready" /\ MayReap(t) /\ Claim(t)
      /\ UNCHANGED <<mem, heap, table, hwm, os, tid, hopen, info>>
  BY Zenon DEF PthreadJoin, tableVars, osVars
<1>. DEFINE l == [NoCall EXCEPT !.op = "join", !.tgt = t]
<1>2. l \in Locals /\ l.op = "join" /\ l.tgt = t /\ l.rc = "0"
  BY NoCallType, Zenon DEF Locals, Ref, NoCall
<1>3. \/ \E i \in Slots : /\ ~(p \in Structs /\ tid[p] = tid[t]) /\ First(i, tid[t])
                          /\ loc' = [loc EXCEPT ![p] = [l EXCEPT !.h = heap[table[i]].h, !.index = i]]
                          /\ Goto(p, "j_wait")
      \/ /\ (p \in Structs /\ tid[p] = tid[t]) \/ \A i \in Slots : ~First(i, tid[t])
         /\ Leave(p, l, "EINVAL")
  BY Zenon DEF PthreadJoin
<1>. HIDE DEF l
<1>4. \A q \in Procs : q # p => pc'[q] = pc[q] /\ loc'[q] = loc[q]
  BY <1>3, Typing, Zenon DEF Leave, Goto
<1>5. ASSUME NEW i \in Slots, ~(p \in Structs /\ tid[p] = tid[t]), First(i, tid[t]), Goto(p, "j_wait"),
             loc' = [loc EXCEPT ![p] = [l EXCEPT !.h = heap[table[i]].h, !.index = i]]
      PROVE  /\ loc'[p].op = "join" /\ loc'[p].tgt = t /\ loc'[p].rc = "0" /\ pc'[p] = "j_wait"
             /\ loc'[p].h = heap[table[i]].h /\ loc'[p].index = i
  <2>1. loc'[p] = [l EXCEPT !.h = heap[table[i]].h, !.index = i] /\ pc'[p] = "j_wait"
    BY <1>5, Typing, Zenon DEF Goto
  <2>. QED BY <1>2, <2>1, Zenon DEF Locals
<1>6. ASSUME Leave(p, l, "EINVAL")
      PROVE  loc'[p].op = "join" /\ loc'[p].tgt = t /\ loc'[p].rc = "EINVAL" /\ pc'[p] = "return"
  <2>1. loc'[p] = [l EXCEPT !.rc = "EINVAL"] /\ pc'[p] = "return" BY <1>6, Typing, Zenon DEF Leave, Goto
  <2>. QED BY <1>2, <2>1, Zenon DEF Locals
<1>. QED BY <1>1, <1>3, <1>4, <1>5, <1>6, Zenon

\* The wait of a join.
LEMMA WaitEffect ==
    ASSUME TypeOK, NEW p \in Procs, JoinWait(p) \/ JoinAlerted(p) \/ JoinWake(p)
    PROVE  /\ UNCHANGED <<mem, heap, table, hwm, os, tid, hopen, info, claimed>>
           /\ \A q \in Procs : q # p => pc'[q] = pc[q] /\ loc'[q] = loc[q]
           /\ pc[p] \in {"j_wait", "j_blocked"} /\ pc'[p] \in JoinLabels
           /\ loc'[p].op = loc[p].op /\ loc'[p].tgt = loc[p].tgt
           /\ loc'[p].h = loc[p].h /\ loc'[p].index = loc[p].index
           /\ hopen[loc[p].h] => loc'[p].rc = loc[p].rc
           /\ pc'[p] = "j_detach" => ~hopen[loc[p].h] \/ os[loc[p].h] = "terminated"
<1>1. /\ UNCHANGED <<mem, heap, table, hwm, os, tid, hopen, info, claimed>>
      /\ pc[p] \in {"j_wait", "j_blocked"}
      /\ \A q \in Procs : q # p => pc'[q] = pc[q] /\ loc'[q] = loc[q]
  BY Typing, Zenon DEF JoinWait, JoinAlerted, JoinWake, Goto, tableVars, osVars
<1>2. loc[p] \in Locals BY Typing, Zenon
<1>3. CASE JoinWait(p)
  <2>1. pc[p] = "j_wait" BY <1>3, Zenon DEF JoinWait
  <2>2. CASE hopen[loc[p].h] /\ Goto(p, "j_blocked") /\ UNCHANGED loc
    <3>1. pc'[p] = "j_blocked" BY <2>2, Typing, Zenon DEF Goto
    <3>. QED BY <1>1, <2>1, <2>2, <3>1, Zenon DEF JoinLabels
  <2>3. ASSUME ~hopen[loc[p].h], NEW rc \in {"0", "WAIT_FAILED"}, Goto(p, "j_detach"),
               loc' = [loc EXCEPT ![p] = [loc[p] EXCEPT !.rc = rc]]
        PROVE  /\ loc'[p].op = loc[p].op /\ loc'[p].tgt = loc[p].tgt
               /\ loc'[p].h = loc[p].h /\ loc'[p].index = loc[p].index /\ pc'[p] = "j_detach"
    <3>1. pc'[p] = "j_detach" /\ loc'[p] = [loc[p] EXCEPT !.rc = rc] BY <2>3, Typing, Zenon DEF Goto
    <3>. QED BY <1>2, <3>1, Zenon DEF Locals
  <2>4. CASE ~hopen[loc[p].h]
    <3>1. \E rc \in {"0", "WAIT_FAILED"} : loc' = [loc EXCEPT ![p] = [loc[p] EXCEPT !.rc = rc]] /\ Goto(p, "j_detach")
      BY <1>3, <2>4, Zenon DEF JoinWait
    <3>. QED BY <1>1, <2>1, <2>3, <2>4, <3>1, Zenon DEF JoinLabels
  <2>. QED BY <1>3, <2>2, <2>4, Zenon DEF JoinWait
<1>4. CASE JoinAlerted(p) \/ JoinWake(p)
  <2>1. loc' = loc /\ pc[p] = "j_blocked" BY <1>4, Zenon DEF JoinAlerted, JoinWake
  <2>2. pc'[p] = "j_wait" \/ (pc'[p] = "j_detach" /\ os[loc[p].h] = "terminated")
    BY <1>4, Typing, Zenon DEF JoinAlerted, JoinWake, Goto
  <2>. QED BY <1>1, <2>1, <2>2, Zenon DEF JoinLabels
<1>. QED BY <1>3, <1>4, Zenon

\* The end of a join.
LEMMA ReapEffect ==
    ASSUME TypeOK, Ownership, TableInv, OpInv, NEW p \in Procs, JoinDetach(p)
    PROVE  /\ pc[p] = "j_detach" /\ loc[p] \in Locals /\ loc[p].tgt \in Structs /\ os[loc[p].tgt] # "none"
           /\ loc[p].op = "join"
           /\ UNCHANGED <<mem, hwm, os, tid, hopen, info, claimed>>
           /\ \E found, missing \in Codes :
                /\ loc[p].rc # "WAIT_FAILED" => found = "0"
                /\ missing # "0"
                /\ Misses(p, loc[p], missing) \/ \E c \in Structs : Takes(p, loc[p], found, c)
<1>1. loc[p] \in Locals /\ loc[p].tgt \in Structs /\ os[loc[p].tgt] # "none" /\ pc[p] = "j_detach"
  BY Typing, Zenon DEF JoinDetach, PointersOK, Ownership, CallInv
<1>2. loc[p].op = "join" BY <1>1, Zenon DEF OpInv
<1>3. PICK found, missing \in Codes :
        /\ loc[p].rc # "WAIT_FAILED" => found = "0"
        /\ missing # "0" /\ DetachThread(p, loc[p], found, missing)
  BY Zenon DEF JoinDetach, Codes
<1>4. Misses(p, loc[p], missing) \/ \E c \in Structs : Takes(p, loc[p], found, c)
  BY <1>1, <1>3, DetachEffect, Zenon
<1>5. UNCHANGED <<mem, hwm, os, tid, hopen, info, claimed>> BY Zenon DEF JoinDetach, osVars
<1>. QED BY <1>1, <1>2, <1>3, <1>4, <1>5, Zenon

\* What Misses leaves of the call.
LEMMA MissEffect ==
    ASSUME TypeOK, NEW p \in Procs, NEW l \in Locals, NEW missing \in Codes, Misses(p, l, missing)
    PROVE  /\ \A q \in Procs : q # p => pc'[q] = pc[q] /\ loc'[q] = loc[q]
           /\ pc'[p] = "return" /\ loc'[p].op = l.op /\ loc'[p].tgt = l.tgt /\ loc'[p].rc = missing
<1>1. /\ \A q \in Procs : q # p => pc'[q] = pc[q] /\ loc'[q] = loc[q]
      /\ pc'[p] = "return" /\ loc'[p] = [l EXCEPT !.rc = missing]
  BY Typing, Zenon DEF Misses
<1>. QED BY <1>1, Zenon DEF Locals

LEMMA OpStep ==
    ASSUME ~ZeroDetach, TypeOK, Ownership, TableInv, OpInv, Next
    PROVE  OpInv'
<1>1. ASSUME NEW p \in Procs, \A q \in Procs : q # p => pc'[q] = pc[q] /\ loc'[q] = loc[q],
             pc'[p] \in CreateLabels => loc'[p].op = "create", pc'[p] \in JoinLabels => loc'[p].op = "join"
      PROVE  OpInv'
  <2>. SUFFICES ASSUME NEW q \in Procs
                PROVE  /\ pc'[q] \in CreateLabels => loc'[q].op = "create"
                       /\ pc'[q] \in JoinLabels => loc'[q].op = "join"
       BY Zenon DEF OpInv, CreateLabels, JoinLabels
  <2>1. CASE q = p BY <1>1, <2>1, Zenon
  <2>2. CASE q # p BY <1>1, <2>2, Zenon DEF OpInv, CreateLabels, JoinLabels
  <2>. QED BY <2>1, <2>2, Zenon
<1>2. ASSUME NEW p \in Procs, Elsewhere(p) PROVE OpInv' BY <1>1, <1>2, ElsewhereStays, Zenon
<1>3. ASSUME NEW p \in Procs, Ending(p) PROVE OpInv'
  <2>1. pc'[p] \notin CreateLabels /\ pc'[p] \notin JoinLabels
    BY <1>3, EndingStays, Zenon DEF CreateLabels, JoinLabels
  <2>. QED BY <1>1, <1>3, <2>1, EndingStays, Zenon
<1>4. ASSUME NEW p \in Procs, Waiting(p) PROVE OpInv'
  <2>1. ASSUME NEW t \in Structs, PthreadJoin(p, t) PROVE OpInv'
    <3>1. /\ \A q \in Procs : q # p => pc'[q] = pc[q] /\ loc'[q] = loc[q]
          /\ pc'[p] \in {"j_wait", "return"} /\ loc'[p].op = "join"
      BY <2>1, JoinEffect, Zenon
    <3>. QED BY <1>1, <3>1, Zenon DEF CreateLabels
  <2>2. CASE JoinWait(p) \/ JoinAlerted(p) \/ JoinWake(p)
    <3>1. loc[p].op = "join" BY <2>2, WaitEffect, Zenon DEF OpInv
    <3>2. pc'[p] \notin CreateLabels BY <2>2, WaitEffect, Zenon DEF CreateLabels, JoinLabels
    <3>3. loc'[p].op = "join" /\ \A q \in Procs : q # p => pc'[q] = pc[q] /\ loc'[q] = loc[q]
      BY <2>2, <3>1, WaitEffect, Zenon
    <3>. QED BY <1>1, <3>2, <3>3, Zenon
  <2>3. CASE JoinDetach(p)
    <3>1. /\ \A q \in Procs : q # p => pc'[q] = pc[q] /\ loc'[q] = loc[q]
          /\ pc'[p] \in {"close", "return"}
      BY <2>3, ReapEffect, MissEffect, ZenonT(30) DEF Takes
    <3>. QED BY <1>1, <3>1, Zenon DEF CreateLabels, JoinLabels
  <2>. QED BY <1>4, <2>1, <2>2, <2>3, Zenon DEF Waiting
<1>. QED BY <1>2, <1>3, <1>4, Kinds, Zenon

-----------------------------------------------------------------------------
(***************************************************************************)
(* Clients that race joins and detaches.                                   *)
(***************************************************************************)
LEMMA MixKept ==
    ASSUME TypeOK, Ownership, TableInv, MixInv, \A c \in Structs : Lasting(c), NEW p \in Procs,
           \A q \in Procs : q # p => pc'[q] = pc[q] /\ loc'[q] = loc[q],
           IdsOnce => \A c \in Structs : Joins(p, c)' =>
             /\ loc'[p].h = c
             /\ pc'[p] = "j_detach" => os'[c] = "terminated" \/ ~hopen'[c],
           IdsOnce => (Joined(p)' /\ loc'[p].rc = "0" => loc'[p].val = loc'[p].tgt)
    PROVE  MixInv'
<1>. SUFFICES ASSUME IdsOnce'
              PROVE  /\ \A q \in Procs, c \in Structs : Joins(q, c)' =>
                          /\ loc'[q].h = c
                          /\ pc'[q] = "j_detach" => os'[c] = "terminated" \/ ~hopen'[c]
                     /\ \A q \in Procs : Joined(q)' /\ loc'[q].rc = "0" => loc'[q].val = loc'[q].tgt
     BY Zenon DEF MixInv
<1>1. IdsOnce BY OnceBefore, Zenon
<1>2. ASSUME NEW q \in Procs, NEW c \in Structs, Joins(q, c)'
      PROVE  /\ loc'[q].h = c
             /\ pc'[q] = "j_detach" => os'[c] = "terminated" \/ ~hopen'[c]
  <2>1. CASE q = p BY <1>1, <1>2, <2>1, Zenon
  <2>2. CASE q # p
    <3>1. pc'[q] = pc[q] /\ loc'[q] = loc[q] /\ Joins(q, c) BY <1>2, <2>2, Zenon DEF Joins
    <3>2. loc[q].h = c /\ (pc[q] = "j_detach" => os[c] = "terminated" \/ ~hopen[c])
      BY <1>1, <3>1, Zenon DEF MixInv
    <3>3. os[c] # "none" BY <3>1, Zenon DEF Joins, Ownership, CallInv
    <3>4. (os[c] = "terminated" => os'[c] = "terminated") /\ (~hopen[c] => ~hopen'[c])
      BY <3>3, Zenon DEF Lasting
    <3>. QED BY <3>1, <3>2, <3>4, Zenon
  <2>. QED BY <2>1, <2>2, Zenon
<1>3. ASSUME NEW q \in Procs, Joined(q)', loc'[q].rc = "0" PROVE loc'[q].val = loc'[q].tgt
  <2>1. CASE q = p BY <1>1, <1>3, <2>1, Zenon
  <2>2. CASE q # p
    <3>1. loc'[q] = loc[q] /\ Joined(q) BY <1>3, <2>2, Zenon DEF Joined
    <3>. QED BY <1>1, <1>3, <3>1, Zenon DEF MixInv
  <2>. QED BY <2>1, <2>2, Zenon
<1>. QED BY <1>2, <1>3, Zenon

\* A search finds the thread it is meant for when no id was given out twice.
LEMMA FindsNamed ==
    ASSUME TypeOK, Ownership, TableInv, IdsOnce, NEW t \in Structs, os[t] # "none",
           NEW c \in Structs, tid[c] = tid[t]
    PROVE  c = t
BY Zenon DEF IdsOnce, Ownership, KernelInv

LEMMA MixStep ==
    ASSUME ~ZeroDetach, TypeOK, Ownership, TableInv, OpInv, MixInv, Next
    PROVE  MixInv'
<1>0. \A c \in Structs : Lasting(c) BY Lasts, Zenon
<1>1. ASSUME NEW p \in Procs, Elsewhere(p) PROVE MixInv'
  <2>1. \A c \in Structs : ~Joins(p, c)' BY <1>1, ElsewhereStays, Zenon DEF Joins, JoinLabels
  <2>. QED BY <1>0, <1>1, <2>1, ElsewhereStays, MixKept, Zenon
<1>2. ASSUME NEW p \in Procs, Ending(p) PROVE MixInv'
  <2>1. \A c \in Structs : ~Joins(p, c)' BY <1>2, EndingStays, Zenon DEF Joins
  <2>2. IdsOnce => (Joined(p)' /\ loc'[p].rc = "0" => loc'[p].val = loc'[p].tgt)
    BY <1>2, EndingStays, Zenon DEF MixInv
  <2>. QED BY <1>0, <1>2, <2>1, <2>2, EndingStays, MixKept, Zenon
<1>3. ASSUME NEW p \in Procs, NEW t \in Structs, PthreadJoin(p, t) PROVE MixInv'
  <2>1. /\ loc'[p].tgt = t /\ os[t] # "none"
        /\ \A q \in Procs : q # p => pc'[q] = pc[q] /\ loc'[q] = loc[q]
        /\ UNCHANGED <<heap, table, os, tid, hopen>>
    <3>1. MayReap(t) BY <1>3, JoinEffect, Zenon
    <3>2. os[t] # "none" BY <3>1, Zenon DEF MayReap, Known
    <3>. QED BY <1>3, <3>2, JoinEffect, Zenon
  <2>2. CASE pc'[p] = "return" /\ loc'[p].rc = "EINVAL"
    <3>1. \A c \in Structs : ~Joins(p, c)' BY <2>2, Zenon DEF Joins
    <3>. QED BY <1>0, <2>1, <2>2, <3>1, MixKept, Zenon
  <2>3. ASSUME pc'[p] = "j_wait", NEW i \in Slots, First(i, tid[t]), loc'[p].h = heap[table[i]].h PROVE MixInv'
    <3>1. ASSUME IdsOnce PROVE loc'[p].h = t
      <4>1. tid[t] # 0 /\ Holds(i, tid[t]) BY <2>1, <2>3, Zenon DEF First, Ownership, KernelInv
      <4>2. table[i] \in Structs /\ Offered(table[i]) /\ tid[table[i]] = tid[t]
        BY <4>1, Found, Zenon DEF TableInv
      <4>3. table[i] = t BY <2>1, <3>1, <4>2, FindsNamed, Zenon
      <4>. QED BY <2>3, <4>2, <4>3, Zenon DEF Offered
    <3>2. ~Joined(p)' BY <2>3, Zenon DEF Joined
    <3>3. \A c \in Structs : Joins(p, c)' => c = t BY <2>1, Zenon DEF Joins
    <3>. QED BY <1>0, <2>1, <2>3, <3>1, <3>2, <3>3, MixKept, Zenon
  <2>. QED BY <1>3, <2>2, <2>3, JoinEffect, Zenon
<1>4. ASSUME NEW p \in Procs, JoinWait(p) \/ JoinAlerted(p) \/ JoinWake(p) PROVE MixInv'
  <2>1. ~Joined(p)' BY <1>4, WaitEffect, Zenon DEF Joined, JoinLabels
  <2>2. ASSUME IdsOnce, NEW c \in Structs, Joins(p, c)'
        PROVE  loc'[p].h = c /\ (pc'[p] = "j_detach" => os'[c] = "terminated" \/ ~hopen'[c])
    <3>1. Joins(p, c) BY <1>4, <2>2, WaitEffect, Zenon DEF Joins
    <3>2. loc[p].h = c BY <2>2, <3>1, Zenon DEF MixInv
    <3>. QED BY <1>4, <3>2, WaitEffect, Zenon
  <2>. QED BY <1>0, <1>4, <2>1, <2>2, WaitEffect, MixKept, Zenon
<1>5. ASSUME NEW p \in Procs, JoinDetach(p) PROVE MixInv'
  <2>1. PICK t \in Structs : t = loc[p].tgt BY <1>5, ReapEffect, Zenon
  <2>2. /\ pc[p] = "j_detach" /\ loc[p] \in Locals /\ os[t] # "none" /\ loc[p].op = "join"
        /\ UNCHANGED <<os, tid, hopen>>
    BY <1>5, <2>1, ReapEffect, Zenon
  <2>3. PICK found, missing \in Codes :
          /\ missing # "0"
          /\ Misses(p, loc[p], missing) \/ \E c \in Structs : Takes(p, loc[p], found, c)
    BY <1>5, ReapEffect, Zenon
  <2>4. CASE Misses(p, loc[p], missing)
    <3>1. /\ \A q \in Procs : q # p => pc'[q] = pc[q] /\ loc'[q] = loc[q]
          /\ pc'[p] = "return" /\ loc'[p].rc # "0"
      BY <2>2, <2>3, <2>4, MissEffect, Zenon
    <3>2. \A c \in Structs : ~Joins(p, c)' BY <3>1, Zenon DEF Joins
    <3>. QED BY <1>0, <3>1, <3>2, MixKept, Zenon
  <2>5. ASSUME NEW c \in Structs, Takes(p, loc[p], found, c) PROVE MixInv'
    <3>1. /\ \A q \in Procs : q # p => pc'[q] = pc[q] /\ loc'[q] = loc[q]
          /\ pc'[p] = "close" /\ loc'[p].tgt = t /\ loc'[p].val = heap[c].result
          /\ Offered(c) /\ hopen[c] /\ tid[c] = tid[t]
      BY <2>1, <2>2, <2>5, Zenon DEF Takes
    <3>2. \A d \in Structs : ~Joins(p, d)' BY <3>1, Zenon DEF Joins
    <3>3. ASSUME IdsOnce PROVE heap[c].result = t
      <4>1. c = t BY <2>2, <3>1, <3>3, FindsNamed, Zenon
      <4>2. Joins(p, t) BY <2>1, <2>2, Zenon DEF Joins
      <4>3. os[t] = "terminated" BY <2>2, <3>1, <3>3, <4>1, <4>2, Zenon DEF MixInv
      <4>4. pc[t] = "gone" BY <4>3, Ended, Zenon
      <4>. QED BY <3>1, <4>1, <4>4, Zenon DEF Offered, TableInv, ResultInv
    <3>. QED BY <1>0, <3>1, <3>2, <3>3, MixKept, Zenon
  <2>. QED BY <2>3, <2>4, <2>5, Zenon
<1>6. ASSUME NEW p \in Procs, Waiting(p) PROVE MixInv'
  BY <1>3, <1>4, <1>5, <1>6, Zenon DEF Waiting
<1>. QED BY <1>1, <1>2, <1>6, Kinds, Zenon

\* However clients race joins and detaches, a join that reports success has
\* the value of the thread it named (src/pthread.c:887-908), as long as the
\* operating system gave no id out twice.
THEOREM JoinsNeverMix ==
    ASSUME ~ZeroDetach
    PROVE  Spec => []JoinNeverMixes
<1>1. Init => TypeOK /\ Ownership /\ TableInv /\ OpInv /\ MixInv
  <2>. SUFFICES ASSUME Init PROVE OpInv /\ MixInv BY TypeInit, OwnershipInit, TableInit, Zenon
  <2>1. \A p \in Procs : pc[p] \in {"ready", "start"} BY NamesAssumption, Zenon DEF Init, Procs
  <2>. QED BY <2>1, Zenon DEF OpInv, MixInv, Joins, Joined
<1>2. TypeOK /\ Ownership /\ TableInv /\ OpInv /\ MixInv /\ [Next]_vars
      => TypeOK' /\ Ownership' /\ TableInv' /\ OpInv' /\ MixInv'
  <2>. SUFFICES ASSUME TypeOK, Ownership, TableInv, OpInv, MixInv, [Next]_vars PROVE OpInv' /\ MixInv'
       BY TypeStep, OwnershipStep, TableStep, Zenon
  <2>1. CASE Next BY <2>1, OpStep, MixStep, Zenon
  <2>2. CASE UNCHANGED vars
    <3>1. UNCHANGED <<os, tid, hopen, pc, loc>> BY <2>2, Zenon DEF vars
    <3>. QED BY <3>1, ZenonT(30) DEF OpInv, MixInv, IdsOnce, Joins, Joined
  <2>. QED BY <2>1, <2>2, Zenon
<1>3. MixInv => JoinNeverMixes BY Zenon DEF MixInv, JoinNeverMixes, IdsOnce, Joined
<1>. QED BY <1>1, <1>2, <1>3, PTL DEF Spec

-----------------------------------------------------------------------------
(***************************************************************************)
(* Clients that join or detach each thread once.                           *)
(***************************************************************************)
LEMMA SoleKept ==
    ASSUME TypeOK, Ownership, TableInv, SoleInv, \A c \in Structs : Lasting(c), NEW p \in Procs,
           \A q \in Procs : q # p => pc'[q] = pc[q] /\ loc'[q] = loc[q],
           \A c \in Structs : os'[c] # "none" /\ c \notin claimed' /\ ~InSetUp(c)' =>
             Offered(c)' \/ (os[c] # "none" /\ c \notin claimed /\ ~InSetUp(c)),
           \A c \in Structs : Offered(c) =>
             \/ Offered(c)' /\ heap'[c].index = heap[c].index
             \/ c \in claimed' /\ Known(c) /\ \A q \in Procs : q # p => ~Joins(q, c),
           claimed \subseteq claimed',
           \A c \in claimed' : c \in claimed \/ (c \in Structs /\ os'[c] # "none" /\ os[c] # "suspended"),
           \A c \in Structs : Making(p, c)' => (c \in claimed' <=> loc'[p].det),
           \A c \in Structs : Joins(p, c)' => JoinsSole(p, c)' /\ \A q \in Procs : q # p => ~Joins(q, c),
           \A c \in Structs : pc'[p] = "c_resume" /\ loc'[p].h = c /\ ~loc'[p].det =>
             Offered(c)' /\ c \notin claimed',
           Joined(p)' /\ loc'[p].tgt # p => loc'[p].rc = "0" /\ loc'[p].val = loc'[p].tgt
    PROVE  SoleInv'
<1>0. claimed \subseteq Structs BY Zenon DEF TypeOK
<1>1. ASSUME NEW c \in Structs, os'[c] # "none", c \notin claimed', ~InSetUp(c)' PROVE Offered(c)'
  BY <1>1, Zenon DEF SoleInv
<1>2. ASSUME NEW c \in claimed' PROVE os'[c] # "none"
  BY <1>0, <1>2, Zenon DEF SoleInv, Lasting
<1>3. ASSUME NEW q \in Procs, NEW c \in Structs, Making(q, c)' PROVE c \in claimed' <=> loc'[q].det
  <2>1. CASE q = p BY <1>3, <2>1, Zenon
  <2>2. CASE q # p
    <3>1. Making(q, c) /\ loc'[q] = loc[q] BY <1>3, <2>2, OthersKept, Zenon
    <3>2. os[c] = "suspended"
      <4>1. Creating(q, c) /\ loc[q].h = c /\ c # NULL BY <3>1, NamesAssumption, Zenon DEF Making
      <4>2. os[c] \in {"none", "suspended"} /\ (os[c] = "none" <=> loc[q].h = NULL)
        BY <4>1, SetUpIn, Zenon
      <4>. QED BY <4>1, <4>2, Zenon
    <3>3. c \in claimed' <=> c \in claimed BY <3>2, Zenon
    <3>. QED BY <3>1, <3>3, Zenon DEF SoleInv
  <2>. QED BY <2>1, <2>2, Zenon
<1>4. ASSUME NEW q \in Procs, NEW c \in Structs, Joins(q, c)'
      PROVE  JoinsSole(q, c)' /\ \A r \in Procs : Joins(r, c)' => r = q
  <2>1. \A r \in Procs : r # p => (Joins(r, c)' <=> Joins(r, c)) BY Zenon DEF Joins
  <2>2. CASE q = p BY <1>4, <2>1, <2>2, Zenon
  <2>3. CASE q # p
    <3>1. Joins(q, c) /\ pc'[q] = pc[q] /\ loc'[q] = loc[q] BY <1>4, <2>1, <2>3, Zenon
    <3>2. JoinsSole(q, c) /\ \A r \in Procs : Joins(r, c) => r = q BY <3>1, Zenon DEF SoleInv
    <3>3. Offered(c)' /\ heap'[c].index = heap[c].index BY <2>3, <3>1, <3>2, Zenon DEF JoinsSole
    <3>4. c \in claimed' /\ Known(c)' /\ (os[c] = "terminated" => os'[c] = "terminated")
      <4>1. os[c] # "none" BY <3>2, Zenon DEF JoinsSole, Known
      <4>. QED BY <3>2, <4>1, Zenon DEF JoinsSole, Lasting
    <3>5. JoinsSole(q, c)' BY <3>1, <3>2, <3>3, <3>4, Zenon DEF JoinsSole
    <3>6. ~Joins(p, c)' BY <2>3, <3>1, Zenon
    <3>. QED BY <2>1, <3>2, <3>5, <3>6, Zenon
  <2>. QED BY <2>2, <2>3, Zenon
<1>5. ASSUME NEW q \in Procs, NEW c \in Structs, pc'[q] = "c_resume", loc'[q].h = c, ~loc'[q].det
      PROVE  Offered(c)' /\ c \notin claimed'
  <2>1. CASE q = p BY <1>5, <2>1, Zenon
  <2>2. CASE q # p
    <3>1. pc[q] = "c_resume" /\ loc[q].h = c /\ ~loc[q].det BY <1>5, <2>2, Zenon
    <3>2. Offered(c) /\ c \notin claimed BY <3>1, Zenon DEF SoleInv
    <3>3. os[c] = "suspended" BY <3>1, Zenon DEF TableInv, ResumeInv
    <3>. QED BY <3>2, <3>3, Zenon DEF Known
  <2>. QED BY <2>1, <2>2, Zenon
<1>6. ASSUME NEW q \in Procs, Joined(q)', loc'[q].tgt # q
      PROVE  loc'[q].rc = "0" /\ loc'[q].val = loc'[q].tgt
  <2>1. CASE q = p BY <1>6, <2>1, Zenon
  <2>2. CASE q # p
    <3>1. Joined(q) /\ loc'[q] = loc[q] BY <1>6, <2>2, Zenon DEF Joined
    <3>2. loc[q].tgt # q BY <1>6, <3>1, Zenon
    <3>3. loc[q].rc = "0" /\ loc[q].val = loc[q].tgt BY <3>1, <3>2, Zenon DEF SoleInv
    <3>. QED BY <3>1, <3>3, Zenon
  <2>. QED BY <2>1, <2>2, Zenon
<1>. QED BY <1>1, <1>2, <1>3, <1>4, <1>5, <1>6, Zenon DEF SoleInv

\* The same for a step that changes neither the table nor who is claimed.
LEMMA SoleQuiet ==
    ASSUME TypeOK, Ownership, TableInv, SoleInv, \A c \in Structs : Lasting(c), NEW p \in Procs,
           \A q \in Procs : q # p => pc'[q] = pc[q] /\ loc'[q] = loc[q],
           table' = table, claimed' = claimed,
           \A c \in Structs : InTable(c) => heap'[c].h = heap[c].h /\ heap'[c].index = heap[c].index,
           \A c \in Structs : os[c] = "none" => os'[c] = "none",
           \A c \in Structs : Creating(p, c)' <=> Creating(p, c),
           \A c \in Structs : Making(p, c)' => Making(p, c) /\ loc'[p].det = loc[p].det,
           \A c \in Structs : Joins(p, c)' =>
             /\ Joins(p, c) /\ loc'[p].h = loc[p].h /\ loc'[p].index = loc[p].index
             /\ loc'[p].rc = loc[p].rc /\ (pc'[p] = "j_detach" => os'[c] = "terminated"),
           pc'[p] # "c_resume",
           Joined(p)' => Joined(p) /\ loc'[p] = loc[p]
    PROVE  SoleInv'
<1>1. \A q \in Procs, c \in Structs : Creating(q, c)' <=> Creating(q, c) BY OthersKept, Zenon
<1>2. \A c \in Structs : /\ InSetUp(c)' <=> InSetUp(c)
                         /\ Offered(c)' <=> Offered(c)
                         /\ Offered(c) => heap'[c].index = heap[c].index
  BY <1>1, Zenon DEF InSetUp, Offered, InTable
<1>3. \A c \in Structs : Making(p, c)' => (c \in claimed' <=> loc'[p].det) BY Zenon DEF SoleInv
<1>4. ASSUME NEW c \in Structs, Joins(p, c)'
      PROVE  JoinsSole(p, c)' /\ \A q \in Procs : q # p => ~Joins(q, c)
  <2>1. Joins(p, c) BY <1>4, Zenon
  <2>2. JoinsSole(p, c) /\ \A q \in Procs : Joins(q, c) => q = p BY <2>1, Zenon DEF SoleInv
  <2>3. Known(c)' BY <2>2, Zenon DEF JoinsSole, Known, Lasting
  <2>4. JoinsSole(p, c)' BY <1>2, <1>4, <2>2, <2>3, Zenon DEF JoinsSole
  <2>. QED BY <2>2, <2>4, Zenon
<1>5. ASSUME Joined(p)', loc'[p].tgt # p PROVE loc'[p].rc = "0" /\ loc'[p].val = loc'[p].tgt
  <2>1. Joined(p) /\ loc'[p] = loc[p] BY <1>5, Zenon
  <2>2. loc[p].tgt # p BY <1>5, <2>1, Zenon
  <2>3. loc[p].rc = "0" /\ loc[p].val = loc[p].tgt BY <2>1, <2>2, Zenon DEF SoleInv
  <2>. QED BY <2>1, <2>3, Zenon
<1>. QED BY <1>2, <1>3, <1>4, <1>5, SoleKept, Zenon

\* The steps that change neither the table nor who is claimed.
Settled(p) ==
    \/ CreateNoMemory(p) \/ Return(p) \/ \E c \in Structs : CreateTableFull(p, c)
    \/ CreateSetStart(p) \/ CreateResume(p) \/ CreateClose(p)
    \/ p \in Structs /\ Lifecycle(p)
    \/ Ending(p)

LEMMA SettledHeap ==
    ASSUME TypeOK, Ownership, NEW p \in Procs, Settled(p)
    PROVE  /\ UNCHANGED <<table, claimed>>
           /\ \A c \in Structs : InTable(c) => heap'[c].h = heap[c].h /\ heap'[c].index = heap[c].index
           /\ \A c \in Structs : os[c] = "none" => os'[c] = "none" \/ CreateResume(p)
<1>1. CASE CreateNoMemory(p) \/ Return(p) \/ (\E c \in Structs : CreateTableFull(p, c))
           \/ CreateResume(p) \/ CreateClose(p) \/ DetachClose(p)
  <2>1. UNCHANGED <<heap, table, claimed>>
    BY <1>1, Zenon DEF CreateNoMemory, Return, CreateTableFull, CreateResume, CreateClose, DetachClose, tableVars
  <2>2. UNCHANGED os \/ CreateResume(p)
    BY <1>1, Zenon DEF CreateNoMemory, Return, CreateTableFull, CreateClose, DetachClose, osVars
  <2>. QED BY <2>1, <2>2, Zenon
<1>2. CASE CreateSetStart(p) \/ (p \in Structs /\ (ThreadStarting(p) \/ ThreadDone(p, info[p]) \/ ThreadDone(p, -1)))
  <2>1. UNCHANGED <<table, claimed, os>>
    BY <1>2, Zenon DEF CreateSetStart, ThreadStarting, ThreadDone, tableVars, osVars
  <2>2. ASSUME NEW c \in Structs PROVE heap'[c].h = heap[c].h /\ heap'[c].index = heap[c].index
    <3>1. heap[c] \in Thread BY Typing, Zenon
    <3>2. \/ heap'[c] = heap[c] \/ heap'[c] = [heap[c] EXCEPT !.start = TRUE]
          \/ heap'[c] = [heap[c] EXCEPT !.start = FALSE] \/ heap'[c] = [heap[c] EXCEPT !.result = p]
      <4>1. CASE CreateSetStart(p) BY <4>1, Typing, Zenon DEF CreateSetStart, PointersOK
      <4>2. CASE p \in Structs /\ ThreadStarting(p) BY <4>2, Typing, Zenon DEF ThreadStarting
      <4>3. ASSUME NEW index, ThreadDone(p, index)
            PROVE  heap'[c] = heap[c] \/ heap'[c] = [heap[c] EXCEPT !.result = p]
        BY <4>3, Zenon DEF ThreadDone
      <4>. QED BY <1>2, <4>1, <4>2, <4>3, Zenon
    <3>. QED BY <3>1, <3>2, Zenon DEF Thread
  <2>. QED BY <2>1, <2>2, Zenon
<1>3. CASE FreeStruct(p) \/ (p \in Structs /\ ThreadFree(p))
  <2>1. PICK c \in Structs : Frees(p, c) /\ heap' = [heap EXCEPT ![c] = Zeroed]
    BY <1>3, Typing, Zenon DEF FreeStruct, ThreadFree, Free, Frees, PointersOK
  <2>2. ~InTable(c) BY <2>1, Zenon DEF Ownership, FreedOnce
  <2>3. \A d \in Structs : InTable(d) => heap'[d] = heap[d] BY <2>1, <2>2, Typing, Zenon
  <2>4. UNCHANGED <<table, claimed, os>> BY <1>3, Zenon DEF FreeStruct, ThreadFree, tableVars, osVars
  <2>. QED BY <2>3, <2>4, Zenon
<1>4. CASE p \in Structs /\ ThreadEnd(p)
  <2>1. UNCHANGED <<heap, table, claimed>> /\ os' = [os EXCEPT ![p] = "terminated"] /\ pc[p] = "t_exit"
    BY <1>4, Zenon DEF ThreadEnd, tableVars
  <2>2. os[p] # "none" BY <1>4, <2>1, Zenon DEF Ownership, KernelInv
  <2>3. \A c \in Structs : os[c] = "none" => os'[c] = "none" BY <2>1, <2>2, Typing, Zenon
  <2>. QED BY <2>1, <2>3, Zenon
<1>. QED BY <1>1, <1>2, <1>3, <1>4, Zenon DEF Settled, Lifecycle, Ending

LEMMA SettledSole ==
    ASSUME TypeOK, Ownership, TableInv, OpInv, SoleInv, \A c \in Structs : Lasting(c), NEW p \in Procs, Settled(p)
    PROVE  SoleInv'
<1>1. /\ UNCHANGED <<table, claimed>>
      /\ \A c \in Structs : InTable(c) => heap'[c].h = heap[c].h /\ heap'[c].index = heap[c].index
  BY SettledHeap, Zenon
<1>2. \A c \in Structs : os[c] = "none" => os'[c] = "none"
  <2>1. CASE CreateResume(p)
    <3>1. PICK c \in Structs : c = loc[p].h BY <2>1, Typing, Zenon DEF CreateResume, PointersOK
    <3>2. os[c] = "suspended" BY <2>1, <3>1, Zenon DEF CreateResume, TableInv, ResumeInv
    <3>. QED BY <2>1, <3>1, <3>2, Typing, Zenon DEF CreateResume
  <2>. QED BY <2>1, SettledHeap, Zenon
<1>3. CASE Elsewhere(p)
  <2>1. /\ \A q \in Procs : q # p => pc'[q] = pc[q] /\ loc'[q] = loc[q]
        /\ pc'[p] \notin JoinLabels /\ ~Joined(p)'
    BY <1>3, ElsewhereStays, Zenon
  <2>2. \A c \in Structs : ~Joins(p, c)' BY <2>1, Zenon DEF Joins, JoinLabels
  <2>3. CASE CreateSetStart(p)
    <3>1. loc' = loc /\ pc[p] = "c_start" /\ pc'[p] = "c_begin" BY <2>3, Typing, Zenon DEF CreateSetStart, Goto
    <3>2. \A c \in Structs : (Creating(p, c)' <=> Creating(p, c)) /\ (Making(p, c)' <=> Making(p, c))
      BY <3>1, Zenon DEF Creating, Making
    <3>. QED BY <1>1, <1>2, <2>1, <2>2, <3>1, <3>2, SoleQuiet, Zenon
  <2>4. CASE ~CreateSetStart(p)
    <3>1. /\ pc[p] \in {"ready", "return", "c_resume", "c_close", "start", "t_free", "t_exit", "close", "free"}
          /\ pc'[p] \in {"ready", "return", "free", "c_close", "t_free", "t_exit", "gone"}
      BY <2>4, Typing, Zenon
      DEF Settled, Ending, CreateNoMemory, Return, CreateTableFull, CreateResume, CreateClose, Lifecycle,
          ThreadStarting, ThreadFree, ThreadDone, ThreadEnd, DetachClose, FreeStruct, Leave, Goto
    <3>2. \A c \in Structs : ~Creating(p, c) /\ ~Creating(p, c)' /\ ~Making(p, c)'
      BY <3>1, Zenon DEF Creating, Making
    <3>. QED BY <1>1, <1>2, <2>1, <2>2, <3>1, <3>2, SoleQuiet, Zenon
  <2>. QED BY <2>3, <2>4, Zenon
<1>4. CASE Ending(p)
  <2>1. \A c \in Structs : ~Joins(p, c)' /\ ~Creating(p, c) /\ ~Creating(p, c)' /\ ~Making(p, c)'
    BY <1>4, EndingStays, Zenon DEF Joins, Creating, Making
  <2>2. loc' = loc /\ (\A q \in Procs : q # p => pc'[q] = pc[q]) /\ pc'[p] # "c_resume" /\ (Joined(p)' => Joined(p))
    BY <1>4, EndingStays, Zenon
  <2>. QED BY <1>1, <1>2, <2>1, <2>2, SoleQuiet, Zenon
<1>. QED BY <1>3, <1>4, Zenon DEF Settled, Elsewhere

\* A join waits through a handle that stays open.
LEMMA WaitSole ==
    ASSUME TypeOK, Ownership, TableInv, SoleInv, \A c \in Structs : Lasting(c), NEW p \in Procs,
           JoinWait(p) \/ JoinAlerted(p) \/ JoinWake(p)
    PROVE  SoleInv'
<1>1. /\ UNCHANGED <<heap, table, os, hopen, claimed>> /\ pc[p] \in {"j_wait", "j_blocked"}
      /\ pc'[p] \in JoinLabels /\ \A q \in Procs : q # p => pc'[q] = pc[q] /\ loc'[q] = loc[q]
  BY WaitEffect, Zenon
<1>2. ASSUME NEW c \in Structs, Joins(p, c)'
      PROVE  /\ Joins(p, c) /\ loc'[p].h = loc[p].h /\ loc'[p].index = loc[p].index
             /\ loc'[p].rc = loc[p].rc /\ (pc'[p] = "j_detach" => os'[c] = "terminated")
  <2>1. Joins(p, c) BY <1>1, <1>2, WaitEffect, Zenon DEF Joins
  <2>2. loc[p].h = c /\ Offered(c) BY <2>1, Zenon DEF SoleInv, JoinsSole
  <2>3. hopen[c] BY <2>2, NamesAssumption, Zenon DEF Offered, TableInv, EntryInv
  <2>. QED BY <1>1, <2>1, <2>2, <2>3, WaitEffect, Zenon
<1>3. \A c \in Structs : ~Creating(p, c) /\ ~Creating(p, c)' /\ ~Making(p, c)'
  BY <1>1, Zenon DEF Creating, Making, JoinLabels
<1>4. pc'[p] # "c_resume" /\ ~Joined(p)' BY <1>1, Zenon DEF Joined, JoinLabels
<1>. QED BY <1>1, <1>2, <1>3, <1>4, SoleQuiet, Zenon

LEMMA AllocateSole ==
    ASSUME TypeOK, Ownership, TableInv, OpInv, SoleInv, \A c \in Structs : Lasting(c), NEW p \in Procs,
           NEW c \in Structs, CreateAllocate(p, c)
    PROVE  SoleInv'
<1>1. PICK i \in Slots : /\ table[i] = NULL
                         /\ table' = [table EXCEPT ![i] = c]
                         /\ heap' = [heap EXCEPT ![c] = [Zeroed EXCEPT !.index = i]]
  BY Zenon DEF CreateAllocate
<1>2. /\ \A q \in Procs : q # p => pc'[q] = pc[q] /\ loc'[q] = loc[q]
      /\ pc[p] = "ready" /\ pc'[p] = "c_start" /\ UNCHANGED <<os, claimed>>
      /\ loc'[p] = [NoCall EXCEPT !.op = "create", !.ptr = c]
  BY Typing, Zenon DEF CreateAllocate, Goto, osVars
<1>3. ~InTable(c) /\ os[c] = "none" BY Fresh, Zenon DEF CreateAllocate, InTable
<1>4. \A d \in Structs : Offered(d) => Offered(d)' /\ heap'[d].index = heap[d].index
  <2>1. \A d \in Structs : d # c => heap'[d] = heap[d] BY <1>1, Typing, Zenon
  <2>2. \A j \in Slots : table[j] # NULL => table'[j] = table[j] BY <1>1, Typing, Zenon
  <2>. QED BY <1>3, <2>1, <2>2, NamesAssumption, Zenon DEF Offered, InTable
<1>5. \A d \in Structs : ~Creating(p, d) /\ ~Making(p, d)' /\ ~Joins(p, d)'
  <2>1. loc'[p].h = NULL BY <1>2, Zenon DEF NoCall
  <2>. QED BY <1>2, <2>1, NamesAssumption, Zenon DEF Creating, Making, Joins
<1>6. \A d \in Structs : ~InSetUp(d)' => ~InSetUp(d)
  <2>1. \A q \in Procs, d \in Structs : Creating(q, d) => Creating(q, d)' BY <1>2, <1>5, OthersKept, Zenon
  <2>. QED BY <2>1, Zenon DEF InSetUp
<1>7. pc'[p] # "c_resume" /\ ~Joined(p)' BY <1>2, Zenon DEF Joined
<1>. QED BY <1>2, <1>4, <1>5, <1>6, <1>7, SoleKept, Zenon

\* A thread created detached counts as claimed from its creation on.
LEMMA BeginSole ==
    ASSUME SingleReaper, TypeOK, Ownership, TableInv, SoleInv, \A c \in Structs : Lasting(c), NEW p \in Procs,
           CreateBegin(p)
    PROVE  SoleInv'
<1>1. PICK c \in Structs : c = loc[p].ptr BY Typing, Zenon DEF CreateBegin, PointersOK
<1>2. /\ pc[p] = "c_begin" /\ pc'[p] = "c_info" /\ \A q \in Procs : q # p => pc'[q] = pc[q]
      /\ UNCHANGED <<heap, table>>
  BY Typing, Zenon DEF CreateBegin, Goto, tableVars
<1>3. Creating(p, c) /\ SetUp(p, c) /\ loc[p].h = NULL /\ os[c] = "none"
  <2>1. Creating(p, c) BY <1>1, <1>2, Zenon DEF Creating
  <2>2. SetUp(p, c) BY <2>1, Zenon DEF Ownership, CreatingInv
  <2>3. loc[p].h = NULL BY <1>2, <2>2, Zenon DEF SetUp
  <2>. QED BY <2>1, <2>2, <2>3, SetUpIn, Zenon
<1>4. c \notin claimed BY <1>3, Zenon DEF SoleInv
<1>5. PICK det \in BOOLEAN :
        \/ /\ os' = [os EXCEPT ![c] = "suspended"]
           /\ loc' = [loc EXCEPT ![p] = [loc[p] EXCEPT !.det = det, !.h = c]]
           /\ IF det THEN claimed' = claimed \cup {c} ELSE claimed' = claimed
        \/ /\ loc' = [loc EXCEPT ![p] = [loc[p] EXCEPT !.det = det, !.rc = "EAGAIN"]]
           /\ UNCHANGED <<os, claimed>>
  BY <1>1, Zenon DEF CreateBegin, Claim, osVars
<1>6. loc[p] \in Locals BY Typing, Zenon
<1>7. \A d \in Structs : (Offered(d)' <=> Offered(d)) BY <1>2, Zenon DEF Offered, InTable
<1>8. CASE /\ loc' = [loc EXCEPT ![p] = [loc[p] EXCEPT !.det = det, !.rc = "EAGAIN"]]
           /\ UNCHANGED <<os, claimed>>
  <2>1. loc'[p] = [loc[p] EXCEPT !.det = det, !.rc = "EAGAIN"] /\ \A q \in Procs : q # p => loc'[q] = loc[q]
    BY <1>8, Typing, Zenon
  <2>2. loc'[p].ptr = loc[p].ptr /\ loc'[p].h = NULL BY <1>3, <1>6, <2>1, Zenon DEF Locals
  <2>3. \A d \in Structs : (Creating(p, d)' <=> Creating(p, d)) /\ ~Making(p, d)' /\ ~Joins(p, d)'
    BY <1>2, <2>2, NamesAssumption, Zenon DEF Creating, Making, Joins
  <2>4. pc'[p] # "c_resume" /\ ~Joined(p)' BY <1>2, Zenon DEF Joined
  <2>. QED BY <1>2, <1>8, <2>1, <2>3, <2>4, SoleQuiet, Zenon
<1>9. CASE /\ os' = [os EXCEPT ![c] = "suspended"]
           /\ loc' = [loc EXCEPT ![p] = [loc[p] EXCEPT !.det = det, !.h = c]]
           /\ IF det THEN claimed' = claimed \cup {c} ELSE claimed' = claimed
  <2>1. loc'[p] = [loc[p] EXCEPT !.det = det, !.h = c] /\ \A q \in Procs : q # p => loc'[q] = loc[q]
    BY <1>9, Typing, Zenon
  <2>2. loc'[p].ptr = c /\ loc'[p].det = det BY <1>1, <1>6, <2>1, Zenon DEF Locals
  <2>3. os'[c] = "suspended" /\ \A d \in Structs : d # c => os'[d] = os[d] BY <1>9, Typing, Zenon
  <2>4. \A d \in Structs : (Creating(p, d)' <=> Creating(p, d)) /\ (Making(p, d)' => d = c) /\ ~Joins(p, d)'
    BY <1>1, <1>2, <2>2, Zenon DEF Creating, Making, Joins
  <2>5. \A d \in Structs : InSetUp(d)' <=> InSetUp(d)
    <3>1. \A q \in Procs, d \in Structs : Creating(q, d)' <=> Creating(q, d)
      BY <1>2, <2>1, <2>4, OthersKept, Zenon
    <3>. QED BY <3>1, Zenon DEF InSetUp
  <2>6. c \in claimed' <=> det BY <1>4, <1>9, Zenon
  <2>7. claimed \subseteq claimed' /\ \A d \in claimed' : d \in claimed \/ d = c BY <1>9, Zenon
  <2>8. InSetUp(c) BY <1>3, Zenon DEF InSetUp
  <2>9. pc'[p] # "c_resume" /\ ~Joined(p)' BY <1>2, Zenon DEF Joined
  <2>10. \A d \in Structs : os'[d] # "none" /\ d \notin claimed' /\ ~InSetUp(d)' =>
           os[d] # "none" /\ d \notin claimed /\ ~InSetUp(d)
    BY <2>3, <2>5, <2>7, <2>8, Zenon
  <2>11. \A d \in claimed' : d \in claimed \/ (d \in Structs /\ os'[d] # "none" /\ os[d] # "suspended")
    BY <1>3, <2>3, <2>7, Zenon
  <2>12. \A d \in Structs : Making(p, d)' => (d \in claimed' <=> loc'[p].det)
    <3>1. c \in claimed' <=> loc'[p].det BY <2>2, <2>6
    <3>. QED BY <2>4, <3>1, Zenon
  <2>. QED BY <1>2, <1>7, <2>1, <2>4, <2>7, <2>9, <2>10, <2>11, <2>12, SoleKept, Zenon
<1>. QED BY <1>5, <1>8, <1>9, Zenon

\* wpdk_set_thread_info: a joinable thread is offered from now on.
LEMMA SetInfoSole ==
    ASSUME TypeOK, Ownership, TableInv, OpInv, SoleInv, \A c \in Structs : Lasting(c), NEW p \in Procs,
           CreateSetInfo(p)
    PROVE  SoleInv'
<1>0. PICK c \in Structs : c = loc[p].ptr BY Typing, Zenon DEF CreateSetInfo, PointersOK
<1>. DEFINE h == IF loc[p].det THEN NULL ELSE loc[p].h
            i == heap[c].index
<1>1. PICK id \in Ids \cup {0} :
        heap' = [heap EXCEPT ![c] = [heap[c] EXCEPT !.id = id, !.h = h,
                                     !.index = IF h = NULL THEN -1 ELSE heap[c].index]]
  BY <1>0, Zenon DEF CreateSetInfo
<1>2. /\ table' = IF h = NULL THEN [table EXCEPT ![i] = NULL] ELSE table
      /\ pc[p] = "c_info" /\ pc'[p] = (IF loc[p].h = NULL THEN "free" ELSE "c_resume")
      /\ \A q \in Procs : q # p => pc'[q] = pc[q]
      /\ UNCHANGED <<os, loc, claimed>>
  BY <1>0, Typing, Zenon DEF CreateSetInfo, Goto, osVars
<1>3. h = (IF loc[p].det THEN NULL ELSE loc[p].h) BY Zenon
<1>. HIDE DEF h, i
<1>4. Creating(p, c) BY <1>0, <1>2, Zenon DEF Creating
<1>5. /\ InTable(c) /\ loc[p].h \in {NULL, c} /\ (os[c] = "none" <=> loc[p].h = NULL)
      /\ \A q \in Procs : Creating(q, c) => q = p
  BY <1>4, SetUpIn, Zenon
<1>6. ~Offered(c) BY <1>4, <1>5, NamesAssumption, ZenonT(30) DEF Offered, TableInv, EntryInv, InSetUp
<1>7. i \in Slots /\ table[i] = c BY <1>5, InSlot, Zenon DEF i
<1>8. \A d \in Structs : Offered(d) => Offered(d)' /\ heap'[d].index = heap[d].index
  <2>1. \A d \in Structs : d # c => heap'[d] = heap[d] BY <1>1, Typing, Zenon
  <2>2. \A j \in Slots : table[j] # c => table'[j] = table[j] BY <1>2, <1>7, Typing, Zenon
  <2>. QED BY <1>6, <2>1, <2>2, Zenon DEF Offered, InTable
<1>9. ASSUME h # NULL PROVE Offered(c)'
  <2>1. h = c /\ table' = table BY <1>2, <1>3, <1>5, <1>9, Zenon
  <2>2. heap'[c].h = h
    <3>1. heap[c] \in Thread BY Typing, Zenon
    <3>2. heap'[c] = [heap[c] EXCEPT !.id = id, !.h = h, !.index = IF h = NULL THEN -1 ELSE heap[c].index]
      BY <1>1, Typing, Zenon
    <3>. QED BY <3>1, <3>2, Zenon DEF Thread
  <2>. QED BY <1>5, <2>1, <2>2, Zenon DEF Offered, InTable
<1>10. \A d \in Structs : /\ ~Making(p, d)' /\ ~Joins(p, d)' /\ (Making(p, d) <=> d = c /\ loc[p].h = c)
                          /\ (Creating(p, d) <=> d = c)
  BY <1>0, <1>2, Zenon DEF Creating, Making, Joins
<1>11. \A d \in Structs : d # c /\ ~InSetUp(d)' => ~InSetUp(d)
  <2>1. \A q \in Procs, d \in Structs : d # c /\ Creating(q, d) => Creating(q, d)'
    BY <1>2, <1>10, OthersKept, Zenon
  <2>. QED BY <2>1, Zenon DEF InSetUp
<1>12. loc[p].h = c => (c \in claimed <=> loc[p].det) BY <1>10, Zenon DEF SoleInv
<1>13. os'[c] # "none" /\ c \notin claimed' => Offered(c)'
  BY <1>2, <1>3, <1>5, <1>9, <1>12, NamesAssumption, Zenon
<1>14. ASSUME NEW d \in Structs, pc'[p] = "c_resume", loc'[p].h = d, ~loc'[p].det
       PROVE  Offered(d)' /\ d \notin claimed'
  <2>1. loc[p].h = c /\ d = c /\ ~loc[p].det BY <1>2, <1>5, <1>14, Zenon
  <2>. QED BY <1>2, <1>3, <1>9, <1>12, <2>1, NamesAssumption, Zenon
<1>15. ~Joined(p)'
  <2>1. loc[p].op = "create" BY <1>2, Zenon DEF OpInv
  <2>. QED BY <1>2, <2>1, Zenon DEF Joined
<1>16. \A d \in Structs : os'[d] # "none" /\ d \notin claimed' /\ ~InSetUp(d)' =>
         Offered(d)' \/ (os[d] # "none" /\ d \notin claimed /\ ~InSetUp(d))
  BY <1>2, <1>11, <1>13, Zenon
<1>. QED BY <1>2, <1>8, <1>10, <1>14, <1>15, <1>16, SoleKept, Zenon

\* A thread nobody has claimed and a client can name is offered, and searches
\* for its id find it.
LEMMA Unclaimed ==
    ASSUME TypeOK, Ownership, TableInv, SoleInv, NEW t \in Structs, Known(t), t \notin claimed
    PROVE  Offered(t)
<1>1. ~InSetUp(t) BY SetUpIn, Zenon DEF InSetUp, Known
<1>. QED BY <1>1, Zenon DEF SoleInv, Known

LEMMA OfferedFound ==
    ASSUME TypeOK, Ownership, TableInv, NEW t \in Structs, Offered(t)
    PROVE  /\ hopen[t] /\ tid[t] # 0 /\ heap[t].index \in Slots
           /\ \A i \in Slots : Holds(i, tid[t]) => table[i] = t /\ i = heap[t].index
           /\ First(heap[t].index, tid[t]) /\ Holds(heap[t].index, tid[t])
<1>1. InTable(t) /\ ~InSetUp(t) /\ hopen[t] /\ heap[t].id = tid[t]
  BY NamesAssumption, Zenon DEF Offered, TableInv, EntryInv
<1>. DEFINE i == heap[t].index
<1>2. i \in Slots /\ table[i] = t /\ \A j \in Slots : table[j] = t => j = i BY <1>1, InSlot, Zenon
<1>. HIDE DEF i
<1>3. tid[t] # 0 BY <1>1, Zenon DEF Ownership, KernelInv, TableInv, IdsInv
<1>4. ASSUME NEW j \in Slots, Holds(j, tid[t]) PROVE table[j] = t /\ j = i
  <2>1. table[j] \in Structs /\ hopen[table[j]] /\ tid[table[j]] = tid[t]
    BY <1>3, <1>4, Found, Zenon DEF TableInv
  <2>2. table[j] = t BY <1>1, <2>1, Zenon DEF TableInv, IdsInv, Taken
  <2>. QED BY <1>2, <2>2, Zenon
<1>5. Holds(i, tid[t]) /\ i < hwm
  <2>1. Holds(i, heap[t].id) BY <1>2, NamesAssumption, Zenon DEF Holds
  <2>. QED BY <1>1, <1>2, <2>1, NamesAssumption, Zenon DEF TableInv, MarkInv
<1>6. \A j \in Slots : j < i => ~Holds(j, tid[t])
  <2>1. \A j \in Slots : j \in Int BY MaxThreadsAssumption DEF Slots
  <2>. QED BY <1>2, <1>4, <2>1
<1>. QED BY <1>1, <1>2, <1>3, <1>4, <1>5, <1>6, Zenon DEF First, i

\* A join of another thread finds it.
LEMMA JoinSole ==
    ASSUME SingleReaper, TypeOK, Ownership, TableInv, SoleInv, \A c \in Structs : Lasting(c), NEW p \in Procs,
           NEW t \in Structs, PthreadJoin(p, t)
    PROVE  SoleInv'
<1>1. /\ pc[p] = "ready" /\ Known(t) /\ t \notin claimed /\ claimed' = claimed \cup {t}
      /\ UNCHANGED <<heap, table, hwm, os, tid, hopen>>
      /\ \A q \in Procs : q # p => pc'[q] = pc[q] /\ loc'[q] = loc[q]
      /\ loc'[p].op = "join" /\ loc'[p].tgt = t
  <2>1. MayReap(t) /\ Claim(t) BY JoinEffect, Zenon
  <2>2. Known(t) /\ t \notin claimed /\ claimed' = claimed \cup {t} BY <2>1, Zenon DEF MayReap, Claim
  <2>. QED BY <2>2, JoinEffect, Zenon
<1>2. /\ Offered(t) /\ First(heap[t].index, tid[t]) /\ hopen[t] /\ heap[t].index \in Slots
      /\ \A i \in Slots : Holds(i, tid[t]) => table[i] = t /\ i = heap[t].index
  BY <1>1, Unclaimed, OfferedFound, Zenon
<1>3. p \in Structs /\ tid[p] = tid[t] => p = t
  <2>1. p \in Structs => Taken(p) BY <1>1, Running, Zenon
  <2>. QED BY <1>2, <2>1, Zenon DEF Taken, TableInv, IdsInv
<1>4. \A q \in Procs : ~Joins(q, t) BY <1>1, Zenon DEF SoleInv, JoinsSole
<1>5. \A d \in Structs : ~Creating(p, d) /\ ~Creating(p, d)' /\ ~Making(p, d)'
  <2>1. pc'[p] \in {"j_wait", "return"} BY JoinEffect, Zenon
  <2>. QED BY <1>1, <2>1, Zenon DEF Creating, Making
<1>6. \A d \in Structs : (Offered(d)' <=> Offered(d)) /\ (InSetUp(d)' <=> InSetUp(d))
  <2>1. \A q \in Procs, d \in Structs : Creating(q, d)' <=> Creating(q, d) BY <1>1, <1>5, OthersKept, Zenon
  <2>. QED BY <1>1, <2>1, Zenon DEF Offered, InTable, InSetUp
<1>7. \A d \in claimed' : d \in claimed \/ (d \in Structs /\ os'[d] # "none" /\ os[d] # "suspended")
  BY <1>1, Zenon DEF Known
<1>8. claimed \subseteq claimed' BY <1>1, Zenon
<1>9. CASE pc'[p] = "return" /\ ((p \in Structs /\ tid[p] = tid[t]) \/ \A i \in Slots : ~First(i, tid[t]))
  <2>1. p = t BY <1>2, <1>3, <1>9, Zenon
  <2>2. \A d \in Structs : ~Joins(p, d)' BY <1>9, Zenon DEF Joins
  <2>. QED BY <1>1, <1>5, <1>6, <1>7, <1>8, <1>9, <2>1, <2>2, SoleKept, Zenon
<1>10. ASSUME pc'[p] = "j_wait", loc'[p].rc = "0", ~(p \in Structs /\ tid[p] = tid[t]),
              NEW i \in Slots, First(i, tid[t]), loc'[p].h = heap[table[i]].h, loc'[p].index = i
       PROVE  SoleInv'
  <2>1. p # t BY <1>10, Zenon
  <2>2. table[i] = t /\ i = heap[t].index BY <1>2, <1>10, Zenon DEF First
  <2>3. loc'[p].h = t /\ loc'[p].index = heap'[t].index BY <1>1, <1>2, <1>10, <2>2, Zenon DEF Offered
  <2>4. t \in claimed' /\ Offered(t)' /\ Known(t)' BY <1>1, <1>2, <1>6, Zenon DEF Known
  <2>5. JoinsSole(p, t)' BY <1>10, <2>1, <2>3, <2>4, Zenon DEF JoinsSole
  <2>6. \A d \in Structs : Joins(p, d)' => JoinsSole(p, d)' /\ \A q \in Procs : q # p => ~Joins(q, d)
    <3>1. \A d \in Structs : Joins(p, d)' => d = t BY <1>1, Zenon DEF Joins
    <3>. QED BY <1>4, <2>5, <3>1, Zenon
  <2>7. ~Joined(p)' BY <1>10, Zenon DEF Joined
  <2>. QED BY <1>1, <1>5, <1>6, <1>7, <1>8, <1>10, <2>6, <2>7, SoleKept, Zenon
<1>. QED BY <1>9, <1>10, JoinEffect, ZenonT(30)

\* The struct of a claimed thread leaves the table.
LEMMA TakesSole ==
    ASSUME TypeOK, Ownership, TableInv, SoleInv, \A c \in Structs : Lasting(c), NEW p \in Procs,
           pc[p] \in {"ready", "j_detach"},
           NEW l \in Locals, NEW found \in Codes, NEW t \in Structs, l.tgt = t, Takes(p, l, found, t),
           Known(t), \A q \in Procs : q # p => ~Joins(q, t), claimed' = claimed \cup {t}, os' = os,
           l.op = "join" => found = "0" /\ heap[t].result = t
    PROVE  SoleInv'
<1>1. /\ pc'[p] = "close" /\ \A q \in Procs : q # p => pc'[q] = pc[q] /\ loc'[q] = loc[q]
      /\ loc'[p].op = l.op /\ loc'[p].tgt = t /\ loc'[p].rc = found /\ ~InSetUp(t)
      /\ l.op = "join" => loc'[p].val = heap[t].result
  BY Zenon DEF Takes
<1>2. \A d \in Structs : ~Creating(p, d) /\ ~Creating(p, d)' /\ ~Making(p, d)' /\ ~Joins(p, d)'
  BY <1>1, Zenon DEF Creating, Making, Joins
<1>3. \A d \in Structs : InSetUp(d)' <=> InSetUp(d)
  <2>1. \A q \in Procs, d \in Structs : Creating(q, d)' <=> Creating(q, d) BY <1>1, <1>2, OthersKept, Zenon
  <2>. QED BY <2>1, Zenon DEF InSetUp
<1>4. \A d \in Structs : d # t /\ Offered(d) => Offered(d)' /\ heap'[d].index = heap[d].index
  BY Zenon DEF Takes, Offered
<1>5. t \in claimed' /\ claimed \subseteq claimed' BY Zenon
<1>6. \A d \in claimed' : d \in claimed \/ (d \in Structs /\ os'[d] # "none" /\ os[d] # "suspended")
  BY Zenon DEF Known
<1>7. Joined(p)' => loc'[p].rc = "0" /\ loc'[p].val = loc'[p].tgt BY <1>1, Zenon DEF Joined
<1>8. \A d \in Structs : Offered(d) =>
        \/ Offered(d)' /\ heap'[d].index = heap[d].index
        \/ d \in claimed' /\ Known(d) /\ \A q \in Procs : q # p => ~Joins(q, d)
  BY <1>4, <1>5, Zenon
<1>9. \A d \in Structs : os'[d] # "none" /\ d \notin claimed' /\ ~InSetUp(d)' =>
        os[d] # "none" /\ d \notin claimed /\ ~InSetUp(d)
  BY <1>3, <1>5, Zenon
<1>. QED BY <1>1, <1>2, <1>5, <1>6, <1>7, <1>8, <1>9, SoleKept, Zenon

LEMMA DetachSole ==
    ASSUME SingleReaper, TypeOK, Ownership, TableInv, SoleInv, \A c \in Structs : Lasting(c), NEW p \in Procs,
           NEW t \in Structs, PthreadDetach(p, t)
    PROVE  SoleInv'
<1>. DEFINE l == [NoCall EXCEPT !.op = "detach", !.tgt = t]
<1>1. l \in Locals /\ l.op = "detach" /\ l.tgt = t /\ l.index = -1
  BY NoCallType, Zenon DEF Locals, Ref, NoCall
<1>2. /\ pc[p] = "ready" /\ Known(t) /\ t \notin claimed /\ claimed' = claimed \cup {t} /\ os' = os
      /\ DetachThread(p, l, "0", "EINVAL")
  BY NamesAssumption, Zenon DEF PthreadDetach, MayReap, Claim, osVars
<1>. HIDE DEF l
<1>3. /\ Offered(t) /\ First(heap[t].index, tid[t]) /\ heap[t].index \in Slots /\ hopen[t]
      /\ \A i \in Slots : Holds(i, tid[t]) => table[i] = t /\ i = heap[t].index
  BY <1>2, Unclaimed, OfferedFound, Zenon
<1>4. Misses(p, l, "EINVAL") \/ \E c \in Structs : Takes(p, l, "0", c)
  <2>1. os[t] # "none" /\ "0" \in Codes /\ "EINVAL" \in Codes BY <1>2, Zenon DEF Known, Codes
  <2>. QED BY <1>1, <1>2, <2>1, DetachEffect, Zenon
<1>5. ~Misses(p, l, "EINVAL") BY <1>1, <1>3, Zenon DEF Misses, Located
<1>6. PICK c \in Structs : Takes(p, l, "0", c) BY <1>4, <1>5, Zenon
<1>7. c = t
  <2>1. hopen[c] /\ tid[c] = tid[t] BY <1>1, <1>6, Zenon DEF Takes
  <2>. QED BY <1>3, <2>1, Zenon DEF TableInv, IdsInv, Taken
<1>8. \A q \in Procs : ~Joins(q, t) BY <1>2, Zenon DEF SoleInv, JoinsSole
<1>9. Takes(p, l, "0", t) /\ "0" \in Codes BY <1>6, <1>7, Zenon DEF Codes
<1>10. l.op # "join" BY <1>1, Zenon
<1>. QED BY <1>1, <1>2, <1>8, <1>9, <1>10, TakesSole, Zenon

\* The join takes away the thread it waited for, and its result.
LEMMA ReapSole ==
    ASSUME TypeOK, Ownership, TableInv, OpInv, SoleInv, \A c \in Structs : Lasting(c), NEW p \in Procs,
           JoinDetach(p)
    PROVE  SoleInv'
<1>1. PICK t \in Structs : t = loc[p].tgt BY ReapEffect, Zenon
<1>2. pc[p] = "j_detach" /\ loc[p] \in Locals /\ os' = os /\ claimed' = claimed BY ReapEffect, Zenon
<1>3. Joins(p, t) BY <1>1, <1>2, Zenon DEF Joins
<1>4. /\ t \in claimed /\ Offered(t) /\ Known(t) /\ os[t] = "terminated"
      /\ loc[p].index = heap[t].index /\ loc[p].rc = "0"
      /\ \A q \in Procs : Joins(q, t) => q = p
  BY <1>2, <1>3, ZenonT(30) DEF SoleInv, JoinsSole
<1>5. PICK found, missing \in Codes :
        /\ found = "0"
        /\ Misses(p, loc[p], missing) \/ \E c \in Structs : Takes(p, loc[p], found, c)
  BY <1>4, ReapEffect, Zenon
<1>6. /\ heap[t].index \in Slots /\ Holds(heap[t].index, tid[t]) /\ First(heap[t].index, tid[t]) /\ hopen[t]
  BY <1>4, OfferedFound, Zenon
<1>7. Located(heap[t].index, loc[p].index, tid[t]) BY <1>4, <1>6, Zenon DEF Located
<1>8. ~Misses(p, loc[p], missing) BY <1>1, <1>6, <1>7, Zenon DEF Misses
<1>9. PICK c \in Structs : Takes(p, loc[p], found, c) BY <1>5, <1>8, Zenon
<1>10. c = t
  <2>1. hopen[c] /\ tid[c] = tid[t] BY <1>1, <1>9, Zenon DEF Takes
  <2>. QED BY <1>6, <2>1, Zenon DEF TableInv, IdsInv, Taken
<1>11. heap[t].result = t
  <2>1. pc[t] = "gone" BY <1>4, Ended, Zenon
  <2>. QED BY <1>4, <2>1, Zenon DEF Offered, TableInv, ResultInv
<1>12. claimed' = claimed \cup {t} BY <1>2, <1>4
<1>13. Takes(p, loc[p], found, t) /\ loc[p].tgt = t BY <1>1, <1>9, <1>10, Zenon
<1>. QED BY <1>2, <1>4, <1>5, <1>11, <1>12, <1>13, TakesSole, Zenon

LEMMA SoleStep ==
    ASSUME SingleReaper, ~ZeroDetach, TypeOK, Ownership, TableInv, OpInv, SoleInv, Next
    PROVE  SoleInv'
<1>0. \A c \in Structs : Lasting(c) BY Lasts, Zenon
<1>1. ASSUME NEW p \in Procs, Settled(p) PROVE SoleInv' BY <1>0, <1>1, SettledSole, Zenon
<1>2. ASSUME NEW p \in Procs, Elsewhere(p) \/ Ending(p) PROVE SoleInv'
  BY <1>0, <1>1, <1>2, AllocateSole, BeginSole, SetInfoSole, DetachSole, Zenon DEF Elsewhere, Settled
<1>3. ASSUME NEW p \in Procs, Waiting(p) PROVE SoleInv'
  BY <1>0, <1>3, JoinSole, WaitSole, ReapSole, Zenon DEF Waiting
<1>. QED BY <1>2, <1>3, Kinds, Zenon

LEMMA SoleHolds ==
    ASSUME ~ZeroDetach, SingleReaper
    PROVE  Spec => [](TypeOK /\ Ownership /\ TableInv /\ SoleInv)
<1>1. Init => TypeOK /\ Ownership /\ TableInv /\ OpInv /\ SoleInv
  <2>. SUFFICES ASSUME Init PROVE OpInv /\ SoleInv BY TypeInit, OwnershipInit, TableInit, Zenon
  <2>1. \A p \in Procs : pc[p] \in {"ready", "start"} BY NamesAssumption, Zenon DEF Init, Procs
  <2>2. claimed = {} /\ \A c \in Structs : os[c] = "none" BY Zenon DEF Init
  <2>. QED BY <2>1, <2>2, Zenon DEF OpInv, SoleInv, Joins, Joined, Making, Creating
<1>2. TypeOK /\ Ownership /\ TableInv /\ OpInv /\ SoleInv /\ [Next]_vars
      => TypeOK' /\ Ownership' /\ TableInv' /\ OpInv' /\ SoleInv'
  <2>. SUFFICES ASSUME TypeOK, Ownership, TableInv, OpInv, SoleInv, [Next]_vars PROVE OpInv' /\ SoleInv'
       BY TypeStep, OwnershipStep, TableStep, Zenon
  <2>1. CASE Next BY <2>1, OpStep, SoleStep, Zenon
  <2>2. CASE UNCHANGED vars
    <3>0. UNCHANGED <<heap, table, os, pc, loc, claimed>> BY <2>2, Zenon DEF vars
    <3>1. \A p \in Procs, c \in Structs : /\ Creating(p, c)' <=> Creating(p, c)
                                          /\ Making(p, c)' <=> Making(p, c)
                                          /\ Joins(p, c)' <=> Joins(p, c)
      BY <3>0, Zenon DEF Creating, Making, Joins
    <3>2. \A c \in Structs : (InSetUp(c)' <=> InSetUp(c)) /\ (Offered(c)' <=> Offered(c))
      BY <3>0, <3>1, Zenon DEF InSetUp, Offered, InTable
    <3>3. \A p \in Procs, c \in Structs : JoinsSole(p, c)' <=> JoinsSole(p, c)
      BY <3>0, <3>2, Zenon DEF JoinsSole, Known
    <3>4. \A p \in Procs : Joined(p)' <=> Joined(p) BY <3>0, Zenon DEF Joined
    <3>5. OpInv' BY <3>0, Zenon DEF OpInv
    <3>6. SoleInv' BY <3>0, <3>1, <3>2, <3>3, <3>4, Zenon DEF SoleInv, TypeOK
    <3>. QED BY <3>5, <3>6, Zenon
  <2>. QED BY <2>1, <2>2, Zenon
<1>. QED BY <1>1, <1>2, PTL DEF Spec

\* Clients that join or detach each thread once: slots and structs invert each
\* other, searches by id are unambiguous, and ResumeThread and
\* WaitForSingleObjectEx (src/pthread.c:845-908) are only given handles
\* that are open.
THEOREM TableStaysSound ==
    ASSUME ~ZeroDetach, SingleReaper
    PROVE  Spec => []TableSound
<1>1. TypeOK /\ Ownership /\ TableInv /\ SoleInv => TableSound
  <2>. SUFFICES ASSUME TypeOK, Ownership, TableInv, SoleInv PROVE HandleUsedOpen
       BY Coherent, Zenon DEF TableSound
  <2>1. ASSUME NEW p \in Procs, pc[p] \in {"j_wait", "j_blocked"} PROVE hopen[loc[p].h]
    <3>1. PICK t \in Structs : t = loc[p].tgt BY <2>1, Typing, Zenon DEF PointersOK
    <3>2. Joins(p, t) BY <2>1, <3>1, Zenon DEF Joins
    <3>3. Offered(t) /\ loc[p].h = t BY <3>2, Zenon DEF SoleInv, JoinsSole
    <3>. QED BY <3>3, OfferedFound, Zenon
  <2>2. ASSUME NEW p \in Procs, pc[p] = "c_resume" PROVE hopen[loc[p].h]
    <3>1. PICK c \in Structs : c = loc[p].h BY <2>2, Typing, Zenon DEF PointersOK
    <3>2. CASE loc[p].det
      <4>1. Closes(p, c) BY <2>2, <3>1, <3>2, Zenon DEF Closes
      <4>. QED BY <3>1, <4>1, Zenon DEF TableInv, HandleInv
    <3>3. CASE ~loc[p].det
      <4>1. Offered(c) BY <2>2, <3>1, <3>3, Zenon DEF SoleInv
      <4>. QED BY <3>1, <4>1, OfferedFound, Zenon
    <3>. QED BY <3>2, <3>3, Zenon
  <2>. QED BY <2>1, <2>2, Zenon DEF HandleUsedOpen
<1>. QED BY <1>1, SoleHolds, PTL

\* Clients that join or detach each thread once: a join by another thread
\* succeeds and delivers the value that very thread ended with, however slots
\* and ids are reused meanwhile (src/pthread.c:887-908).
THEOREM JoinsDeliver ==
    ASSUME ~ZeroDetach, SingleReaper
    PROVE  Spec => []JoinDelivers
<1>1. SoleInv => JoinDelivers BY Zenon DEF SoleInv, JoinDelivers, Joined
<1>. QED BY <1>1, SoleHolds, PTL
=============================================================================
