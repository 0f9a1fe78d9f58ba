---------------------------- MODULE AioQueueProofs ----------------------------
(***************************************************************************)
(* The context as a queue of completions: QInv, and that every step is one *)
(* of the queue or none.  The clients make one call at a time and leave    *)
(* fewer than Size completions unread; segments may go to the background.  *)
(***************************************************************************)
EXTENDS AioProofs

(* A step of the queue of completions, or none.                               *)
Sim == Queue!Next \/ UNCHANGED Queue!vars

(* The bytes moved are the results recorded, and then the result to report.   *)
SegInv(t) ==
    /\ pc[t] = "io" => Good(Mine(t), task[Mine(t)], loc[t].seg, moved[Mine(t)])
    /\ pc[t] \in {"write", "tail", "advance"} =>
        loc[t].res = moved[Mine(t)] /\ loc[t].res \in 0 .. Total(Mine(t))
\* The event is in its slot before the tail moves.
SlotInv(t) ==
    /\ pc[t] \in {"tail", "advance"} => events[tail] = [obj |-> Mine(t), res |-> loc[t].res]
    /\ pc[t] = "advance" => loc[t].at = After(tail)
\* The requests before the one at hand are started or completed, no later one
\* is, and the ring has room for all that are still to complete.
CallInv(t) == Call(pc[t], loc[t], Live, Objs(InRing), Len(InRing))
QInv ==
    /\ events = [i \in Slots |-> events[i]]
    /\ \A t, u \in Threads : pc[t] # "idle" /\ pc[u] # "idle" => t = u
    /\ RingOK(InRing, moved)
    /\ \A r \in Live \cap Objs(InRing) : \E t \in Threads : pc[t] = "free" /\ Mine(t) = r
    /\ \A t \in Threads : CallInv(t) /\ SegInv(t) /\ SlotInv(t)

(* With events in it, and nothing else, the ring tells what is unread.         *)
LEMMA ObjsIs ==
    ASSUME AioFacts, NEW q, NEW m, RingOK(q, m)
    PROVE  /\ {e.obj : e \in {q[i] : i \in DOMAIN q} \ {None}} = Objs(q)
           /\ DOMAIN q = 1 .. Len(q) /\ Len(q) \in Nat /\ Objs(q) \subseteq Requests
<1>1. q \in Seq(Ev) BY Zenon DEF RingOK
<1>2. DOMAIN q = 1 .. Len(q) /\ Len(q) \in Nat /\ \A i \in 1 .. Len(q) : q[i] \in Ev BY <1>1
<1>3. \A i \in 1 .. Len(q) : q[i] # None BY <1>2, Zenon DEF AioFacts, AioAssumption
<1>4. {q[i] : i \in DOMAIN q} \ {None} = {q[i] : i \in 1 .. Len(q)} BY <1>2, <1>3, Zenon
<1>5. {e.obj : e \in {q[i] : i \in 1 .. Len(q)}} = {q[i].obj : i \in 1 .. Len(q)} BY Zenon
<1>6. \A i \in 1 .. Len(q) : q[i].obj \in Requests
  <2>1. \A e \in Ev : e.obj \in Requests BY DEF Ev
  <2>. QED BY <1>2, <2>1, Zenon
<1>7. Objs(q) \subseteq Requests BY <1>6, Zenon DEF Objs
<1>. QED BY <1>2, <1>4, <1>5, <1>7, Zenon DEF Objs

(* The steps of the queue that the steps of the context can be.               *)
LEMMA Sims ==
    ASSUME AioFacts, RingOK(InRing, moved), RingOK(InRing', moved'), NEW r,
           \/ InRing' = InRing /\ given' = given /\ Live' \cup Objs(InRing) = Live \cup Objs(InRing)
           \/ InRing' = InRing /\ given' = given /\ r \in Requests \ (Live \cup Objs(InRing))
              /\ Live' = Live \cup {r}
           \/ InRing' = InRing /\ given' = given /\ r \in Live \ Objs(InRing) /\ Live' = Live \ {r}
           \/ \E n \in 0 .. Total(r) : InRing' = Append(InRing, [obj |-> r, res |-> n])
              /\ given' = given /\ r \in Live \ Objs(InRing) /\ Live' = Live
              /\ Objs(InRing') = Objs(InRing) \cup {r}
           \/ InRing # <<>> /\ given' = Head(InRing) /\ InRing' = Tail(InRing)
              /\ Objs(InRing') = Objs(InRing) \ {Head(InRing).obj}
              /\ Head(InRing).obj \notin Live /\ Live' = Live
           \/ InRing' = <<>> /\ given' = given /\ Live' = Live /\ Live \cap Objs(InRing) = {}
    PROVE  Sim
<1>. DEFINE O == Objs(InRing)
            B == Live \cup Unread
<1>1. Unread = O BY ObjsIs, Zenon DEF Unread
<1>2. Unread' = Objs(InRing') BY ObjsIs, Zenon DEF Unread
<1>3. DOMAIN InRing = 1 .. Len(InRing) BY ObjsIs, Zenon
<1>4. B' = Live' \cup Objs(InRing') /\ B = Live \cup O BY <1>1, <1>2, Zenon
<1>5. {InRing[i].obj : i \in DOMAIN InRing} = O BY <1>3, Zenon DEF Objs
<1>. HIDE DEF O
<1>6. CASE InRing' = InRing /\ given' = given /\ Live' \cup O = Live \cup O
  <2>1. B' = B BY <1>4, <1>6, Zenon DEF O
  <2>. QED BY <1>6, <2>1, Zenon DEF Sim, Queue!vars
<1>7. CASE InRing' = InRing /\ given' = given /\ r \in Requests \ (Live \cup O) /\ Live' = Live \cup {r}
  <2>1. B' = B \cup {r} /\ r \notin B /\ r \in Requests BY <1>4, <1>7, Zenon DEF O
  <2>2. Queue!Begin(r) BY <1>7, <2>1, Zenon DEF Queue!Begin
  <2>. QED BY <2>1, <2>2, Zenon DEF Sim, Queue!Next
<1>8. CASE InRing' = InRing /\ given' = given /\ r \in Live \ O /\ Live' = Live \ {r}
  <2>1. B' = B \ {r} /\ r \in B \ O /\ r \in Requests BY <1>4, <1>8, Zenon DEF O, Live
  <2>2. Queue!Fail(r) BY <1>5, <1>8, <2>1, Zenon DEF Queue!Fail, Queue!Queued
  <2>. QED BY <2>1, <2>2, Zenon DEF Sim, Queue!Next
<1>9. CASE \E n \in 0 .. Total(r) : InRing' = Append(InRing, [obj |-> r, res |-> n])
              /\ given' = given /\ r \in Live \ O /\ Live' = Live /\ Objs(InRing') = O \cup {r}
  <2>1. B' = B /\ r \in B \ O /\ r \in Requests BY <1>4, <1>9, Zenon DEF Live
  <2>2. \E n \in 0 .. Total(r) : InRing' = Append(InRing, [obj |-> r, res |-> n]) BY <1>9, Zenon
  <2>3. Queue!Complete(r) BY <1>5, <1>9, <2>1, <2>2, Zenon DEF Queue!Complete, Queue!Queued
  <2>. QED BY <2>1, <2>3, Zenon DEF Sim, Queue!Next
<1>10. CASE InRing # <<>> /\ given' = Head(InRing) /\ InRing' = Tail(InRing)
            /\ Objs(InRing') = O \ {Head(InRing).obj} /\ Head(InRing).obj \notin Live /\ Live' = Live
  <2>1. B' = B \ {Head(InRing).obj} BY <1>4, <1>10, Zenon
  <2>2. Queue!Take BY <1>10, <2>1, Zenon DEF Queue!Take
  <2>. QED BY <2>2, Zenon DEF Sim, Queue!Next
<1>11. CASE InRing' = <<>> /\ given' = given /\ Live' = Live /\ Live \cap O = {}
  <2>0. Objs(<<>>) = {} BY DEF Objs
  <2>1. B' = B \ O BY <1>4, <1>11, <2>0, Zenon
  <2>2. Queue!Drop BY <1>5, <1>11, <2>1, Zenon DEF Queue!Drop, Queue!Queued
  <2>. QED BY <2>2, Zenon DEF Sim, Queue!Next
<1>. QED BY <1>6, <1>7, <1>8, <1>9, <1>10, <1>11, Zenon DEF O

(* Calls are made one after the other: a step finds the other threads idle.   *)
LEMMA Alone ==
    ASSUME Serial, TaskInv, QInv, NEW t \in Threads, Step(t)
    PROVE  /\ \A u \in Threads \ {t} : pc[u] = "idle" /\ pc'[u] = "idle" /\ loc'[u].ios = <<>>
           /\ \A r \in Live \cap Objs(InRing) : pc[t] = "free" /\ Mine(t) = r
<1>1. \A u \in Threads \ {t} : pc'[u] = pc[u] /\ loc'[u] = loc[u] BY StepFrame, Zenon
<1>2. \A u \in Threads \ {t} : pc[u] = "idle"
  <2>1. CASE pc[t] = "idle"
    <3>1. Others(t)
      BY <2>1 DEF Step, Submit, NextIocb, AllocateFails, ReadIocount, IncrementIocount, Transfer,
         Pending, Abort, WriteEvent, ReadTail, AdvanceTail, FreeTask, Getevents, TakeEvent
    <3>. QED BY <3>1, Zenon DEF Others
  <2>2. CASE pc[t] # "idle" BY <2>2, Zenon DEF QInv
  <2>. QED BY <2>1, <2>2, Zenon
<1>3. \A u \in Threads \ {t} : loc[u].ios = <<>> BY <1>2, Zenon DEF TaskInv, PlaceInv
<1>4. ASSUME NEW r \in Live \cap Objs(InRing) PROVE pc[t] = "free" /\ Mine(t) = r
  <2>1. PICK u \in Threads : pc[u] = "free" /\ Mine(u) = r BY <1>4, Zenon DEF QInv
  <2>2. pc[u] # "idle" BY <2>1
  <2>. QED BY <1>2, <2>1, <2>2, Zenon
<1>. QED BY <1>1, <1>2, <1>3, <1>4, Zenon

(* Only the thread that moves has to be looked at.                            *)
LEMMA Alter ==
    ASSUME Serial, TaskInv, QInv, NEW t \in Threads, Step(t),
           events' = [i \in Slots |-> events'[i]], RingOK(InRing', moved'),
           \A r \in Live' \cap Objs(InRing') : pc'[t] = "free" /\ Mine(t)' = r,
           Call(pc'[t], loc'[t], Live', Objs(InRing'), Len(InRing')), SegInv(t)', SlotInv(t)'
    PROVE  QInv'
<1>1. \A u \in Threads \ {t} : pc'[u] = "idle" /\ loc'[u].ios = <<>> BY Alone, Zenon
<1>2. \A u, v \in Threads : pc'[u] # "idle" /\ pc'[v] # "idle" => u = v BY <1>1, Zenon
<1>3. \A r \in Live' \cap Objs(InRing') : \E u \in Threads : pc'[u] = "free" /\ Mine(u)' = r
  BY Zenon
<1>4. ASSUME NEW u \in Threads \ {t} PROVE CallInv(u)' /\ SegInv(u)' /\ SlotInv(u)'
  <2>1. pc'[u] \in {"idle", "get"} /\ loc'[u].ios = <<>> BY <1>1, Zenon
  <2>2. Call(pc'[u], loc'[u], Live', Objs(InRing'), Len(InRing')) BY <2>1, CallIdle
  <2>3. CallInv(u)' BY <2>2, Zenon DEF CallInv
  <2>4. pc'[u] \notin {"io", "write", "tail", "advance"} BY <2>1
  <2>. QED BY <2>3, <2>4, Zenon DEF SegInv, SlotInv
<1>5. CallInv(t)' BY Zenon DEF CallInv
<1>6. \A u \in Threads : CallInv(u)' /\ SegInv(u)' /\ SlotInv(u)' BY <1>4, <1>5, Zenon
<1>. QED BY <1>2, <1>3, <1>6, Zenon DEF QInv

LEMMA Settle ==
    ASSUME AioFacts, Serial, TaskInv, QInv, NEW t \in Threads, Step(t), pc[t] # "free",
           events' = [i \in Slots |-> events'[i]], InRing' = InRing, given' = given,
           \A q \in Objs(InRing) : moved'[q] = moved[q],
           NEW r,
           \/ Live' = Live
           \/ r \in Requests \ (Live \cup Objs(InRing)) /\ Live' = Live \cup {r}
           \/ r \in Live /\ Live' = Live \ {r},
           Call(pc'[t], loc'[t], Live', Objs(InRing), Len(InRing)), SegInv(t)', SlotInv(t)'
    PROVE  QInv' /\ Sim
<1>1. RingOK(InRing, moved) BY Zenon DEF QInv
<1>2. RingOK(InRing', moved') BY <1>1, RingOther, Zenon
<1>3. \A q \in Live : q \notin Objs(InRing) BY Alone, Zenon
<1>4. \A q \in Live' : q \notin Objs(InRing') BY <1>3, Zenon
<1>5. QInv' BY <1>2, <1>4, Alter, Zenon
<1>6. Sim BY <1>1, <1>2, <1>3, Sims, Zenon
<1>. QED BY <1>5, <1>6

(* Between the start of a call and its first transfer.                        *)
LEMMA QuietQ ==
    ASSUME AioFacts, Serial, Quota, TaskInv, QInv, NEW t \in Threads,
           \/ Submit(t) \/ NextIocb(t) \/ AllocateFails(t) \/ ReadIocount(t) \/ Getevents(t)
    PROVE  QInv' /\ Sim
<1>0. Step(t) BY Zenon DEF Step
<1>1. UNCHANGED <<head, tail, events, task, given, moved>>
  BY Zenon DEF Submit, NextIocb, AllocateFails, ReadIocount, Getevents, device
<1>2. /\ InRing' = InRing /\ Live' = Live /\ given' = given /\ events' = [i \in Slots |-> events'[i]]
      /\ \A r \in Objs(InRing) : moved'[r] = moved[r]
  BY <1>1, Zenon DEF InRing, Live, QInv
<1>3. pc \in [Threads -> Labels] /\ loc \in [Threads -> Locals] /\ loc[t] \in Locals
  BY Zenon DEF TaskInv, AioTypes
<1>4. pc[t] \in {"idle", "next", "count"}
  BY Zenon DEF Submit, NextIocb, AllocateFails, ReadIocount, Getevents
<1>5. pc[t] # "free" /\ (pc[t] \in Early <=> pc[t] # "idle") BY <1>4 DEF Early, Before
<1>6. Call(pc[t], loc[t], Live, Objs(InRing), Len(InRing)) BY Zenon DEF QInv, CallInv
<1>7. SUFFICES /\ pc'[t] \in {"idle", "next", "count", "cas", "get"}
               /\ Call(pc'[t], loc'[t], Live, Objs(InRing), Len(InRing))
  <2>1. SUFFICES ASSUME pc'[t] \in {"idle", "next", "count", "cas", "get"},
                        Call(pc'[t], loc'[t], Live, Objs(InRing), Len(InRing))
                 PROVE  QInv' /\ Sim
    BY Zenon
  <2>2. pc'[t] \notin {"io", "write", "tail", "advance"} BY <2>1
  <2>3. SegInv(t)' /\ SlotInv(t)' BY <2>2, Zenon DEF SegInv, SlotInv
  <2>4. Call(pc'[t], loc'[t], Live', Objs(InRing), Len(InRing)) BY <1>2, <2>1, Zenon
  <2>. QED BY <1>0, <1>2, <1>5, <2>3, <2>4, Settle, Zenon
<1>8. ASSUME NEW n, Return(t, n) PROVE pc'[t] = "idle" /\ Call(pc'[t], loc'[t], Live, Objs(InRing), Len(InRing))
  <2>1. pc'[t] = "idle" /\ loc'[t] = [Idle EXCEPT !.ret = n] BY <1>3, <1>8, Zenon DEF Return, Goto, Set
  <2>2. loc'[t].ios = <<>> BY <2>1 DEF Idle
  <2>3. pc'[t] \in {"idle", "get"} BY <2>1, Zenon
  <2>4. Call(pc'[t], loc'[t], Live, Objs(InRing), Len(InRing)) BY <2>2, <2>3, CallIdle
  <2>. QED BY <2>1, <2>4, Zenon
<1>9. CASE AllocateFails(t) BY <1>8, <1>9, Zenon DEF AllocateFails, Stop
<1>10. CASE Getevents(t)
  <2>1. pc'[t] = "get" /\ \E n : loc'[t] = [Idle EXCEPT !.nr = n] BY <1>3, <1>10, Zenon DEF Getevents, Goto, Set
  <2>2. loc'[t].ios = <<>> BY <2>1 DEF Idle
  <2>3. pc'[t] \in {"idle", "get"} BY <2>1, Zenon
  <2>4. Call(pc'[t], loc'[t], Live, Objs(InRing), Len(InRing)) BY <2>2, <2>3, CallIdle
  <2>. QED BY <2>1, <2>4, Zenon
<1>11. CASE NextIocb(t)
  <2>1. CASE \E n : Return(t, n) BY <1>8, <2>1, Zenon
  <2>2. CASE Goto(t, "count") /\ UNCHANGED loc
    <3>1. pc'[t] = "count" /\ loc'[t] = loc[t] /\ pc[t] # "idle"
      <4>1. pc[t] = "next" BY <1>11, Zenon DEF NextIocb
      <4>. QED BY <1>3, <2>2, <4>1 DEF Goto
    <3>2. "count" \in Early BY DEF Early, Before
    <3>. QED BY <1>5, <1>6, <3>1, <3>2, CallMoves, Zenon
  <2>. QED BY <1>11, <2>1, <2>2, Zenon DEF NextIocb, Stop
<1>12. CASE ReadIocount(t)
  <2>1. CASE \E n : Return(t, n) BY <1>8, <2>1, Zenon
  <2>2. CASE Goto(t, "cas") /\ Set(t, [loc[t] EXCEPT !.count = iocount])
    <3>1. pc'[t] = "cas" /\ loc'[t] = [loc[t] EXCEPT !.count = iocount] BY <1>3, <2>2, Zenon DEF Goto, Set
    <3>2. loc'[t].ios = loc[t].ios /\ loc'[t].i = loc[t].i BY <1>3, <3>1 DEF Locals
    <3>3. "cas" \in Early /\ pc[t] \in Early BY <1>12 DEF Early, Before, ReadIocount
    <3>. QED BY <1>6, <3>1, <3>2, <3>3, CallMoves, Zenon
  <2>. QED BY <1>12, <2>1, <2>2, Zenon DEF ReadIocount, Stop
<1>13. CASE Submit(t)
  <2>a. PICK n \in 1 .. MaxSubmit : \E ios \in [1 .. n -> Requests] :
          /\ \A i \in 1 .. n : ios[i] \notin Unread
          /\ Len(InRing) + n < Size
          /\ Set(t, [Idle EXCEPT !.ios = ios, !.i = 1])
    BY <1>13, Zenon DEF Submit
  <2>1. PICK ios \in [1 .. n -> Requests] :
          /\ \A i \in 1 .. n : ios[i] \notin Unread
          /\ Len(InRing) + n < Size
          /\ Set(t, [Idle EXCEPT !.ios = ios, !.i = 1])
    BY <2>a, Zenon
  <2>2. pc'[t] = "next" /\ loc'[t] = [Idle EXCEPT !.ios = ios, !.i = 1]
    BY <1>3, <1>13, <2>1, Zenon DEF Submit, Goto, Set
  <2>3. loc'[t].ios = ios /\ loc'[t].i = 1 BY <2>2 DEF Idle
  <2>4. n \in Nat /\ Len(ios) = n BY <2>1 DEF AioFacts, AioAssumption, SizeAssumption
  <2>5. Unread = Objs(InRing) /\ Len(InRing) \in Nat BY ObjsIs, Zenon DEF QInv, Unread
  <2>6. Len(InRing) + (n - 1) + 1 = Len(InRing) + n /\ \A j \in 1 .. n : ~(j < 1) BY <2>4, <2>5
  <2>7. "next" # "free" OBVIOUS
  <2>8. Call("next", loc'[t], Live, Objs(InRing), Len(InRing))
    BY <2>1, <2>3, <2>4, <2>5, <2>6, <2>7, Zenon DEF Call
  <2>. QED BY <2>2, <2>8, Zenon
<1>. QED BY <1>9, <1>10, <1>11, <1>12, <1>13, Zenon

LEMMA CallFacts ==
    ASSUME AioFacts, TaskInv, QInv, NEW t \in Threads, pc[t] \in Labels \ {"idle", "get", "next"}
    PROVE  /\ Mine(t) = loc[t].ios[loc[t].i] /\ Mine(t) \in Requests /\ loc[t] \in Locals
           /\ loc[t].i \in 1 .. Len(loc[t].ios) /\ Len(loc[t].ios) \in Nat /\ Distinct(loc[t])
           /\ Call(pc[t], loc[t], Live, Objs(InRing), Len(InRing)) /\ Len(InRing) \in Int
           /\ SegInv(t) /\ SlotInv(t) /\ RingOK(InRing, moved)
           /\ pc[t] # "free" => Mine(t) \notin Objs(InRing) /\ pc[t] \in Early
           /\ pc[t] \in Holding => Mine(t) \in Live
           /\ pc[t] \in Before => Mine(t) \notin Live
           /\ pc \in [Threads -> Labels] /\ loc \in [Threads -> Locals] /\ AioTypes
<1>1. /\ loc[t].i \in 1 .. Len(loc[t].ios) /\ Mine(t) \in Requests /\ loc[t] \in Locals /\ PlaceInv(t)
  BY InPlace, Zenon
<1>2. AioTypes /\ pc \in [Threads -> Labels] /\ loc \in [Threads -> Locals] BY Zenon DEF TaskInv, AioTypes
<1>3. Mine(t) = loc[t].ios[loc[t].i] BY Zenon DEF Mine
<1>4. Len(loc[t].ios) \in Nat BY <1>1 DEF Locals
<1>5. Distinct(loc[t]) BY <1>1, <1>3, MineApart, Zenon DEF Distinct
<1>6. /\ Call(pc[t], loc[t], Live, Objs(InRing), Len(InRing)) /\ SegInv(t) /\ SlotInv(t)
      /\ RingOK(InRing, moved)
  BY Zenon DEF QInv, CallInv
<1>7. Len(InRing) \in Int
  <2>1. Len(InRing) \in Nat BY <1>6, ObjsIs, Zenon
  <2>. QED BY <2>1
<1>8. pc[t] # "free" => Mine(t) \notin Objs(InRing) BY <1>1, <1>3, <1>6, Zenon DEF Call
<1>9. pc[t] # "free" => pc[t] \in Early BY DEF Labels, Early, Before, Holding
<1>10. pc[t] \in Holding => Mine(t) \in Live BY <1>1, Zenon DEF PlaceInv, Live
<1>11. pc[t] \in Before => Mine(t) \notin Live BY <1>1, <1>3, Zenon DEF PlaceInv, Live
<1>. QED BY <1>1, <1>2, <1>3, <1>4, <1>5, <1>6, <1>7, <1>8, <1>9, <1>10, <1>11, Zenon

LEMMA TaskSet ==
    ASSUME AioTypes, NEW r \in Requests, NEW k, task' = [task EXCEPT ![r] = k]
    PROVE  /\ task'[r] = k /\ (k.live => Live' = Live \cup {r}) /\ (~k.live => Live' = Live \ {r})
<1>1. task = [q \in Requests |-> task[q]] BY Zenon DEF AioTypes
<1>2. task'[r] = k /\ \A q \in Requests \ {r} : task'[q] = task[q] BY <1>1, Zenon
<1>. QED BY <1>2, Zenon DEF Live

LEMMA TaskStays ==
    ASSUME AioTypes, NEW r \in Requests, r \in Live, NEW k \in TaskOf(r), task' = [task EXCEPT ![r] = k]
    PROVE  Live' = Live /\ task'[r] = k
<1>1. k.live \in {TRUE} BY DEF TaskOf
<1>2. k.live BY <1>1, Zenon
<1>3. Live' = Live \cup {r} /\ task'[r] = k BY <1>2, TaskSet, Zenon
<1>. QED BY <1>3, Zenon

LEMMA IncrementQ ==
    ASSUME AioFacts, Serial, TaskInv, QInv, NEW t \in Threads, IncrementIocount(t)
    PROVE  QInv' /\ Sim
<1>. DEFINE r == Mine(t)
<1>1. pc[t] = "cas" /\ UNCHANGED <<head, tail, events, given>> BY Zenon DEF IncrementIocount
<1>2. pc[t] \in Labels \ {"idle", "get", "next"} /\ pc[t] \in Before /\ pc[t] # "free"
  BY <1>1 DEF Labels, Before
<1>3. /\ r = loc[t].ios[loc[t].i] /\ r \in Requests /\ loc[t] \in Locals /\ AioTypes
      /\ Call(pc[t], loc[t], Live, Objs(InRing), Len(InRing))
      /\ r \notin Objs(InRing) /\ r \notin Live /\ pc[t] \in Early
      /\ pc \in [Threads -> Labels] /\ loc \in [Threads -> Locals]
  BY <1>2, CallFacts, Zenon
<1>4. Step(t) /\ InRing' = InRing /\ given' = given /\ events' = [i \in Slots |-> events'[i]]
  BY <1>1, Zenon DEF Step, InRing, QInv
<1>5. CASE iocount # loc[t].count
  <2>1. pc'[t] = "count" /\ loc'[t] = loc[t] /\ UNCHANGED <<task, moved>>
    BY <1>3, <1>5, Zenon DEF IncrementIocount, Goto
  <2>2. Live' = Live /\ \A q \in Objs(InRing) : moved'[q] = moved[q] BY <2>1, Zenon DEF Live
  <2>3. pc'[t] \in Early /\ pc'[t] \notin {"io", "write", "tail", "advance"} BY <2>1 DEF Early, Before
  <2>4. SegInv(t)' /\ SlotInv(t)' BY <2>3, Zenon DEF SegInv, SlotInv
  <2>5. Call(pc'[t], loc'[t], Live', Objs(InRing), Len(InRing)) BY <1>3, <2>1, <2>2, <2>3, CallMoves, Zenon
  <2>. QED BY <1>2, <1>4, <2>2, <2>4, <2>5, Settle, Zenon
<1>6. CASE iocount = loc[t].count
  <2>1. /\ task' = [task EXCEPT ![r] = NewTask(r)] /\ moved' = [moved EXCEPT ![r] = 0]
        /\ pc'[t] = "io" /\ loc'[t] = [loc[t] EXCEPT !.seg = 1]
    BY <1>3, <1>6, Zenon DEF IncrementIocount, Goto, Set
  <2>2. loc'[t].ios = loc[t].ios /\ loc'[t].i = loc[t].i /\ loc'[t].seg = 1 BY <1>3, <2>1 DEF Locals
  <2>3. NewTask(r).live BY <1>3, TaskParts, Zenon
  <2>4. Live' = Live \cup {r} /\ task'[r] = NewTask(r) BY <1>3, <2>1, <2>3, TaskSet, Zenon
  <2>5. moved'[r] = 0 /\ \A q \in Objs(InRing) : moved'[q] = moved[q]
    <3>1. moved \in [Requests -> Int] /\ Objs(InRing) \subseteq Requests
      BY <1>3, ObjsIs, Zenon DEF AioTypes, QInv
    <3>. QED BY <1>3, <2>1, <3>1, Zenon
  <2>6. Good(r, NewTask(r), 1, 0) BY <1>3, GoodNew, Zenon
  <2>7. Mine(t)' = r BY <1>3, <2>2, Zenon DEF Mine
  <2>8. pc'[t] \in Early /\ pc'[t] \notin {"write", "tail", "advance"} BY <2>1 DEF Early, Before
  <2>. HIDE DEF r
  <2>9. SegInv(t)' BY <2>2, <2>4, <2>5, <2>6, <2>7, <2>8, Zenon DEF SegInv
  <2>10. SlotInv(t)' BY <2>8, Zenon DEF SlotInv
  <2>11. Call(pc'[t], loc'[t], Live', Objs(InRing), Len(InRing))
    BY <1>3, <2>2, <2>4, <2>8, CallMoves, Zenon
  <2>. QED BY <1>2, <1>3, <1>4, <2>4, <2>5, <2>9, <2>10, <2>11, Settle, Zenon
<1>. QED BY <1>5, <1>6, Zenon

(* wpdk_aio_submit goes on to the next request.                               *)
LEMMA OnwardQ ==
    ASSUME AioFacts, TaskInv, QInv, NEW t \in Threads, pc[t] \in Holding, Started(t)
    PROVE  /\ SegInv(t)' /\ SlotInv(t)' /\ pc'[t] = "next"
           /\ pc[t] # "free" => Call(pc'[t], loc'[t], Live, Objs(InRing), Len(InRing))
           /\ pc[t] = "free" => Call(pc'[t], loc'[t], Live \ {Mine(t)}, Objs(InRing), Len(InRing))
<1>1. pc[t] \in Labels \ {"idle", "get", "next"} BY DEF Labels, Holding
<1>2. /\ Mine(t) = loc[t].ios[loc[t].i] /\ loc[t] \in Locals /\ Len(InRing) \in Int
      /\ loc[t].i \in 1 .. Len(loc[t].ios) /\ Len(loc[t].ios) \in Nat /\ Distinct(loc[t])
      /\ Call(pc[t], loc[t], Live, Objs(InRing), Len(InRing)) /\ Mine(t) \in Live
      /\ pc[t] # "free" => pc[t] \in Early
      /\ pc \in [Threads -> Labels] /\ loc \in [Threads -> Locals]
  BY <1>1, CallFacts, Zenon
<1>3. pc'[t] = "next" /\ loc'[t] = [loc[t] EXCEPT !.i = @ + 1] BY <1>2, Zenon DEF Started, Goto, Set
<1>4. loc'[t].ios = loc[t].ios /\ loc'[t].i = loc[t].i + 1 BY <1>2, <1>3 DEF Locals
<1>5. pc'[t] \notin {"io", "write", "tail", "advance"} BY <1>3
<1>6. SegInv(t)' /\ SlotInv(t)' BY <1>5, Zenon DEF SegInv, SlotInv
<1>7. Size \in Nat BY SlotFacts, Zenon
<1>8. ASSUME pc[t] # "free" PROVE Call("next", loc'[t], Live, Objs(InRing), Len(InRing))
  BY <1>2, <1>4, <1>7, <1>8, CallStarted, Zenon
<1>9. ASSUME pc[t] = "free" PROVE Call("next", loc'[t], Live \ {Mine(t)}, Objs(InRing), Len(InRing))
  BY <1>2, <1>4, <1>7, <1>9, CallStarted, Zenon
<1>. QED BY <1>3, <1>6, <1>8, <1>9, Zenon

(* A segment has been transferred: the bytes recorded are the bytes moved.     *)
LEMMA TransferQ ==
    ASSUME AioFacts, Serial, TaskInv, QInv, NEW t \in Threads, Transfer(t)
    PROVE  QInv' /\ Sim
<1>. DEFINE r == Mine(t)
            i == loc[t].seg
<1>1. pc[t] = "io" /\ UNCHANGED <<head, tail, events, given>> BY Zenon DEF Transfer
<1>2. pc[t] \in Labels \ {"idle", "get", "next"} /\ pc[t] \in Holding /\ pc[t] # "free"
  BY <1>1 DEF Labels, Holding
<1>3. /\ r = loc[t].ios[loc[t].i] /\ r \in Requests /\ loc[t] \in Locals /\ AioTypes
      /\ Call(pc[t], loc[t], Live, Objs(InRing), Len(InRing)) /\ SegInv(t)
      /\ r \notin Objs(InRing) /\ r \in Live /\ pc[t] \in Early
      /\ pc \in [Threads -> Labels] /\ loc \in [Threads -> Locals]
  BY <1>2, CallFacts, Zenon
<1>4. Step(t) /\ InRing' = InRing /\ given' = given /\ events' = [j \in Slots |-> events'[j]]
  BY <1>1, Zenon DEF Step, InRing, QInv
<1>5. PICK n \in 0 .. Segments[r][i] : \E k \in TaskOf(r) :
        /\ moved' = [moved EXCEPT ![r] = @ + n]
        /\ task' = [task EXCEPT ![r] = k]
        /\ Ends(t, n, k) \/ Continues(t, n, k) \/ (pending[r] # {} /\ Started(t))
  BY TransferIs, Zenon
<1>6. PICK k \in TaskOf(r) :
        /\ moved' = [moved EXCEPT ![r] = @ + n]
        /\ task' = [task EXCEPT ![r] = k]
        /\ Ends(t, n, k) \/ Continues(t, n, k) \/ Started(t)
  BY <1>5, Zenon
<1>7. /\ task[r] \in TaskOf(r) /\ i \in 1 .. Len(Segments[r]) /\ Segments[r][i] \in Nat
      /\ ~Vectored(r) => i = 1 /\ Len(Segments[r]) = 1
  BY <1>1, IoFacts, Zenon
<1>8. Live' = Live /\ task'[r] = k BY <1>3, <1>6, TaskStays, Zenon
<1>9. moved'[r] = moved[r] + n /\ \A q \in Objs(InRing) : moved'[q] = moved[q]
  <2>1. moved \in [Requests -> Int] /\ Objs(InRing) \subseteq Requests
    BY <1>3, ObjsIs, Zenon DEF AioTypes, QInv
  <2>. QED BY <1>3, <1>6, <2>1, Zenon
<1>10. Good(r, task[r], i, moved[r]) BY <1>1, <1>3, Zenon DEF SegInv
<1>11. SUFFICES SegInv(t)' /\ SlotInv(t)' /\ Call(pc'[t], loc'[t], Live, Objs(InRing), Len(InRing))
  BY <1>2, <1>4, <1>8, <1>9, Settle, Zenon
<1>12. CASE Started(t) BY <1>2, <1>12, OnwardQ, Zenon
<1>13. ASSUME NEW m \in Int, pc'[t] = "write", loc'[t] = [loc[t] EXCEPT !.res = m],
              m = moved[r] + n, moved[r] + n \in 0 .. Total(r)
       PROVE  SegInv(t)' /\ SlotInv(t)' /\ Call(pc'[t], loc'[t], Live, Objs(InRing), Len(InRing))
  <2>1. loc'[t].ios = loc[t].ios /\ loc'[t].i = loc[t].i /\ loc'[t].res = m BY <1>3, <1>13 DEF Locals
  <2>2. pc'[t] \in Early /\ pc'[t] \notin {"io", "tail", "advance"} BY <1>13 DEF Early, Before
  <2>3. Mine(t)' = r BY <1>3, <2>1, Zenon DEF Mine
  <2>. HIDE DEF r
  <2>4. SegInv(t)' /\ SlotInv(t)' BY <1>9, <1>13, <2>1, <2>2, <2>3, Zenon DEF SegInv, SlotInv
  <2>. QED BY <1>3, <2>1, <2>2, <2>4, CallMoves, Zenon
<1>14. CASE Ends(t, n, k)
  <2>1. CASE ~Vectored(r)
    <3>1. pc'[t] = "write" /\ loc'[t] = [loc[t] EXCEPT !.res = n]
      BY <1>3, <1>14, <2>1, Zenon DEF Ends, Goto, Set
    <3>2. Good(r, task[r], 1, moved[r]) /\ n \in 0 .. Segments[r][1] BY <1>5, <1>7, <1>10, <2>1, Zenon
    <3>3. n = moved[r] + n /\ n \in 0 .. Total(r) /\ n \in Int
      <4>. HIDE DEF r
      <4>. QED BY <1>3, <1>7, <2>1, <3>2, GoodSingle
    <3>. QED BY <1>13, <3>1, <3>3, Zenon
  <2>2. CASE Vectored(r)
    <3>1. /\ pc'[t] = "write" /\ loc'[t] = [loc[t] EXCEPT !.res = IovResult(k)]
          /\ Recorded(t, n, k) /\ (n # Segments[r][i] \/ i = Len(Segments[r]))
      BY <1>3, <1>14, <2>2, Zenon DEF Ends, Goto, Set, LastSegment
    <3>2. With(r, task[r], i, n, k) BY <3>1, Zenon DEF Recorded, With
    <3>. HIDE DEF r, i
    <3>3. IovResult(k) = moved[r] + n /\ moved[r] + n \in 0 .. Total(r)
      <4>. DEFINE m == moved[r]
      <4>1. /\ r \in Requests /\ task[r] \in TaskOf(r) /\ i \in 1 .. Len(Segments[r]) /\ k \in TaskOf(r)
            /\ Good(r, task[r], i, m) /\ n \in 0 .. Segments[r][i]
            /\ (n # Segments[r][i] \/ i = Len(Segments[r])) /\ With(r, task[r], i, n, k)
        BY <1>3, <1>5, <1>6, <1>7, <1>10, <3>1, <3>2, Zenon
      <4>. HIDE DEF m
      <4>2. IovResult(k) = m + n /\ m + n \in 0 .. Total(r) BY <4>1, GoodEnd, Zenon
      <4>. QED BY <4>2, Zenon DEF m
    <3>4. IovResult(k) \in Int
      <4>1. Len(Segments[r]) >= 1 BY <1>1, IoFacts, Zenon DEF r
      <4>. QED BY <1>3, <1>6, <4>1, IovIs, Zenon
    <3>. QED BY <1>13, <3>1, <3>3, <3>4, Zenon
  <2>. QED BY <2>1, <2>2, Zenon
<1>15. CASE Continues(t, n, k)
  <2>1. /\ pc'[t] = "io" /\ loc'[t] = [loc[t] EXCEPT !.seg = i + 1] /\ n = Segments[r][i]
        /\ Recorded(t, n, k)
    BY <1>1, <1>3, <1>15, Zenon DEF Continues, Set
  <2>2. With(r, task[r], i, n, k) BY <2>1, Zenon DEF Recorded, With
  <2>3. loc'[t].ios = loc[t].ios /\ loc'[t].i = loc[t].i /\ loc'[t].seg = i + 1 BY <1>3, <2>1 DEF Locals
  <2>4. pc'[t] \notin {"write", "tail", "advance"} BY <2>1
  <2>5. Mine(t)' = r BY <1>3, <2>3, Zenon DEF Mine
  <2>. HIDE DEF r, i
  <2>6. Good(r, k, i + 1, moved[r] + n)
    BY <1>3, <1>5, <1>6, <1>7, <1>10, <2>1, <2>2, GoodNext
  <2>7. SegInv(t)' /\ SlotInv(t)' BY <1>8, <1>9, <2>3, <2>4, <2>5, <2>6, Zenon DEF SegInv, SlotInv
  <2>. QED BY <1>1, <1>3, <2>1, <2>3, <2>7, CallMoves, Zenon
<1>. QED BY <1>6, <1>12, <1>14, <1>15, Zenon

(* A segment has gone to the background.                                      *)
LEMMA PendingQ ==
    ASSUME AioFacts, Serial, TaskInv, QInv, NEW t \in Threads, Pending(t)
    PROVE  QInv' /\ Sim
<1>. DEFINE r == Mine(t)
            i == loc[t].seg
            C == Cardinality(pending[r])
<1>1. pc[t] = "io" /\ UNCHANGED <<head, tail, events, given, moved>> BY Zenon DEF Pending
<1>2. pc[t] \in Labels \ {"idle", "get", "next"} /\ pc[t] \in Holding /\ pc[t] # "free"
  BY <1>1 DEF Labels, Holding
<1>3. /\ r = loc[t].ios[loc[t].i] /\ r \in Requests /\ loc[t] \in Locals /\ AioTypes
      /\ Call(pc[t], loc[t], Live, Objs(InRing), Len(InRing)) /\ SegInv(t)
      /\ r \in Live /\ pc[t] \in Early
      /\ pc \in [Threads -> Labels] /\ loc \in [Threads -> Locals]
  BY <1>2, CallFacts, Zenon
<1>4. /\ Step(t) /\ InRing' = InRing /\ given' = given /\ events' = [j \in Slots |-> events'[j]]
      /\ \A q \in Objs(InRing) : moved'[q] = moved[q]
  BY <1>1, Zenon DEF Step, InRing, QInv
<1>5. /\ task[r] \in TaskOf(r) /\ i \in 1 .. Len(Segments[r]) /\ C \in Nat /\ Len(Segments[r]) \in Nat
      /\ Vectored(r) => task[r].active = Len(Segments[r]) - i + 2 + C
  BY <1>1, IoFacts, Zenon
<1>6. SUFFICES /\ Live' = Live
               /\ SegInv(t)' /\ SlotInv(t)' /\ Call(pc'[t], loc'[t], Live, Objs(InRing), Len(InRing))
  BY <1>2, <1>4, Settle, Zenon
<1>7. CASE ~Vectored(r)
  <2>1. Started(t) /\ task' = task BY <1>7, Zenon DEF Pending
  <2>2. Live' = Live BY <2>1, Zenon DEF Live
  <2>. QED BY <1>2, <2>1, <2>2, OnwardQ, Zenon
<1>8. CASE Vectored(r) /\ LastSegment(t)
  <2>1. IovDone(t, task[r], 1) BY <1>8, Zenon DEF Pending
  <2>2. i = Len(Segments[r]) BY <1>8, Zenon DEF LastSegment
  <2>3. task[r].active = Len(Segments[r]) - i + 2 + C BY <1>5, <1>8, Zenon
  <2>4. 1 \in Int OBVIOUS
  <2>5. task[r].active - 1 # 0
    <3>. HIDE DEF r, i, C
    <3>. QED BY <1>5, <2>2, <2>3
  <2>6. PICK left \in TaskOf(r) : task' = [task EXCEPT ![r] = left] /\ Started(t)
    BY <1>1, <1>5, <2>1, <2>4, <2>5, IovDoneIs, Zenon
  <2>8. Live' = Live BY <1>3, <2>6, TaskStays, Zenon
  <2>. QED BY <1>2, <2>6, <2>8, OnwardQ, Zenon
<1>9. CASE Vectored(r) /\ ~LastSegment(t)
  <2>1. Set(t, [loc[t] EXCEPT !.seg = @ + 1]) /\ task' = task /\ pc' = pc BY <1>9, Zenon DEF Pending
  <2>2. Live' = Live BY <2>1, Zenon DEF Live
  <2>3. loc'[t] = [loc[t] EXCEPT !.seg = @ + 1] BY <1>3, <2>1, Zenon DEF Set
  <2>4. loc'[t].ios = loc[t].ios /\ loc'[t].i = loc[t].i /\ loc'[t].seg = i + 1 BY <1>3, <2>3 DEF Locals
  <2>5. pc'[t] \notin {"write", "tail", "advance"} /\ pc'[t] = pc[t] BY <1>1, <2>1
  <2>6. Mine(t)' = r BY <1>3, <2>4, Zenon DEF Mine
  <2>7. Good(r, task[r], i, moved[r]) BY <1>1, <1>3, Zenon DEF SegInv
  <2>. HIDE DEF r, i
  <2>8. Good(r, task[r], i + 1, moved[r]) BY <1>3, <1>5, <2>7, GoodSkip, Zenon
  <2>9. SegInv(t)' /\ SlotInv(t)'
    BY <1>1, <2>1, <2>4, <2>5, <2>6, <2>8, Zenon DEF SegInv, SlotInv
  <2>. QED BY <1>3, <2>2, <2>4, <2>5, <2>9, CallMoves, Zenon
<1>. QED BY <1>7, <1>8, <1>9, Zenon

LEMMA AbortQ ==
    ASSUME AioFacts, Serial, TaskInv, QInv, NEW t \in Threads, Abort(t)
    PROVE  QInv' /\ Sim
<1>. DEFINE r == Mine(t)
<1>1. pc[t] = "io" /\ UNCHANGED <<head, tail, events, given, moved>> BY Zenon DEF Abort, device
<1>2. pc[t] \in Labels \ {"idle", "get", "next"} /\ pc[t] \in Holding /\ pc[t] # "free"
  BY <1>1 DEF Labels, Holding
<1>3. /\ r \in Requests /\ AioTypes /\ r \in Live
      /\ pc \in [Threads -> Labels] /\ loc \in [Threads -> Locals]
  BY <1>2, CallFacts, Zenon
<1>4. /\ Step(t) /\ InRing' = InRing /\ given' = given /\ events' = [j \in Slots |-> events'[j]]
      /\ \A q \in Objs(InRing) : moved'[q] = moved[q]
  BY <1>1, Zenon DEF Step, InRing, QInv
<1>5. PICK n : Return(t, n) BY AbortIs, Zenon DEF Stop
<1>6. pc'[t] = "idle" /\ loc'[t] = [Idle EXCEPT !.ret = n] BY <1>3, <1>5, Zenon DEF Return, Goto, Set
<1>7. loc'[t].ios = <<>> BY <1>6 DEF Idle
<1>8. pc'[t] \in {"idle", "get"} /\ pc'[t] \notin {"io", "write", "tail", "advance"} BY <1>6
<1>9. Call(pc'[t], loc'[t], Live', Objs(InRing), Len(InRing)) BY <1>7, <1>8, CallIdle
<1>10. SegInv(t)' /\ SlotInv(t)' BY <1>8, Zenon DEF SegInv, SlotInv
<1>11. Live' = Live \/ Live' = Live \ {r}
  <2>1. PICK k \in TaskOf(r) \cup {NoTask} : task' = [task EXCEPT ![r] = k] BY AbortIs, Zenon
  <2>2. CASE k = NoTask
    <3>1. ~k.live BY <1>3, <2>2, TaskParts, Zenon
    <3>. QED BY <1>3, <2>1, <3>1, TaskSet, Zenon
  <2>3. CASE k \in TaskOf(r) BY <1>3, <2>1, <2>3, TaskStays, Zenon
  <2>. QED BY <2>1, <2>2, <2>3, Zenon
<1>. QED BY <1>2, <1>3, <1>4, <1>9, <1>10, <1>11, Settle, Zenon

(* wpdk_aio_task_done, before the tail moves.                                 *)
LEMMA WriteQ ==
    ASSUME AioFacts, Serial, TaskInv, RingTypes, QInv, NEW t \in Threads, WriteEvent(t) \/ ReadTail(t)
    PROVE  QInv' /\ Sim
<1>1. pc[t] \in {"write", "tail"} /\ UNCHANGED <<head, tail, task, given, moved>>
  BY Zenon DEF WriteEvent, ReadTail, device
<1>2. pc[t] \in Labels \ {"idle", "get", "next"} /\ pc[t] # "free" /\ pc[t] \in {"write", "tail", "advance"}
  BY <1>1 DEF Labels, Holding
<1>3. /\ loc[t] \in Locals /\ Call(pc[t], loc[t], Live, Objs(InRing), Len(InRing)) /\ SegInv(t) /\ SlotInv(t)
      /\ pc[t] \in Early /\ pc \in [Threads -> Labels] /\ loc \in [Threads -> Locals]
  BY <1>2, CallFacts, Zenon
<1>4. Step(t) /\ Live' = Live /\ \A q \in Objs(InRing) : moved'[q] = moved[q]
  BY <1>1, Zenon DEF Step, Live
<1>5. head \in Slots /\ tail \in Slots /\ events = [i \in Slots |-> events[i]] BY Zenon DEF RingTypes, QInv
<1>6. ASSUME pc'[t] \in {"tail", "advance"}, loc'[t].ios = loc[t].ios, loc'[t].i = loc[t].i,
             loc'[t].res = loc[t].res
      PROVE  Mine(t)' = Mine(t) /\ SegInv(t)' /\ Call(pc'[t], loc'[t], Live', Objs(InRing), Len(InRing))
  <2>1. Mine(t)' = Mine(t) BY <1>6, Zenon DEF Mine
  <2>2. pc'[t] \in Early /\ pc'[t] # "io" BY <1>6 DEF Early, Before
  <2>3. SegInv(t)' BY <1>1, <1>2, <1>3, <1>6, <2>1, <2>2, Zenon DEF SegInv
  <2>. QED BY <1>3, <1>4, <1>6, <2>1, <2>2, <2>3, CallMoves, Zenon
<1>7. CASE WriteEvent(t)
  <2>1. /\ events' = [events EXCEPT ![tail] = [obj |-> Mine(t), res |-> loc[t].res]]
        /\ pc'[t] = "tail" /\ loc'[t] = loc[t]
    BY <1>3, <1>7, Zenon DEF WriteEvent, Goto
  <2>2. /\ events' = [i \in Slots |-> events'[i]] /\ \A i \in Slots \ {tail} : events'[i] = events[i]
        /\ events'[tail] = [obj |-> Mine(t), res |-> loc[t].res]
    BY <1>5, <2>1, Zenon
  <2>3. InRing' = InRing
    <3>0. head \in Slots /\ tail \in Slots BY <1>5, Zenon
    <3>a. \A i \in Slots \ {tail} : events'[i] = events[i] BY <2>2, Zenon
    <3>1. Ring(head, tail, events') = Ring(head, tail, events) BY <3>0, <3>a, RingSame
    <3>. QED BY <1>1, <3>1, Zenon DEF InRing, Ring
  <2>4. Mine(t)' = Mine(t) /\ SegInv(t)' /\ Call(pc'[t], loc'[t], Live', Objs(InRing), Len(InRing))
    BY <1>6, <2>1, Zenon
  <2>5. pc'[t] # "advance" BY <2>1
  <2>6. SlotInv(t)' BY <1>1, <2>1, <2>2, <2>4, <2>5, Zenon DEF SlotInv
  <2>. QED BY <1>1, <1>2, <1>4, <2>2, <2>3, <2>4, <2>6, Settle, Zenon
<1>8. CASE ReadTail(t)
  <2>1. /\ events' = events /\ pc[t] = "tail" /\ pc'[t] = "advance"
        /\ loc'[t] = [loc[t] EXCEPT !.at = After(tail)]
    BY <1>3, <1>8, Zenon DEF ReadTail, Goto, Set
  <2>2. /\ loc'[t].ios = loc[t].ios /\ loc'[t].i = loc[t].i /\ loc'[t].res = loc[t].res
        /\ loc'[t].at = After(tail)
    BY <1>3, <2>1 DEF Locals
  <2>3. InRing' = InRing BY <1>1, <2>1 DEF InRing
  <2>4. Mine(t)' = Mine(t) /\ SegInv(t)' /\ Call(pc'[t], loc'[t], Live', Objs(InRing), Len(InRing))
    BY <1>6, <2>1, <2>2, Zenon
  <2>5. events[tail] = [obj |-> Mine(t), res |-> loc[t].res] BY <1>3, <2>1, Zenon DEF SlotInv
  <2>6. SlotInv(t)' BY <1>1, <2>1, <2>2, <2>4, <2>5, Zenon DEF SlotInv
  <2>7. events' = [i \in Slots |-> events'[i]] BY <1>5, <2>1, Zenon
  <2>. QED BY <1>1, <1>2, <1>4, <2>3, <2>4, <2>6, <2>7, Settle, Zenon
<1>. QED BY <1>7, <1>8, Zenon

(* The tail moves: the event is in the ring, and there was room for it.       *)
LEMMA AdvanceQ ==
    ASSUME AioFacts, Serial, TaskInv, RingTypes, QInv, NEW t \in Threads, AdvanceTail(t)
    PROVE  QInv' /\ Sim
<1>. DEFINE r == Mine(t)
            n == loc[t].res
            S == {events[i] : i \in Slots}
<1>1. pc[t] = "advance" /\ tail' = loc[t].at /\ UNCHANGED <<head, events, task, loc, given, moved>>
  BY Zenon DEF AdvanceTail, device
<1>2. /\ pc[t] \in Labels \ {"idle", "get", "next"} /\ pc[t] # "free" /\ pc[t] \in Holding
      /\ pc[t] \in {"write", "tail", "advance"} /\ pc[t] \in {"tail", "advance"}
  BY <1>1 DEF Labels, Holding
<1>3. /\ r = loc[t].ios[loc[t].i] /\ r \in Requests /\ loc[t] \in Locals /\ Len(InRing) \in Int
      /\ loc[t].i \in 1 .. Len(loc[t].ios) /\ Len(loc[t].ios) \in Nat /\ Distinct(loc[t])
      /\ Call(pc[t], loc[t], Live, Objs(InRing), Len(InRing)) /\ SegInv(t) /\ SlotInv(t)
      /\ r \in Live /\ r \notin Objs(InRing) /\ RingOK(InRing, moved)
      /\ pc[t] \in Early /\ pc \in [Threads -> Labels]
  BY <1>2, CallFacts, Zenon
<1>4. Step(t) /\ Live' = Live /\ given' = given /\ moved' = moved BY <1>1, Zenon DEF Step, Live
<1>5. head \in Slots /\ tail \in Slots /\ events = [i \in Slots |-> events[i]] BY Zenon DEF RingTypes, QInv
<1>6. n = moved[r] /\ n \in 0 .. Total(r) /\ events[tail] = [obj |-> r, res |-> n] /\ tail' = After(tail)
  BY <1>1, <1>2, <1>3, Zenon DEF SegInv, SlotInv
<1>7. n \in Int BY <1>3 DEF Locals
<1>8. InRing' = Append(InRing, [obj |-> r, res |-> n])
  <2>1. Len(InRing) + (Len(loc[t].ios) - loc[t].i) + 1 < Size BY <1>3, Zenon DEF Call
  <2>2. Len(InRing) + 1 < Size
    <3>1. Size \in Nat BY SlotFacts, Zenon
    <3>. QED BY <1>3, <2>1, <3>1
  <2>3. InRing = Ring(head, tail, events) BY Zenon DEF InRing, Ring
  <2>4. InRing' = Ring(head, After(tail), events) BY <1>1, <1>6, Zenon DEF InRing, Ring
  <2>5. \A i \in Slots : events[i] \in S BY Zenon
  <2>. HIDE DEF S
  <2>6. Len(Ring(head, tail, events)) + 1 < Size BY <2>2, <2>3, Zenon
  <2>7. Ring(head, After(tail), events) = Append(Ring(head, tail, events), events[tail])
    BY <1>5, <2>5, <2>6, RingAppend, Zenon
  <2>. QED BY <1>6, <2>3, <2>4, <2>7, Zenon
<1>9. RingOK(InRing', moved') /\ Objs(InRing') = Objs(InRing) \cup {r} /\ Len(InRing') = Len(InRing) + 1
  <2>. DEFINE p == Append(InRing, [obj |-> r, res |-> n])
  <2>1. RingOK(p, moved) /\ Objs(p) = Objs(InRing) \cup {r} /\ Len(p) = Len(InRing) + 1
    <3>. HIDE DEF r, n
    <3>1. /\ RingOK(InRing, moved) /\ r \in Requests /\ r \notin Objs(InRing)
          /\ n \in Int /\ n = moved[r] /\ n \in 0 .. Total(r)
      BY <1>3, <1>6, <1>7, Zenon
    <3>. QED BY ONLY <3>1, RingAdd
  <2>. HIDE DEF p
  <2>2. InRing' = p BY <1>8, Zenon DEF p
  <2>. QED BY <1>4, <2>1, <2>2, Zenon
<1>10. pc'[t] = "free" /\ loc'[t] = loc[t] /\ Mine(t)' = r BY <1>1, <1>3, Zenon DEF AdvanceTail, Goto, Mine
<1>11. SegInv(t)' /\ SlotInv(t)'
  <2>1. pc'[t] \notin {"io", "write", "tail", "advance"} BY <1>10
  <2>. QED BY <2>1, Zenon DEF SegInv, SlotInv
<1>12. Call(pc'[t], loc'[t], Live', Objs(InRing'), Len(InRing'))
  <2>1. Call("free", loc[t], Live, Objs(InRing) \cup {loc[t].ios[loc[t].i]}, Len(InRing) + 1)
    BY <1>3, CallAdvance, Zenon
  <2>. QED BY <1>3, <1>4, <1>9, <1>10, <2>1, Zenon
<1>13. \A q \in Live' \cap Objs(InRing') : pc'[t] = "free" /\ Mine(t)' = q
  <2>1. \A q \in Live \cap Objs(InRing) : FALSE BY <1>2, <1>4, Alone, Zenon
  <2>. QED BY <1>4, <1>9, <1>10, <2>1, Zenon
<1>14. events' = [i \in Slots |-> events'[i]] BY <1>1, <1>5, Zenon
<1>. HIDE DEF r, n
<1>15. QInv' BY <1>4, <1>9, <1>11, <1>12, <1>13, <1>14, Alter, Zenon
<1>16. Sim BY <1>3, <1>4, <1>6, <1>8, <1>9, Sims, Zenon
<1>. QED BY <1>15, <1>16

LEMMA FreeQ ==
    ASSUME AioFacts, Serial, TaskInv, QInv, NEW t \in Threads, FreeTask(t)
    PROVE  QInv' /\ Sim
<1>. DEFINE r == Mine(t)
<1>1. /\ pc[t] = "free" /\ task' = [task EXCEPT ![r] = NoTask] /\ Started(t)
      /\ UNCHANGED <<head, tail, events, given, moved>>
  BY Zenon DEF FreeTask, device
<1>2. pc[t] \in Labels \ {"idle", "get", "next"} /\ pc[t] \in Holding BY <1>1 DEF Labels, Holding
<1>3. /\ r = loc[t].ios[loc[t].i] /\ r \in Requests /\ RingOK(InRing, moved) /\ AioTypes
      /\ Call(pc[t], loc[t], Live, Objs(InRing), Len(InRing))
  BY <1>2, CallFacts, Zenon
<1>4. /\ Step(t) /\ InRing' = InRing /\ given' = given /\ moved' = moved
      /\ events' = [i \in Slots |-> events'[i]]
  BY <1>1, Zenon DEF Step, InRing, QInv
<1>5. Live' = Live \ {r}
  <2>1. ~NoTask.live BY <1>3, TaskParts, Zenon
  <2>. QED BY <1>1, <1>3, <2>1, TaskSet, Zenon
<1>6. r \in Objs(InRing) BY <1>1, <1>3, Zenon DEF Call
<1>7. SegInv(t)' /\ SlotInv(t)' /\ Call(pc'[t], loc'[t], Live \ {r}, Objs(InRing), Len(InRing))
  BY <1>1, <1>2, OnwardQ, Zenon
<1>8. \A q \in Live' : q \notin Objs(InRing')
  <2>1. \A q \in Live \cap Objs(InRing) : r = q BY <1>4, Alone, Zenon
  <2>. QED BY <1>4, <1>5, <2>1, Zenon
<1>9. RingOK(InRing', moved') /\ Call(pc'[t], loc'[t], Live', Objs(InRing'), Len(InRing'))
  BY <1>3, <1>4, <1>5, <1>7, Zenon
<1>10. QInv' BY <1>4, <1>7, <1>8, <1>9, Alter, Zenon
<1>11. Live' \cup Objs(InRing) = Live \cup Objs(InRing) BY <1>5, <1>6, Zenon
<1>12. Sim BY <1>3, <1>4, <1>9, <1>11, Sims, Zenon
<1>. QED BY <1>10, <1>12

(* io_getevents hands out the oldest event, or returns.                       *)
LEMMA TakeQ ==
    ASSUME AioFacts, Serial, TaskInv, RingTypes, QInv, NEW t \in Threads, TakeEvent(t)
    PROVE  QInv' /\ Sim
<1>. DEFINE S == {events[i] : i \in Slots}
<1>1. pc[t] = "get" /\ UNCHANGED <<tail, events, task, moved>> BY Zenon DEF TakeEvent, device
<1>2. /\ pc \in [Threads -> Labels] /\ loc \in [Threads -> Locals] /\ loc[t] \in Locals /\ PlaceInv(t)
      /\ RingOK(InRing, moved)
  BY Zenon DEF TaskInv, AioTypes, QInv
<1>3. loc[t].ios = <<>> /\ pc[t] # "free"
  <2>1. pc[t] \in {"idle", "get"} BY <1>1, Zenon
  <2>2. loc[t].ios = <<>> BY <1>2, <2>1, Zenon DEF PlaceInv
  <2>. QED BY <1>1, <2>2
<1>4. Step(t) /\ Live' = Live /\ moved' = moved BY <1>1, Zenon DEF Step, Live
<1>5. head \in Slots /\ tail \in Slots /\ events' = [i \in Slots |-> events'[i]]
  BY <1>1, Zenon DEF RingTypes, QInv
<1>6. \A q \in Live : q \notin Objs(InRing) BY <1>3, <1>4, Alone, Zenon
<1>7. ASSUME pc'[t] \in {"idle", "get"}, loc'[t].ios = <<>>
      PROVE  SegInv(t)' /\ SlotInv(t)' /\ Call(pc'[t], loc'[t], Live', Objs(InRing'), Len(InRing'))
  <2>1. pc'[t] \notin {"io", "write", "tail", "advance"} BY <1>7
  <2>2. SegInv(t)' /\ SlotInv(t)' BY <2>1, Zenon DEF SegInv, SlotInv
  <2>3. Call(pc'[t], loc'[t], Live', Objs(InRing'), Len(InRing')) BY <1>7, CallIdle
  <2>. QED BY <2>2, <2>3
<1>8. CASE loc[t].ret = loc[t].nr \/ head = tail
  <2>1. Return(t, loc[t].ret) /\ head' = head /\ given' = given BY <1>8, Zenon DEF TakeEvent
  <2>2. pc'[t] = "idle" /\ loc'[t] = [Idle EXCEPT !.ret = loc[t].ret] BY <1>2, <2>1, Zenon DEF Return, Goto, Set
  <2>3. loc'[t].ios = <<>> BY <2>2 DEF Idle
  <2>4. pc'[t] \in {"idle", "get"} BY <2>2, Zenon
  <2>5. InRing' = InRing BY <1>1, <2>1 DEF InRing
  <2>6. SegInv(t)' /\ SlotInv(t)' /\ Call(pc'[t], loc'[t], Live', Objs(InRing), Len(InRing))
    BY <1>7, <2>3, <2>4, <2>5, Zenon
  <2>. QED BY <1>3, <1>4, <1>5, <2>1, <2>5, <2>6, Settle, Zenon
<1>9. CASE ~(loc[t].ret = loc[t].nr \/ head = tail)
  <2>1. /\ given' = events[head] /\ head' = After(head) /\ head # tail
        /\ Set(t, [loc[t] EXCEPT !.ret = @ + 1]) /\ pc' = pc
    BY <1>9, Zenon DEF TakeEvent
  <2>2. pc'[t] = "get" /\ loc'[t] = [loc[t] EXCEPT !.ret = @ + 1] BY <1>1, <1>2, <2>1, Zenon DEF Set
  <2>3. loc'[t].ios = <<>> BY <1>2, <1>3, <2>2 DEF Locals
  <2>4. pc'[t] \in {"idle", "get"} BY <2>2, Zenon
  <2>5. InRing # <<>> /\ Head(InRing) = events[head] /\ InRing' = Tail(InRing)
    <3>1. InRing = Ring(head, tail, events) BY Zenon DEF InRing, Ring
    <3>2. InRing' = Ring(After(head), tail, events) BY <1>1, <2>1, Zenon DEF InRing, Ring
    <3>3. \A i \in Slots : events[i] \in S BY Zenon
    <3>. HIDE DEF S
    <3>4. /\ Ring(head, tail, events) # <<>> /\ Head(Ring(head, tail, events)) = events[head]
          /\ Ring(After(head), tail, events) = Tail(Ring(head, tail, events))
      BY <1>5, <2>1, <3>3, RingTail, Zenon
    <3>. QED BY <3>1, <3>2, <3>4, Zenon
  <2>6. /\ RingOK(InRing', moved') /\ Objs(InRing') = Objs(InRing) \ {Head(InRing).obj}
        /\ Head(InRing).obj \in Objs(InRing)
    BY <1>2, <1>4, <2>5, RingTake, Zenon
  <2>7. \A q \in Live' : q \notin Objs(InRing') BY <1>4, <1>6, <2>6, Zenon
  <2>8. SegInv(t)' /\ SlotInv(t)' /\ Call(pc'[t], loc'[t], Live', Objs(InRing'), Len(InRing'))
    BY <1>7, <2>3, <2>4, Zenon
  <2>9. QInv' BY <1>4, <1>5, <2>6, <2>7, <2>8, Alter, Zenon
  <2>10. Sim BY <1>2, <1>4, <1>6, <2>1, <2>5, <2>6, Sims, Zenon
  <2>. QED BY <2>9, <2>10
<1>. QED BY <1>8, <1>9, Zenon

LEMMA ContextQ ==
    ASSUME AioFacts, TaskInv, QInv, Setup \/ Destroy
    PROVE  QInv' /\ Sim
<1>1. /\ \A u \in Threads : pc[u] = "idle"
      /\ head' = 0 /\ tail' = 0 /\ UNCHANGED <<task, pc, loc, given, moved>>
      /\ events' = events \/ events' = [i \in Slots |-> None]
  BY Zenon DEF Setup, Destroy, device
<1>2. InRing' = <<>>
  <2>1. (0 - 0 + Size) % Size = 0 BY SlotFacts
  <2>2. InRing' = [i \in 1 .. 0 |-> events'[(0 + i - 1) % Size]] BY <1>1, <2>1 DEF InRing
  <2>. QED BY <2>2
<1>3. Len(<<>>) = 0 /\ Objs(<<>>) = {} /\ \A m : RingOK(<<>>, m) BY DEF Objs, RingOK
<1>4. Live' = Live BY <1>1, Zenon DEF Live
<1>5. ASSUME NEW u \in Threads PROVE CallInv(u)' /\ SegInv(u)' /\ SlotInv(u)'
  <2>1. pc'[u] = "idle" /\ loc'[u].ios = <<>> BY <1>1, Zenon DEF TaskInv, PlaceInv
  <2>2. pc'[u] \in {"idle", "get"} BY <2>1, Zenon
  <2>3. Call(pc'[u], loc'[u], Live', Objs(InRing'), Len(InRing')) BY <2>1, <2>2, CallIdle
  <2>4. pc'[u] \notin {"io", "write", "tail", "advance"} BY <2>1
  <2>. QED BY <2>3, <2>4, Zenon DEF CallInv, SegInv, SlotInv
<1>6. events' = [i \in Slots |-> events'[i]] BY <1>1, Zenon DEF QInv
<1>7. RingOK(InRing', moved') /\ Objs(InRing') = {} BY <1>2, <1>3, Zenon
<1>8. \A u, v \in Threads : pc'[u] # "idle" /\ pc'[v] # "idle" => u = v BY <1>1, Zenon
<1>9. QInv' BY <1>5, <1>6, <1>7, <1>8, Zenon DEF QInv
<1>10. Live \cap Objs(InRing) = {}
  <2>1. \A u \in Threads : pc[u] # "free" BY <1>1
  <2>. QED BY <2>1, Zenon DEF QInv
<1>11. Sim
  <2>1. RingOK(InRing, moved) /\ given' = given BY <1>1, Zenon DEF QInv
  <2>. QED BY <1>2, <1>4, <1>7, <1>10, <2>1, Sims, Zenon
<1>. QED BY <1>9, <1>11

LEMMA QNext ==
    ASSUME AioFacts, Serial, Quota, TaskInv, RingTypes, QInv, [Next]_vars
    PROVE  QInv' /\ Sim
<1>1. ASSUME NEW t \in Threads, Step(t) PROVE QInv' /\ Sim
  BY <1>1, QuietQ, IncrementQ, TransferQ, PendingQ, AbortQ, WriteQ, AdvanceQ, FreeQ, TakeQ, Zenon DEF Step
<1>2. CASE UNCHANGED vars
  <2>1. /\ UNCHANGED <<head, tail, events, task, pc, loc, given, moved>>
    BY <1>2, Zenon DEF vars
  <2>2. InRing' = InRing /\ Live' = Live BY <2>1, Zenon DEF InRing, Live
  <2>3. Unread' = Unread BY <2>2, Zenon DEF Unread
  <2>4. Sim BY <2>1, <2>2, <2>3, Zenon DEF Sim, Queue!vars
  <2>5. ASSUME NEW t \in Threads PROVE CallInv(t)' /\ SegInv(t)' /\ SlotInv(t)'
    <3>1. CallInv(t) /\ SegInv(t) /\ SlotInv(t) BY Zenon DEF QInv
    <3>2. Mine(t)' = Mine(t) BY <2>1, Zenon DEF Mine
    <3>3. CallInv(t)' BY <2>1, <2>2, <3>1, Zenon DEF CallInv
    <3>4. SegInv(t)' BY <2>1, <3>1, <3>2, Zenon DEF SegInv
    <3>5. SlotInv(t)' BY <2>1, <3>1, <3>2, Zenon DEF SlotInv
    <3>. QED BY <3>3, <3>4, <3>5
  <2>6. /\ events' = [i \in Slots |-> events'[i]]
        /\ \A t, u \in Threads : pc'[t] # "idle" /\ pc'[u] # "idle" => t = u
        /\ RingOK(InRing', moved')
    BY <2>1, <2>2, Zenon DEF QInv
  <2>7. \A r \in Live' \cap Objs(InRing') : \E t \in Threads : pc'[t] = "free" /\ Mine(t)' = r
    BY <2>1, <2>2, Zenon DEF QInv, Mine
  <2>8. QInv' BY <2>5, <2>6, <2>7, Zenon DEF QInv
  <2>. QED BY <2>4, <2>8
<1>. QED BY <1>1, <1>2, ContextQ, Zenon DEF Next, Step

LEMMA QInit == ASSUME AioFacts, Init PROVE QInv /\ Queue!Init
<1>1. /\ head = 0 /\ tail = 0 /\ events = [i \in Slots |-> None] /\ given = None
      /\ \A t \in Threads : pc[t] = "idle" /\ loc[t] = Idle
      /\ \A r \in Requests : task[r] = NoTask
  BY Zenon DEF Init
<1>2. InRing = <<>>
  <2>1. (0 - 0 + Size) % Size = 0 BY SlotFacts
  <2>2. InRing = [i \in 1 .. 0 |-> events[(0 + i - 1) % Size]] BY <1>1, <2>1 DEF InRing
  <2>. QED BY <2>2
<1>3. Len(<<>>) = 0 /\ Objs(<<>>) = {} /\ \A m : RingOK(<<>>, m) BY DEF Objs, RingOK
<1>4. Live = {}
  <2>1. ~NoTask.live BY DEF NoTask
  <2>. QED BY <1>1, <2>1, Zenon DEF Live
<1>5. ASSUME NEW u \in Threads PROVE CallInv(u) /\ SegInv(u) /\ SlotInv(u)
  <2>1. pc[u] = "idle" /\ loc[u].ios = <<>> BY <1>1, IdleTyped, Zenon
  <2>2. pc[u] \in {"idle", "get"} BY <2>1, Zenon
  <2>3. Call(pc[u], loc[u], Live, Objs(InRing), Len(InRing)) BY <2>1, <2>2, CallIdle
  <2>4. pc[u] \notin {"io", "write", "tail", "advance"} BY <2>1
  <2>. QED BY <2>3, <2>4, Zenon DEF CallInv, SegInv, SlotInv
<1>6. QInv
  <2>1. events = [i \in Slots |-> events[i]] BY <1>1, Zenon
  <2>2. RingOK(InRing, moved) /\ Objs(InRing) = {} BY <1>2, <1>3, Zenon
  <2>3. \A u, v \in Threads : pc[u] # "idle" /\ pc[v] # "idle" => u = v BY <1>1, Zenon
  <2>. QED BY <1>4, <1>5, <2>1, <2>2, <2>3, Zenon DEF QInv
<1>7. Unread = {}
  <2>1. Unread = Objs(InRing) BY <1>6, ObjsIs, Zenon DEF QInv, Unread
  <2>. QED BY <1>2, <1>3, <2>1, Zenon
<1>8. Queue!Init BY <1>1, <1>2, <1>4, <1>7, Zenon DEF Queue!Init
<1>. QED BY <1>6, <1>8
=============================================================================
