----------------------------- MODULE AioTheorems -----------------------------
(***************************************************************************)
(* What AioProofs and AioQueueProofs come to, for any number of threads    *)
(* and requests, any size of the context and any buffers: no task is freed *)
(* while the system uses it, the count of tasks is exact with synchronous  *)
(* I/O, and with one call at a time the context is a queue of completions. *)
(***************************************************************************)
EXTENDS AioQueueProofs, FiniteSetTheorems

LEMMA Counts == Counting
<1>1. \A n \in Int : IsFiniteSet(1 .. n) BY FS_Interval
<1>2. ASSUME NEW S, IsFiniteSet(S)
      PROVE  /\ Cardinality(S) \in Nat /\ (Cardinality(S) = 0 <=> S = {})
             /\ \A T \in SUBSET S : IsFiniteSet(T)
             /\ \A x : x \notin S => IsFiniteSet(S \cup {x}) /\ Cardinality(S \cup {x}) = Cardinality(S) + 1
             /\ \A x \in S : Cardinality(S \ {x}) = Cardinality(S) - 1
  <2>1. Cardinality(S) \in Nat /\ (Cardinality(S) = 0 <=> S = {}) BY <1>2, FS_CardinalityType, FS_EmptySet, Zenon
  <2>2. \A T \in SUBSET S : IsFiniteSet(T) BY <1>2, FS_Subset, Zenon
  <2>3. ASSUME NEW x, x \notin S
        PROVE  IsFiniteSet(S \cup {x}) /\ Cardinality(S \cup {x}) = Cardinality(S) + 1
    <3>1. IsFiniteSet(S \cup {x}) BY <1>2, FS_AddElement, Zenon
    <3>2. Cardinality(S \cup {x}) = IF x \in S THEN Cardinality(S) ELSE Cardinality(S) + 1
      BY <1>2, FS_AddElement, Zenon
    <3>. QED BY <2>3, <3>1, <3>2, Zenon
  <2>4. ASSUME NEW x \in S PROVE Cardinality(S \ {x}) = Cardinality(S) - 1
    <3>1. Cardinality(S \ {x}) = IF x \in S THEN Cardinality(S) - 1 ELSE Cardinality(S)
      BY <1>2, FS_RemoveElement, Zenon
    <3>. QED BY <3>1, Zenon
  <2>. QED BY <2>1, <2>2, <2>3, <2>4, Zenon
<1>3. ASSUME NEW S \in SUBSET Nat, S # {} PROVE \E n \in S : \A m \in S : n <= m
  <2>. DEFINE R == OpToRel(<, Nat)
  <2>1. IsWellFoundedOn(R, Nat) BY NatLessThanWellFounded, Zenon
  <2>. HIDE DEF R
  <2>2. \E n \in S : \A m \in S : ~(<<m, n>> \in R) BY <1>3, <2>1, WFMin, Zenon
  <2>3. PICK n \in S : \A m \in S : ~(<<m, n>> \in R) BY <2>2, Zenon
  <2>4. \A m \in S : m < n => <<m, n>> \in R BY Zenon DEF R, OpToRel
  <2>5. \A m \in S : ~(m < n) BY <2>3, <2>4, Zenon
  <2>. QED BY <2>5
<1>. QED BY <1>1, <1>2, <1>3, FS_EmptySet, Zenon DEF Counting

(***************************************************************************)
(* aio.c:247-264: a task whose OVERLAPPED the system still uses is never   *)
(* freed, whatever clients do and whether or not the handle is overlapped: *)
(* the count of a vectored task keeps a reference for every segment in the *)
(* background, so the submitter that aborts sees it.                       *)
(***************************************************************************)
THEOREM PendingAlwaysKept == ASSUME AioAssumption PROVE Spec => []PendingKept
<1>. AioFacts BY Counts, Zenon DEF AioFacts
<1>1. Init => TaskInv /\ RingTypes BY TaskInit, Zenon
<1>2. TaskInv /\ RingTypes /\ [Next]_vars => TaskInv' /\ RingTypes' BY TaskNext, Zenon
<1>3. TaskInv => PendingKept BY Zenon DEF TaskInv
<1>. QED BY <1>1, <1>2, <1>3, PTL DEF Spec

-----------------------------------------------------------------------------
(***************************************************************************)
(* Synchronous I/O: what the calls hold is all there is.                   *)
(***************************************************************************)
\* With synchronous I/O every task is in the hands of a call.
HeldInv ==
    /\ \A r \in Requests : pending[r] = {}
    /\ \A r \in Requests : task[r].live => \E t \in Threads : pc[t] \in Holding /\ Mine(t) = r
CountInv ==
    /\ iocount = Cardinality(Live) /\ iocount <= Size
    /\ \A t \in Threads : pc[t] = "cas" => loc[t].count < Size

LEMMA LiveFacts ==
    ASSUME AioFacts
    PROVE  Live \subseteq Requests /\ IsFiniteSet(Live) /\ Cardinality(Live) \in Nat
<1>1. Live \subseteq Requests BY Zenon DEF Live
<1>2. IsFiniteSet(Live) BY <1>1, Zenon DEF AioFacts, AioAssumption, Counting
<1>. QED BY <1>1, <1>2, Zenon DEF AioFacts, Counting

LEMMA Added ==
    ASSUME AioFacts, NEW S, IsFiniteSet(S), NEW x, x \notin S
    PROVE  Cardinality(S \cup {x}) = Cardinality(S) + 1
BY Zenon DEF AioFacts, Counting

LEMMA Removed ==
    ASSUME AioFacts, NEW S, IsFiniteSet(S), NEW x \in S
    PROVE  Cardinality(S \ {x}) = Cardinality(S) - 1
BY Zenon DEF AioFacts, Counting

(* A step that neither allocates a task nor frees one.                        *)
LEMMA HeldSteady ==
    ASSUME HeldInv, CountInv, NEW t \in Threads,
           \A u \in Threads \ {t} : pc'[u] = pc[u] /\ loc'[u] = loc[u],
           pending' = pending, iocount' = iocount,
           \A r \in Requests : task'[r].live <=> task[r].live,
           pc[t] \in Holding => pc'[t] \in Holding /\ Mine(t)' = Mine(t),
           pc'[t] = "cas" => loc'[t].count < Size
    PROVE  HeldInv' /\ CountInv'
<1>1. Live' = Live BY Zenon DEF Live
<1>2. CountInv'
  <2>1. iocount' = Cardinality(Live') /\ iocount' <= Size BY <1>1, Zenon DEF CountInv
  <2>2. \A u \in Threads : pc'[u] = "cas" => loc'[u].count < Size BY Zenon DEF CountInv
  <2>. QED BY <2>1, <2>2, Zenon DEF CountInv
<1>3. ASSUME NEW r \in Requests, task'[r].live
      PROVE  \E u \in Threads : pc'[u] \in Holding /\ Mine(u)' = r
  <2>1. PICK u \in Threads : pc[u] \in Holding /\ Mine(u) = r BY <1>3, Zenon DEF HeldInv
  <2>2. CASE u = t BY <2>1, <2>2, Zenon
  <2>3. CASE u # t BY <2>1, <2>3, Zenon DEF Mine
  <2>. QED BY <2>2, <2>3
<1>4. \A r \in Requests : pending'[r] = {} BY Zenon DEF HeldInv
<1>. QED BY <1>2, <1>3, <1>4, Zenon DEF HeldInv

(* wpdk_aio_allocate has counted a task in.                                   *)
LEMMA HeldTake ==
    ASSUME AioFacts, TaskInv, HeldInv, CountInv, NEW t \in Threads,
           \A u \in Threads \ {t} : pc'[u] = pc[u] /\ loc'[u] = loc[u],
           pending' = pending, iocount' = iocount + 1, iocount < Size,
           pc[t] = "cas", pc'[t] = "io", Mine(t)' = Mine(t),
           task' = [task EXCEPT ![Mine(t)] = NewTask(Mine(t))]
    PROVE  HeldInv' /\ CountInv'
<1>. DEFINE r == Mine(t)
<1>1. "cas" \in Labels \ {"idle", "get", "next"} /\ "cas" \in Before /\ "io" \in Holding /\ "cas" \notin Holding
      /\ "io" # "cas"
  BY DEF Labels, Before, Holding
<1>2. r \in Requests /\ PlaceInv(t) /\ loc[t].i \in 1 .. Len(loc[t].ios) BY <1>1, InPlace, Zenon
<1>3. ~task[r].live BY <1>1, <1>2, Zenon DEF PlaceInv, Mine
<1>4. NewTask(r).live /\ task = [q \in Requests |-> task[q]] BY <1>2, TaskParts, Zenon DEF TaskInv, AioTypes
<1>5. task'[r].live /\ \A q \in Requests \ {r} : task'[q] = task[q]
  <2>1. task'[r] = NewTask(r) /\ \A q \in Requests \ {r} : task'[q] = task[q] BY <1>2, <1>4
  <2>. QED BY <1>4, <2>1, Zenon
<1>6. Live' = Live \cup {r} /\ r \notin Live BY <1>2, <1>3, <1>5 DEF Live
<1>. HIDE DEF r
<1>7. CountInv'
  <2>1. Cardinality(Live') = Cardinality(Live) + 1 BY <1>6, LiveFacts, Added, Zenon
  <2>2. iocount = Cardinality(Live) BY Zenon DEF CountInv
  <2>3. iocount' = Cardinality(Live') BY <2>1, <2>2, Zenon
  <2>4. iocount' <= Size
    <3>1. iocount \in Int /\ Size \in Int BY SlotFacts DEF TaskInv, AioTypes
    <3>. QED BY <3>1
  <2>5. \A u \in Threads : pc'[u] = "cas" => loc'[u].count < Size BY <1>1, Zenon DEF CountInv
  <2>. QED BY <2>3, <2>4, <2>5, Zenon DEF CountInv
<1>8. ASSUME NEW q \in Requests, task'[q].live
      PROVE  \E u \in Threads : pc'[u] \in Holding /\ Mine(u)' = q
  <2>1. CASE q = r BY <1>1, <2>1, Zenon DEF r
  <2>2. CASE q # r
    <3>1. PICK u \in Threads : pc[u] \in Holding /\ Mine(u) = q BY <1>5, <1>8, <2>2, Zenon DEF HeldInv
    <3>2. u # t BY <1>1, <3>1, Zenon
    <3>. QED BY <3>1, <3>2, Zenon DEF Mine
  <2>. QED BY <2>1, <2>2
<1>9. \A q \in Requests : pending'[q] = {} BY Zenon DEF HeldInv
<1>. QED BY <1>7, <1>8, <1>9, Zenon DEF HeldInv

(* A task is freed, by the call that has it.                                  *)
LEMMA HeldGive ==
    ASSUME AioFacts, TaskInv, HeldInv, CountInv, NEW t \in Threads,
           \A u \in Threads \ {t} : pc'[u] = pc[u] /\ loc'[u] = loc[u],
           pending' = pending, iocount' = iocount - 1,
           pc[t] \in Holding, pc'[t] # "cas",
           task' = [task EXCEPT ![Mine(t)] = NoTask]
    PROVE  HeldInv' /\ CountInv'
<1>. DEFINE r == Mine(t)
<1>1. pc[t] \in Labels \ {"idle", "get", "next"} BY DEF Labels, Holding
<1>2. r \in Requests /\ PlaceInv(t) BY <1>1, InPlace, Zenon
<1>3. task[r].live BY <1>2, Zenon DEF PlaceInv
<1>4. ~NoTask.live /\ task = [q \in Requests |-> task[q]] BY <1>2, TaskParts, Zenon DEF TaskInv, AioTypes
<1>5. ~task'[r].live /\ \A q \in Requests \ {r} : task'[q] = task[q]
  <2>1. task'[r] = NoTask /\ \A q \in Requests \ {r} : task'[q] = task[q] BY <1>2, <1>4
  <2>. QED BY <1>4, <2>1, Zenon
<1>6. Live' = Live \ {r} /\ r \in Live BY <1>2, <1>3, <1>5 DEF Live
<1>. HIDE DEF r
<1>7. CountInv'
  <2>1. Cardinality(Live') = Cardinality(Live) - 1 BY <1>6, LiveFacts, Removed, Zenon
  <2>2. iocount = Cardinality(Live) /\ iocount <= Size BY Zenon DEF CountInv
  <2>3. iocount' = Cardinality(Live') BY <2>1, <2>2, Zenon
  <2>4. iocount' <= Size
    <3>1. iocount \in Int /\ Size \in Int BY SlotFacts DEF TaskInv, AioTypes
    <3>. QED BY <2>2, <3>1
  <2>5. \A u \in Threads : pc'[u] = "cas" => loc'[u].count < Size BY Zenon DEF CountInv
  <2>. QED BY <2>3, <2>4, <2>5, Zenon DEF CountInv
<1>8. ASSUME NEW q \in Requests, task'[q].live
      PROVE  \E u \in Threads : pc'[u] \in Holding /\ Mine(u)' = q
  <2>1. q # r BY <1>5, <1>8, Zenon
  <2>2. PICK u \in Threads : pc[u] \in Holding /\ Mine(u) = q BY <1>5, <1>8, <2>1, Zenon DEF HeldInv
  <2>3. u # t BY <2>1, <2>2, Zenon DEF r
  <2>. QED BY <2>2, <2>3, Zenon DEF Mine
<1>9. \A q \in Requests : pending'[q] = {} BY Zenon DEF HeldInv
<1>. QED BY <1>7, <1>8, <1>9, Zenon DEF HeldInv

(* Steps of a call that holds no task.                                        *)
LEMMA HeldOutside ==
    ASSUME AioFacts, TaskInv, HeldInv, CountInv, NEW t \in Threads,
           \/ Submit(t) \/ NextIocb(t) \/ AllocateFails(t) \/ ReadIocount(t)
           \/ Getevents(t) \/ TakeEvent(t)
    PROVE  HeldInv' /\ CountInv'
<1>0. \A u \in Threads \ {t} : pc'[u] = pc[u] /\ loc'[u] = loc[u] BY StepFrame, Zenon DEF Step
<1>1. UNCHANGED <<iocount, task, pending>>
  BY Zenon DEF Submit, NextIocb, AllocateFails, ReadIocount, Getevents, TakeEvent, device
<1>2. pc[t] \in {"idle", "next", "count", "get"} /\ pc[t] \notin Holding
  <2>1. pc[t] \in {"idle", "next", "count", "get"}
    BY Zenon DEF Submit, NextIocb, AllocateFails, ReadIocount, Getevents, TakeEvent
  <2>. QED BY <2>1 DEF Holding
<1>3. pc \in [Threads -> Labels] /\ loc[t] \in Locals /\ loc \in [Threads -> Locals] /\ iocount \in Int
  BY Zenon DEF TaskInv, AioTypes
<1>4. pc'[t] = "cas" => loc'[t].count < Size
  <2>1. CASE ReadIocount(t) /\ iocount < Size
    <3>1. loc'[t] = [loc[t] EXCEPT !.count = iocount] BY <1>3, <2>1, SlotFacts DEF ReadIocount, Set
    <3>. QED BY <1>3, <2>1, <3>1 DEF Locals
  <2>2. CASE ~(ReadIocount(t) /\ iocount < Size)
    <3>1. ReadIocount(t) => iocount >= Size BY <1>3, <2>2, SlotFacts
    <3>2. pc' = pc \/ \E l \in {"idle", "next", "count", "get"} : Goto(t, l)
      BY <3>1, Zenon DEF Submit, NextIocb, AllocateFails, ReadIocount, Getevents, TakeEvent, Return, Stop
    <3>3. pc'[t] \in {"idle", "next", "count", "get"} BY <1>2, <1>3, <3>2, Zenon DEF Goto
    <3>. QED BY <3>3
  <2>. QED BY <2>1, <2>2, Zenon
<1>. QED BY <1>0, <1>1, <1>2, <1>4, HeldSteady, Zenon

LEMMA HeldWithin ==
    ASSUME AioFacts, TaskInv, HeldInv, CountInv, NEW t \in Threads,
           Transfer(t) \/ WriteEvent(t) \/ ReadTail(t) \/ AdvanceTail(t)
    PROVE  HeldInv' /\ CountInv'
<1>0. \A u \in Threads \ {t} : pc'[u] = pc[u] /\ loc'[u] = loc[u] BY StepFrame, Zenon DEF Step
<1>1. UNCHANGED <<iocount, pending>>
  BY Zenon DEF Transfer, WriteEvent, ReadTail, AdvanceTail, device
<1>2. pc[t] \in Labels \ {"idle", "get", "next"} BY DEF Transfer, WriteEvent, ReadTail, AdvanceTail, Labels, Holding
<1>3. /\ pc \in [Threads -> Labels] /\ loc[t] \in Locals /\ loc \in [Threads -> Locals]
      /\ Mine(t) \in Requests /\ PlaceInv(t)
  BY <1>2, InPlace, Zenon DEF TaskInv, AioTypes
<1>4. /\ pc'[t] \in Holding /\ Mine(t)' = Mine(t)
      /\ \A r \in Requests : task'[r].live <=> task[r].live
  <2>1. CASE WriteEvent(t) \/ ReadTail(t) \/ AdvanceTail(t)
    <3>1. pc'[t] \in {"tail", "advance", "free"} /\ task' = task
      BY <1>3, <2>1, Zenon DEF WriteEvent, ReadTail, AdvanceTail, Goto
    <3>2. \A n : [loc[t] EXCEPT !.at = n].ios = loc[t].ios /\ [loc[t] EXCEPT !.at = n].i = loc[t].i
      BY <1>3 DEF Locals
    <3>3. loc'[t].ios = loc[t].ios /\ loc'[t].i = loc[t].i
      BY <1>3, <2>1, <3>2, ZenonT(30) DEF WriteEvent, ReadTail, AdvanceTail, Set
    <3>4. pc'[t] \in Holding BY <3>1 DEF Holding
    <3>. QED BY <3>1, <3>3, <3>4, Zenon DEF Mine
  <2>2. CASE Transfer(t)
    <3>1. pending[Mine(t)] = {} /\ pc[t] = "io" /\ "io" \in Holding /\ "write" \in Holding
      BY <1>3, <2>2, Zenon DEF HeldInv, Transfer, Holding
    <3>2. PICK n, k : /\ k \in TaskOf(Mine(t)) /\ task' = [task EXCEPT ![Mine(t)] = k]
                      /\ Ends(t, n, k) \/ Continues(t, n, k)
      BY <2>2, <3>1, TransferIs, Zenon
    <3>3. pc'[t] \in Holding
      <4>1. CASE Ends(t, n, k) BY <1>3, <3>1, <4>1, Zenon DEF Ends, Goto
      <4>2. CASE Continues(t, n, k) BY <3>1, <4>2, Zenon DEF Continues
      <4>. QED BY <3>2, <4>1, <4>2, Zenon
    <3>4. Mine(t)' = Mine(t)
      <4>1. \E x : loc'[t] = [loc[t] EXCEPT !.res = x] \/ loc'[t] = [loc[t] EXCEPT !.seg = x]
        BY <1>3, <3>2, Zenon DEF Ends, Continues, Set
      <4>2. loc'[t].ios = loc[t].ios /\ loc'[t].i = loc[t].i BY <1>3, <4>1 DEF Locals
      <4>. QED BY <4>2, Zenon DEF Mine
    <3>5. task[Mine(t)].live BY <1>3, <3>1, Zenon DEF PlaceInv
    <3>6. k.live
      <4>1. k.live \in {TRUE} BY <3>2 DEF TaskOf
      <4>. QED BY <4>1, Zenon
    <3>7. \A r \in Requests : task'[r].live <=> task[r].live
      <4>1. task = [q \in Requests |-> task[q]] BY Zenon DEF TaskInv, AioTypes
      <4>2. task'[Mine(t)] = k /\ \A r \in Requests \ {Mine(t)} : task'[r] = task[r] BY <1>3, <3>2, <4>1
      <4>. QED BY <3>5, <3>6, <4>2, Zenon
    <3>. QED BY <3>3, <3>4, <3>7, Zenon
  <2>. QED BY <2>1, <2>2, Zenon
<1>5. pc'[t] # "cas" BY <1>4 DEF Holding
<1>. QED BY <1>0, <1>1, <1>4, <1>5, HeldSteady, Zenon

LEMMA HeldNext ==
    ASSUME AioFacts, ~Overlapped, TaskInv, HeldInv, CountInv, [Next]_vars
    PROVE  HeldInv' /\ CountInv'
<1>1. ASSUME NEW t \in Threads, Step(t) PROVE HeldInv' /\ CountInv'
  <2>0. \A u \in Threads \ {t} : pc'[u] = pc[u] /\ loc'[u] = loc[u] BY <1>1, StepFrame, Zenon
  <2>a. pc \in [Threads -> Labels] /\ loc \in [Threads -> Locals] /\ loc[t] \in Locals
    BY Zenon DEF TaskInv, AioTypes
  <2>1. CASE IncrementIocount(t)
    <3>1. pc[t] = "cas" /\ pc[t] \in Labels \ {"idle", "get", "next"} /\ pc[t] \notin Holding
          /\ pending' = pending
      BY <2>1 DEF IncrementIocount, Labels, Before, Holding
    <3>2. CASE iocount # loc[t].count
      <4>1. UNCHANGED <<iocount, task>> /\ pc'[t] = "count" /\ "count" # "cas"
        BY <2>1, <2>a, <3>2, Zenon DEF IncrementIocount, Goto
      <4>. QED BY <2>0, <3>1, <4>1, HeldSteady, Zenon
    <3>3. CASE iocount = loc[t].count
      <4>1. /\ iocount' = iocount + 1 /\ task' = [task EXCEPT ![Mine(t)] = NewTask(Mine(t))]
            /\ pc'[t] = "io" /\ loc'[t] = [loc[t] EXCEPT !.seg = 1]
        BY <2>1, <2>a, <3>3, Zenon DEF IncrementIocount, Goto, Set
      <4>2. loc'[t].ios = loc[t].ios /\ loc'[t].i = loc[t].i BY <2>a, <4>1 DEF Locals
      <4>3. Mine(t)' = Mine(t) BY <4>2, Zenon DEF Mine
      <4>4. iocount < Size BY <3>1, <3>3, Zenon DEF CountInv
      <4>. QED BY <2>0, <3>1, <4>1, <4>3, <4>4, HeldTake, Zenon
    <3>. QED BY <3>2, <3>3
  <2>2. CASE Abort(t)
    <3>1. pc[t] = "io" /\ pc[t] \in Holding /\ pc[t] \in Labels \ {"idle", "get", "next"} /\ pending' = pending
      BY <2>2 DEF Abort, Holding, Labels, device
    <3>2. pending[Mine(t)] = {} BY <3>1, InPlace, Zenon DEF HeldInv
    <3>3. task' = [task EXCEPT ![Mine(t)] = NoTask] /\ iocount' = iocount - 1 /\ Stop(t)
      BY <2>2, <3>2, AbortIs, Zenon
    <3>4. pc'[t] = "idle" /\ "idle" # "cas" BY <2>a, <3>3, Zenon DEF Stop, Return, Goto
    <3>. QED BY <2>0, <3>1, <3>3, <3>4, HeldGive, Zenon
  <2>3. CASE FreeTask(t)
    <3>1. /\ pc[t] \in Holding /\ pending' = pending /\ iocount' = iocount - 1
          /\ task' = [task EXCEPT ![Mine(t)] = NoTask]
      BY <2>3, Zenon DEF FreeTask, Holding, device
    <3>2. pc'[t] = "next" /\ "next" # "cas" BY <2>a, <2>3, Zenon DEF FreeTask, Started, Goto
    <3>. QED BY <2>0, <3>1, <3>2, HeldGive, Zenon
  <2>4. ~Pending(t) BY Zenon DEF Pending
  <2>. QED BY <1>1, <2>1, <2>2, <2>3, <2>4, HeldOutside, HeldWithin, Zenon DEF Step
<1>2. CASE Setup \/ Destroy
  <2>1. UNCHANGED <<pc, loc, task, pending>> /\ (iocount' = 0 \/ iocount' = iocount)
        /\ \A u \in Threads : pc[u] = "idle"
    BY <1>2, Zenon DEF Setup, Destroy, device
  <2>2. Live = {}
    <3>1. \A u \in Threads : pc[u] \notin Holding BY <2>1 DEF Holding
    <3>. QED BY <3>1, Zenon DEF HeldInv, Live
  <2>3. iocount = 0 BY <2>2, Zenon DEF CountInv, AioFacts, Counting
  <2>4. Live' = Live BY <2>1, Zenon DEF Live
  <2>. QED BY <2>1, <2>3, <2>4, Zenon DEF HeldInv, CountInv, Mine
<1>3. CASE UNCHANGED vars
  <2>1. UNCHANGED <<pc, loc, task, pending, iocount>> BY <1>3, Zenon DEF vars
  <2>2. Live' = Live BY <2>1, Zenon DEF Live
  <2>. QED BY <2>1, <2>2, Zenon DEF HeldInv, CountInv, Mine
<1>. QED BY <1>1, <1>2, <1>3, Zenon DEF Next, Step

LEMMA HeldInit == ASSUME AioFacts, Init PROVE HeldInv /\ CountInv
<1>1. /\ \A r \in Requests : task[r] = NoTask /\ pending[r] = {}
      /\ iocount = 0 /\ \A t \in Threads : pc[t] = "idle" /\ "idle" # "cas"
  BY Zenon DEF Init
<1>2. ~NoTask.live BY DEF NoTask
<1>3. Live = {} BY <1>1, <1>2, Zenon DEF Live
<1>4. Cardinality(Live) = 0 /\ 0 <= Size
  <2>1. Cardinality(Live) = 0 BY <1>3, Zenon DEF AioFacts, Counting
  <2>. QED BY <2>1, SlotFacts
<1>. QED BY <1>1, <1>2, <1>4, Zenon DEF HeldInv, CountInv

(***************************************************************************)
(* aio.c:111: with synchronous I/O, and any number of threads submitting   *)
(* and reading events as they like, the counter taken with compare-and-    *)
(* swap is the number of tasks allocated and not freed, and never passes   *)
(* the size of the context.                                                *)
(***************************************************************************)
THEOREM IocountAlwaysExact == ASSUME AioAssumption, ~Overlapped PROVE Spec => []IocountExact
<1>. AioFacts BY Counts, Zenon DEF AioFacts
<1>1. Init => TaskInv /\ RingTypes /\ HeldInv /\ CountInv BY TaskInit, HeldInit, Zenon
<1>2. TaskInv /\ RingTypes /\ HeldInv /\ CountInv /\ [Next]_vars =>
        TaskInv' /\ RingTypes' /\ HeldInv' /\ CountInv'
  BY TaskNext, HeldNext, Zenon
<1>3. CountInv => IocountExact BY Zenon DEF CountInv, IocountExact
<1>. QED BY <1>1, <1>2, <1>3, PTL DEF Spec

(***************************************************************************)
(* aio.c:106: io_destroy waits for nothing; with synchronous I/O a context *)
(* that no call is using has no task left, whatever failed before.         *)
(***************************************************************************)
THEOREM DestroyAlwaysClean == ASSUME AioAssumption, ~Overlapped PROVE Spec => []DestroyClean
<1>. AioFacts BY Counts, Zenon DEF AioFacts
<1>1. Init => TaskInv /\ RingTypes /\ HeldInv /\ CountInv BY TaskInit, HeldInit, Zenon
<1>2. TaskInv /\ RingTypes /\ HeldInv /\ CountInv /\ [Next]_vars =>
        TaskInv' /\ RingTypes' /\ HeldInv' /\ CountInv'
  BY TaskNext, HeldNext, Zenon
<1>3. HeldInv /\ CountInv => DestroyClean
  <2>1. SUFFICES ASSUME HeldInv, CountInv, \A t \in Threads : pc[t] = "idle"
                 PROVE  Live = {} /\ iocount = 0
    BY Zenon DEF DestroyClean
  <2>2. \A t \in Threads : pc[t] \notin Holding BY <2>1 DEF Holding
  <2>3. Live = {} BY <2>1, <2>2, Zenon DEF HeldInv, Live
  <2>. QED BY <2>1, <2>3, FS_EmptySet, Zenon DEF CountInv
<1>. QED BY <1>1, <1>2, <1>3, PTL DEF Spec

-----------------------------------------------------------------------------
(***************************************************************************)
(* With one call at a time and fewer than Size completions unread, the     *)
(* context is a queue of completions: a request begun completes once or    *)
(* fails without a trace, and io_getevents hands the completions out in    *)
(* order, each once, with a length the request allows.                     *)
(***************************************************************************)
THEOREM ContextIsQueue == ASSUME AioAssumption, Serial, Quota PROVE Spec => ImplementsQueue
<1>. AioFacts BY Counts, Zenon DEF AioFacts
<1>1. Init => TaskInv /\ RingTypes /\ QInv /\ Queue!Init BY TaskInit, QInit, Zenon
<1>2. TaskInv /\ RingTypes /\ QInv /\ [Next]_vars => TaskInv' /\ RingTypes' /\ QInv' BY TaskNext, QNext, Zenon
<1>3. TaskInv /\ RingTypes /\ QInv /\ [Next]_vars => [Queue!Next]_(Queue!vars)
  <2>1. TaskInv /\ RingTypes /\ QInv /\ [Next]_vars => Sim BY QNext, Zenon
  <2>. QED BY <2>1, Zenon DEF Sim
<1>. QED BY <1>1, <1>2, <1>3, PTL DEF Spec, ImplementsQueue, Queue!Spec

(***************************************************************************)
(* aio.c:198-227: under the same discipline the length an event reports is *)
(* the number of bytes moved for its request, whichever segment came up    *)
(* short.                                                                  *)
(***************************************************************************)
THEOREM ResultsAlwaysExact == ASSUME AioAssumption, Serial, Quota PROVE Spec => []ResultExact
<1>. AioFacts BY Counts, Zenon DEF AioFacts
<1>1. Init => TaskInv /\ RingTypes /\ QInv BY TaskInit, QInit, Zenon
<1>2. TaskInv /\ RingTypes /\ QInv /\ [Next]_vars => TaskInv' /\ RingTypes' /\ QInv' BY TaskNext, QNext, Zenon
<1>3. QInv => ResultExact
  <2>1. SUFFICES ASSUME QInv PROVE ResultExact OBVIOUS
  <2>2. RingOK(InRing, moved) BY <2>1, Zenon DEF QInv
  <2>3. DOMAIN InRing = 1 .. Len(InRing) BY <2>2, ObjsIs, Zenon
  <2>. QED BY <2>2, <2>3, Zenon DEF RingOK, ResultExact
<1>. QED BY <1>1, <1>2, <1>3, PTL DEF Spec

(* A call returns from its loop, from a failure, or with the events it took.  *)
LEMMA Returns ==
    ASSUME TaskInv, NEW t \in Threads, NEW u \in Threads, Step(u), pc[t] # "idle", pc'[t] = "idle"
    PROVE  NextIocb(t) \/ AllocateFails(t) \/ ReadIocount(t) \/ Abort(t) \/ TakeEvent(t)
<1>1. pc \in [Threads -> Labels] BY Zenon DEF TaskInv, AioTypes
<1>2. u = t
  <2>1. u # t => pc'[t] = pc[t] BY StepFrame, Zenon
  <2>. QED BY <2>1, Zenon
<1>3. ASSUME NEW l, Goto(t, l) PROVE pc'[t] = l BY <1>1, <1>3, Zenon DEF Goto
<1>4. pc' # pc BY Zenon
<1>5. ~(\E l \in Labels \ {"idle"} : Goto(t, l)) BY <1>3, Zenon
<1>6. /\ ~Goto(t, "next") /\ ~Goto(t, "get") /\ ~Goto(t, "tail") /\ ~Goto(t, "advance")
      /\ ~Goto(t, "free") /\ ~Goto(t, "count") /\ ~Goto(t, "io") /\ ~Goto(t, "write")
  BY <1>5 DEF Labels, Before, Holding
<1>7. ~Submit(t) /\ ~Getevents(t) /\ ~WriteEvent(t) /\ ~ReadTail(t) /\ ~AdvanceTail(t)
  BY <1>6, Zenon DEF Submit, Getevents, WriteEvent, ReadTail, AdvanceTail
<1>8. ~FreeTask(t) /\ ~IncrementIocount(t)
  BY <1>6, Zenon DEF FreeTask, IncrementIocount, Started
<1>9. \A k, c : ~IovDone(t, k, c) BY <1>6, Zenon DEF IovDone, Started
<1>10. ~Transfer(t) /\ ~Pending(t)
  <2>1. \A n : ~TransferVector(t, n) BY <1>4, <1>9, Zenon DEF TransferVector
  <2>. QED BY <1>4, <1>6, <1>9, <2>1, Zenon DEF Transfer, Pending, Started
<1>. QED BY <1>2, <1>7, <1>8, <1>10, Zenon DEF Step

(* What a call of io_submit that stops before c has left.                     *)
LEMMA Reports ==
    ASSUME TaskInv, NEW t \in Threads, NEW n, Return(t, n),
           NEW O, Live' \cup Unread' = Live' \cup O, NEW c,
           \A j \in 1 .. Len(loc[t].ios) :
               /\ j <= n <=> j < c
               /\ j < c => loc[t].ios[j] \in Live' \cup O
               /\ ~(j < c) => loc[t].ios[j] \notin Live' \cup O
    PROVE  \A j \in DOMAIN loc[t].ios : j <= loc'[t].ret <=> loc[t].ios[j] \in Live' \cup Unread'
<1>1. loc \in [Threads -> Locals] /\ loc[t] \in Locals BY Zenon DEF TaskInv, AioTypes
<1>2. DOMAIN loc[t].ios = 1 .. Len(loc[t].ios) BY <1>1 DEF Locals
<1>3. loc'[t] = [Idle EXCEPT !.ret = n] BY <1>1, Zenon DEF Return, Set
<1>4. loc'[t].ret = n BY <1>3 DEF Idle
<1>. QED BY <1>2, <1>4, Zenon

(* A call that ends without its request at hand.                              *)
LEMMA StopReports ==
    ASSUME AioFacts, TaskInv, QInv, NEW t \in Threads, NEW n, Return(t, n), pc[t] \in Before \cup {"io"},
           Live' \cup Unread' = Live' \cup Objs(InRing),
           \/ Live' = Live /\ pc[t] \in Before
           \/ Live' = Live \ {Mine(t)} /\ pc[t] = "io",
           \/ n = IF loc[t].i = 1 THEN -1 ELSE loc[t].i - 1
           \/ n = Len(loc[t].ios) /\ loc[t].i > Len(loc[t].ios)
    PROVE  \A j \in DOMAIN loc[t].ios : j <= loc'[t].ret <=> loc[t].ios[j] \in Live' \cup Unread'
<1>. DEFINE l == loc[t]
<1>1. l \in Locals /\ PlaceInv(t) /\ pc[t] # "free" BY Zenon DEF TaskInv, AioTypes, Before
<1>2. Call(pc[t], l, Live, Objs(InRing), Len(InRing)) BY Zenon DEF QInv, CallInv
<1>3. l.i \in Int /\ Len(l.ios) \in Nat /\ l.i \in 1 .. Len(l.ios) + 1 /\ l.ios \in Seq(Requests)
  <2>1. l.i \in Int /\ Len(l.ios) \in Nat /\ l.ios \in Seq(Requests) BY <1>1 DEF Locals
  <2>2. CASE pc[t] = "next" BY <1>1, <2>1, <2>2, Zenon DEF PlaceInv
  <2>3. CASE pc[t] # "next"
    <3>1. pc[t] \in Labels \ {"idle", "get", "next"} BY <2>3 DEF Labels, Before, Holding
    <3>2. l.i \in 1 .. Len(l.ios) BY <1>1, <3>1, Zenon DEF PlaceInv
    <3>. QED BY <2>1, <3>2
  <2>. QED BY <2>2, <2>3
<1>4. ASSUME NEW j \in 1 .. Len(l.ios)
      PROVE  /\ j <= n <=> j < l.i
             /\ j < l.i => l.ios[j] \in Live' \cup Objs(InRing)
             /\ ~(j < l.i) => l.ios[j] \notin Live' \cup Objs(InRing)
  <2>1. j <= n <=> j < l.i BY <1>3
  <2>2. ASSUME j < l.i PROVE l.ios[j] \in Live' \cup Objs(InRing)
    <3>1. l.ios[j] \in Live \cup Objs(InRing) BY <1>2, <2>2, Zenon DEF Call
    <3>2. CASE Live' = Live BY <3>1, <3>2
    <3>3. CASE Live' = Live \ {Mine(t)} /\ pc[t] = "io"
      <4>1. pc[t] \in Labels \ {"idle", "get", "next"} BY <3>3 DEF Labels, Holding
      <4>2. Mine(t) = l.ios[l.i] /\ Distinct(l) BY <4>1, CallFacts, Zenon
      <4>3. j # l.i BY <1>3, <2>2
      <4>4. l.ios[j] # Mine(t) BY <4>2, <4>3, Zenon DEF Distinct
      <4>. QED BY <3>1, <3>3, <4>4, Zenon
    <3>. QED BY <3>2, <3>3
  <2>3. ASSUME ~(j < l.i) PROVE l.ios[j] \notin Live' \cup Objs(InRing)
    <3>1. j > l.i \/ j = l.i BY <1>3, <2>3
    <3>2. l.ios[j] \notin Objs(InRing) BY <1>1, <1>2, <3>1, Zenon DEF Call
    <3>3. j > l.i \/ pc[t] \in Before => ~task[l.ios[j]].live BY <1>1, <3>1, Zenon DEF PlaceInv
    <3>4. l.ios[j] \notin Live'
      <4>1. j > l.i \/ pc[t] \in Before => l.ios[j] \notin Live BY <3>3, Zenon DEF Live
      <4>2. pc[t] = "io" => Live' = Live \ {l.ios[l.i]} BY Zenon DEF Mine, Before
      <4>3. Live' \subseteq Live BY Zenon
      <4>. QED BY <3>1, <4>1, <4>2, <4>3, Zenon
    <3>. QED BY <3>2, <3>4, Zenon
  <2>. QED BY <2>1, <2>2, <2>3, Zenon
<1>. HIDE DEF l
<1>. QED BY <1>4, Reports, Zenon DEF l

(* A segment in the background keeps the request that failed started.         *)
LEMMA KeptReports ==
    ASSUME AioFacts, TaskInv, QInv, NEW t \in Threads, pc[t] = "io", Return(t, loc[t].i),
           Live' = Live, Live' \cup Unread' = Live' \cup Objs(InRing)
    PROVE  \A j \in DOMAIN loc[t].ios : j <= loc'[t].ret <=> loc[t].ios[j] \in Live' \cup Unread'
<1>. DEFINE l == loc[t]
<1>1. pc[t] \in Labels \ {"idle", "get", "next"} /\ pc[t] \in Holding BY DEF Labels, Holding
<1>2. /\ Mine(t) = l.ios[l.i] /\ Mine(t) \in Requests /\ l.i \in 1 .. Len(l.ios) /\ Len(l.ios) \in Nat
      /\ Call(pc[t], l, Live, Objs(InRing), Len(InRing)) /\ PlaceInv(t)
  BY <1>1, CallFacts, Zenon DEF TaskInv
<1>3. Mine(t) \in Live BY <1>1, <1>2, Zenon DEF PlaceInv, Live
<1>4. ASSUME NEW j \in 1 .. Len(l.ios)
      PROVE  /\ j <= l.i <=> j < l.i + 1
             /\ j < l.i + 1 => l.ios[j] \in Live' \cup Objs(InRing)
             /\ ~(j < l.i + 1) => l.ios[j] \notin Live' \cup Objs(InRing)
  <2>1. (j <= l.i <=> j < l.i + 1) /\ (j < l.i + 1 => j < l.i \/ j = l.i) /\ (~(j < l.i + 1) => j > l.i) BY <1>2
  <2>2. j < l.i => l.ios[j] \in Live \cup Objs(InRing) BY <1>2, Zenon DEF Call
  <2>3. j = l.i => l.ios[j] \in Live BY <1>2, <1>3, Zenon
  <2>4. j > l.i => l.ios[j] \notin Objs(InRing) BY <1>2, Zenon DEF Call
  <2>5. j > l.i => l.ios[j] \notin Live BY <1>2, Zenon DEF PlaceInv, Live
  <2>. QED BY <2>1, <2>2, <2>3, <2>4, <2>5, Zenon
<1>. HIDE DEF l
<1>. QED BY <1>4, Reports, Zenon DEF l

LEMMA StepReports ==
    ASSUME AioFacts, Serial, Quota, TaskInv, RingTypes, QInv, [Next]_vars,
           NEW t \in Threads, pc[t] # "idle", pc'[t] = "idle"
    PROVE  \A j \in DOMAIN loc[t].ios : j <= loc'[t].ret <=> loc[t].ios[j] \in Live' \cup Unread'
<1>1. PICK u \in Threads : Step(u)
  <2>1. ~Setup /\ ~Destroy /\ vars' # vars BY Zenon DEF Setup, Destroy, vars
  <2>. QED BY <2>1, Zenon DEF Next, Step
<1>2. NextIocb(t) \/ AllocateFails(t) \/ ReadIocount(t) \/ Abort(t) \/ TakeEvent(t) BY <1>1, Returns, Zenon
<1>3. QInv' BY QNext, Zenon
<1>4. Unread' = Objs(InRing')
  <2>1. RingOK(InRing', moved') BY <1>3, Zenon DEF QInv
  <2>. QED BY <2>1, ObjsIs, Zenon DEF Unread
<1>5. pc \in [Threads -> Labels] /\ loc[t] \in Locals BY Zenon DEF TaskInv, AioTypes
<1>6. CASE TakeEvent(t)
  <2>1. pc[t] \in {"idle", "get"} BY <1>6, Zenon DEF TakeEvent
  <2>2. loc[t].ios = <<>> BY <2>1, Zenon DEF TaskInv, PlaceInv
  <2>3. DOMAIN loc[t].ios = {} BY <2>2
  <2>. QED BY <2>3, Zenon
<1>7. CASE NextIocb(t) \/ AllocateFails(t) \/ ReadIocount(t)
  <2>1. UNCHANGED <<head, tail, events, task>> BY <1>7, Zenon DEF NextIocb, AllocateFails, ReadIocount
  <2>2. InRing' = InRing /\ Live' = Live BY <2>1, Zenon DEF InRing, Live
  <2>3. Live' \cup Unread' = Live' \cup Objs(InRing) BY <1>4, <2>2, Zenon
  <2>4. pc[t] \in Before /\ pc[t] \in Before \cup {"io"} BY <1>7 DEF NextIocb, AllocateFails, ReadIocount, Before
  <2>5. ~Goto(t, "count") /\ ~Goto(t, "cas") BY <1>5 DEF Goto
  <2>6. Stop(t) \/ (loc[t].i > Len(loc[t].ios) /\ Return(t, Len(loc[t].ios)))
    BY <1>7, <2>5, Zenon DEF NextIocb, AllocateFails, ReadIocount
  <2>7. CASE Stop(t)
    <3>. DEFINE n == IF loc[t].i = 1 THEN -1 ELSE loc[t].i - 1
    <3>1. Return(t, n) BY <2>7, Zenon DEF Stop
    <3>. QED BY <2>2, <2>3, <2>4, <3>1, StopReports, Zenon
  <2>8. CASE loc[t].i > Len(loc[t].ios) /\ Return(t, Len(loc[t].ios))
    BY <2>2, <2>3, <2>4, <2>8, StopReports, Zenon
  <2>. QED BY <2>6, <2>7, <2>8
<1>8. CASE Abort(t)
  <2>1. pc[t] = "io" /\ UNCHANGED <<head, tail, events>> BY <1>8, Zenon DEF Abort
  <2>2. InRing' = InRing BY <2>1, Zenon DEF InRing
  <2>3. Live' \cup Unread' = Live' \cup Objs(InRing) BY <1>4, <2>2, Zenon
  <2>4. pc[t] \in Before \cup {"io"} /\ pc[t] \in Labels \ {"idle", "get", "next"} /\ pc[t] \in Holding
    BY <2>1 DEF Labels, Holding
  <2>5. Mine(t) \in Requests /\ AioTypes /\ PlaceInv(t) BY <2>4, CallFacts, Zenon DEF TaskInv
  <2>6. Mine(t) \in Live BY <2>4, <2>5, Zenon DEF PlaceInv, Live
  <2>7. CASE Stop(t) /\ task' = [task EXCEPT ![Mine(t)] = NoTask]
    <3>. DEFINE n == IF loc[t].i = 1 THEN -1 ELSE loc[t].i - 1
    <3>1. Return(t, n) BY <2>7, Zenon DEF Stop
    <3>2. ~NoTask.live BY DEF NoTask
    <3>3. Live' = Live \ {Mine(t)} BY <2>5, <2>7, <3>2, TaskSet, Zenon
    <3>. QED BY <2>1, <2>3, <2>4, <3>1, <3>3, StopReports, Zenon
  <2>8. CASE Return(t, loc[t].i) /\ \E k \in TaskOf(Mine(t)) : task' = [task EXCEPT ![Mine(t)] = k]
    <3>1. Live' = Live BY <2>5, <2>6, <2>8, TaskStays, Zenon
    <3>. QED BY <2>1, <2>3, <2>8, <3>1, KeptReports, Zenon
  <2>. QED BY <1>8, <2>7, <2>8, AbortIs, Zenon
<1>. QED BY <1>2, <1>6, <1>7, <1>8, Zenon

(***************************************************************************)
(* aio.c:440: under the same discipline, when io_submit returns n exactly  *)
(* the first n requests have been started: each has a task or an event,    *)
(* and the others have left nothing.                                       *)
(***************************************************************************)
THEOREM SubmitAlwaysReports == ASSUME AioAssumption, Serial, Quota PROVE Spec => SubmitReports
<1>. AioFacts BY Counts, Zenon DEF AioFacts
<1>1. Init => TaskInv /\ RingTypes /\ QInv BY TaskInit, QInit, Zenon
<1>2. TaskInv /\ RingTypes /\ QInv /\ [Next]_vars => TaskInv' /\ RingTypes' /\ QInv' BY TaskNext, QNext, Zenon
<1>3. TaskInv /\ RingTypes /\ QInv /\ [Next]_vars =>
        [\A t \in Threads : pc[t] # "idle" /\ pc'[t] = "idle" =>
            \A i \in DOMAIN loc[t].ios : i <= loc'[t].ret <=> loc[t].ios[i] \in Live' \cup Unread']_vars
  BY StepReports, Zenon
<1>. QED BY <1>1, <1>2, <1>3, PTL DEF Spec, SubmitReports
=============================================================================
