------------------------------ MODULE AioProofs ------------------------------
(***************************************************************************)
(* The tasks of the context of asynchronous I/O, for any number of threads *)
(* and requests, any size of the context and any buffers: the lemmas about *)
(* rings, calls and sums, TaskInv, which every client keeps, and what the  *)
(* steps that do I/O come to.  AioTheorems draws the conclusions.          *)
(***************************************************************************)
EXTENDS AioContext, TLAPS

\* Completions of any length, from which None, an empty slot, differs.
Ev == [obj : Requests, res : Int]
AioAssumption ==
    /\ SizeAssumption /\ SegmentsAssumption /\ ClientAssumption
    /\ IsFiniteSet(Requests) /\ None \notin Ev

\* What is used of finite sets and of numbers.  AioTheorems takes it from the library's
\* theorems, once, which keeps these out of the proofs here.
Counting ==
    /\ IsFiniteSet({}) /\ Cardinality({}) = 0
    /\ \A n \in Int : IsFiniteSet(1 .. n)
    /\ \A S : IsFiniteSet(S) =>
        /\ Cardinality(S) \in Nat /\ (Cardinality(S) = 0 <=> S = {})
        /\ \A T \in SUBSET S : IsFiniteSet(T)
        /\ \A x : x \notin S => IsFiniteSet(S \cup {x}) /\ Cardinality(S \cup {x}) = Cardinality(S) + 1
        /\ \A x \in S : Cardinality(S \ {x}) = Cardinality(S) - 1
    /\ \A S \in SUBSET Nat : S # {} => \E n \in S : \A m \in S : n <= m
AioFacts == AioAssumption /\ Counting

Before == {"next", "count", "cas"}
Early == Before \cup {"io", "write", "tail", "advance"}
Holding == {"io", "write", "tail", "advance", "free"}
Labels == Before \cup Holding \cup {"idle", "get"}

TaskOf(r) ==
    [live : {TRUE}, active : Int, result : [1 .. Len(Segments[r]) -> Int],
     short : [1 .. Len(Segments[r]) -> BOOLEAN]]
Locals ==
    [ios : Seq(Requests), i : Int, seg : Int, count : Int, at : Int, res : Int, nr : Int, ret : Int]

AioTypes ==
    /\ context \in BOOLEAN /\ iocount \in Int
    /\ pc \in [Threads -> Labels] /\ loc \in [Threads -> Locals]
    /\ task = [r \in Requests |-> task[r]] /\ \A r \in Requests : task[r] \in TaskOf(r) \cup {NoTask}
    /\ pending \in [Requests -> SUBSET Nat] /\ moved \in [Requests -> Int]

\* No request is in two calls, or twice in one.
Apart ==
    \A t, u \in Threads : \A j \in 1 .. Len(loc[t].ios), k \in 1 .. Len(loc[u].ios) :
        loc[t].ios[j] = loc[u].ios[k] => t = u /\ j = k

\* Where a call of io_submit is among its requests: those to come have no task,
\* the one at hand has one from its allocation to its end.
PlaceInv(t) ==
    /\ pc[t] \in {"idle", "get"} => loc[t].ios = <<>>
    /\ pc[t] = "next" => loc[t].i \in 1 .. Len(loc[t].ios) + 1
    /\ pc[t] \in Labels \ {"idle", "get", "next"} =>
        loc[t].i \in 1 .. Len(loc[t].ios) /\ Acceptable(Mine(t))
    /\ \A j \in 1 .. Len(loc[t].ios) :
        j > loc[t].i \/ (j = loc[t].i /\ pc[t] \in Before) => ~task[loc[t].ios[j]].live
    /\ pc[t] \in Holding => task[Mine(t)].live

\* The count of a vectored task: a segment not yet begun, one in the background
\* and the submitter each hold one reference.
ActiveInv(t) ==
    /\ pc[t] = "io" =>
        /\ loc[t].seg \in 1 .. Len(Segments[Mine(t)])
        /\ pending[Mine(t)] \subseteq 1 .. loc[t].seg - 1
        /\ Vectored(Mine(t)) =>
            task[Mine(t)].active = Len(Segments[Mine(t)]) - loc[t].seg + 2 + Cardinality(pending[Mine(t)])
    /\ pc[t] \in Holding \ {"io"} => pending[Mine(t)] = {}

TaskInv ==
    /\ AioTypes /\ Apart /\ PendingKept
    /\ \A t \in Threads : PlaceInv(t) /\ ActiveInv(t)
-----------------------------------------------------------------------------
(* The ring as a sequence, from its head to its tail.                          *)
Ring(h, l, e) == [i \in 1 .. (l - h + Size) % Size |-> e[(h + i - 1) % Size]]

LEMMA SlotFacts ==
    ASSUME AioFacts
    PROVE  /\ 0 \in Slots /\ \A i \in Slots : i \in Int /\ After(i) \in Slots
           /\ Slots = 0 .. Size - 1 /\ Size \in Nat /\ Size >= 1
<1>1. Size \in Nat /\ Size >= 1 BY DEF AioFacts, AioAssumption, SizeAssumption
<1>2. \A i \in 0 .. Size - 1 : (i + 1) % Size \in 0 .. Size - 1 BY <1>1
<1>. QED BY <1>1, <1>2 DEF Slots, After

LEMMA RingIndex ==
    ASSUME AioFacts, NEW h \in Slots, NEW l \in Slots, NEW n, n = (l - h + Size) % Size
    PROVE  /\ n \in 0 .. Size - 1 /\ (n = 0 <=> h = l) /\ (h + n) % Size = l
           /\ \A i \in 1 .. n : (h + i - 1) % Size \in Slots \ {l}
           /\ h # l => h % Size = h /\ (l - After(h) + Size) % Size = n - 1
                       /\ \A i \in 1 .. n - 1 : (After(h) + i - 1) % Size = (h + (i + 1) - 1) % Size
           /\ n + 1 < Size => (After(l) - h + Size) % Size = n + 1
<1>0. Size \in Nat /\ Size >= 1 /\ h \in Int /\ l \in Int /\ 0 <= h /\ h < Size /\ 0 <= l /\ l < Size
  BY DEF AioFacts, AioAssumption, SizeAssumption, Slots
<1>1. \A a, s \in Int : s > 0 /\ 0 <= a /\ a < s => a % s = a OBVIOUS
<1>2. \A a, s \in Int : s > 0 /\ s <= a /\ a < 2 * s => a % s = a - s OBVIOUS
<1>3. Slots = 0 .. Size - 1 BY DEF Slots
<1>4. n = IF h <= l THEN l - h ELSE l - h + Size BY <1>0, <1>1, <1>2
<1>5. \A a \in 0 .. 2 * Size - 1 : a % Size = IF a < Size THEN a ELSE a - Size BY <1>0, <1>1, <1>2
<1>6. n \in 0 .. Size - 1 /\ (n = 0 <=> h = l) BY <1>0, <1>4
<1>7. (h + n) % Size = l BY <1>0, <1>4, <1>5
<1>8. ASSUME NEW i \in 1 .. n PROVE (h + i - 1) % Size \in Slots \ {l}
  <2>1. h + i - 1 \in 0 .. 2 * Size - 1 BY <1>0, <1>6
  <2>2. (h + i - 1) % Size = IF h + i - 1 < Size THEN h + i - 1 ELSE (h + i - 1) - Size BY <1>5, <2>1, Zenon
  <2>. QED BY <1>0, <1>3, <1>4, <2>1, <2>2
<1>9. ASSUME h # l
      PROVE  /\ h % Size = h /\ (l - After(h) + Size) % Size = n - 1
             /\ \A i \in 1 .. n - 1 : (After(h) + i - 1) % Size = (h + (i + 1) - 1) % Size
  <2>. DEFINE a == After(h)
  <2>1. a = IF h + 1 < Size THEN h + 1 ELSE 0 BY <1>0, <1>5 DEF After
  <2>. HIDE DEF a
  <2>2. h % Size = h BY <1>0, <1>5
  <2>3. (l - a + Size) % Size = n - 1
    <3>1. (l - a) + Size \in 0 .. 2 * Size - 1 BY <1>0, <2>1
    <3>2. (l - a + Size) % Size = IF (l - a) + Size < Size THEN (l - a) + Size ELSE l - a BY <1>0, <1>5, <2>1, <3>1, SMTT(30)
    <3>. QED BY <1>0, <1>4, <1>9, <2>1, <3>2
  <2>4. ASSUME NEW i \in 1 .. n - 1 PROVE (a + i - 1) % Size = (h + (i + 1) - 1) % Size
    <3>1. a + i - 1 \in 0 .. 2 * Size - 1 /\ h + (i + 1) - 1 \in 0 .. 2 * Size - 1 BY <1>0, <1>6, <2>1
    <3>2. (a + i - 1) % Size = IF a + i - 1 < Size THEN a + i - 1 ELSE (a + i - 1) - Size BY <1>5, <3>1, Zenon
    <3>3. (h + (i + 1) - 1) % Size =
            IF h + (i + 1) - 1 < Size THEN h + (i + 1) - 1 ELSE (h + (i + 1) - 1) - Size
      BY <1>5, <3>1, Zenon
    <3>. QED BY <1>0, <1>6, <2>1, <3>2, <3>3
  <2>. QED BY <2>2, <2>3, <2>4 DEF a
<1>10. ASSUME n + 1 < Size PROVE (After(l) - h + Size) % Size = n + 1
  <2>. DEFINE a == After(l)
  <2>1. a = IF l + 1 < Size THEN l + 1 ELSE 0 BY <1>0, <1>5 DEF After
  <2>. HIDE DEF a
  <2>2. (a - h) + Size \in 0 .. 2 * Size - 1 BY <1>0, <2>1
  <2>3. (a - h + Size) % Size = IF (a - h) + Size < Size THEN (a - h) + Size ELSE a - h BY <1>0, <1>5, <2>1, <2>2
  <2>4. (a - h + Size) % Size = n + 1 BY <1>0, <1>4, <1>10, <2>1, <2>3
  <2>. QED BY <2>4 DEF a
<1>. QED BY <1>6, <1>7, <1>8, <1>9, <1>10, Zenon

(* What is written behind the tail is not read.                              *)
LEMMA RingSame ==
    ASSUME AioFacts, NEW h \in Slots, NEW l \in Slots, NEW e, NEW f,
           \A i \in Slots \ {l} : f[i] = e[i]
    PROVE  Ring(h, l, f) = Ring(h, l, e)
<1>1. \A i \in 1 .. (l - h + Size) % Size : f[(h + i - 1) % Size] = e[(h + i - 1) % Size]
  BY RingIndex, Zenon
<1>. QED BY <1>1, Zenon DEF Ring

(* The ring as a sequence: its length, its last and its first.               *)
LEMMA RingSeq ==
    ASSUME AioFacts, NEW h \in Slots, NEW l \in Slots, NEW e, NEW S, \A i \in Slots : e[i] \in S
    PROVE  Ring(h, l, e) \in Seq(S) /\ Len(Ring(h, l, e)) = (l - h + Size) % Size
<1>. DEFINE n == (l - h + Size) % Size
<1>1. n \in Nat /\ \A i \in 1 .. n : e[(h + i - 1) % Size] \in S
  <2>1. n \in 0 .. Size - 1 /\ \A i \in 1 .. n : (h + i - 1) % Size \in Slots BY RingIndex, Zenon
  <2>. QED BY <2>1, SlotFacts
<1>. HIDE DEF n
<1>2. [i \in 1 .. n |-> e[(h + i - 1) % Size]] \in Seq(S) BY <1>1
<1>3. Len([i \in 1 .. n |-> e[(h + i - 1) % Size]]) = n BY <1>1
<1>. QED BY <1>2, <1>3, Zenon DEF Ring, n

LEMMA RingAppend ==
    ASSUME AioFacts, NEW h \in Slots, NEW l \in Slots, NEW e, NEW S, \A i \in Slots : e[i] \in S,
           Len(Ring(h, l, e)) + 1 < Size
    PROVE  Ring(h, After(l), e) = Append(Ring(h, l, e), e[l])
<1>. DEFINE n == (l - h + Size) % Size
            q == Ring(h, l, e)
<1>1. q \in Seq(S) /\ Len(q) = n BY RingSeq, Zenon
<1>2. n \in 0 .. Size - 1 /\ (h + n) % Size = l /\ (n + 1 < Size => (After(l) - h + Size) % Size = n + 1)
  <2>1. n = (l - h + Size) % Size OBVIOUS
  <2>. HIDE DEF n
  <2>. QED BY <2>1, RingIndex
<1>3. (After(l) - h + Size) % Size = n + 1 BY <1>1, <1>2, Zenon
<1>4. Ring(h, After(l), e) = [i \in 1 .. n + 1 |-> e[(h + i - 1) % Size]] BY <1>3, Zenon DEF Ring
<1>5. q = [i \in 1 .. n |-> e[(h + i - 1) % Size]] BY Zenon DEF Ring
<1>6. e[l] \in S /\ n \in Nat /\ h + (n + 1) - 1 = h + n BY <1>2, SlotFacts
<1>. DEFINE r == [i \in 1 .. n + 1 |-> e[(h + i - 1) % Size]]
<1>7. \A i \in 1 .. n + 1 : r[i] = IF i = n + 1 THEN e[l] ELSE q[i]
  <2>1. r[n + 1] = e[l]
    <3>1. r[n + 1] = e[(h + (n + 1) - 1) % Size]
      <4>. HIDE DEF n
      <4>. QED BY <1>6
    <3>. QED BY <1>2, <1>6, <3>1, Zenon
  <2>2. ASSUME NEW i \in 1 .. n + 1, i # n + 1 PROVE r[i] = q[i]
    <3>1. i \in 1 .. n
      <4>. HIDE DEF n
      <4>. QED BY <1>6, <2>2
    <3>. QED BY <1>5, <2>2, <3>1, Zenon
  <2>. QED BY <2>1, <2>2, Zenon
<1>8. r \in [1 .. n + 1 -> S]
  <2>1. ASSUME NEW i \in 1 .. n + 1 PROVE r[i] \in S
    <3>1. i # n + 1 => i \in 1 .. n
      <4>. HIDE DEF n
      <4>. QED BY <1>6
    <3>2. i \in 1 .. n => q[i] \in S
      <4>. HIDE DEF q, n
      <4>. QED BY <1>1
    <3>. QED BY <1>6, <1>7, <3>1, <3>2, Zenon
  <2>. QED BY <2>1, Zenon
<1>. HIDE DEF q, n, r
<1>9. r = Append(q, e[l]) BY <1>1, <1>6, <1>7, <1>8
<1>. QED BY <1>4, <1>9, Zenon DEF q, n, r

LEMMA RingTail ==
    ASSUME AioFacts, NEW h \in Slots, NEW l \in Slots, NEW e, NEW S, \A i \in Slots : e[i] \in S,
           h # l
    PROVE  /\ Ring(h, l, e) # <<>> /\ Head(Ring(h, l, e)) = e[h]
           /\ Ring(After(h), l, e) = Tail(Ring(h, l, e))
<1>. DEFINE n == (l - h + Size) % Size
            q == Ring(h, l, e)
            r == [i \in 1 .. n - 1 |-> e[(After(h) + i - 1) % Size]]
<1>1. q \in Seq(S) /\ Len(q) = n BY RingSeq, Zenon
<1>2. /\ n \in 0 .. Size - 1 /\ n # 0 /\ h % Size = h /\ (l - After(h) + Size) % Size = n - 1
      /\ \A i \in 1 .. n - 1 : (After(h) + i - 1) % Size = (h + (i + 1) - 1) % Size
  <2>1. n = (l - h + Size) % Size OBVIOUS
  <2>. HIDE DEF n
  <2>. QED BY <2>1, RingIndex
<1>3. q = [i \in 1 .. n |-> e[(h + i - 1) % Size]] BY Zenon DEF Ring
<1>4. Ring(After(h), l, e) = r BY <1>2, Zenon DEF Ring
<1>5. n \in Nat /\ n >= 1 /\ h + 1 - 1 = h
  <2>1. h \in Int /\ Size \in Nat BY SlotFacts
  <2>. HIDE DEF n
  <2>. QED BY <1>2, <2>1
<1>6. q[1] = e[h]
  <2>1. 1 \in 1 .. n BY <1>5
  <2>2. q[1] = e[(h + 1 - 1) % Size] BY <1>3, <2>1, Zenon
  <2>. QED BY <1>2, <1>5, <2>2, Zenon
<1>7. \A i \in 1 .. n - 1 : r[i] = q[i + 1]
  <2>1. ASSUME NEW i \in 1 .. n - 1 PROVE i + 1 \in 1 .. n
    <3>. HIDE DEF n
    <3>. QED BY <1>5
  <2>. QED BY <1>2, <1>3, <2>1, Zenon
<1>8. r \in [1 .. n - 1 -> S]
  <2>1. ASSUME NEW i \in 1 .. n - 1 PROVE r[i] \in S
    <3>. HIDE DEF q, n, r
    <3>. QED BY <1>1, <1>5, <1>7
  <2>. QED BY <2>1, Zenon
<1>. HIDE DEF q, n, r
<1>9. r = Tail(q) BY <1>1, <1>5, <1>7, <1>8
<1>10. q # <<>> /\ Head(q) = e[h] BY <1>1, <1>5, <1>6
<1>. QED BY <1>4, <1>9, <1>10, Zenon DEF q, n, r

Objs(q) == {q[i].obj : i \in 1 .. Len(q)}

\* Completions of different requests, each with the bytes moved for it.
RingOK(q, m) ==
    /\ q \in Seq(Ev)
    /\ \A i \in 1 .. Len(q) : q[i].res = m[q[i].obj] /\ q[i].res \in 0 .. Total(q[i].obj)
    /\ \A i, j \in 1 .. Len(q) : q[i].obj = q[j].obj => i = j

LEMMA RingOther ==
    ASSUME NEW q, NEW m, NEW w, RingOK(q, m), \A r \in Objs(q) : w[r] = m[r]
    PROVE  RingOK(q, w)
<1>1. \A i \in 1 .. Len(q) : q[i].obj \in Objs(q) BY Zenon DEF Objs
<1>2. \A i \in 1 .. Len(q) : w[q[i].obj] = m[q[i].obj] BY <1>1, Zenon
<1>. QED BY <1>2, Zenon DEF RingOK

LEMMA RingTake ==
    ASSUME NEW q, NEW m, RingOK(q, m), q # <<>>
    PROVE  /\ RingOK(Tail(q), m) /\ Head(q) \in Ev /\ Len(Tail(q)) = Len(q) - 1
           /\ Objs(Tail(q)) = Objs(q) \ {Head(q).obj} /\ Head(q).obj \in Objs(q)
<1>. DEFINE p == Tail(q)
<1>1. q \in Seq(Ev) BY Zenon DEF RingOK
<1>2. /\ Len(q) \in Nat /\ Len(q) >= 1 /\ p \in Seq(Ev) /\ Len(p) = Len(q) - 1
      /\ Head(q) = q[1] /\ Head(q) \in Ev /\ 1 \in 1 .. Len(q)
  BY <1>1
<1>3. \A i \in 1 .. Len(p) : p[i] = q[i + 1] /\ i + 1 \in 1 .. Len(q) /\ i + 1 # 1 BY <1>1, <1>2
<1>4. \A i \in 1 .. Len(q) : i # 1 => \E j \in 1 .. Len(p) : j + 1 = i
  <2>1. ASSUME NEW i \in 1 .. Len(q), i # 1 PROVE i - 1 \in 1 .. Len(p) /\ (i - 1) + 1 = i BY <1>2, <2>1
  <2>. QED BY <2>1, Zenon
<1>. HIDE DEF p
<1>5. RingOK(p, m)
  <2>1. \A i \in 1 .. Len(p) : p[i].res = m[p[i].obj] /\ p[i].res \in 0 .. Total(p[i].obj)
    <3>1. ASSUME NEW i \in 1 .. Len(p)
          PROVE  p[i].res = m[p[i].obj] /\ p[i].res \in 0 .. Total(p[i].obj)
      <4>1. PICK a \in 1 .. Len(q) : p[i] = q[a] BY <1>3, Zenon
      <4>. QED BY <4>1, Zenon DEF RingOK
    <3>. QED BY <3>1, Zenon
  <2>2. ASSUME NEW i \in 1 .. Len(p), NEW j \in 1 .. Len(p), p[i].obj = p[j].obj PROVE i = j
    <3>1. PICK a \in 1 .. Len(q) : p[i] = q[a] /\ a = i + 1 BY <1>3, Zenon
    <3>2. PICK b \in 1 .. Len(q) : p[j] = q[b] /\ b = j + 1 BY <1>3, Zenon
    <3>3. a = b BY <2>2, <3>1, <3>2, Zenon DEF RingOK
    <3>. QED BY <3>1, <3>2, <3>3
  <2>. QED BY <1>2, <2>1, <2>2, Zenon DEF RingOK
<1>6. Objs(p) = Objs(q) \ {q[1].obj}
  <2>1. ASSUME NEW r \in Objs(p) PROVE r \in Objs(q) /\ r # q[1].obj
    <3>1. PICK i \in 1 .. Len(p) : r = p[i].obj BY <2>1, Zenon DEF Objs
    <3>2. r = q[i + 1].obj /\ i + 1 \in 1 .. Len(q) /\ i + 1 # 1 BY <1>3, <3>1, Zenon
    <3>. QED BY <1>2, <3>2, Zenon DEF Objs, RingOK
  <2>2. ASSUME NEW r \in Objs(q), r # q[1].obj PROVE r \in Objs(p)
    <3>1. PICK i \in 1 .. Len(q) : r = q[i].obj BY <2>2, Zenon DEF Objs
    <3>2. PICK j \in 1 .. Len(p) : j + 1 = i BY <1>4, <2>2, <3>1, Zenon
    <3>. QED BY <1>3, <3>1, <3>2, Zenon DEF Objs
  <2>. QED BY <2>1, <2>2, Zenon
<1>7. q[1].obj \in Objs(q) BY <1>2, Zenon DEF Objs
<1>. QED BY <1>2, <1>5, <1>6, <1>7, Zenon DEF p

LEMMA RingAdd ==
    ASSUME NEW q, NEW m, RingOK(q, m), NEW r \in Requests, r \notin Objs(q), NEW n \in Int,
           n = m[r], n \in 0 .. Total(r)
    PROVE  LET p == Append(q, [obj |-> r, res |-> n])
           IN  RingOK(p, m) /\ Objs(p) = Objs(q) \cup {r} /\ Len(p) = Len(q) + 1
<1>. DEFINE e == [obj |-> r, res |-> n]
            p == Append(q, e)
<1>1. q \in Seq(Ev) BY Zenon DEF RingOK
<1>2. e \in Ev /\ e.obj = r /\ e.res = n BY DEF Ev
<1>. HIDE DEF e
<1>3. /\ Len(q) \in Nat /\ p \in Seq(Ev) /\ Len(p) = Len(q) + 1 /\ p[Len(q) + 1] = e
      /\ Len(q) + 1 \in 1 .. Len(p)
  BY <1>1, <1>2
<1>4. \A i \in 1 .. Len(q) : p[i] = q[i] /\ i \in 1 .. Len(p) BY <1>1, <1>2, <1>3
<1>5. \A i \in 1 .. Len(p) : i \in 1 .. Len(q) \/ i = Len(q) + 1 BY <1>3
<1>. HIDE DEF p
<1>6. \A i \in 1 .. Len(q) : q[i].obj # r BY Zenon DEF Objs
<1>7. RingOK(p, m)
  <2>1. ASSUME NEW i \in 1 .. Len(p) PROVE p[i].res = m[p[i].obj] /\ p[i].res \in 0 .. Total(p[i].obj)
    <3>1. CASE i \in 1 .. Len(q) BY <1>4, <3>1, Zenon DEF RingOK
    <3>2. CASE i = Len(q) + 1
      <4>1. p[i].obj = r /\ p[i].res = n BY <1>2, <1>3, <3>2, Zenon
      <4>. QED BY <4>1, Zenon
    <3>. QED BY <1>5, <3>1, <3>2, Zenon
  <2>2. ASSUME NEW i \in 1 .. Len(p), NEW j \in 1 .. Len(p), p[i].obj = p[j].obj PROVE i = j
    <3>1. CASE i \in 1 .. Len(q) /\ j \in 1 .. Len(q) BY <1>4, <2>2, <3>1, Zenon DEF RingOK
    <3>2. CASE i = Len(q) + 1 /\ j \in 1 .. Len(q) BY <1>2, <1>3, <1>4, <1>6, <2>2, <3>2, Zenon
    <3>3. CASE j = Len(q) + 1 /\ i \in 1 .. Len(q) BY <1>2, <1>3, <1>4, <1>6, <2>2, <3>3, Zenon
    <3>. QED BY <1>5, <3>1, <3>2, <3>3, Zenon
  <2>. QED BY <1>3, <2>1, <2>2, Zenon DEF RingOK
<1>8. Objs(p) = Objs(q) \cup {r}
  <2>1. ASSUME NEW x \in Objs(p) PROVE x \in Objs(q) \cup {r}
    <3>1. PICK i \in 1 .. Len(p) : x = p[i].obj BY <2>1, Zenon DEF Objs
    <3>. QED BY <1>2, <1>3, <1>4, <1>5, <3>1, Zenon DEF Objs
  <2>2. ASSUME NEW x \in Objs(q) PROVE x \in Objs(p)
    <3>1. PICK i \in 1 .. Len(q) : x = q[i].obj BY <2>2, Zenon DEF Objs
    <3>. QED BY <1>4, <3>1, Zenon DEF Objs
  <2>3. r \in Objs(p) BY <1>2, <1>3, Zenon DEF Objs
  <2>. QED BY <2>1, <2>2, <2>3, Zenon
<1>. QED BY <1>3, <1>7, <1>8, Zenon DEF p, e

(* A call at label p with locals l, when V are the requests with a task, O    *)
(* those with an event and n the number of events: there is room for every    *)
(* request still to complete, none of those has an event, and all the earlier *)
(* ones have a task or an event.                                              *)
Call(p, l, V, O, n) ==
    /\ p \in Early => n + (Len(l.ios) - l.i) + 1 < Size
    /\ p = "free" => n + (Len(l.ios) - l.i) < Size /\ l.ios[l.i] \in O
    /\ \A j \in 1 .. Len(l.ios) : j > l.i \/ (j = l.i /\ p # "free") => l.ios[j] \notin O
    /\ \A j \in 1 .. Len(l.ios) : j < l.i => l.ios[j] \in V \cup O

Distinct(l) ==
    \A j \in 1 .. Len(l.ios) : j # l.i => l.ios[j] # l.ios[l.i]

LEMMA CallIdle ==
    ASSUME NEW p, NEW l, NEW V, NEW O, NEW n, p \in {"idle", "get"}, l.ios = <<>>
    PROVE  Call(p, l, V, O, n)
<1>1. p \notin Early /\ p # "free" BY DEF Early, Before
<1>2. \A j \in 1 .. Len(l.ios) : FALSE OBVIOUS
<1>. QED BY <1>1, <1>2, Zenon DEF Call

LEMMA CallMoves ==
    ASSUME NEW p, NEW l, NEW V, NEW O, NEW n, Call(p, l, V, O, n), p \in Early,
           NEW x, NEW y, NEW W, x \in Early, y.ios = l.ios, y.i = l.i, V \subseteq W
    PROVE  Call(x, y, W, O, n)
<1>1. p # "free" /\ x # "free" BY DEF Early, Before
<1>2. n + (Len(y.ios) - y.i) + 1 < Size BY Zenon DEF Call
<1>3. \A j \in 1 .. Len(y.ios) : j > y.i \/ j = y.i => y.ios[j] \notin O BY <1>1, Zenon DEF Call
<1>4. \A j \in 1 .. Len(y.ios) : j < y.i => y.ios[j] \in W \cup O BY Zenon DEF Call
<1>. QED BY <1>1, <1>2, <1>3, <1>4, Zenon DEF Call

LEMMA CallStarted ==
    ASSUME NEW p, NEW l, NEW V, NEW O, NEW n \in Int, Call(p, l, V, O, n),
           NEW y, NEW W, y.ios = l.ios, y.i = l.i + 1, l.i \in 1 .. Len(l.ios), Len(l.ios) \in Nat,
           \/ p \in Early /\ V \subseteq W /\ l.ios[l.i] \in W
           \/ p = "free" /\ W = V \ {l.ios[l.i]} /\ Distinct(l)
           , Size \in Nat
    PROVE  Call("next", y, W, O, n)
<1>1. "next" \in Early /\ "next" # "free" BY DEF Early, Before
<1>2. \A j \in 1 .. Len(l.ios) : /\ j > y.i \/ j = y.i => j > l.i
                                 /\ j < y.i => j < l.i \/ j = l.i
                                 /\ j < l.i => j # l.i
  OBVIOUS
<1>3. n + (Len(y.ios) - y.i) + 1 < Size
  <2>1. n + (Len(l.ios) - (l.i + 1)) + 1 = n + (Len(l.ios) - l.i) OBVIOUS
  <2>2. CASE p \in Early
    <3>1. n + (Len(l.ios) - l.i) + 1 < Size BY <2>2, Zenon DEF Call
    <3>2. Size \in Int OBVIOUS
    <3>. QED BY <2>1, <3>1, <3>2
  <2>3. CASE p = "free" BY <2>1, <2>3, Zenon DEF Call
  <2>. QED BY <2>2, <2>3
<1>4. \A j \in 1 .. Len(l.ios) : j > y.i \/ j = y.i => l.ios[j] \notin O BY <1>2, Zenon DEF Call
<1>5. \A j \in 1 .. Len(l.ios) : j < y.i => l.ios[j] \in W \cup O
  <2>1. CASE p \in Early /\ V \subseteq W /\ l.ios[l.i] \in W BY <1>2, <2>1, Zenon DEF Call
  <2>2. CASE p = "free" /\ W = V \ {l.ios[l.i]} /\ Distinct(l) BY <1>2, <2>2, Zenon DEF Call, Distinct
  <2>. QED BY <2>1, <2>2, Zenon
<1>. QED BY <1>1, <1>3, <1>4, <1>5, Zenon DEF Call

LEMMA CallAdvance ==
    ASSUME NEW p, NEW l, NEW V, NEW O, NEW n \in Int, Call(p, l, V, O, n), p \in Early,
           l.i \in 1 .. Len(l.ios), Len(l.ios) \in Nat, Distinct(l)
    PROVE  Call("free", l, V, O \cup {l.ios[l.i]}, n + 1)
<1>1. "free" \notin Early /\ p # "free" BY DEF Early, Before
<1>2. n + (Len(l.ios) - l.i) + 1 < Size BY Zenon DEF Call
<1>3. (n + 1) + (Len(l.ios) - l.i) = n + (Len(l.ios) - l.i) + 1 OBVIOUS
<1>4. (n + 1) + (Len(l.ios) - l.i) < Size BY <1>2, <1>3, Zenon
<1>5. \A j \in 1 .. Len(l.ios) : j > l.i => j # l.i OBVIOUS
<1>6. \A j \in 1 .. Len(l.ios) : j > l.i => l.ios[j] \notin O \cup {l.ios[l.i]}
  BY <1>1, <1>5, Zenon DEF Call, Distinct
<1>7. \A j \in 1 .. Len(l.ios) : j < l.i => l.ios[j] \in V \cup (O \cup {l.ios[l.i]}) BY Zenon DEF Call
<1>. QED BY <1>1, <1>4, <1>6, <1>7, Zenon DEF Call
-----------------------------------------------------------------------------
LEMMA MineTyped ==
    ASSUME AioTypes, NEW t \in Threads, loc[t].i \in 1 .. Len(loc[t].ios)
    PROVE  Mine(t) \in Requests
BY DEF AioTypes, Locals, Mine

(* The request a call is at is in no other call.                              *)
LEMMA MineApart ==
    ASSUME TaskInv, NEW t \in Threads, loc[t].i \in 1 .. Len(loc[t].ios)
    PROVE  /\ \A u \in Threads \ {t} : \A j \in 1 .. Len(loc[u].ios) : loc[u].ios[j] # Mine(t)
           /\ \A j \in 1 .. Len(loc[t].ios) : j # loc[t].i => loc[t].ios[j] # Mine(t)
<1>1. \A u \in Threads : \A j \in 1 .. Len(loc[u].ios) :
        loc[u].ios[j] = loc[t].ios[loc[t].i] => u = t /\ j = loc[t].i
  BY ZenonT(30) DEF TaskInv, Apart
<1>. QED BY <1>1, Zenon DEF Mine

(* What a step leaves alone for the calls of the other threads.               *)
LEMMA OthersKept ==
    ASSUME TaskInv, NEW t \in Threads,
           \A u \in Threads \ {t} : pc'[u] = pc[u] /\ loc'[u] = loc[u],
           \A u \in Threads \ {t} : \A j \in 1 .. Len(loc[u].ios) :
                /\ task'[loc[u].ios[j]] = task[loc[u].ios[j]]
                /\ pending'[loc[u].ios[j]] = pending[loc[u].ios[j]]
    PROVE  \A u \in Threads \ {t} : PlaceInv(u)' /\ ActiveInv(u)'
<1>. SUFFICES ASSUME NEW u \in Threads \ {t} PROVE PlaceInv(u)' /\ ActiveInv(u)' OBVIOUS
<1>1. PlaceInv(u) /\ ActiveInv(u) /\ pc'[u] = pc[u] /\ loc'[u] = loc[u] BY Zenon DEF TaskInv
<1>2. \A j \in 1 .. Len(loc[u].ios) :
        /\ task'[loc[u].ios[j]] = task[loc[u].ios[j]]
        /\ pending'[loc[u].ios[j]] = pending[loc[u].ios[j]]
  OBVIOUS
<1>3. loc[u].i \in 1 .. Len(loc[u].ios) =>
        task'[Mine(u)] = task[Mine(u)] /\ pending'[Mine(u)] = pending[Mine(u)] /\ Mine(u)' = Mine(u)
  BY <1>1, <1>2, Zenon DEF Mine
<1>4. pc[u] \in Holding => pc[u] \in Labels \ {"idle", "get", "next"} BY DEF Holding, Labels
<1>5. pc[u] \in Labels \ {"idle", "get", "next"} => loc[u].i \in 1 .. Len(loc[u].ios)
  BY <1>1, Zenon DEF PlaceInv
<1>6. PlaceInv(u)'
  <2>1. pc'[u] \in {"idle", "get"} => loc'[u].ios = <<>> BY <1>1, Zenon DEF PlaceInv
  <2>2. pc'[u] = "next" => loc'[u].i \in 1 .. Len(loc'[u].ios) + 1 BY <1>1, Zenon DEF PlaceInv
  <2>3. pc'[u] \in Labels \ {"idle", "get", "next"} =>
            loc'[u].i \in 1 .. Len(loc'[u].ios) /\ Acceptable(Mine(u)')
    <3>1. SUFFICES ASSUME pc[u] \in Labels \ {"idle", "get", "next"}
                   PROVE  loc[u].i \in 1 .. Len(loc[u].ios) /\ Acceptable(Mine(u)')
      BY <1>1, Zenon
    <3>2. loc[u].i \in 1 .. Len(loc[u].ios) /\ Acceptable(Mine(u))
      BY <1>1, <3>1, Zenon DEF PlaceInv
    <3>3. Mine(u)' = Mine(u) BY <1>3, <3>2, Zenon
    <3>. QED BY <3>2, <3>3, Zenon
  <2>4. \A j \in 1 .. Len(loc'[u].ios) :
            j > loc'[u].i \/ (j = loc'[u].i /\ pc'[u] \in Before) => ~task'[loc'[u].ios[j]].live
    <3>1. \A j \in 1 .. Len(loc[u].ios) :
            j > loc[u].i \/ (j = loc[u].i /\ pc[u] \in Before) => ~task[loc[u].ios[j]].live
      BY <1>1, Zenon DEF PlaceInv
    <3>. QED BY <1>1, <1>2, <3>1
  <2>5. pc'[u] \in Holding => task'[Mine(u)'].live
    BY <1>1, <1>3, <1>4, <1>5, Zenon DEF PlaceInv
  <2>. QED BY <2>1, <2>2, <2>3, <2>4, <2>5, Zenon DEF PlaceInv, Mine, Acceptable
<1>7. ActiveInv(u)'
  <2>1. CASE pc[u] = "io"
    <3>1. pc[u] \in Holding BY <2>1, Zenon DEF Holding
    <3>2. /\ task'[Mine(u)] = task[Mine(u)] /\ pending'[Mine(u)] = pending[Mine(u)]
          /\ Mine(u)' = Mine(u) /\ loc'[u] = loc[u] /\ pc'[u] = pc[u]
      BY <1>1, <1>3, <1>4, <1>5, <3>1, Zenon
    <3>. QED BY <1>1, <2>1, <3>2 DEF ActiveInv, Vectored
  <2>2. CASE pc[u] \in Holding \ {"io"}
    <3>1. pending'[Mine(u)] = pending[Mine(u)] /\ Mine(u)' = Mine(u) /\ pc'[u] = pc[u]
      BY <1>1, <1>3, <1>4, <1>5, <2>2, Zenon
    <3>. QED BY <1>1, <2>2, <3>1 DEF ActiveInv
  <2>3. CASE pc[u] \notin Holding
    BY <1>1, <2>3 DEF ActiveInv, Holding
  <2>. QED BY <2>1, <2>2, <2>3, Zenon
<1>. QED BY <1>6, <1>7, Zenon

(* A step of one call that begins no other.                                   *)
LEMMA ApartKept ==
    ASSUME TaskInv, NEW t \in Threads,
           \A u \in Threads \ {t} : loc'[u] = loc[u],
           loc'[t].ios = loc[t].ios \/ loc'[t].ios = <<>>
    PROVE  Apart'
<1>1. \A u \in Threads : \A j \in 1 .. Len(loc'[u].ios) :
        Len(loc'[u].ios) = Len(loc[u].ios) /\ loc'[u].ios[j] = loc[u].ios[j]
  BY SMT
<1>2. \A u \in Threads : \A j \in 1 .. Len(loc'[u].ios) :
        j \in 1 .. Len(loc[u].ios) /\ loc'[u].ios[j] = loc[u].ios[j]
  BY <1>1, Zenon
<1>3. Apart BY Zenon DEF TaskInv
<1>. SUFFICES ASSUME NEW u \in Threads, NEW v \in Threads, NEW j, NEW k,
                     j \in 1 .. Len(loc'[u].ios), k \in 1 .. Len(loc'[v].ios),
                     loc'[u].ios[j] = loc'[v].ios[k]
              PROVE  u = v /\ j = k
  BY ZenonT(30) DEF Apart
<1>4. j \in 1 .. Len(loc[u].ios) /\ loc[u].ios[j] = loc'[u].ios[j] BY <1>2, Zenon
<1>5. k \in 1 .. Len(loc[v].ios) /\ loc[v].ios[k] = loc'[v].ios[k] BY <1>2, Zenon
<1>6. loc[u].ios[j] = loc[v].ios[k] BY <1>4, <1>5, Zenon
<1>. QED BY <1>3, <1>4, <1>5, <1>6 DEF Apart

LEMMA StepKeeps ==
    ASSUME TaskInv, NEW t \in Threads, AioTypes', PendingKept', PlaceInv(t)', ActiveInv(t)',
           loc'[t].ios = loc[t].ios \/ loc'[t].ios = <<>>,
           \A u \in Threads \ {t} : pc'[u] = pc[u] /\ loc'[u] = loc[u],
           \A u \in Threads \ {t} : \A j \in 1 .. Len(loc[u].ios) :
                /\ task'[loc[u].ios[j]] = task[loc[u].ios[j]]
                /\ pending'[loc[u].ios[j]] = pending[loc[u].ios[j]]
    PROVE  TaskInv'
<1>1. \A u \in Threads \ {t} : PlaceInv(u)' /\ ActiveInv(u)' BY OthersKept, Zenon
<1>2. Apart' BY ApartKept, Zenon
<1>3. \A u \in Threads : PlaceInv(u)' /\ ActiveInv(u)' BY <1>1, Zenon
<1>. QED BY <1>2, <1>3, Zenon DEF TaskInv

(* A step that makes, ends and changes no task.                               *)
LEMMA QuietStep ==
    ASSUME TaskInv, NEW t \in Threads, NEW l \in Labels, NEW x \in Locals,
           pc' = [pc EXCEPT ![t] = l], loc' = [loc EXCEPT ![t] = x],
           x.ios = loc[t].ios \/ x.ios = <<>>,
           UNCHANGED <<context, iocount, task, pending, moved>>,
           PlaceInv(t)', ActiveInv(t)'
    PROVE  TaskInv'
<1>1. AioTypes /\ PendingKept BY Zenon DEF TaskInv
<1>2. pc' \in [Threads -> Labels] /\ loc' \in [Threads -> Locals] BY <1>1 DEF AioTypes
<1>3. AioTypes' BY <1>1, <1>2, Zenon DEF AioTypes
<1>4. PendingKept' BY <1>1, Zenon DEF PendingKept
<1>5. loc'[t] = x /\ \A u \in Threads \ {t} : pc'[u] = pc[u] /\ loc'[u] = loc[u]
  BY <1>1, Zenon DEF AioTypes
<1>. QED BY <1>3, <1>4, <1>5, StepKeeps, Zenon

LEMMA OutsideInv ==
    ASSUME NEW t \in Threads, pc'[t] \in {"idle", "get"}, loc'[t].ios = <<>>
    PROVE  PlaceInv(t)' /\ ActiveInv(t)'
<1>1. \A j \in 1 .. Len(loc'[t].ios) : FALSE OBVIOUS
<1>2. pc'[t] \notin Labels \ {"idle", "get"} /\ pc'[t] # "io" /\ pc'[t] # "next" /\ pc'[t] \notin Holding
  BY DEF Holding
<1>. QED BY <1>1, <1>2, Zenon DEF PlaceInv, ActiveInv

LEMMA IdleTyped == Idle \in Locals /\ Idle.ios = <<>> /\ "idle" \in Labels /\ "get" \in Labels
<1>1. <<>> \in Seq(Requests) OBVIOUS
<1>2. Idle \in Locals BY <1>1 DEF Idle, Locals
<1>. QED BY <1>2 DEF Idle, Labels

(* io_submit or io_getevents returns.                                         *)
LEMMA ReturnStep ==
    ASSUME TaskInv, NEW t \in Threads, NEW n \in Int, Return(t, n),
           UNCHANGED <<context, iocount, task, pending, moved>>
    PROVE  TaskInv'
<1>. DEFINE x == [Idle EXCEPT !.ret = n]
<1>1. x \in Locals /\ x.ios = <<>> BY IdleTyped DEF Idle, Locals
<1>2. pc' = [pc EXCEPT ![t] = "idle"] /\ loc' = [loc EXCEPT ![t] = x]
  BY Zenon DEF Return, Goto, Set
<1>. HIDE DEF x
<1>3. pc'[t] = "idle" /\ loc'[t] = x BY <1>2, Zenon DEF TaskInv, AioTypes
<1>4. PlaceInv(t)' /\ ActiveInv(t)' BY <1>1, <1>3, OutsideInv, Zenon
<1>. QED BY <1>1, <1>2, <1>4, IdleTyped, QuietStep, Zenon

LEMMA StopStep ==
    ASSUME TaskInv, NEW t \in Threads, Stop(t), UNCHANGED <<context, iocount, task, pending, moved>>
    PROVE  TaskInv'
<1>1. (IF loc[t].i = 1 THEN -1 ELSE loc[t].i - 1) \in Int BY DEF TaskInv, AioTypes, Locals
<1>. QED BY <1>1, ReturnStep, Zenon DEF Stop

(* The other parts of a call's state, when only some fields change.           *)
LEMMA FieldsKept ==
    ASSUME NEW l \in Locals, NEW n \in Int
    PROVE  /\ [l EXCEPT !.count = n] \in Locals /\ [l EXCEPT !.count = n].count = n
           /\ [l EXCEPT !.count = n].ios = l.ios /\ [l EXCEPT !.count = n].i = l.i
           /\ [l EXCEPT !.count = n].seg = l.seg
           /\ [l EXCEPT !.at = n] \in Locals /\ [l EXCEPT !.at = n].ios = l.ios
           /\ [l EXCEPT !.at = n].i = l.i /\ [l EXCEPT !.at = n].seg = l.seg
           /\ [l EXCEPT !.at = n].at = n /\ [l EXCEPT !.at = n].res = l.res
           /\ [l EXCEPT !.seg = n] \in Locals /\ [l EXCEPT !.seg = n].ios = l.ios
           /\ [l EXCEPT !.seg = n].i = l.i /\ [l EXCEPT !.seg = n].seg = n
           /\ [l EXCEPT !.res = n] \in Locals /\ [l EXCEPT !.res = n].ios = l.ios
           /\ [l EXCEPT !.res = n].i = l.i /\ [l EXCEPT !.res = n].seg = l.seg
           /\ [l EXCEPT !.res = n].res = n
           /\ [l EXCEPT !.i = n] \in Locals /\ [l EXCEPT !.i = n].ios = l.ios
           /\ [l EXCEPT !.i = n].i = n
           /\ [l EXCEPT !.ret = n] \in Locals /\ [l EXCEPT !.ret = n].ios = l.ios
           /\ [l EXCEPT !.ret = n].nr = l.nr
           /\ [l EXCEPT !.nr = n] \in Locals /\ [l EXCEPT !.nr = n].ios = l.ios
BY DEF Locals

(* A step of a call that stays with its request, which has or has not a task. *)
LEMMA StayStep ==
    ASSUME TaskInv, NEW t \in Threads, NEW l \in Labels \ {"idle", "get", "next", "io"}, NEW x \in Locals,
           pc[t] \in Labels \ {"idle", "get", "next"} \/ (pc[t] = "next" /\ l \in Before),
           loc[t].i \in 1 .. Len(loc[t].ios), Acceptable(Mine(t)),
           pc' = [pc EXCEPT ![t] = l], loc' = [loc EXCEPT ![t] = x],
           x.ios = loc[t].ios, x.i = loc[t].i,
           l \in Before <=> pc[t] \in Before, l \in Holding => pc[t] \in Holding \ {"io"},
           UNCHANGED <<context, iocount, task, pending, moved>>
    PROVE  TaskInv'
<1>1. /\ pc'[t] = l /\ loc'[t] = x /\ Mine(t)' = Mine(t) /\ AioTypes /\ PlaceInv(t) /\ ActiveInv(t)
      /\ pc[t] \in Labels
  BY Zenon DEF TaskInv, AioTypes, Mine
<1>2. PlaceInv(t)'
  <2>1. pc'[t] \notin {"idle", "get"} /\ pc'[t] # "next" BY <1>1, Zenon
  <2>2. loc'[t].i \in 1 .. Len(loc'[t].ios) /\ Acceptable(Mine(t)') BY <1>1, Zenon
  <2>3. \A j \in 1 .. Len(loc'[t].ios) :
            j > loc'[t].i \/ (j = loc'[t].i /\ pc'[t] \in Before) => ~task'[loc'[t].ios[j]].live
    BY <1>1, Zenon DEF PlaceInv
  <2>4. pc'[t] \in Holding => task'[Mine(t)'].live BY <1>1, Zenon DEF PlaceInv
  <2>. QED BY <2>1, <2>2, <2>3, <2>4, Zenon DEF PlaceInv, Mine, Acceptable
<1>3. ActiveInv(t)'
  <2>1. pc'[t] # "io" BY <1>1, Zenon
  <2>2. pc'[t] \in Holding => pending'[Mine(t)'] = {} BY <1>1, Zenon DEF ActiveInv
  <2>. QED BY <2>1, <2>2, Zenon DEF ActiveInv, Mine
<1>. QED BY <1>2, <1>3, QuietStep, Zenon

LEMMA InPlace ==
    ASSUME TaskInv, NEW t \in Threads, pc[t] \in Labels \ {"idle", "get", "next"}
    PROVE  /\ loc[t].i \in 1 .. Len(loc[t].ios) /\ Acceptable(Mine(t)) /\ Mine(t) \in Requests
           /\ loc[t] \in Locals /\ loc = [loc EXCEPT ![t] = loc[t]] /\ PlaceInv(t) /\ ActiveInv(t)
<1>1. loc[t].i \in 1 .. Len(loc[t].ios) /\ Acceptable(Mine(t)) /\ PlaceInv(t) /\ ActiveInv(t)
  BY Zenon DEF TaskInv, PlaceInv
<1>2. AioTypes BY Zenon DEF TaskInv
<1>3. loc[t] \in Locals /\ loc = [loc EXCEPT ![t] = loc[t]] BY <1>2 DEF AioTypes
<1>. QED BY <1>1, <1>2, <1>3, MineTyped, Zenon

LEMMA NextIocbStep == ASSUME TaskInv, NEW t \in Threads, NextIocb(t) PROVE TaskInv'
<1>1. /\ pc[t] = "next" /\ UNCHANGED <<context, iocount, task, pending, moved>>
      /\ AioTypes /\ PlaceInv(t)
  BY Zenon DEF NextIocb, device, TaskInv
<1>2. loc[t] \in Locals /\ loc = [loc EXCEPT ![t] = loc[t]] /\ loc[t].i \in 1 .. Len(loc[t].ios) + 1
  BY <1>1 DEF AioTypes, PlaceInv
<1>3. CASE loc[t].i > Len(loc[t].ios)
  <2>1. Return(t, Len(loc[t].ios)) BY <1>3, Zenon DEF NextIocb
  <2>2. Len(loc[t].ios) \in Int BY <1>2 DEF Locals
  <2>. QED BY <1>1, <2>1, <2>2, ReturnStep, Zenon
<1>4. CASE ~(loc[t].i > Len(loc[t].ios))
  <2>1. loc[t].i \in 1 .. Len(loc[t].ios) BY <1>2, <1>4 DEF Locals
  <2>2. CASE ~Acceptable(Mine(t))
    <3>1. Stop(t) BY <1>4, <2>2, Zenon DEF NextIocb
    <3>. QED BY <1>1, <3>1, StopStep, Zenon
  <2>3. CASE Acceptable(Mine(t))
    <3>1. pc' = [pc EXCEPT ![t] = "count"] /\ loc' = [loc EXCEPT ![t] = loc[t]]
      BY <1>2, <1>4, <2>3, Zenon DEF NextIocb, Goto
    <3>2. /\ "count" \in Labels \ {"idle", "get", "next", "io"} /\ "count" \in Before /\ "count" \notin Holding
          /\ "next" \in Before
      BY DEF Labels, Before, Holding
    <3>. QED BY <1>1, <1>2, <2>1, <2>3, <3>1, <3>2, StayStep, Zenon
  <2>. QED BY <2>2, <2>3
<1>. QED BY <1>3, <1>4

LEMMA CountSteps ==
    ASSUME TaskInv, NEW t \in Threads, AllocateFails(t) \/ ReadIocount(t)
    PROVE  TaskInv'
<1>1. pc[t] = "count" /\ UNCHANGED <<context, iocount, task, pending, moved>> /\ iocount \in Int
  BY Zenon DEF AllocateFails, ReadIocount, device, TaskInv, AioTypes
<1>2. CASE Stop(t) BY <1>1, <1>2, StopStep, Zenon
<1>3. CASE Goto(t, "cas") /\ Set(t, [loc[t] EXCEPT !.count = iocount])
  <2>1. /\ {"cas", "count"} \subseteq Labels \ {"idle", "get", "next", "io"}
        /\ "cas" \in Before /\ "cas" \notin Holding /\ "count" \in Before
    BY DEF Labels, Before, Holding
  <2>2. pc[t] \in Labels \ {"idle", "get", "next"} BY <1>1, <2>1, Zenon
  <2>3. loc[t].i \in 1 .. Len(loc[t].ios) /\ Acceptable(Mine(t)) /\ loc[t] \in Locals
    BY <2>2, InPlace, Zenon
  <2>. DEFINE x == [loc[t] EXCEPT !.count = iocount]
  <2>4. x \in Locals /\ x.ios = loc[t].ios /\ x.i = loc[t].i BY <1>1, <2>3, FieldsKept, Zenon
  <2>5. pc' = [pc EXCEPT ![t] = "cas"] /\ loc' = [loc EXCEPT ![t] = x] BY <1>3, Zenon DEF Goto, Set
  <2>. HIDE DEF x
  <2>. QED BY <1>1, <2>1, <2>2, <2>3, <2>4, <2>5, StayStep, Zenon
<1>. QED BY <1>2, <1>3, Zenon DEF AllocateFails, ReadIocount

LEMMA RingSteps ==
    ASSUME TaskInv, AioFacts, NEW t \in Threads, WriteEvent(t) \/ ReadTail(t) \/ AdvanceTail(t),
           tail \in Int
    PROVE  TaskInv'
<1>. DEFINE l == IF pc[t] = "write" THEN "tail" ELSE IF pc[t] = "tail" THEN "advance" ELSE "free"
            x == IF pc[t] = "tail" THEN [loc[t] EXCEPT !.at = After(tail)] ELSE loc[t]
<1>1. /\ pc[t] \in {"write", "tail", "advance"} /\ UNCHANGED <<context, iocount, task, pending, moved>>
  BY Zenon DEF WriteEvent, ReadTail, AdvanceTail, device
<1>2. /\ l \in Labels \ {"idle", "get", "next", "io"} /\ l \notin Before /\ pc[t] \notin Before
      /\ pc[t] \in Holding \ {"io"} /\ pc[t] \in Labels \ {"idle", "get", "next"}
  BY <1>1 DEF Labels, Before, Holding
<1>3. /\ loc[t].i \in 1 .. Len(loc[t].ios) /\ Acceptable(Mine(t)) /\ loc[t] \in Locals
      /\ loc = [loc EXCEPT ![t] = loc[t]]
  BY <1>2, InPlace, Zenon
<1>4. After(tail) \in Int BY DEF After, AioFacts, AioAssumption, SizeAssumption
<1>5. x \in Locals /\ x.ios = loc[t].ios /\ x.i = loc[t].i BY <1>3, <1>4, FieldsKept, Zenon
<1>6. pc' = [pc EXCEPT ![t] = l] /\ loc' = [loc EXCEPT ![t] = x]
  BY <1>1, <1>3 DEF WriteEvent, ReadTail, AdvanceTail, Goto, Set
<1>. HIDE DEF x, l
<1>. QED BY <1>1, <1>2, <1>3, <1>5, <1>6, StayStep, Zenon

LEMMA EventSteps ==
    ASSUME TaskInv, AioFacts, NEW t \in Threads, Getevents(t) \/ TakeEvent(t)
    PROVE  TaskInv'
<1>1. UNCHANGED <<context, iocount, task, pending, moved>> /\ AioTypes /\ PlaceInv(t)
  BY Zenon DEF Getevents, TakeEvent, device, TaskInv
<1>2. loc[t] \in Locals /\ loc[t].ret \in Int BY <1>1 DEF AioTypes, Locals
<1>3. ASSUME NEW x \in Locals, pc' = [pc EXCEPT ![t] = "get"], loc' = [loc EXCEPT ![t] = x], x.ios = <<>>
      PROVE  TaskInv'
  <2>1. pc'[t] = "get" /\ loc'[t] = x BY <1>1, <1>3, Zenon DEF AioTypes
  <2>2. PlaceInv(t)' /\ ActiveInv(t)' BY <1>3, <2>1, OutsideInv, Zenon
  <2>. QED BY <1>1, <1>3, <2>2, IdleTyped, QuietStep, Zenon
<1>4. CASE Getevents(t)
  <2>1. PICK nr \in 0 .. Size : Set(t, [Idle EXCEPT !.nr = nr]) BY <1>4, Zenon DEF Getevents
  <2>. DEFINE x == [Idle EXCEPT !.nr = nr]
  <2>2. x \in Locals /\ x.ios = <<>>
    <3>1. nr \in Int BY DEF AioFacts, AioAssumption, SizeAssumption
    <3>. QED BY <3>1, IdleTyped, FieldsKept, Zenon
  <2>3. pc' = [pc EXCEPT ![t] = "get"] /\ loc' = [loc EXCEPT ![t] = x]
    BY <1>4, <2>1, Zenon DEF Getevents, Goto, Set
  <2>. HIDE DEF x
  <2>. QED BY <1>3, <2>2, <2>3, Zenon
<1>5. CASE TakeEvent(t)
  <2>1. pc[t] = "get" /\ loc[t].ios = <<>> BY <1>1, <1>5, Zenon DEF TakeEvent, PlaceInv
  <2>2. CASE Return(t, loc[t].ret) BY <1>1, <1>2, <2>2, ReturnStep, Zenon
  <2>3. CASE Set(t, [loc[t] EXCEPT !.ret = @ + 1]) /\ UNCHANGED pc
    <3>. DEFINE x == [loc[t] EXCEPT !.ret = loc[t].ret + 1]
    <3>1. loc[t].ret + 1 \in Int BY <1>2
    <3>2. x \in Locals /\ x.ios = <<>> BY <1>2, <2>1, <3>1, FieldsKept, Zenon
    <3>3. loc' = [loc EXCEPT ![t] = x] BY <1>2, <2>3 DEF Set, Locals
    <3>4. pc' = [pc EXCEPT ![t] = "get"] BY <1>1, <2>1, <2>3 DEF AioTypes
    <3>. HIDE DEF x
    <3>. QED BY <1>3, <3>2, <3>3, <3>4, Zenon
  <2>. QED BY <1>5, <2>2, <2>3, Zenon DEF TakeEvent
<1>. QED BY <1>4, <1>5

LEMMA ContextSteps == ASSUME TaskInv, Setup \/ Destroy PROVE TaskInv'
<1>1. /\ UNCHANGED <<task, pending, moved, pc, loc>>
      /\ context' \in BOOLEAN /\ iocount' \in Int
  <2>1. UNCHANGED <<task, pending, moved, pc, loc>> /\ context' \in BOOLEAN
    BY Zenon DEF Setup, Destroy, device
  <2>2. iocount' = 0 \/ (iocount' = iocount /\ iocount \in Int)
    BY Zenon DEF Setup, Destroy, TaskInv, AioTypes
  <2>. QED BY <2>1, <2>2
<1>2. AioTypes' BY <1>1, Zenon DEF TaskInv, AioTypes
<1>3. Apart' /\ PendingKept'
  <2>1. Apart /\ PendingKept BY Zenon DEF TaskInv
  <2>2. Apart' BY <1>1, <2>1 DEF Apart
  <2>3. PendingKept' BY <1>1, <2>1, Zenon DEF PendingKept
  <2>. QED BY <2>2, <2>3
<1>4. ASSUME NEW t \in Threads PROVE PlaceInv(t)' /\ ActiveInv(t)'
  <2>1. PlaceInv(t) /\ ActiveInv(t) BY Zenon DEF TaskInv
  <2>2. PlaceInv(t)' BY <1>1, <2>1, Zenon DEF PlaceInv, Mine, Acceptable
  <2>3. ActiveInv(t)' BY <1>1, <2>1, Zenon DEF ActiveInv, Mine, Vectored
  <2>. QED BY <2>2, <2>3
<1>. QED BY <1>2, <1>3, <1>4, Zenon DEF TaskInv

(* The requests of a call are new to the context and to all other calls.      *)
LEMMA SubmitStep == ASSUME TaskInv, AioFacts, NEW t \in Threads, Submit(t) PROVE TaskInv'
<1>1. PICK n \in 1 .. MaxSubmit : \E ios \in [1 .. n -> Requests] :
        /\ IsInjective(ios)
        /\ \A i \in 1 .. n : ~task[ios[i]].live /\ ios[i] \notin Unread
        /\ \A u \in Threads, i \in 1 .. n : \A j \in DOMAIN loc[u].ios : loc[u].ios[j] # ios[i]
        /\ Set(t, [Idle EXCEPT !.ios = ios, !.i = 1])
  BY Zenon DEF Submit
<1>2. PICK ios \in [1 .. n -> Requests] :
        /\ IsInjective(ios)
        /\ \A i \in 1 .. n : ~task[ios[i]].live
        /\ \A u \in Threads, i \in 1 .. n : \A j \in DOMAIN loc[u].ios : loc[u].ios[j] # ios[i]
        /\ Set(t, [Idle EXCEPT !.ios = ios, !.i = 1])
  BY <1>1, Zenon
<1>. DEFINE x == [Idle EXCEPT !.ios = ios, !.i = 1]
<1>3. n \in Nat \ {0} BY DEF AioFacts, AioAssumption, SizeAssumption
<1>4. ios \in Seq(Requests) /\ Len(ios) = n BY <1>3
<1>5. x \in Locals /\ x.ios = ios /\ x.i = 1
  <2>1. [Idle EXCEPT !.ios = ios] \in Locals BY <1>4, IdleTyped DEF Locals
  <2>2. x = [[Idle EXCEPT !.ios = ios] EXCEPT !.i = 1] BY IdleTyped DEF Locals
  <2>3. \A l \in Locals : [l EXCEPT !.ios = ios, !.i = 1].ios = ios /\ [l EXCEPT !.ios = ios, !.i = 1].i = 1
    BY DEF Locals
  <2>4. ASSUME NEW l \in Locals, NEW m \in Int PROVE [l EXCEPT !.i = m] \in Locals BY FieldsKept, Zenon
  <2>5. 1 \in Int OBVIOUS
  <2>. QED BY <2>1, <2>2, <2>3, <2>4, <2>5, IdleTyped, Zenon
<1>6. /\ pc' = [pc EXCEPT ![t] = "next"] /\ loc' = [loc EXCEPT ![t] = x]
      /\ UNCHANGED <<context, iocount, task, pending, moved>> /\ AioTypes
  BY <1>2, Zenon DEF Submit, Goto, Set, device, TaskInv
<1>. HIDE DEF x
<1>7. pc'[t] = "next" /\ loc'[t] = x /\ \A u \in Threads \ {t} : pc'[u] = pc[u] /\ loc'[u] = loc[u]
  BY <1>6, Zenon DEF AioTypes
<1>8. "next" \in Before /\ "next" \in Labels /\ "next" \notin Holding BY DEF Before, Labels, Holding
<1>9. AioTypes'
  <2>1. pc' \in [Threads -> Labels] /\ loc' \in [Threads -> Locals] BY <1>5, <1>6, <1>8 DEF AioTypes
  <2>. QED BY <1>6, <2>1, Zenon DEF AioTypes
<1>10. PlaceInv(t)'
  <2>1. loc'[t].i \in 1 .. Len(loc'[t].ios) + 1 BY <1>3, <1>4, <1>5, <1>7
  <2>2. \A j \in 1 .. Len(loc'[t].ios) : ~task'[loc'[t].ios[j]].live BY <1>2, <1>4, <1>5, <1>6, <1>7, Zenon
  <2>3. pc'[t] \notin {"idle", "get"} /\ pc'[t] \notin Labels \ {"idle", "get", "next"} BY <1>7, Zenon
  <2>4. pc'[t] \notin Holding BY <1>7, <1>8, Zenon
  <2>. QED BY <2>1, <2>2, <2>3, <2>4, Zenon DEF PlaceInv
<1>11. ActiveInv(t)'
  <2>1. pc'[t] # "io" /\ pc'[t] \notin Holding BY <1>7, <1>8, Zenon
  <2>. QED BY <2>1, Zenon DEF ActiveInv
<1>12. \A u \in Threads \ {t} : PlaceInv(u)' /\ ActiveInv(u)' BY <1>6, <1>7, OthersKept, Zenon
<1>13. Apart'
  <2>1. SUFFICES ASSUME NEW u \in Threads, NEW v \in Threads, NEW j, NEW k,
                        j \in 1 .. Len(loc'[u].ios), k \in 1 .. Len(loc'[v].ios),
                        loc'[u].ios[j] = loc'[v].ios[k]
                 PROVE  u = v /\ j = k
    BY Zenon DEF Apart
  <2>2. \A w \in Threads \ {t} : \A j1 \in 1 .. Len(loc[w].ios), i1 \in 1 .. n : loc[w].ios[j1] # ios[i1]
    <3>1. \A w \in Threads : DOMAIN loc[w].ios = 1 .. Len(loc[w].ios) BY <1>6 DEF AioTypes, Locals
    <3>. QED BY <1>2, <3>1, Zenon
  <2>3. CASE u = t /\ v = t
    <3>1. j \in DOMAIN ios /\ k \in DOMAIN ios /\ ios[j] = ios[k] BY <1>4, <1>5, <1>7, <2>1, <2>3
    <3>. QED BY <1>2, <2>3, <3>1, Zenon DEF IsInjective
  <2>4. CASE u = t /\ v # t
    <3>1. j \in 1 .. n /\ k \in 1 .. Len(loc[v].ios) /\ ios[j] = loc[v].ios[k]
      BY <1>4, <1>5, <1>7, <2>1, <2>4
    <3>. QED BY <2>2, <2>4, <3>1
  <2>5. CASE u # t /\ v = t
    <3>1. k \in 1 .. n /\ j \in 1 .. Len(loc[u].ios) /\ ios[k] = loc[u].ios[j]
      BY <1>4, <1>5, <1>7, <2>1, <2>5
    <3>. QED BY <2>2, <2>5, <3>1
  <2>6. CASE u # t /\ v # t
    <3>1. j \in 1 .. Len(loc[u].ios) /\ k \in 1 .. Len(loc[v].ios) /\ loc[u].ios[j] = loc[v].ios[k]
      BY <1>7, <2>1, <2>6, Zenon
    <3>. QED BY <3>1 DEF TaskInv, Apart
  <2>. QED BY <2>3, <2>4, <2>5, <2>6
<1>14. PendingKept' BY <1>6, Zenon DEF PendingKept, TaskInv
<1>15. \A u \in Threads : PlaceInv(u)' /\ ActiveInv(u)' BY <1>10, <1>11, <1>12, Zenon
<1>. QED BY <1>9, <1>13, <1>14, <1>15, Zenon DEF TaskInv

(* A step that makes, changes or ends the task of the request at hand.        *)
LEMMA TaskStep ==
    ASSUME TaskInv, NEW t \in Threads, pc[t] \in Labels \ {"idle", "get", "next"},
           NEW l \in Labels, NEW x \in Locals, NEW k, NEW P,
           k \in TaskOf(Mine(t)) \cup {NoTask}, P \in SUBSET Nat, P # {} => k.live,
           pc' = [pc EXCEPT ![t] = l], loc' = [loc EXCEPT ![t] = x],
           x.ios = loc[t].ios \/ x.ios = <<>>,
           task' = [task EXCEPT ![Mine(t)] = k], pending' = [pending EXCEPT ![Mine(t)] = P],
           context' = context, iocount' \in Int, moved' \in [Requests -> Int],
           PlaceInv(t)', ActiveInv(t)'
    PROVE  TaskInv'
<1>. DEFINE r == Mine(t)
<1>1. AioTypes /\ PendingKept BY Zenon DEF TaskInv
<1>2. loc[t].i \in 1 .. Len(loc[t].ios) /\ r \in Requests BY InPlace, Zenon
<1>3. \A u \in Threads \ {t} : \A j \in 1 .. Len(loc[u].ios) : loc[u].ios[j] # r
  BY <1>2, MineApart, Zenon
<1>. HIDE DEF r
<1>4. /\ task'[r] = k /\ \A q \in Requests \ {r} : task'[q] = task[q]
      /\ pending'[r] = P /\ \A q \in Requests \ {r} : pending'[q] = pending[q]
  BY <1>1, <1>2, Zenon DEF AioTypes, r
<1>5. pending' \in [Requests -> SUBSET Nat] BY <1>1, <1>2 DEF AioTypes, r
<1>6. pc' \in [Threads -> Labels] /\ loc' \in [Threads -> Locals] BY <1>1 DEF AioTypes
<1>7. \A q \in Requests : task'[q] \in TaskOf(q) \cup {NoTask}
  <2>1. k \in TaskOf(r) \cup {NoTask} BY DEF r
  <2>. QED BY <1>1, <1>4, <2>1, Zenon DEF AioTypes
<1>a. task' = [q \in Requests |-> task'[q]]
  <2>1. task = [q \in Requests |-> task[q]] BY <1>1, Zenon DEF AioTypes
  <2>. QED BY <2>1, <1>2 DEF r
<1>8. AioTypes' BY <1>1, <1>5, <1>6, <1>7, <1>a, Zenon DEF AioTypes
<1>9. PendingKept'
  <2>1. SUFFICES ASSUME NEW q \in Requests, pending'[q] # {} PROVE task'[q].live BY Zenon DEF PendingKept
  <2>2. CASE q = r BY <1>4, <2>1, <2>2, Zenon
  <2>3. CASE q # r BY <1>1, <1>4, <2>1, <2>3, Zenon DEF PendingKept
  <2>. QED BY <2>2, <2>3
<1>10. loc'[t] = x /\ \A u \in Threads \ {t} : pc'[u] = pc[u] /\ loc'[u] = loc[u]
  BY <1>1, Zenon DEF AioTypes
<1>11. \A u \in Threads \ {t} : \A j \in 1 .. Len(loc[u].ios) :
         /\ task'[loc[u].ios[j]] = task[loc[u].ios[j]] /\ pending'[loc[u].ios[j]] = pending[loc[u].ios[j]]
  <2>1. \A u \in Threads : \A j \in 1 .. Len(loc[u].ios) : loc[u].ios[j] \in Requests
    <3>1. \A u \in Threads : loc[u].ios \in Seq(Requests) BY <1>1 DEF AioTypes, Locals
    <3>2. \A q \in Seq(Requests) : \A j \in 1 .. Len(q) : q[j] \in Requests OBVIOUS
    <3>. QED BY <3>1, <3>2, Zenon
  <2>. QED BY <1>3, <1>4, <2>1
<1>. QED BY <1>8, <1>9, <1>10, <1>11, StepKeeps, Zenon

(* Where such a step leaves the call: at the request, with its task, or past  *)
(* it.                                                                        *)
LEMMA PlaceAfter ==
    ASSUME TaskInv, NEW t \in Threads, pc[t] \in Labels \ {"idle", "get", "next"},
           \A q \in Requests \ {Mine(t)} : task'[q] = task[q],
           loc'[t].ios = loc[t].ios,
           \/ pc'[t] \in Holding /\ loc'[t].i = loc[t].i /\ task'[Mine(t)].live
           \/ pc'[t] = "next" /\ loc'[t].i = loc[t].i + 1
    PROVE  PlaceInv(t)'
<1>1. loc[t].i \in 1 .. Len(loc[t].ios) /\ PlaceInv(t) /\ Acceptable(Mine(t)) /\ loc[t] \in Locals
  BY InPlace, Zenon
<1>2. \A j \in 1 .. Len(loc[t].ios) : j > loc[t].i => ~task'[loc[t].ios[j]].live
  <2>1. \A j \in 1 .. Len(loc[t].ios) : j > loc[t].i => j # loc[t].i BY <1>1
  <2>2. \A j \in 1 .. Len(loc[t].ios) : j > loc[t].i => loc[t].ios[j] \in Requests \ {Mine(t)}
    <3>1. \A j \in 1 .. Len(loc[t].ios) : loc[t].ios[j] \in Requests BY <1>1 DEF Locals
    <3>. QED BY <1>1, <2>1, <3>1, MineApart, Zenon
  <2>. QED BY <1>1, <2>2, Zenon DEF PlaceInv
<1>3. CASE pc'[t] \in Holding /\ loc'[t].i = loc[t].i /\ task'[Mine(t)].live
  <2>1. pc'[t] \notin Before /\ pc'[t] \notin {"idle", "get", "next"} /\ pc'[t] \in Labels
    BY <1>3 DEF Holding, Before, Labels
  <2>2. Mine(t)' = Mine(t) BY <1>3, Zenon DEF Mine
  <2>3. loc'[t].i \in 1 .. Len(loc'[t].ios) /\ Acceptable(Mine(t)') BY <1>1, <1>3, <2>2, Zenon
  <2>4. \A j \in 1 .. Len(loc'[t].ios) :
            j > loc'[t].i \/ (j = loc'[t].i /\ pc'[t] \in Before) => ~task'[loc'[t].ios[j]].live
    BY <1>2, <1>3, <2>1, Zenon
  <2>5. task'[Mine(t)'].live BY <1>3, <2>2, Zenon
  <2>. QED BY <2>1, <2>3, <2>4, <2>5, Zenon DEF PlaceInv, Mine, Acceptable
<1>4. CASE pc'[t] = "next" /\ loc'[t].i = loc[t].i + 1
  <2>1. loc'[t].i \in 1 .. Len(loc'[t].ios) + 1 BY <1>1, <1>4 DEF Locals
  <2>2. \A j \in 1 .. Len(loc'[t].ios) :
            j > loc'[t].i \/ (j = loc'[t].i /\ pc'[t] \in Before) => ~task'[loc'[t].ios[j]].live
    <3>1. \A j \in 1 .. Len(loc[t].ios) : j > loc'[t].i \/ j = loc'[t].i => j > loc[t].i
      BY <1>1, <1>4 DEF Locals
    <3>. QED BY <1>2, <3>1, Zenon
  <2>3. /\ pc'[t] \notin Holding /\ pc'[t] \notin {"idle", "get"}
        /\ pc'[t] \notin Labels \ {"idle", "get", "next"}
    BY <1>4 DEF Holding
  <2>. QED BY <2>1, <2>2, <2>3, Zenon DEF PlaceInv
<1>. QED BY <1>3, <1>4

LEMMA TaskParts ==
    ASSUME AioFacts, NEW r \in Requests
    PROVE  /\ Len(Segments[r]) \in Nat /\ DOMAIN Segments[r] = 1 .. Len(Segments[r])
           /\ \A i \in 1 .. Len(Segments[r]) : Segments[r][i] \in Nat
           /\ Acceptable(r) => Len(Segments[r]) >= 1
           /\ NewTask(r) \in TaskOf(r) /\ NewTask(r).live /\ ~NoTask.live
           /\ NewTask(r).active = IF Vectored(r) THEN Len(Segments[r]) + 1 ELSE 0
           /\ \A i \in 1 .. Len(Segments[r]) : NewTask(r).result[i] = 0 /\ ~NewTask(r).short[i]
<1>1. Segments[r] \in Seq(Nat) BY DEF AioFacts, AioAssumption, SegmentsAssumption
<1>2. Len(Segments[r]) \in Nat /\ DOMAIN Segments[r] = 1 .. Len(Segments[r]) BY <1>1
<1>3. \A i \in 1 .. Len(Segments[r]) : Segments[r][i] \in Nat BY <1>1
<1>4. Acceptable(r) => Len(Segments[r]) >= 1 BY <1>1 DEF Acceptable
<1>5. (IF Len(Segments[r]) > 1 THEN Len(Segments[r]) + 1 ELSE 0) \in Int BY <1>2
<1>6. NewTask(r) \in TaskOf(r) BY <1>2, <1>5 DEF NewTask, TaskOf
<1>7. NewTask(r).live /\ ~NoTask.live BY Zenon DEF NewTask, NoTask
<1>8. NewTask(r).active = IF Vectored(r) THEN Len(Segments[r]) + 1 ELSE 0 BY DEF NewTask, Vectored
<1>9. \A i \in 1 .. Len(Segments[r]) : NewTask(r).result[i] = 0 /\ ~NewTask(r).short[i]
  BY <1>2 DEF NewTask
<1>. QED BY <1>2, <1>3, <1>4, <1>6, <1>7, <1>8, <1>9

LEMMA IncrementStep == ASSUME TaskInv, AioFacts, NEW t \in Threads, IncrementIocount(t) PROVE TaskInv'
<1>1. pc[t] = "cas" /\ AioTypes BY Zenon DEF IncrementIocount, TaskInv
<1>2. /\ pc[t] \in Labels \ {"idle", "get", "next"} /\ pc[t] \in Before
      /\ "count" \in Labels \ {"idle", "get", "next", "io"} /\ "count" \in Before /\ "count" \notin Holding
      /\ "io" \in Labels /\ "io" \in Holding
  BY <1>1 DEF Labels, Before, Holding
<1>3. /\ loc[t].i \in 1 .. Len(loc[t].ios) /\ Acceptable(Mine(t)) /\ Mine(t) \in Requests
      /\ loc[t] \in Locals /\ loc = [loc EXCEPT ![t] = loc[t]] /\ PlaceInv(t)
  BY <1>2, InPlace, Zenon
<1>4. CASE iocount # loc[t].count
  <2>1. /\ pc' = [pc EXCEPT ![t] = "count"] /\ loc' = [loc EXCEPT ![t] = loc[t]]
        /\ UNCHANGED <<context, iocount, task, pending, moved>>
    BY <1>3, <1>4, Zenon DEF IncrementIocount, Goto
  <2>. QED BY <1>2, <1>3, <2>1, StayStep, Zenon
<1>5. CASE iocount = loc[t].count
  <2>. DEFINE r == Mine(t)
              x == [loc[t] EXCEPT !.seg = 1]
  <2>1. /\ iocount' = iocount + 1 /\ task' = [task EXCEPT ![r] = NewTask(r)]
        /\ moved' = [moved EXCEPT ![r] = 0] /\ pending' = pending /\ context' = context
        /\ pc' = [pc EXCEPT ![t] = "io"] /\ loc' = [loc EXCEPT ![t] = x]
    BY <1>5, Zenon DEF IncrementIocount, Goto, Set
  <2>2. 1 \in Int OBVIOUS
  <2>3. x \in Locals /\ x.ios = loc[t].ios /\ x.i = loc[t].i /\ x.seg = 1 BY <1>3, <2>2, FieldsKept, ZenonT(30)
  <2>. HIDE DEF x
  <2>4. ~task[r].live
    <3>1. ~task[loc[t].ios[loc[t].i]].live BY <1>2, <1>3, Zenon DEF PlaceInv
    <3>. QED BY <3>1, Zenon DEF Mine
  <2>5. pending[r] = {} BY <1>3, <2>4, Zenon DEF TaskInv, PendingKept
  <2>6. /\ Len(Segments[r]) \in Nat /\ Len(Segments[r]) >= 1 /\ NewTask(r) \in TaskOf(r) /\ NewTask(r).live
        /\ NewTask(r).active = IF Vectored(r) THEN Len(Segments[r]) + 1 ELSE 0
    BY <1>3, TaskParts, Zenon
  <2>7. /\ pc'[t] = "io" /\ loc'[t] = x /\ task'[r] = NewTask(r)
        /\ \A q \in Requests \ {r} : task'[q] = task[q]
    BY <1>1, <1>3, <2>1, Zenon DEF AioTypes
  <2>8. pending' = [pending EXCEPT ![r] = {}] BY <1>1, <1>3, <2>1, <2>5 DEF AioTypes
  <2>9. iocount' \in Int /\ moved' \in [Requests -> Int] BY <1>1, <1>3, <2>1 DEF AioTypes
  <2>. HIDE DEF r
  <2>10. PlaceInv(t)' BY <1>2, <2>3, <2>6, <2>7, PlaceAfter, Zenon DEF r
  <2>11. ActiveInv(t)'
    <3>1. Mine(t)' = r BY <2>3, <2>7, Zenon DEF Mine, r
    <3>2. loc'[t].seg = 1 /\ 1 \in 1 .. Len(Segments[r]) BY <2>3, <2>6, <2>7
    <3>3. pending'[r] = {} /\ Cardinality({}) = 0 /\ pending'[r] \subseteq 1 .. 1 - 1
      BY <2>1, <2>5 DEF AioFacts, Counting
    <3>4. Vectored(r) => task'[r].active = Len(Segments[r]) - 1 + 2 + Cardinality(pending'[r])
      BY <2>6, <2>7, <3>3
    <3>. QED BY <2>7, <3>1, <3>2, <3>3, <3>4, Zenon DEF ActiveInv, Mine, Vectored
  <2>. QED BY <1>2, <2>1, <2>3, <2>6, <2>8, <2>9, <2>10, <2>11, TaskStep, Zenon DEF r
<1>. QED BY <1>4, <1>5
-----------------------------------------------------------------------------
(* The updates of an io_task.                                                 *)
LEMMA LeftParts ==
    ASSUME NEW r \in Requests, NEW k \in TaskOf(r), NEW c \in Int
    PROVE  /\ [k EXCEPT !.active = @ - c] \in TaskOf(r)
           /\ [k EXCEPT !.active = @ - c].active = k.active - c /\ k.active \in Int
           /\ [k EXCEPT !.active = @ - c].live /\ k.live
           /\ [k EXCEPT !.active = @ - c].result = k.result
           /\ [k EXCEPT !.active = @ - c].short = k.short
<1>0. k.live = TRUE BY Zenon DEF TaskOf
<1>1. k.active \in Int /\ k.active - c \in Int BY DEF TaskOf
<1>2. [k EXCEPT !.active = k.active - c] \in TaskOf(r) BY <1>1 DEF TaskOf
<1>3. /\ [k EXCEPT !.active = k.active - c].active = k.active - c
      /\ [k EXCEPT !.active = k.active - c].live = TRUE
      /\ [k EXCEPT !.active = k.active - c].result = k.result
      /\ [k EXCEPT !.active = k.active - c].short = k.short
  BY <1>0, <1>1 DEF TaskOf
<1>4. [k EXCEPT !.active = @ - c] = [k EXCEPT !.active = k.active - c] BY DEF TaskOf
<1>. QED BY <1>0, <1>1, <1>2, <1>3, <1>4, Zenon

LEMMA RecordParts ==
    ASSUME NEW r \in Requests, NEW k \in TaskOf(r), NEW i \in 1 .. Len(Segments[r]),
           NEW n \in Int, NEW len
    PROVE  /\ Record(k, i, len, n) \in TaskOf(r)
           /\ Record(k, i, len, n).active = k.active - 1
<1>. DEFINE b == (n # len)
<1>1. b \in BOOLEAN /\ k.active \in Int /\ k.active - 1 \in Int BY DEF TaskOf
<1>2. /\ [k.result EXCEPT ![i] = n] \in [1 .. Len(Segments[r]) -> Int]
      /\ [k.short EXCEPT ![i] = b] \in [1 .. Len(Segments[r]) -> BOOLEAN]
  <2>1. k.result \in [1 .. Len(Segments[r]) -> Int] /\ k.short \in [1 .. Len(Segments[r]) -> BOOLEAN]
    BY Zenon DEF TaskOf
  <2>. HIDE DEF b
  <2>. QED BY <1>1, <2>1
<1>3. Record(k, i, len, n).active = k.active - 1 BY DEF Record, TaskOf
<1>5. Record(k, i, len, n) \in TaskOf(r)
  <2>. DEFINE k1 == [k EXCEPT !.short = [k.short EXCEPT ![i] = b]]
              k2 == [k1 EXCEPT !.result = [k.result EXCEPT ![i] = n]]
              k3 == [k2 EXCEPT !.active = k.active - 1]
  <2>1. Record(k, i, len, n) = k3 BY DEF Record, TaskOf
  <2>. HIDE DEF b
  <2>2. k1 \in TaskOf(r) BY <1>2 DEF TaskOf
  <2>. HIDE DEF k1
  <2>3. k2 \in TaskOf(r) BY <1>2, <2>2 DEF TaskOf
  <2>. HIDE DEF k2
  <2>4. k3 \in TaskOf(r) BY <1>1, <2>3 DEF TaskOf
  <2>. QED BY <2>1, <2>4
<1>. QED BY <1>3, <1>5, Zenon

LEMMA AbortParts ==
    ASSUME NEW r \in Requests, NEW k \in TaskOf(r), NEW i \in 1 .. Len(Segments[r]), NEW c \in Int
    PROVE  /\ [k EXCEPT !.result[i] = -1, !.active = @ - c] \in TaskOf(r)
           /\ [k EXCEPT !.result[i] = -1, !.active = @ - c].active = k.active - c
<1>1. k.active \in Int /\ k.active - c \in Int BY DEF TaskOf
<1>2. [k.result EXCEPT ![i] = -1] \in [1 .. Len(Segments[r]) -> Int] BY DEF TaskOf
<1>3. [k EXCEPT !.result[i] = -1, !.active = @ - c].active = k.active - c BY DEF TaskOf
<1>4. [k EXCEPT !.result[i] = -1, !.active = @ - c] \in TaskOf(r)
  <2>. DEFINE k1 == [k EXCEPT !.result = [k.result EXCEPT ![i] = -1]]
              k2 == [k1 EXCEPT !.active = k.active - c]
  <2>1. [k EXCEPT !.result[i] = -1, !.active = @ - c] = k2 BY DEF TaskOf
  <2>2. k1 \in TaskOf(r) BY <1>2 DEF TaskOf
  <2>. HIDE DEF k1
  <2>3. k2 \in TaskOf(r) BY <1>1, <2>2 DEF TaskOf
  <2>. QED BY <2>1, <2>3
<1>. QED BY <1>3, <1>4
-----------------------------------------------------------------------------
(* How a step of the transfer can end.                                        *)
LEMMA ToNext ==
    ASSUME TaskInv, NEW t \in Threads, pc[t] \in Holding, NEW k, NEW P,
           k \in TaskOf(Mine(t)) \cup {NoTask}, P \in SUBSET Nat, P # {} => k.live,
           Started(t), task' = [task EXCEPT ![Mine(t)] = k], pending' = [pending EXCEPT ![Mine(t)] = P],
           context' = context, iocount' \in Int, moved' \in [Requests -> Int]
    PROVE  TaskInv'
<1>1. pc[t] \in Labels \ {"idle", "get", "next"} BY DEF Labels, Holding
<1>2. loc[t] \in Locals /\ Mine(t) \in Requests /\ loc[t].i \in Int BY <1>1, InPlace DEF Locals
<1>. DEFINE x == [loc[t] EXCEPT !.i = loc[t].i + 1]
<1>3. pc' = [pc EXCEPT ![t] = "next"] /\ loc' = [loc EXCEPT ![t] = x]
  BY <1>2 DEF Started, Goto, Set, Locals
<1>4. loc[t].i + 1 \in Int BY <1>2
<1>5. x \in Locals /\ x.ios = loc[t].ios /\ x.i = loc[t].i + 1 BY <1>2, <1>4, FieldsKept, ZenonT(30)
<1>. HIDE DEF x
<1>6. AioTypes BY Zenon DEF TaskInv
<1>7. pc'[t] = "next" /\ loc'[t] = x /\ \A q \in Requests \ {Mine(t)} : task'[q] = task[q]
  BY <1>2, <1>3, <1>6, Zenon DEF AioTypes
<1>8. PlaceInv(t)' BY <1>1, <1>5, <1>7, PlaceAfter, Zenon
<1>9. "next" \in Labels /\ "next" \notin Holding /\ "next" # "io" BY DEF Labels, Before, Holding
<1>10. ActiveInv(t)' BY <1>7, <1>9, Zenon DEF ActiveInv
<1>. QED BY <1>1, <1>3, <1>5, <1>8, <1>9, <1>10, TaskStep, Zenon

LEMMA ToIdle ==
    ASSUME TaskInv, NEW t \in Threads, pc[t] \in Holding, NEW k, NEW n \in Int,
           k \in TaskOf(Mine(t)) \cup {NoTask}, pending[Mine(t)] # {} => k.live,
           Return(t, n), task' = [task EXCEPT ![Mine(t)] = k], pending' = pending,
           context' = context, iocount' \in Int, moved' \in [Requests -> Int]
    PROVE  TaskInv'
<1>1. pc[t] \in Labels \ {"idle", "get", "next"} BY DEF Labels, Holding
<1>2. Mine(t) \in Requests /\ AioTypes BY <1>1, InPlace, Zenon DEF TaskInv
<1>. DEFINE x == [Idle EXCEPT !.ret = n]
<1>3. pc' = [pc EXCEPT ![t] = "idle"] /\ loc' = [loc EXCEPT ![t] = x] BY Zenon DEF Return, Goto, Set
<1>4. x \in Locals /\ x.ios = <<>> BY IdleTyped, FieldsKept, ZenonT(30)
<1>. HIDE DEF x
<1>5. pc'[t] = "idle" /\ loc'[t] = x BY <1>2, <1>3, Zenon DEF AioTypes
<1>6. PlaceInv(t)' /\ ActiveInv(t)' BY <1>4, <1>5, OutsideInv, Zenon
<1>. DEFINE P == pending[Mine(t)]
<1>7. pending' = [pending EXCEPT ![Mine(t)] = P] /\ P \in SUBSET Nat BY <1>2 DEF AioTypes
<1>8. P # {} => k.live OBVIOUS
<1>. HIDE DEF P
<1>. QED BY <1>1, <1>3, <1>4, <1>6, <1>7, <1>8, IdleTyped, TaskStep, Zenon

LEMMA ToWrite ==
    ASSUME TaskInv, NEW t \in Threads, pc[t] = "io", NEW k, NEW n \in Int,
           k \in TaskOf(Mine(t)), k.live, pending[Mine(t)] = {},
           Goto(t, "write"), Set(t, [loc[t] EXCEPT !.res = n]),
           task' = [task EXCEPT ![Mine(t)] = k], pending' = pending,
           context' = context, iocount' \in Int, moved' \in [Requests -> Int]
    PROVE  TaskInv'
<1>1. pc[t] \in Labels \ {"idle", "get", "next"} BY DEF Labels, Holding
<1>2. Mine(t) \in Requests /\ AioTypes /\ loc[t] \in Locals BY <1>1, InPlace, Zenon DEF TaskInv
<1>. DEFINE x == [loc[t] EXCEPT !.res = n]
<1>3. pc' = [pc EXCEPT ![t] = "write"] /\ loc' = [loc EXCEPT ![t] = x] BY Zenon DEF Goto, Set
<1>4. x \in Locals /\ x.ios = loc[t].ios /\ x.i = loc[t].i BY <1>2, FieldsKept, Zenon
<1>. HIDE DEF x
<1>5. /\ pc'[t] = "write" /\ loc'[t] = x /\ task'[Mine(t)] = k
      /\ \A q \in Requests \ {Mine(t)} : task'[q] = task[q]
  BY <1>2, <1>3, Zenon DEF AioTypes
<1>6. "write" \in Labels /\ "write" \in Holding /\ "write" # "io" BY DEF Labels, Holding
<1>7. PlaceInv(t)' BY <1>1, <1>4, <1>5, <1>6, PlaceAfter, Zenon
<1>8. Mine(t)' = Mine(t) BY <1>4, <1>5, Zenon DEF Mine
<1>9. ActiveInv(t)' BY <1>5, <1>6, <1>8, Zenon DEF ActiveInv, Mine
<1>. DEFINE P == pending[Mine(t)]
<1>10. pending' = [pending EXCEPT ![Mine(t)] = P] /\ P \in SUBSET Nat BY <1>2 DEF AioTypes
<1>11. P # {} => k.live OBVIOUS
<1>. HIDE DEF P
<1>. QED BY <1>1, <1>3, <1>4, <1>6, <1>7, <1>9, <1>10, <1>11, TaskStep, Zenon

LEMMA ToSegment ==
    ASSUME TaskInv, AioFacts, NEW t \in Threads, pc[t] = "io", NEW k, NEW P,
           k \in TaskOf(Mine(t)), k.live, P \subseteq 1 .. loc[t].seg,
           loc[t].seg # Len(Segments[Mine(t)]),
           Vectored(Mine(t)) => k.active = Len(Segments[Mine(t)]) - loc[t].seg + 1 + Cardinality(P),
           UNCHANGED pc, Set(t, [loc[t] EXCEPT !.seg = loc[t].seg + 1]),
           task' = [task EXCEPT ![Mine(t)] = k], pending' = [pending EXCEPT ![Mine(t)] = P],
           context' = context, iocount' \in Int, moved' \in [Requests -> Int],
           Cardinality(P) \in Nat
    PROVE  TaskInv'
<1>1. "io" \in Labels \ {"idle", "get", "next"} /\ "io" \in Holding BY DEF Labels, Holding
<1>2. Mine(t) \in Requests /\ AioTypes /\ loc[t] \in Locals /\ ActiveInv(t)
  BY <1>1, InPlace, Zenon DEF TaskInv
<1>. DEFINE x == [loc[t] EXCEPT !.seg = loc[t].seg + 1]
            r == Mine(t)
<1>3. loc[t].seg \in 1 .. Len(Segments[r]) /\ Len(Segments[r]) \in Nat /\ loc[t].seg + 1 \in Int
      /\ loc[t].seg \in Int
  BY <1>2, TaskParts DEF ActiveInv, Locals
<1>4. pc' = [pc EXCEPT ![t] = "io"] /\ loc' = [loc EXCEPT ![t] = x] BY <1>2 DEF Set, AioTypes
<1>5. x \in Locals /\ x.ios = loc[t].ios /\ x.i = loc[t].i /\ x.seg = loc[t].seg + 1
  BY <1>2, <1>3, FieldsKept, ZenonT(30)
<1>. HIDE DEF x
<1>6. /\ pc'[t] = "io" /\ loc'[t] = x /\ task'[r] = k /\ pending'[r] = P
      /\ \A q \in Requests \ {r} : task'[q] = task[q]
  BY <1>2, <1>4, Zenon DEF AioTypes
<1>7. PlaceInv(t)' BY <1>1, <1>5, <1>6, PlaceAfter, Zenon
<1>8. Mine(t)' = r BY <1>5, <1>6, Zenon DEF Mine
<1>. HIDE DEF r
<1>9. ActiveInv(t)'
  <2>1. loc'[t].seg \in 1 .. Len(Segments[r]) BY <1>3, <1>5, <1>6 DEF r
  <2>2. pending'[r] \subseteq 1 .. loc'[t].seg - 1 BY <1>3, <1>5, <1>6
  <2>3. Vectored(r) => task'[r].active = Len(Segments[r]) - loc'[t].seg + 2 + Cardinality(pending'[r])
    <3>1. SUFFICES ASSUME Vectored(r)
                   PROVE  task'[r].active = Len(Segments[r]) - loc'[t].seg + 2 + Cardinality(pending'[r])
      OBVIOUS
    <3>2. k.active = Len(Segments[r]) - loc[t].seg + 1 + Cardinality(P) BY <3>1, Zenon DEF r
    <3>3. task'[r].active = k.active /\ loc'[t].seg = loc[t].seg + 1 /\ pending'[r] = P
      BY <1>5, <1>6, Zenon
    <3>4. \A a, b, c \in Int : a - b + 1 + c = a - (b + 1) + 2 + c OBVIOUS
    <3>5. Len(Segments[r]) \in Int /\ loc[t].seg \in Int /\ Cardinality(P) \in Int BY <1>3
    <3>6. Len(Segments[r]) - loc[t].seg + 1 + Cardinality(P) =
            Len(Segments[r]) - (loc[t].seg + 1) + 2 + Cardinality(P)
      BY <3>4, <3>5, ZenonT(30)
    <3>7. k.active = Len(Segments[r]) - loc'[t].seg + 2 + Cardinality(pending'[r])
      BY <3>2, <3>3, <3>6, Zenon
    <3>. QED BY <3>3, <3>7, Zenon
  <2>. QED BY <1>6, <1>8, <2>1, <2>2, <2>3, Zenon DEF ActiveInv, Mine, Vectored
<1>10. P \in SUBSET Nat BY <1>3
<1>. QED BY <1>1, <1>4, <1>5, <1>7, <1>9, <1>10, TaskStep, Zenon DEF r
-----------------------------------------------------------------------------
(***************************************************************************)
(* Sums.  The library's induction theorems take an operator; an argument   *)
(* by the least number that fails does not need one.                       *)
(***************************************************************************)
LEMMA LeastNumber ==
    ASSUME AioFacts, NEW S, S \subseteq Nat, S # {}
    PROVE  \E n \in S : \A m \in S : n <= m
BY Zenon DEF AioFacts, Counting

\* f holds the sums of the first numbers of q.
Sums(q, f, n) == f[0] = 0 /\ \A i \in 1 .. n : f[i] = f[i - 1] + q[i]

LEMMA SumsUnique ==
    ASSUME AioFacts, NEW q, NEW f, NEW g, NEW n \in Nat, Sums(q, f, n), Sums(q, g, n)
    PROVE  \A i \in 0 .. n : f[i] = g[i]
<1>. DEFINE S == {i \in 0 .. n : f[i] # g[i]}
<1>1. SUFFICES ASSUME S # {} PROVE FALSE OBVIOUS
<1>2. S \subseteq Nat OBVIOUS
<1>3. PICK i \in S : \A m \in S : i <= m BY <1>1, <1>2, LeastNumber, Zenon
<1>4. i \in 1 .. n /\ i - 1 \in 0 .. n /\ i - 1 \notin S BY <1>3 DEF Sums
<1>5. f[i - 1] = g[i - 1] BY <1>4
<1>6. f[i] = f[i - 1] + q[i] /\ g[i] = g[i - 1] + q[i] BY <1>4, Zenon DEF Sums
<1>. QED BY <1>3, <1>5, <1>6

LEMMA SumsExist ==
    ASSUME AioFacts, NEW q \in Seq(Int)
    PROVE  \E f \in [0 .. Len(q) -> Int] : Sums(q, f, Len(q))
<1>. DEFINE S == {n \in 0 .. Len(q) : ~\E f \in [0 .. n -> Int] : Sums(q, f, n)}
<1>0. Len(q) \in Nat /\ Len(q) \in 0 .. Len(q) OBVIOUS
<1>1. SUFFICES ASSUME S # {} PROVE FALSE BY <1>0, Zenon
<1>2. S \subseteq Nat OBVIOUS
<1>3. PICK n \in S : \A m \in S : n <= m BY <1>1, <1>2, LeastNumber, Zenon
<1>4. n \in Nat /\ n <= Len(q) /\ ~\E f \in [0 .. n -> Int] : Sums(q, f, n) OBVIOUS
<1>5. n # 0
  <2>1. SUFFICES ASSUME n = 0 PROVE FALSE OBVIOUS
  <2>. DEFINE f == [i \in 0 .. 0 |-> 0]
  <2>2. f \in [0 .. 0 -> Int] /\ Sums(q, f, 0) BY DEF Sums
  <2>. HIDE DEF f
  <2>. QED BY <1>4, <2>1, <2>2
<1>6. n - 1 \in 0 .. Len(q) /\ n - 1 \notin S BY <1>3, <1>4, <1>5
<1>7. PICK f \in [0 .. n - 1 -> Int] : Sums(q, f, n - 1) BY <1>6, Zenon
<1>. DEFINE g == [i \in 0 .. n |-> IF i = n THEN f[n - 1] + q[n] ELSE f[i]]
<1>8. q[n] \in Int BY <1>4, <1>5
<1>9. g \in [0 .. n -> Int]
  <2>1. f[n - 1] + q[n] \in Int BY <1>4, <1>5, <1>7, <1>8
  <2>2. \A i \in 0 .. n : i # n => i \in 0 .. n - 1 BY <1>4
  <2>3. \A i \in 0 .. n : i # n => f[i] \in Int BY <1>7, <2>2, Zenon
  <2>. QED BY <2>1, <2>3, Zenon
<1>10. Sums(q, g, n)
  <2>1. f[0] = 0 /\ \A i \in 1 .. n - 1 : f[i] = f[i - 1] + q[i] BY <1>7, Zenon DEF Sums
  <2>2. g[0] = f[0] BY <1>4, <1>5
  <2>3. ASSUME NEW i \in 1 .. n PROVE g[i] = g[i - 1] + q[i]
    <3>1. CASE i = n BY <1>4, <1>5, <3>1
    <3>2. CASE i # n
      <4>1. i \in 1 .. n - 1 /\ i \in 0 .. n /\ i - 1 \in 0 .. n /\ i - 1 # n BY <1>4, <3>2
      <4>2. g[i] = f[i] /\ g[i - 1] = f[i - 1] BY <3>2, <4>1, Zenon
      <4>. QED BY <2>1, <4>1, <4>2, Zenon
    <3>. QED BY <3>1, <3>2
  <2>. HIDE DEF g
  <2>. QED BY <2>1, <2>2, <2>3 DEF Sums
<1>. HIDE DEF g
<1>. QED BY <1>4, <1>9, <1>10, Zenon

LEMMA SumIs ==
    ASSUME AioFacts, NEW q \in Seq(Int), NEW f, Sums(q, f, Len(q))
    PROVE  Sum(q) = f[Len(q)]
<1>. DEFINE F(g) == [i \in 0 .. Len(q) |-> IF i = 0 THEN 0 ELSE g[i - 1] + q[i]]
            h == CHOOSE g : g = F(g)
<1>1. PICK g \in [0 .. Len(q) -> Int] : Sums(q, g, Len(q)) BY SumsExist
<1>2. g = F(g)
  <2>1. \A i \in 0 .. Len(q) : g[i] = IF i = 0 THEN 0 ELSE g[i - 1] + q[i]
    <3>1. \A i \in 0 .. Len(q) : i = 0 \/ i \in 1 .. Len(q) OBVIOUS
    <3>. QED BY <1>1, <3>1, Zenon DEF Sums
  <2>. QED BY <1>1, <2>1, Zenon
<1>3. h = F(h) BY <1>2, Zenon
<1>4. Sum(q) = h[Len(q)] BY Zenon DEF Sum
<1>. HIDE DEF h
<1>5. Sums(q, h, Len(q))
  <2>1. \A i \in 0 .. Len(q) : h[i] = IF i = 0 THEN 0 ELSE h[i - 1] + q[i] BY <1>3, Zenon
  <2>2. Len(q) \in Nat OBVIOUS
  <2>3. 0 \in 0 .. Len(q) /\ \A i \in 1 .. Len(q) : i \in 0 .. Len(q) /\ i # 0 BY <2>2
  <2>. QED BY <2>1, <2>3, Zenon DEF Sums
<1>6. Len(q) \in Nat /\ Len(q) \in 0 .. Len(q) OBVIOUS
<1>. HIDE DEF F
<1>7. \A i \in 0 .. Len(q) : h[i] = f[i] BY <1>5, <1>6, SumsUnique
<1>8. h[Len(q)] = f[Len(q)] BY <1>5, <1>6, <1>7, Zenon
<1>. QED BY <1>4, <1>8, Zenon

(* The sum of the first numbers grows by one of them at a time, and depends    *)
(* on nothing else.                                                           *)
LEMMA PrefixSums ==
    ASSUME AioFacts, NEW q \in Seq(Int)
    PROVE  \E f \in [0 .. Len(q) -> Int] :
             Sums(q, f, Len(q)) /\ \A m \in 0 .. Len(q) : Sum(SubSeq(q, 1, m)) = f[m]
<1>1. PICK f \in [0 .. Len(q) -> Int] : Sums(q, f, Len(q)) BY SumsExist, Zenon
<1>2. ASSUME NEW m \in 0 .. Len(q) PROVE Sum(SubSeq(q, 1, m)) = f[m]
  <2>. DEFINE p == SubSeq(q, 1, m)
  <2>1. p \in Seq(Int) /\ Len(p) = m /\ \A i \in 1 .. m : p[i] = q[i] OBVIOUS
  <2>. HIDE DEF p
  <2>2. \A i \in 1 .. m : i \in 1 .. Len(q) OBVIOUS
  <2>3. Sums(p, f, m) BY <1>1, <2>1, <2>2, Zenon DEF Sums
  <2>4. Sum(p) = f[Len(p)] BY <2>1, <2>3, SumIs, Zenon
  <2>. QED BY <2>1, <2>4, Zenon DEF p
<1>. QED BY <1>1, <1>2, Zenon

LEMMA SumGrows ==
    ASSUME AioFacts, NEW q \in Seq(Int)
    PROVE  /\ \A m \in 0 .. Len(q) : Sum(SubSeq(q, 1, m)) \in Int
           /\ Sum(SubSeq(q, 1, 0)) = 0
           /\ \A m \in 1 .. Len(q) : Sum(SubSeq(q, 1, m)) = Sum(SubSeq(q, 1, m - 1)) + q[m]
           /\ SubSeq(q, 1, Len(q)) = q
<1>1. PICK f \in [0 .. Len(q) -> Int] :
        Sums(q, f, Len(q)) /\ \A m \in 0 .. Len(q) : Sum(SubSeq(q, 1, m)) = f[m]
  BY PrefixSums, Zenon
<1>2. 0 \in 0 .. Len(q) /\ \A m \in 1 .. Len(q) : m \in 0 .. Len(q) /\ m - 1 \in 0 .. Len(q) OBVIOUS
<1>3. \A m \in 0 .. Len(q) : Sum(SubSeq(q, 1, m)) \in Int BY <1>1, Zenon
<1>4. Sum(SubSeq(q, 1, 0)) = 0 BY <1>1, <1>2, Zenon DEF Sums
<1>5. \A m \in 1 .. Len(q) : Sum(SubSeq(q, 1, m)) = Sum(SubSeq(q, 1, m - 1)) + q[m]
  BY <1>1, <1>2, Zenon DEF Sums
<1>6. SubSeq(q, 1, Len(q)) = q OBVIOUS
<1>. QED BY <1>3, <1>4, <1>5, <1>6, Zenon

LEMMA SumPrefix ==
    ASSUME AioFacts, NEW p \in Seq(Int), NEW q \in Seq(Int), NEW m \in 0 .. Len(p), m <= Len(q),
           \A i \in 1 .. m : p[i] = q[i]
    PROVE  Sum(SubSeq(p, 1, m)) = Sum(SubSeq(q, 1, m))
<1>1. SubSeq(p, 1, m) = SubSeq(q, 1, m) OBVIOUS
<1>. QED BY <1>1, Zenon

(* Shorter segments add up to less.                                           *)
LEMMA SumBounded ==
    ASSUME AioFacts, NEW p \in Seq(Int), NEW q \in Seq(Int), Len(p) = Len(q),
           \A i \in 1 .. Len(p) : 0 <= p[i] /\ p[i] <= q[i]
    PROVE  \A m \in 0 .. Len(p) : 0 <= Sum(SubSeq(p, 1, m)) /\ Sum(SubSeq(p, 1, m)) <= Sum(q)
<1>1. PICK f \in [0 .. Len(p) -> Int] :
        Sums(p, f, Len(p)) /\ \A m \in 0 .. Len(p) : Sum(SubSeq(p, 1, m)) = f[m]
  BY PrefixSums, Zenon
<1>2. PICK g \in [0 .. Len(q) -> Int] :
        Sums(q, g, Len(q)) /\ \A m \in 0 .. Len(q) : Sum(SubSeq(q, 1, m)) = g[m]
  BY PrefixSums, Zenon
<1>. DEFINE N == Len(p)
<1>0. N \in Nat /\ N \in 0 .. N OBVIOUS
<1>3. \A i \in 1 .. N : /\ f[i] = f[i - 1] + p[i] /\ g[i] = g[i - 1] + q[i] /\ i \in 0 .. N /\ i - 1 \in 0 .. N
                        /\ p[i] \in Int /\ q[i] \in Int /\ 0 <= p[i] /\ p[i] <= q[i]
  <2>1. \A i \in 1 .. N : /\ f[i] = f[i - 1] + p[i] /\ g[i] = g[i - 1] + q[i]
    BY <1>1, <1>2, Zenon DEF Sums
  <2>. QED BY <2>1
<1>4. f[0] = 0 /\ g[0] = 0 BY <1>1, <1>2, Zenon DEF Sums
<1>5. \A m \in 0 .. N : f[m] \in Int /\ g[m] \in Int BY <1>1, <1>2
<1>. HIDE DEF N
<1>6. \A m \in 0 .. N : 0 <= f[m] /\ f[m] <= g[m]
  <2>. DEFINE S == {m \in 0 .. N : ~(0 <= f[m] /\ f[m] <= g[m])}
  <2>1. SUFFICES ASSUME S # {} PROVE FALSE OBVIOUS
  <2>2. S \subseteq Nat BY <1>0
  <2>3. PICK m \in S : \A k \in S : m <= k BY <2>1, <2>2, LeastNumber, Zenon
  <2>4. m \in 1 .. N /\ m - 1 \in 0 .. N /\ m - 1 \notin S BY <1>0, <1>4, <2>3
  <2>5. 0 <= f[m - 1] /\ f[m - 1] <= g[m - 1] BY <2>4
  <2>6. /\ f[m] = f[m - 1] + p[m] /\ g[m] = g[m - 1] + q[m]
        /\ p[m] \in Int /\ q[m] \in Int /\ 0 <= p[m] /\ p[m] <= q[m]
        /\ f[m - 1] \in Int /\ g[m - 1] \in Int
    BY <1>3, <1>5, <2>4, Zenon
  <2>7. \A a, b, c, d : /\ a \in Int /\ b \in Int /\ c \in Int /\ d \in Int
                         /\ 0 <= a /\ a <= b /\ 0 <= c /\ c <= d => 0 <= a + c /\ a + c <= b + d
    OBVIOUS
  <2>8. 0 <= f[m - 1] + p[m] /\ f[m - 1] + p[m] <= g[m - 1] + q[m] BY <2>5, <2>6, <2>7, Zenon
  <2>9. 0 <= f[m] /\ f[m] <= g[m] BY <2>6, <2>8, Zenon
  <2>. QED BY <2>3, <2>9
<1>7. \A m \in 0 .. N : g[m] <= g[N]
  <2>. DEFINE S == {j \in 0 .. N : ~(g[N - j] <= g[N])}
  <2>1. SUFFICES ASSUME S # {} PROVE FALSE
    <3>1. ASSUME NEW m \in 0 .. N PROVE N - m \in 0 .. N /\ N - (N - m) = m BY <1>0
    <3>. QED BY <3>1, Zenon
  <2>2. S \subseteq Nat BY <1>0
  <2>3. PICK j \in S : \A k \in S : j <= k BY <2>1, <2>2, LeastNumber, Zenon
  <2>. HIDE DEF S
  <2>0. N - 0 = N /\ g[N] <= g[N] /\ g[N] \in Int BY <1>0, <1>5
  <2>a. 0 \notin S BY <2>0, Zenon DEF S
  <2>b. j \in 0 .. N /\ ~(g[N - j] <= g[N]) BY <2>3, Zenon DEF S
  <2>c. j # 0 BY <2>3, <2>a, Zenon
  <2>4. j \in 1 .. N /\ j - 1 \in 0 .. N /\ ~(j <= j - 1) BY <1>0, <2>b, <2>c
  <2>d. j - 1 \notin S BY <2>3, <2>4, Zenon
  <2>e. g[N - (j - 1)] <= g[N] BY <2>4, <2>d, Zenon DEF S
  <2>f. N - (j - 1) = (N - j) + 1 BY <1>0, <2>4
  <2>5. g[(N - j) + 1] <= g[N] BY <2>e, <2>f, Zenon
  <2>6. (N - j) + 1 \in 1 .. N /\ ((N - j) + 1) - 1 = N - j /\ N - j \in 0 .. N BY <1>0, <2>4
  <2>7. g[(N - j) + 1] = g[N - j] + q[(N - j) + 1] /\ q[(N - j) + 1] \in Int /\ 0 <= q[(N - j) + 1]
    <3>1. \A i \in 1 .. N : g[i] = g[i - 1] + q[i] /\ q[i] \in Int /\ 0 <= q[i] BY <1>3, SMTT(30)
    <3>2. g[(N - j) + 1] = g[((N - j) + 1) - 1] + q[(N - j) + 1] BY <2>6, <3>1, Zenon
    <3>. QED BY <2>6, <3>1, <3>2, Zenon
  <2>8. g[N - j] \in Int BY <1>5, <2>6, Zenon
  <2>9. \A a, b, c : a \in Int /\ b \in Int /\ c \in Int /\ 0 <= b /\ a + b <= c => a <= c OBVIOUS
  <2>10. g[N - j] + q[(N - j) + 1] <= g[N] BY <2>5, <2>7, Zenon
  <2>11. g[N - j] <= g[N] BY <2>0, <2>7, <2>8, <2>9, <2>10, Zenon
  <2>. QED BY <2>b, <2>11, Zenon
<1>8. Sum(q) = g[N]
  <2>1. SubSeq(q, 1, Len(q)) = q /\ N = Len(q) BY DEF N
  <2>. QED BY <1>0, <1>2, <2>1, Zenon
<1>9. \A m \in 0 .. N : Sum(SubSeq(p, 1, m)) = f[m] BY <1>1, Zenon DEF N
<1>10. \A m \in 0 .. N : 0 <= Sum(SubSeq(p, 1, m)) /\ Sum(SubSeq(p, 1, m)) <= Sum(q)
  <2>. SUFFICES ASSUME NEW m \in 0 .. N PROVE 0 <= Sum(SubSeq(p, 1, m)) /\ Sum(SubSeq(p, 1, m)) <= Sum(q)
    OBVIOUS
  <2>1. f[m] <= g[N] /\ 0 <= f[m] BY <1>0, <1>5, <1>6, <1>7
  <2>. QED BY <1>8, <1>9, <2>1, Zenon
<1>. QED BY <1>10 DEF N
-----------------------------------------------------------------------------
(* wpdk_aio_iov_done looks for the first segment that was short or failed.    *)
LEMMA IovIs ==
    ASSUME AioFacts, NEW r \in Requests, NEW k \in TaskOf(r), Len(Segments[r]) >= 1
    PROVE  /\ k.result \in Seq(Int) /\ Len(k.result) = Len(Segments[r])
           /\ \E last \in 1 .. Len(Segments[r]) :
                /\ \A i \in 1 .. last - 1 : ~k.short[i] /\ ~(k.result[i] < 0)
                /\ k.short[last] \/ k.result[last] < 0 \/ last = Len(Segments[r])
                /\ IovResult(k) = IF k.result[last] < 0 THEN k.result[last]
                                  ELSE Sum(SubSeq(k.result, 1, last))
           /\ IovResult(k) \in Int
<1>. DEFINE L == Len(Segments[r])
            stops == {i \in DOMAIN k.result : k.short[i] \/ k.result[i] < 0}
            last == IF stops = {} THEN Len(k.result) ELSE CHOOSE i \in stops : \A j \in stops : i <= j
<1>1. L \in Nat /\ L >= 1 BY TaskParts, Zenon
<1>2. k.result \in [1 .. L -> Int] BY DEF TaskOf
<1>3. k.result \in Seq(Int) /\ Len(k.result) = L
  <2>. HIDE DEF L
  <2>. QED BY <1>1, <1>2
<1>4. IovResult(k) = IF k.result[last] < 0 THEN k.result[last] ELSE Sum(SubSeq(k.result, 1, last))
  BY Zenon DEF IovResult
<1>5. /\ stops = {i \in 1 .. L : k.short[i] \/ k.result[i] < 0}
  BY <1>2, Zenon
<1>. HIDE DEF L, stops
<1>6. last = IF stops = {} THEN L ELSE CHOOSE i \in stops : \A j \in stops : i <= j BY <1>3
<1>. HIDE DEF last
<1>7. /\ last \in 1 .. L
      /\ \A i \in 1 .. last - 1 : i \notin stops
      /\ last \in stops \/ last = L
  <2>1. CASE stops = {} BY <1>1, <1>6, <2>1
  <2>2. CASE stops # {}
    <3>1. stops \subseteq Nat /\ stops \subseteq 1 .. L BY <1>1, <1>5
    <3>2. \E i \in stops : \A j \in stops : i <= j BY <2>2, <3>1, LeastNumber, Zenon
    <3>3. last \in stops /\ \A j \in stops : last <= j BY <1>6, <2>2, <3>2, Zenon
    <3>4. last \in 1 .. L BY <3>1, <3>3, Zenon
    <3>5. \A i \in 1 .. last - 1 : ~(last <= i) BY <1>1, <3>4
    <3>. QED BY <3>3, <3>4, <3>5, Zenon
  <2>. QED BY <2>1, <2>2, Zenon
<1>8. \A i \in 1 .. last - 1 : i \in 1 .. L BY <1>1, <1>7
<1>9. \A i \in 1 .. last - 1 : ~k.short[i] /\ ~(k.result[i] < 0) BY <1>5, <1>7, <1>8, Zenon
<1>10. k.short[last] \/ k.result[last] < 0 \/ last = L BY <1>5, <1>7, Zenon
<1>11. IovResult(k) \in Int
  <2>1. k.result[last] \in Int BY <1>2, <1>7, Zenon
  <2>2. last \in 0 .. L BY <1>1, <1>7
  <2>3. Sum(SubSeq(k.result, 1, last)) \in Int BY <1>3, <2>2, SumGrows, Zenon
  <2>. QED BY <1>4, <2>1, <2>3, Zenon
<1>. QED BY <1>3, <1>4, <1>7, <1>9, <1>10, <1>11, Zenon DEF L

(* The task k of r has recorded its segments before s in full or not at all,  *)
(* and the m bytes moved are theirs.                                          *)
Good(r, k, s, m) ==
    /\ \A j \in 1 .. Len(Segments[r]) :
        ~k.short[j] /\ 0 <= k.result[j] /\ k.result[j] <= Segments[r][j]
    /\ \A j \in s .. Len(Segments[r]) : k.result[j] = 0
    /\ m = Sum(SubSeq(k.result, 1, s - 1))

\* x is k with n bytes recorded for segment s.
With(r, k, s, n, x) ==
    /\ x.result[s] = n /\ \A j \in 1 .. Len(Segments[r]) \ {s} : x.result[j] = k.result[j]
    /\ x.short[s] <=> n # Segments[r][s]
    /\ \A j \in 1 .. Len(Segments[r]) \ {s} : x.short[j] <=> k.short[j]

LEMMA TaskSeq ==
    ASSUME AioFacts, NEW r \in Requests, NEW k \in TaskOf(r)
    PROVE  /\ k.result \in Seq(Int) /\ Len(k.result) = Len(Segments[r])
           /\ Segments[r] \in Seq(Int) /\ Len(Segments[r]) \in Nat
<1>. DEFINE L == Len(Segments[r])
<1>1. L \in Nat BY TaskParts, Zenon
<1>2. k.result \in [1 .. L -> Int] BY Zenon DEF TaskOf
<1>3. Segments[r] \in Seq(Nat) BY DEF AioFacts, AioAssumption, SegmentsAssumption
<1>4. Segments[r] \in Seq(Int) BY <1>3
<1>. HIDE DEF L
<1>5. k.result \in Seq(Int) /\ Len(k.result) = L BY <1>1, <1>2
<1>. QED BY <1>1, <1>4, <1>5, Zenon DEF L

LEMMA GoodNew ==
    ASSUME AioFacts, NEW r \in Requests
    PROVE  Good(r, NewTask(r), 1, 0)
<1>. DEFINE k == NewTask(r)
<1>1. /\ k \in TaskOf(r) /\ \A i \in 1 .. Len(Segments[r]) : k.result[i] = 0 /\ ~k.short[i]
      /\ \A i \in 1 .. Len(Segments[r]) : Segments[r][i] \in Nat
  BY TaskParts, Zenon
<1>. HIDE DEF k
<1>2. Sum(SubSeq(k.result, 1, 0)) = 0 BY <1>1, TaskSeq, SumGrows, Zenon
<1>3. \A i \in 1 .. Len(Segments[r]) : 0 <= k.result[i] /\ k.result[i] <= Segments[r][i] BY <1>1
<1>4. 1 - 1 = 0 OBVIOUS
<1>. QED BY <1>1, <1>2, <1>3, <1>4, Zenon DEF Good, k

LEMMA GoodSkip ==
    ASSUME AioFacts, NEW r \in Requests, NEW k \in TaskOf(r), NEW s \in 1 .. Len(Segments[r]), NEW m,
           Good(r, k, s, m)
    PROVE  Good(r, k, s + 1, m)
<1>1. k.result \in Seq(Int) /\ Len(k.result) = Len(Segments[r]) /\ Len(Segments[r]) \in Nat
  BY TaskSeq, Zenon
<1>2. s \in 1 .. Len(k.result) /\ s \in s .. Len(Segments[r]) /\ s - 1 \in 0 .. Len(k.result) BY <1>1
<1>3. Sum(SubSeq(k.result, 1, s)) = Sum(SubSeq(k.result, 1, s - 1)) + k.result[s]
      /\ Sum(SubSeq(k.result, 1, s - 1)) \in Int
  BY <1>1, <1>2, SumGrows, Zenon
<1>4. k.result[s] = 0 BY <1>2, Zenon DEF Good
<1>5. Sum(SubSeq(k.result, 1, s)) = Sum(SubSeq(k.result, 1, s - 1)) BY <1>3, <1>4
<1>6. m = Sum(SubSeq(k.result, 1, s - 1)) BY Zenon DEF Good
<1>7. (s + 1) - 1 = s /\ \A j \in s + 1 .. Len(Segments[r]) : j \in s .. Len(Segments[r]) BY <1>1
<1>. QED BY <1>5, <1>6, <1>7, Zenon DEF Good

LEMMA WithSums ==
    ASSUME AioFacts, NEW r \in Requests, NEW k \in TaskOf(r), NEW s \in 1 .. Len(Segments[r]), NEW m,
           Good(r, k, s, m), NEW n \in Int, NEW x \in TaskOf(r), With(r, k, s, n, x)
    PROVE  Sum(SubSeq(x.result, 1, s)) = m + n /\ m \in Int
<1>1. /\ k.result \in Seq(Int) /\ Len(k.result) = Len(Segments[r]) /\ Len(Segments[r]) \in Nat
      /\ x.result \in Seq(Int) /\ Len(x.result) = Len(Segments[r])
  BY TaskSeq, Zenon
<1>2. s \in 1 .. Len(x.result) /\ s - 1 \in 0 .. Len(x.result) /\ s - 1 <= Len(k.result) BY <1>1
<1>3. /\ Sum(SubSeq(x.result, 1, s)) = Sum(SubSeq(x.result, 1, s - 1)) + x.result[s]
      /\ Sum(SubSeq(x.result, 1, s - 1)) \in Int
  BY <1>1, <1>2, SumGrows, Zenon
<1>4. \A j \in 1 .. s - 1 : j \in 1 .. Len(Segments[r]) \ {s} BY <1>1
<1>5. \A j \in 1 .. s - 1 : x.result[j] = k.result[j] BY <1>4, Zenon DEF With
<1>6. Sum(SubSeq(x.result, 1, s - 1)) = Sum(SubSeq(k.result, 1, s - 1))
  BY <1>1, <1>2, <1>5, SumPrefix, Zenon
<1>7. m = Sum(SubSeq(k.result, 1, s - 1)) /\ x.result[s] = n BY Zenon DEF Good, With
<1>. QED BY <1>3, <1>6, <1>7, Zenon

LEMMA WithBounds ==
    ASSUME AioFacts, NEW r \in Requests, NEW k \in TaskOf(r), NEW s \in 1 .. Len(Segments[r]), NEW m,
           Good(r, k, s, m), NEW n \in 0 .. Segments[r][s], NEW x, With(r, k, s, n, x)
    PROVE  /\ \A j \in 1 .. Len(Segments[r]) : 0 <= x.result[j] /\ x.result[j] <= Segments[r][j]
           /\ \A j \in 1 .. Len(Segments[r]) : j # s => ~x.short[j]
           /\ x.short[s] <=> n # Segments[r][s]
<1>1. Segments[r][s] \in Nat BY TaskParts, Zenon
<1>2. x.result[s] = n /\ 0 <= n /\ n <= Segments[r][s] BY <1>1 DEF With
<1>3. ASSUME NEW j \in 1 .. Len(Segments[r]) PROVE 0 <= x.result[j] /\ x.result[j] <= Segments[r][j]
  <2>1. CASE j = s BY <1>2, <2>1, Zenon
  <2>2. CASE j # s
    <3>1. x.result[j] = k.result[j] BY <2>2, Zenon DEF With
    <3>. QED BY <3>1, Zenon DEF Good
  <2>. QED BY <2>1, <2>2
<1>4. \A j \in 1 .. Len(Segments[r]) : j # s => ~x.short[j] BY Zenon DEF With, Good
<1>. QED BY <1>3, <1>4, Zenon DEF With

LEMMA GoodNext ==
    ASSUME AioFacts, NEW r \in Requests, NEW k \in TaskOf(r), NEW s \in 1 .. Len(Segments[r]), NEW m,
           Good(r, k, s, m), NEW n \in 0 .. Segments[r][s], n = Segments[r][s],
           NEW x \in TaskOf(r), With(r, k, s, n, x)
    PROVE  Good(r, x, s + 1, m + n)
<1>1. Len(Segments[r]) \in Nat /\ Segments[r][s] \in Nat BY TaskParts, Zenon
<1>2. n \in Int BY <1>1
<1>3. Sum(SubSeq(x.result, 1, s)) = m + n /\ m \in Int BY <1>2, WithSums
<1>4. (s + 1) - 1 = s /\ \A j \in s + 1 .. Len(Segments[r]) :
        j \in s .. Len(Segments[r]) /\ j \in 1 .. Len(Segments[r]) \ {s}
  BY <1>1
<1>5. \A j \in s + 1 .. Len(Segments[r]) : x.result[j] = 0 BY <1>4, Zenon DEF Good, With
<1>6. \A j \in 1 .. Len(Segments[r]) : ~x.short[j] /\ 0 <= x.result[j] /\ x.result[j] <= Segments[r][j]
  BY WithBounds, ZenonT(30)
<1>. QED BY <1>3, <1>4, <1>5, <1>6, Zenon DEF Good

LEMMA GoodEnd ==
    ASSUME AioFacts, NEW r \in Requests, NEW k \in TaskOf(r), NEW s \in 1 .. Len(Segments[r]), NEW m,
           Good(r, k, s, m), NEW n \in 0 .. Segments[r][s], n # Segments[r][s] \/ s = Len(Segments[r]),
           NEW x \in TaskOf(r), With(r, k, s, n, x)
    PROVE  IovResult(x) = m + n /\ m + n \in 0 .. Total(r)
<1>. DEFINE L == Len(Segments[r])
<1>1. L \in Nat /\ Segments[r][s] \in Nat BY TaskParts, Zenon
<1>2. n \in Int /\ L >= 1 BY <1>1
<1>3. Sum(SubSeq(x.result, 1, s)) = m + n /\ m + n \in Int
  <2>1. Sum(SubSeq(x.result, 1, s)) = m + n /\ m \in Int BY <1>2, WithSums, Zenon
  <2>. QED BY <1>2, <2>1
<1>4. PICK last \in 1 .. L :
        /\ \A i \in 1 .. last - 1 : ~x.short[i] /\ ~(x.result[i] < 0)
        /\ x.short[last] \/ x.result[last] < 0 \/ last = L
        /\ IovResult(x) = IF x.result[last] < 0 THEN x.result[last] ELSE Sum(SubSeq(x.result, 1, last))
  BY <1>2, IovIs, Zenon
<1>5. /\ \A j \in 1 .. L : 0 <= x.result[j] /\ x.result[j] <= Segments[r][j]
      /\ \A j \in 1 .. L : j # s => ~x.short[j]
      /\ x.short[s] <=> n # Segments[r][s]
  BY WithBounds, Zenon
<1>6. /\ x.result \in Seq(Int) /\ Len(x.result) = L /\ Segments[r] \in Seq(Int)
      /\ x.result \in [1 .. L -> Int]
  BY TaskSeq, Zenon DEF TaskOf
<1>. HIDE DEF L
<1>7. \A j \in 1 .. L : ~(x.result[j] < 0) BY <1>5, <1>6, SMTT(30)
<1>8. last = s
  <2>1. CASE last < s
    <3>1. last # s /\ last # L BY <1>1, <2>1 DEF L
    <3>. QED BY <1>4, <1>5, <1>7, <3>1, Zenon
  <2>2. CASE last > s
    <3>1. s \in 1 .. last - 1 /\ s # L BY <1>1, <1>4, <2>2 DEF L
    <3>. QED BY <1>4, <1>5, <3>1, Zenon DEF L
  <2>. QED BY <1>1, <2>1, <2>2 DEF L
<1>9. IovResult(x) = Sum(SubSeq(x.result, 1, s)) BY <1>4, <1>7, <1>8, Zenon
<1>10. 0 <= Sum(SubSeq(x.result, 1, s)) /\ Sum(SubSeq(x.result, 1, s)) <= Sum(Segments[r])
  <2>1. s \in 0 .. Len(x.result) BY <1>1, <1>6 DEF L
  <2>2. \A i \in 1 .. Len(x.result) : 0 <= x.result[i] /\ x.result[i] <= Segments[r][i]
    BY <1>5, <1>6, Zenon
  <2>3. Len(x.result) = Len(Segments[r]) BY <1>6, Zenon DEF L
  <2>. QED BY <1>6, <2>1, <2>2, <2>3, SumBounded, Zenon
<1>11. Sum(Segments[r]) \in Int
  <2>1. Len(Segments[r]) \in 0 .. Len(Segments[r]) BY <1>1 DEF L
  <2>. QED BY <1>6, <2>1, SumGrows, Zenon
<1>12. m + n \in 0 .. Total(r) BY <1>3, <1>10, <1>11 DEF Total
<1>. QED BY <1>3, <1>9, <1>12, Zenon

LEMMA GoodSingle ==
    ASSUME AioFacts, NEW r \in Requests, NEW k \in TaskOf(r), Len(Segments[r]) = 1, NEW m,
           Good(r, k, 1, m), NEW n \in 0 .. Segments[r][1]
    PROVE  m = 0 /\ m + n = n /\ n \in 0 .. Total(r) /\ n \in Int
<1>1. /\ k.result \in Seq(Int) /\ Segments[r] \in Seq(Int) BY TaskSeq, Zenon
<1>2. 1 \in 1 .. Len(Segments[r]) /\ 1 - 1 = 0 OBVIOUS
<1>3. m = 0 BY <1>1, <1>2, SumGrows, Zenon DEF Good
<1>4. Sum(SubSeq(Segments[r], 1, 1)) = Sum(SubSeq(Segments[r], 1, 0)) + Segments[r][1]
      /\ Sum(SubSeq(Segments[r], 1, 0)) = 0 /\ SubSeq(Segments[r], 1, 1) = Segments[r]
  BY <1>1, <1>2, SumGrows, Zenon
<1>5. Segments[r][1] \in Nat BY <1>2, TaskParts, Zenon
<1>6. Total(r) = Segments[r][1]
  <2>1. Total(r) = 0 + Segments[r][1] BY <1>4, Zenon DEF Total
  <2>. QED BY <1>5, <2>1
<1>7. n \in 0 .. Total(r) BY <1>6, Zenon
<1>8. n \in Int BY <1>5
<1>. QED BY <1>3, <1>7, <1>8

(* A call about to do the I/O of a segment.                                   *)
LEMMA IoFacts ==
    ASSUME AioFacts, TaskInv, NEW t \in Threads, pc[t] = "io"
    PROVE  /\ Mine(t) \in Requests /\ task[Mine(t)] \in TaskOf(Mine(t)) /\ task[Mine(t)].live
           /\ loc[t] \in Locals
           /\ Len(Segments[Mine(t)]) \in Nat /\ Len(Segments[Mine(t)]) >= 1
           /\ loc[t].seg \in 1 .. Len(Segments[Mine(t)])
           /\ Segments[Mine(t)][loc[t].seg] \in Nat
           /\ pending[Mine(t)] \subseteq 1 .. loc[t].seg - 1 /\ pending[Mine(t)] \in SUBSET Nat
           /\ IsFiniteSet(pending[Mine(t)]) /\ Cardinality(pending[Mine(t)]) \in Nat
           /\ Cardinality(pending[Mine(t)]) = 0 <=> pending[Mine(t)] = {}
           /\ Vectored(Mine(t)) =>
                task[Mine(t)].active = Len(Segments[Mine(t)]) - loc[t].seg + 2 + Cardinality(pending[Mine(t)])
           /\ ~Vectored(Mine(t)) => loc[t].seg = 1 /\ Len(Segments[Mine(t)]) = 1 /\ pending[Mine(t)] = {}
<1>. DEFINE r == Mine(t)
            L == Len(Segments[r])
<1>1. "io" \in Labels \ {"idle", "get", "next"} /\ "io" \in Holding BY DEF Labels, Holding
<1>2. r \in Requests /\ loc[t] \in Locals /\ Acceptable(r) /\ PlaceInv(t) /\ ActiveInv(t)
  BY <1>1, InPlace, Zenon
<1>3. task[r].live BY <1>1, <1>2, Zenon DEF PlaceInv
<1>4. ~NoTask.live /\ L \in Nat /\ L >= 1 /\ \A i \in 1 .. L : Segments[r][i] \in Nat
  BY <1>2, TaskParts, Zenon
<1>5. task[r] \in TaskOf(r)
  <2>1. task[r] \in TaskOf(r) \cup {NoTask} BY <1>2, Zenon DEF TaskInv, AioTypes
  <2>. QED BY <1>3, <1>4, <2>1, Zenon
<1>6. /\ loc[t].seg \in 1 .. L /\ pending[r] \subseteq 1 .. loc[t].seg - 1
      /\ Vectored(r) => task[r].active = L - loc[t].seg + 2 + Cardinality(pending[r])
  BY <1>2, Zenon DEF ActiveInv
<1>7. pending[r] \in SUBSET Nat BY <1>2, Zenon DEF TaskInv, AioTypes
<1>8. IsFiniteSet(pending[r])
  <2>1. loc[t].seg - 1 \in Int /\ 1 \in Int BY <1>4, <1>6
  <2>2. IsFiniteSet(1 .. loc[t].seg - 1) BY <2>1, Zenon DEF AioFacts, Counting
  <2>. QED BY <1>6, <2>2, Zenon DEF AioFacts, Counting
<1>9. Cardinality(pending[r]) \in Nat /\ (Cardinality(pending[r]) = 0 <=> pending[r] = {})
  BY <1>8, Zenon DEF AioFacts, Counting
<1>10. ~Vectored(r) => loc[t].seg = 1 /\ L = 1 /\ pending[r] = {}
  <2>1. SUFFICES ASSUME ~Vectored(r) PROVE loc[t].seg = 1 /\ L = 1 /\ pending[r] = {} OBVIOUS
  <2>2. ~(L > 1) BY <2>1, Zenon DEF Vectored
  <2>. HIDE DEF L, r
  <2>3. L = 1 BY <1>4, <2>2
  <2>4. loc[t].seg = 1 BY <1>6, <2>3
  <2>5. pending[r] = {} BY <1>6, <2>4
  <2>. QED BY <2>3, <2>4, <2>5
<1>. QED BY <1>2, <1>3, <1>4, <1>5, <1>6, <1>7, <1>8, <1>9, <1>10, Zenon

(* The submitter has recorded the last segment it does: the references left    *)
(* are those of the segments in the background.                               *)
LEMMA IovDoneStep ==
    ASSUME AioFacts, TaskInv, NEW t \in Threads, pc[t] = "io", NEW k, NEW c \in Int, NEW P,
           k \in TaskOf(Mine(t)), P \in SUBSET Nat, IsFiniteSet(P), k.active - c = Cardinality(P),
           IovDone(t, k, c), pending' = [pending EXCEPT ![Mine(t)] = P],
           P = {} => pending[Mine(t)] = {},
           context' = context, iocount' \in Int, moved' \in [Requests -> Int]
    PROVE  TaskInv'
<1>. DEFINE r == Mine(t)
            left == [k EXCEPT !.active = @ - c]
<1>1. /\ r \in Requests /\ Len(Segments[r]) >= 1 /\ pc[t] \in Holding
  BY IoFacts, Zenon DEF Holding
<1>2. left \in TaskOf(r) /\ left.active = Cardinality(P) /\ left.live BY <1>1, LeftParts, Zenon
<1>3. task' = [task EXCEPT ![r] = left] BY Zenon DEF IovDone
<1>4. CASE left.active = 0
  <2>1. P = {} /\ pending[r] = {} BY <1>2, <1>4, Zenon DEF AioFacts, Counting
  <2>2. Goto(t, "write") /\ Set(t, [loc[t] EXCEPT !.res = IovResult(left)]) BY <1>4, Zenon DEF IovDone
  <2>3. pending' = pending
    <3>1. pending \in [Requests -> SUBSET Nat] BY Zenon DEF TaskInv, AioTypes
    <3>. HIDE DEF r
    <3>2. [pending EXCEPT ![r] = {}] = pending BY <2>1, <3>1
    <3>. QED BY <2>1, <3>2, Zenon DEF r
  <2>4. IovResult(left) \in Int BY <1>1, <1>2, IovIs, Zenon
  <2>. QED
    <3>. DEFINE n == IovResult(left)
    <3>. HIDE DEF left, n
    <3>1. n \in Int /\ Set(t, [loc[t] EXCEPT !.res = n]) BY <2>2, <2>4, Zenon DEF n
    <3>. QED BY <1>2, <1>3, <2>1, <2>2, <2>3, <3>1, ToWrite, Zenon
<1>5. CASE left.active # 0
  <2>1. Started(t) BY <1>5, Zenon DEF IovDone
  <2>. HIDE DEF left
  <2>. QED BY <1>1, <1>2, <1>3, <2>1, ToNext, Zenon
<1>. QED BY <1>4, <1>5, Zenon

LEMMA FreeStep == ASSUME AioFacts, TaskInv, NEW t \in Threads, FreeTask(t) PROVE TaskInv'
<1>1. /\ pc[t] = "free" /\ task' = [task EXCEPT ![Mine(t)] = NoTask] /\ Started(t)
      /\ UNCHANGED <<context, pending, moved>> /\ iocount' = iocount - 1
  BY Zenon DEF FreeTask, device
<1>2. "free" \in Holding \ {"io"} /\ "free" \in Labels \ {"idle", "get", "next"} BY DEF Holding, Labels
<1>3. Mine(t) \in Requests /\ ActiveInv(t) /\ AioTypes BY <1>1, <1>2, InPlace, Zenon DEF TaskInv
<1>4. pending[Mine(t)] = {} BY <1>1, <1>2, <1>3, Zenon DEF ActiveInv
<1>5. pending' = [pending EXCEPT ![Mine(t)] = {}]
  <2>1. pending \in [Requests -> SUBSET Nat] BY <1>3, Zenon DEF AioTypes
  <2>. DEFINE r == Mine(t)
  <2>. HIDE DEF r
  <2>2. [pending EXCEPT ![r] = {}] = pending BY <1>4, <2>1 DEF r
  <2>. QED BY <1>1, <2>2, Zenon DEF r
<1>6. iocount' \in Int /\ moved' \in [Requests -> Int] BY <1>1, <1>3 DEF AioTypes
<1>7. {} \in SUBSET Nat /\ NoTask \in TaskOf(Mine(t)) \cup {NoTask} OBVIOUS
<1>. QED BY <1>1, <1>2, <1>5, <1>6, <1>7, ToNext, Zenon

LEMMA SameKept ==
    ASSUME AioTypes, NEW r \in Requests
    PROVE  [pending EXCEPT ![r] = pending[r]] = pending /\ [task EXCEPT ![r] = task[r]] = task
<1>1. pending \in [Requests -> SUBSET Nat] BY Zenon DEF AioTypes
<1>2. task = [q \in Requests |-> task[q]] BY Zenon DEF AioTypes
<1>3. [pending EXCEPT ![r] = pending[r]] = pending BY <1>1
<1>4. [task EXCEPT ![r] = task[r]] = task BY <1>2
<1>. QED BY <1>3, <1>4

LEMMA TransferStep == ASSUME AioFacts, TaskInv, NEW t \in Threads, Transfer(t) PROVE TaskInv'
<1>. DEFINE r == Mine(t)
            L == Len(Segments[r])
            i == loc[t].seg
            C == Cardinality(pending[r])
<1>1. /\ pc[t] = "io" /\ UNCHANGED <<context, iocount, pending>> BY Zenon DEF Transfer
<1>2. PICK n \in 0 .. Segments[r][i] :
        /\ moved' = [moved EXCEPT ![r] = @ + n]
        /\ IF Vectored(r) THEN TransferVector(t, n)
           ELSE Goto(t, "write") /\ Set(t, [loc[t] EXCEPT !.res = n]) /\ UNCHANGED task
  BY Zenon DEF Transfer
<1>3. /\ r \in Requests /\ task[r] \in TaskOf(r) /\ task[r].live /\ L \in Nat /\ L >= 1
      /\ i \in 1 .. L /\ Segments[r][i] \in Nat
      /\ pending[r] \subseteq 1 .. i - 1 /\ pending[r] \in SUBSET Nat /\ IsFiniteSet(pending[r])
      /\ C \in Nat /\ (C = 0 <=> pending[r] = {})
      /\ Vectored(r) => task[r].active = L - i + 2 + C
      /\ ~Vectored(r) => pending[r] = {}
  BY <1>1, IoFacts, Zenon
<1>4. n \in Int BY <1>2, <1>3
<1>5. AioTypes /\ context' = context /\ iocount' \in Int /\ pending' = pending
  BY <1>1, Zenon DEF TaskInv, AioTypes
<1>6. moved' \in [Requests -> Int]
  <2>1. moved \in [Requests -> Int] BY <1>5, Zenon DEF AioTypes
  <2>. HIDE DEF r
  <2>2. moved[r] + n \in Int BY <1>3, <1>4, <2>1
  <2>. QED BY <1>2, <2>1, <2>2
<1>7. [pending EXCEPT ![r] = pending[r]] = pending /\ [task EXCEPT ![r] = task[r]] = task
  BY <1>3, <1>5, SameKept, Zenon
<1>8. CASE ~Vectored(r)
  <2>1. Goto(t, "write") /\ Set(t, [loc[t] EXCEPT !.res = n]) /\ task' = [task EXCEPT ![r] = task[r]]
    BY <1>2, <1>7, <1>8, Zenon
  <2>2. pending[r] = {} BY <1>3, <1>8, Zenon
  <2>. QED BY <1>1, <1>3, <1>4, <1>5, <1>6, <2>1, <2>2, ToWrite, Zenon
<1>9. CASE Vectored(r)
  <2>. DEFINE len == Segments[r][i]
              k == Record(task[r], i, len, n)
  <2>1. k \in TaskOf(r) /\ k.active = task[r].active - 1
    <3>. HIDE DEF r, i, len
    <3>1. r \in Requests /\ task[r] \in TaskOf(r) /\ i \in 1 .. Len(Segments[r]) BY <1>3, Zenon DEF L
    <3>2. Record(task[r], i, len, n) \in TaskOf(r) BY <1>4, <3>1, RecordParts, Zenon
    <3>3. Record(task[r], i, len, n).active = task[r].active - 1 BY <1>4, <3>1, RecordParts
    <3>. QED BY <3>2, <3>3, Zenon
  <2>2. k.live
    <3>. HIDE DEF k
    <3>1. k.live \in {TRUE} BY <2>1 DEF TaskOf
    <3>. QED BY <3>1, Zenon
  <2>3. k.active = L - i + 1 + C
    <3>2. L \in Int /\ i \in Int /\ C \in Int BY <1>3
    <3>3. task[r].active = L - i + 2 + C BY <1>3, <1>9, Zenon
    <3>. HIDE DEF k, L, C, i, r
    <3>4. (L - i + 2 + C) - 1 = L - i + 1 + C BY <3>2
    <3>. QED BY <2>1, <3>3, <3>4, Zenon
  <2>4. TransferVector(t, n) BY <1>2, <1>9, Zenon
  <2>5. CASE n # len
    <3>1. IovDone(t, k, L - i + 1) BY <2>4, <2>5, Zenon DEF TransferVector
    <3>. HIDE DEF k, L, C, i
    <3>2. L - i + 1 \in Int /\ k.active - (L - i + 1) = C BY <1>3, <2>3
    <3>. QED BY <1>1, <1>3, <1>5, <1>6, <1>7, <2>1, <3>1, <3>2, IovDoneStep, Zenon DEF C
  <2>6. CASE n = len /\ LastSegment(t)
    <3>1. IovDone(t, k, 1) BY <2>4, <2>6, Zenon DEF TransferVector
    <3>2. i = L BY <2>6, Zenon DEF LastSegment
    <3>. HIDE DEF k, L, C, i
    <3>3. 1 \in Int /\ k.active - 1 = C BY <1>3, <2>3, <3>2
    <3>. QED BY <1>1, <1>3, <1>5, <1>6, <1>7, <2>1, <3>1, <3>3, IovDoneStep, Zenon DEF C
  <2>7. CASE n = len /\ ~LastSegment(t)
    <3>1. task' = [task EXCEPT ![r] = k] /\ Set(t, [loc[t] EXCEPT !.seg = i + 1]) /\ UNCHANGED pc
      BY <2>4, <2>7, Zenon DEF TransferVector
    <3>2. i # L BY <2>7, Zenon DEF LastSegment
    <3>3. pending[r] \subseteq 1 .. i BY <1>3, SMTT(30)
    <3>. HIDE DEF k
    <3>. QED BY <1>1, <1>3, <1>5, <1>6, <1>7, <2>1, <2>2, <2>3, <3>1, <3>2, <3>3, ToSegment, Zenon
  <2>. QED BY <2>5, <2>6, <2>7, Zenon
<1>. QED BY <1>8, <1>9, Zenon

(* A segment that goes to the background keeps its reference.                 *)
LEMMA PendingStep == ASSUME AioFacts, TaskInv, NEW t \in Threads, Pending(t) PROVE TaskInv'
<1>. DEFINE r == Mine(t)
            L == Len(Segments[r])
            i == loc[t].seg
            C == Cardinality(pending[r])
            P == pending[r] \cup {i}
<1>1. /\ pc[t] = "io" /\ UNCHANGED <<context, iocount, moved>> /\ pending' = [pending EXCEPT ![r] = P]
      /\ IF ~Vectored(r) THEN Started(t) /\ UNCHANGED task
         ELSE IF LastSegment(t) THEN IovDone(t, task[r], 1)
         ELSE Set(t, [loc[t] EXCEPT !.seg = @ + 1]) /\ UNCHANGED <<task, pc>>
  <2>1. AioTypes /\ r \in Requests BY IoFacts, Zenon DEF Pending, TaskInv
  <2>2. [pending EXCEPT ![r] = @ \cup {i}] = [pending EXCEPT ![r] = P]
    <3>. HIDE DEF r
    <3>. QED BY <2>1 DEF AioTypes
  <2>. QED BY <2>2, Zenon DEF Pending
<1>2. /\ r \in Requests /\ task[r] \in TaskOf(r) /\ task[r].live /\ L \in Nat /\ L >= 1
      /\ i \in 1 .. L /\ loc[t] \in Locals
      /\ pending[r] \subseteq 1 .. i - 1 /\ pending[r] \in SUBSET Nat /\ IsFiniteSet(pending[r])
      /\ C \in Nat
      /\ Vectored(r) => task[r].active = L - i + 2 + C
  BY <1>1, IoFacts, Zenon
<1>3. AioTypes /\ context' = context /\ iocount' \in Int /\ moved' \in [Requests -> Int]
  BY <1>1, Zenon DEF TaskInv, AioTypes
<1>4. i \notin pending[r] /\ P \in SUBSET Nat /\ P \subseteq 1 .. i /\ P # {} /\ i \in Int
  <2>. HIDE DEF r, i, L
  <2>. QED BY <1>2
<1>5. IsFiniteSet(P) /\ Cardinality(P) = C + 1 /\ Cardinality(P) \in Nat
  <2>1. \A S, x : IsFiniteSet(S) /\ x \notin S =>
            IsFiniteSet(S \cup {x}) /\ Cardinality(S \cup {x}) = Cardinality(S) + 1 BY Zenon DEF AioFacts, Counting
  <2>0. IsFiniteSet(P) /\ Cardinality(P) = C + 1 BY <1>2, <1>4, <2>1, Zenon
  <2>. HIDE DEF P, C
  <2>. QED BY <1>2, <2>0
<1>6. task = [task EXCEPT ![r] = task[r]] /\ pc[t] \in Holding
  BY <1>1, <1>2, <1>3, SameKept, Zenon DEF Holding
<1>7. CASE ~Vectored(r)
  <2>1. Started(t) /\ task' = [task EXCEPT ![r] = task[r]] BY <1>1, <1>6, <1>7, Zenon
  <2>. HIDE DEF P
  <2>. QED BY <1>1, <1>2, <1>3, <1>4, <1>6, <2>1, ToNext, Zenon
<1>8. CASE Vectored(r) /\ LastSegment(t)
  <2>1. IovDone(t, task[r], 1) BY <1>1, <1>8, Zenon
  <2>2. i = L BY <1>8, Zenon DEF LastSegment
  <2>3. task[r].active = L - i + 2 + C BY <1>2, <1>8, Zenon
  <2>. HIDE DEF P, L, i, C, r
  <2>4. 1 \in Int /\ (L - i + 2 + C) - 1 = C + 1 BY <1>2, <2>2
  <2>5. task[r].active - 1 = Cardinality(P) BY <1>5, <2>3, <2>4, Zenon
  <2>. QED BY <1>1, <1>2, <1>3, <1>4, <1>5, <2>1, <2>4, <2>5, IovDoneStep, Zenon DEF r
<1>9. CASE Vectored(r) /\ ~LastSegment(t)
  <2>1. Set(t, [loc[t] EXCEPT !.seg = i + 1]) /\ UNCHANGED pc /\ task' = [task EXCEPT ![r] = task[r]]
    <3>1. Set(t, [loc[t] EXCEPT !.seg = @ + 1]) /\ UNCHANGED <<pc, task>> BY <1>1, <1>9, Zenon
    <3>2. [loc[t] EXCEPT !.seg = @ + 1] = [loc[t] EXCEPT !.seg = i + 1] BY <1>2 DEF Locals
    <3>. QED BY <1>6, <3>1, <3>2, Zenon
  <2>2. i # L BY <1>9, Zenon DEF LastSegment
  <2>3. task[r].active = L - i + 1 + Cardinality(P)
    <3>1. task[r].active = L - i + 2 + C BY <1>2, <1>9, Zenon
    <3>. HIDE DEF P, L, i, C, r
    <3>2. L - i + 2 + C = L - i + 1 + (C + 1) BY <1>2
    <3>. QED BY <1>5, <3>1, <3>2, Zenon
  <2>. HIDE DEF P
  <2>. QED BY <1>1, <1>2, <1>3, <1>4, <1>5, <2>1, <2>2, <2>3, ToSegment, Zenon
<1>. QED BY <1>7, <1>8, <1>9, Zenon

(* A segment that fails ends the call; its task stays when others are in the  *)
(* background, and is freed when none is.                                     *)
LEMMA AbortStep == ASSUME AioFacts, TaskInv, NEW t \in Threads, Abort(t) PROVE TaskInv'
<1>. DEFINE r == Mine(t)
            L == Len(Segments[r])
            i == loc[t].seg
            c == L - i + 1
            C == Cardinality(pending[r])
            k == [task[r] EXCEPT !.result[i] = -1, !.active = @ - c]
<1>1. /\ pc[t] = "io" /\ UNCHANGED <<context, pending, moved>>
      /\ IF Vectored(r) /\ k.active # 1
         THEN /\ task' = [task EXCEPT ![r] = [k EXCEPT !.active = @ - 1]]
              /\ Return(t, loc[t].i) /\ UNCHANGED iocount
         ELSE /\ task' = [task EXCEPT ![r] = NoTask]
              /\ iocount' = iocount - 1 /\ Stop(t)
  BY Zenon DEF Abort, device
<1>2. /\ r \in Requests /\ task[r] \in TaskOf(r) /\ L \in Nat /\ i \in 1 .. L /\ loc[t] \in Locals
      /\ C \in Nat /\ (C = 0 <=> pending[r] = {})
      /\ Vectored(r) => task[r].active = L - i + 2 + C
      /\ ~Vectored(r) => pending[r] = {}
  BY <1>1, IoFacts, Zenon
<1>3. AioTypes /\ context' = context /\ moved' \in [Requests -> Int] /\ iocount \in Int
  BY <1>1, Zenon DEF TaskInv, AioTypes
<1>4. c \in Int BY <1>2
<1>5. k \in TaskOf(r) /\ k.active = task[r].active - c
  <2>. HIDE DEF c, i, r
  <2>1. r \in Requests /\ task[r] \in TaskOf(r) /\ i \in 1 .. Len(Segments[r]) BY <1>2, Zenon
  <2>2. k \in TaskOf(r) BY <1>4, <2>1, AbortParts, Zenon
  <2>3. k.active = task[r].active - c BY <1>4, <2>1 DEF TaskOf
  <2>. QED BY <2>2, <2>3, Zenon
<1>6. pc[t] \in Holding BY <1>1, Zenon DEF Holding
<1>7. loc[t].i \in Int BY <1>2 DEF Locals
<1>8. CASE Vectored(r) /\ k.active # 1
  <2>. DEFINE k1 == [k EXCEPT !.active = @ - 1]
  <2>1. task' = [task EXCEPT ![r] = k1] /\ Return(t, loc[t].i) /\ iocount' \in Int
    BY <1>1, <1>3, <1>8, Zenon
  <2>2. k1 \in TaskOf(r) /\ k1.live
    <3>. HIDE DEF k
    <3>1. 1 \in Int OBVIOUS
    <3>2. k1 \in TaskOf(r) BY <1>2, <1>5, <3>1, LeftParts, Zenon
    <3>. HIDE DEF k1
    <3>3. k1.live \in {TRUE} BY <3>2 DEF TaskOf
    <3>. QED BY <3>2, <3>3, Zenon
  <2>. HIDE DEF k1
  <2>. QED BY <1>1, <1>3, <1>6, <1>7, <2>1, <2>2, ToIdle, Zenon
<1>9. CASE ~(Vectored(r) /\ k.active # 1)
  <2>. DEFINE n == IF loc[t].i = 1 THEN -1 ELSE loc[t].i - 1
  <2>1. task' = [task EXCEPT ![r] = NoTask] /\ iocount' = iocount - 1 /\ Return(t, n)
    BY <1>1, <1>9, Zenon DEF Stop
  <2>2. n \in Int /\ iocount - 1 \in Int BY <1>3, <1>7
  <2>3. pending[r] = {}
    <3>1. CASE ~Vectored(r) BY <1>2, <3>1, Zenon
    <3>2. CASE Vectored(r)
      <4>1. k.active = 1 /\ task[r].active = L - i + 2 + C BY <1>2, <1>9, <3>2, Zenon
      <4>2. (L - i + 2 + C) - c = 1
        <5>. HIDE DEF k
        <5>. QED BY <1>5, <4>1, Zenon
      <4>3. C = 0
        <5>. HIDE DEF L, i, C
        <5>. QED BY <1>2, <4>2
      <4>. QED BY <1>2, <4>3, Zenon
    <3>. QED BY <3>1, <3>2, Zenon
  <2>. HIDE DEF n
  <2>. QED BY <1>1, <1>3, <1>6, <2>1, <2>2, <2>3, ToIdle, Zenon
<1>. QED BY <1>8, <1>9, Zenon
-----------------------------------------------------------------------------
(***************************************************************************)
(* The steps of a thread, the ring's indices, and the first invariant.     *)
(***************************************************************************)
Step(t) ==
    \/ Submit(t) \/ NextIocb(t) \/ AllocateFails(t) \/ ReadIocount(t)
    \/ IncrementIocount(t) \/ Transfer(t) \/ Pending(t) \/ Abort(t)
    \/ WriteEvent(t) \/ ReadTail(t) \/ AdvanceTail(t) \/ FreeTask(t)
    \/ Getevents(t) \/ TakeEvent(t)

RingTypes ==
    /\ head \in Slots /\ tail \in Slots
    /\ \A t \in Threads : pc[t] = "advance" => loc[t].at \in Slots

(* A step moves one thread only.                                              *)
LEMMA StepFrame ==
    ASSUME TaskInv, NEW t \in Threads, Step(t)
    PROVE  /\ pc' = [pc EXCEPT ![t] = pc'[t]] /\ loc' = [loc EXCEPT ![t] = loc'[t]]
           /\ \A u \in Threads \ {t} : pc'[u] = pc[u] /\ loc'[u] = loc[u]
<1>0. pc \in [Threads -> Labels] /\ loc \in [Threads -> Locals] BY Zenon DEF TaskInv, AioTypes
<1>1. \/ pc' = pc
      \/ \E l : Goto(t, l)
  BY Zenon DEF Step, Submit, NextIocb, AllocateFails, ReadIocount, IncrementIocount, Transfer, Pending,
     Abort, WriteEvent, ReadTail, AdvanceTail, FreeTask, Getevents, TakeEvent, Return, Stop, Started,
     TransferVector, IovDone
<1>2. \/ loc' = loc
      \/ \E x : Set(t, x)
  BY Zenon DEF Step, Submit, NextIocb, AllocateFails, ReadIocount, IncrementIocount, Transfer, Pending,
     Abort, WriteEvent, ReadTail, AdvanceTail, FreeTask, Getevents, TakeEvent, Return, Stop, Started,
     TransferVector, IovDone
<1>3. pc' = [pc EXCEPT ![t] = pc'[t]] BY <1>0, <1>1 DEF Goto
<1>4. loc' = [loc EXCEPT ![t] = loc'[t]] BY <1>0, <1>2 DEF Set
<1>. QED BY <1>0, <1>3, <1>4, Zenon

LEMMA RingStep ==
    ASSUME AioFacts, TaskInv, RingTypes, NEW t \in Threads, Step(t)
    PROVE  RingTypes'
<1>0. /\ head \in Slots /\ tail \in Slots /\ 0 \in Slots /\ \A i \in Slots : After(i) \in Slots
      /\ pc[t] = "advance" => loc[t].at \in Slots
  BY SlotFacts, Zenon DEF RingTypes
<1>1. \A u \in Threads \ {t} : pc'[u] = pc[u] /\ loc'[u] = loc[u] BY StepFrame, Zenon
<1>2. pc \in [Threads -> Labels] /\ loc \in [Threads -> Locals] BY Zenon DEF TaskInv, AioTypes
<1>3. SUFFICES head' \in Slots /\ tail' \in Slots /\ (pc'[t] = "advance" => loc'[t].at \in Slots)
  BY <1>1, Zenon DEF RingTypes
<1>4. CASE WriteEvent(t)
  <2>1. pc'[t] = "tail" /\ UNCHANGED <<head, tail>> BY <1>2, <1>4, Zenon DEF WriteEvent, Goto
  <2>. QED BY <1>0, <2>1
<1>5. CASE ReadTail(t)
  <2>1. loc'[t] = [loc[t] EXCEPT !.at = After(tail)] /\ UNCHANGED <<head, tail>>
    BY <1>2, <1>5, Zenon DEF ReadTail, Set
  <2>2. loc'[t].at = After(tail) BY <1>2, <2>1 DEF Locals
  <2>. QED BY <1>0, <2>1, <2>2, Zenon
<1>6. CASE AdvanceTail(t)
  <2>1. tail' = loc[t].at /\ head' = head /\ pc'[t] = "free" /\ pc[t] = "advance"
    BY <1>2, <1>6, Zenon DEF AdvanceTail, Goto
  <2>. QED BY <1>0, <2>1
<1>7. CASE TakeEvent(t)
  <2>1. tail' = tail /\ (head' = head \/ head' = After(head)) /\ pc[t] = "get"
        /\ (pc'[t] = "idle" \/ pc'[t] = pc[t])
    BY <1>2, <1>7, Zenon DEF TakeEvent, Return, Goto
  <2>2. pc'[t] # "advance" BY <2>1
  <2>. QED BY <1>0, <2>1, <2>2, Zenon
<1>8. CASE ~(WriteEvent(t) \/ ReadTail(t) \/ AdvanceTail(t) \/ TakeEvent(t))
  <2>1. UNCHANGED <<head, tail>>
    BY <1>8, Zenon DEF Step, Submit, NextIocb, AllocateFails, ReadIocount, IncrementIocount, Transfer,
       Pending, Abort, FreeTask, Getevents
  <2>2. pc[t] # "advance" /\ pc'[t] \in {"idle", "next", "count", "cas", "io", "write", "get", pc[t]}
    <3>1. pc[t] \in {"idle", "next", "count", "cas", "io", "free"}
      BY <1>8 DEF Step, Submit, NextIocb, AllocateFails, ReadIocount, IncrementIocount, Transfer,
         Pending, Abort, FreeTask, Getevents
    <3>2. pc' = pc \/ \E l \in {"idle", "next", "count", "cas", "io", "write", "get"} : Goto(t, l)
      BY <1>8 DEF Step, Submit, NextIocb, AllocateFails, ReadIocount, IncrementIocount, Transfer, Pending,
         Abort, FreeTask, Getevents, Return, Stop, Started, TransferVector, IovDone
    <3>. QED BY <1>2, <3>1, <3>2 DEF Goto
  <2>3. pc'[t] # "advance"
    BY <2>2
  <2>. QED BY <1>0, <2>1, <2>3, Zenon
<1>. QED BY <1>4, <1>5, <1>6, <1>7, <1>8, Zenon

LEMMA TaskNext ==
    ASSUME AioFacts, TaskInv, RingTypes, [Next]_vars
    PROVE  TaskInv' /\ RingTypes'
<1>1. CASE Setup \/ Destroy
  <2>1. TaskInv' BY <1>1, ContextSteps, Zenon
  <2>2. head' = 0 /\ tail' = 0 /\ UNCHANGED <<pc, loc>> BY <1>1, Zenon DEF Setup, Destroy
  <2>3. RingTypes' BY <2>2, SlotFacts, Zenon DEF RingTypes
  <2>. QED BY <2>1, <2>3, Zenon
<1>2. ASSUME NEW t \in Threads, Step(t) PROVE TaskInv' /\ RingTypes'
  <2>1. RingTypes' BY <1>2, RingStep, Zenon
  <2>2. tail \in Int BY SlotFacts, Zenon DEF RingTypes
  <2>3. TaskInv'
    BY <1>2, <2>2, SubmitStep, NextIocbStep, CountSteps, IncrementStep, TransferStep, PendingStep,
       AbortStep, RingSteps, FreeStep, EventSteps, Zenon DEF Step
  <2>. QED BY <2>1, <2>3, Zenon
<1>3. CASE UNCHANGED vars
  <2>0. UNCHANGED <<context, iocount, task, pc, loc, moved, pending>> BY <1>3, Zenon DEF vars
  <2>a. AioTypes' /\ Apart' /\ PendingKept'
    <3>1. AioTypes' BY <2>0, Zenon DEF TaskInv, AioTypes
    <3>2. Apart' BY <2>0 DEF TaskInv, Apart
    <3>3. PendingKept' BY <2>0, Zenon DEF TaskInv, PendingKept
    <3>. QED BY <3>1, <3>2, <3>3, Zenon
  <2>b. ASSUME NEW t \in Threads PROVE PlaceInv(t)' /\ ActiveInv(t)'
    <3>1. PlaceInv(t) /\ ActiveInv(t) BY Zenon DEF TaskInv
    <3>2. PlaceInv(t)' BY <2>0, <3>1 DEF PlaceInv, Mine
    <3>3. ActiveInv(t)' BY <2>0, <3>1 DEF ActiveInv, Mine
    <3>. QED BY <3>2, <3>3, Zenon
  <2>1. TaskInv' BY <2>a, <2>b, Zenon DEF TaskInv
  <2>2. RingTypes' BY <1>3, Zenon DEF vars, RingTypes
  <2>. QED BY <2>1, <2>2, Zenon
<1>. QED BY <1>1, <1>2, <1>3, Zenon DEF Next, Step

LEMMA TaskInit == ASSUME AioFacts, Init PROVE TaskInv /\ RingTypes
<1>1. /\ context = FALSE /\ iocount = 0 /\ head = 0 /\ tail = 0
      /\ task = [r \in Requests |-> NoTask] /\ pc = [t \in Threads |-> "idle"]
      /\ loc = [t \in Threads |-> Idle] /\ moved = [r \in Requests |-> 0]
      /\ pending = [r \in Requests |-> {}]
  BY Zenon DEF Init
<1>2. /\ Idle \in Locals /\ Idle.ios = <<>> /\ "idle" \in Labels BY IdleTyped, Zenon
<1>3. \A t \in Threads : loc[t].ios = <<>> /\ pc[t] = "idle" BY <1>1, <1>2, Zenon
<1>4. \A t \in Threads : \A j \in 1 .. Len(loc[t].ios) : FALSE BY <1>3
<1>5. AioTypes
  <2>1. context \in BOOLEAN BY <1>1, Zenon
  <2>2. iocount \in Int /\ moved \in [Requests -> Int] BY <1>1
  <2>3. pc \in [Threads -> Labels] /\ loc \in [Threads -> Locals] BY <1>1, <1>2, Zenon
  <2>4. pending \in [Requests -> SUBSET Nat] BY <1>1
  <2>5. task = [r \in Requests |-> task[r]] /\ \A r \in Requests : task[r] = NoTask BY <1>1, Zenon
  <2>. QED BY <2>1, <2>2, <2>3, <2>4, <2>5, Zenon DEF AioTypes
<1>6. Apart /\ PendingKept BY <1>1, <1>4, Zenon DEF Apart, PendingKept
<1>7. \A t \in Threads : PlaceInv(t) /\ ActiveInv(t)
  BY <1>3, <1>4 DEF PlaceInv, ActiveInv, Before, Holding, Labels
<1>8. RingTypes BY <1>1, <1>3, SlotFacts DEF RingTypes
<1>. QED BY <1>5, <1>6, <1>7, <1>8, Zenon DEF TaskInv

-----------------------------------------------------------------------------
(* k is the task at hand with n bytes recorded for the segment at hand.        *)
Recorded(t, n, k) ==
    /\ k.result[loc[t].seg] = n
    /\ \A j \in 1 .. Len(Segments[Mine(t)]) \ {loc[t].seg} : k.result[j] = task[Mine(t)].result[j]
    /\ k.short[loc[t].seg] <=> n # Segments[Mine(t)][loc[t].seg]
    /\ \A j \in 1 .. Len(Segments[Mine(t)]) \ {loc[t].seg} : k.short[j] <=> task[Mine(t)].short[j]

Ends(t, n, k) ==
    \/ /\ ~Vectored(Mine(t)) /\ k = task[Mine(t)]
       /\ Goto(t, "write") /\ Set(t, [loc[t] EXCEPT !.res = n])
    \/ /\ Vectored(Mine(t)) /\ Recorded(t, n, k)
       /\ n # Segments[Mine(t)][loc[t].seg] \/ LastSegment(t)
       /\ Goto(t, "write") /\ Set(t, [loc[t] EXCEPT !.res = IovResult(k)])

Continues(t, n, k) ==
    /\ Vectored(Mine(t)) /\ Recorded(t, n, k)
    /\ n = Segments[Mine(t)][loc[t].seg] /\ ~LastSegment(t)
    /\ pc' = pc /\ Set(t, [loc[t] EXCEPT !.seg = loc[t].seg + 1])

LEMMA RecordIs ==
    ASSUME NEW t \in Threads, NEW n \in Int, Mine(t) \in Requests, task[Mine(t)] \in TaskOf(Mine(t)),
           loc[t].seg \in 1 .. Len(Segments[Mine(t)])
    PROVE  Recorded(t, n, Record(task[Mine(t)], loc[t].seg, Segments[Mine(t)][loc[t].seg], n))
<1>. DEFINE r == Mine(t)
            k == task[r]
            i == loc[t].seg
            len == Segments[r][i]
            b == (n # len)
            x == Record(k, i, len, n)
<1>0. k \in TaskOf(r) /\ i \in 1 .. Len(Segments[r]) OBVIOUS
<1>. HIDE DEF r, k, i, len
<1>1. x.short = [k.short EXCEPT ![i] = b] BY <1>0 DEF Record, TaskOf
<1>2. k.short \in [1 .. Len(Segments[r]) -> BOOLEAN] BY <1>0, Zenon DEF TaskOf
<1>3. k.result \in [1 .. Len(Segments[r]) -> Int] BY <1>0, Zenon DEF TaskOf
<1>4. x.result = [k.result EXCEPT ![i] = n] BY <1>0 DEF Record, TaskOf
<1>. HIDE DEF b, x
<1>5. x.short[i] = b /\ \A j \in 1 .. Len(Segments[r]) \ {i} : x.short[j] = k.short[j]
  BY <1>0, <1>1, <1>2, Zenon
<1>6. x.result[i] = n /\ \A j \in 1 .. Len(Segments[r]) \ {i} : x.result[j] = k.result[j]
  BY <1>0, <1>3, <1>4, Zenon
<1>7. x.short[i] <=> n # len BY <1>5, Zenon DEF b
<1>8. Recorded(t, n, x) BY <1>5, <1>6, <1>7, Zenon DEF Recorded, r, k, i, len
<1>. QED BY <1>8, Zenon DEF x, r, k, i, len

LEMMA IovDoneIs ==
    ASSUME AioFacts, TaskInv, NEW t \in Threads, pc[t] = "io", NEW k \in TaskOf(Mine(t)), NEW c \in Int,
           IovDone(t, k, c)
    PROVE  \E left \in TaskOf(Mine(t)) :
             /\ left.result = k.result /\ left.short = k.short
             /\ task' = [task EXCEPT ![Mine(t)] = left]
             /\ k.active - c = 0 => Goto(t, "write") /\ Set(t, [loc[t] EXCEPT !.res = IovResult(left)])
             /\ k.active - c # 0 => Started(t)
<1>. DEFINE left == [k EXCEPT !.active = @ - c]
<1>1. Mine(t) \in Requests BY IoFacts, Zenon
<1>2. left \in TaskOf(Mine(t)) BY <1>1, LeftParts, Zenon
<1>3. left.active = k.active - c /\ left.result = k.result /\ left.short = k.short BY <1>1, LeftParts
<1>4. /\ task' = [task EXCEPT ![Mine(t)] = left]
      /\ left.active = 0 => Goto(t, "write") /\ Set(t, [loc[t] EXCEPT !.res = IovResult(left)])
      /\ left.active # 0 => Started(t)
  BY Zenon DEF IovDone
<1>. HIDE DEF left
<1>. QED BY <1>2, <1>3, <1>4, Zenon

LEMMA TransferIs ==
    ASSUME AioFacts, TaskInv, NEW t \in Threads, Transfer(t)
    PROVE  \E n \in 0 .. Segments[Mine(t)][loc[t].seg] : \E k \in TaskOf(Mine(t)) :
             /\ moved' = [moved EXCEPT ![Mine(t)] = @ + n]
             /\ task' = [task EXCEPT ![Mine(t)] = k]
             /\ Ends(t, n, k) \/ Continues(t, n, k) \/ (pending[Mine(t)] # {} /\ Started(t))
<1>. DEFINE r == Mine(t)
            L == Len(Segments[r])
            i == loc[t].seg
            len == Segments[r][i]
            C == Cardinality(pending[r])
<1>1. pc[t] = "io" BY Zenon DEF Transfer
<1>2. PICK n \in 0 .. Segments[r][i] :
        /\ moved' = [moved EXCEPT ![r] = @ + n]
        /\ IF Vectored(r) THEN TransferVector(t, n)
           ELSE Goto(t, "write") /\ Set(t, [loc[t] EXCEPT !.res = n]) /\ UNCHANGED task
  BY Zenon DEF Transfer
<1>3. /\ r \in Requests /\ task[r] \in TaskOf(r) /\ L \in Nat /\ L >= 1 /\ i \in 1 .. L /\ len \in Nat
      /\ C \in Nat /\ (C = 0 <=> pending[r] = {})
      /\ Vectored(r) => task[r].active = L - i + 2 + C
  BY <1>1, IoFacts, Zenon
<1>4. n \in Int BY <1>2, <1>3
<1>5. CASE ~Vectored(r)
  <2>1. task' = [task EXCEPT ![r] = task[r]] BY <1>2, <1>3, <1>5, SameKept, Zenon DEF TaskInv
  <2>2. Ends(t, n, task[r]) BY <1>2, <1>5, Zenon DEF Ends
  <2>. QED BY <1>2, <1>3, <2>1, <2>2, Zenon
<1>6. CASE Vectored(r)
  <2>. DEFINE k == Record(task[r], i, len, n)
  <2>0. r \in Requests /\ task[r] \in TaskOf(r) /\ i \in 1 .. Len(Segments[r]) BY <1>3, Zenon
  <2>1. k \in TaskOf(r)
    <3>. HIDE DEF r, i, len
    <3>. QED BY <1>4, <2>0, RecordParts, Zenon
  <2>2. k.active = task[r].active - 1
    <3>. HIDE DEF r, i, len
    <3>. QED BY <1>4, <2>0, RecordParts
  <2>3. k.active = (L - i + 2 + C) - 1 BY <1>3, <1>6, <2>2, Zenon
  <2>4. TransferVector(t, n) BY <1>2, <1>6, Zenon
  <2>5. Recorded(t, n, k) BY <1>4, <2>0, RecordIs, Zenon
  <2>6. \A left \in TaskOf(r) : left.result = k.result /\ left.short = k.short => Recorded(t, n, left)
    <3>. HIDE DEF k
    <3>. QED BY <2>5, Zenon DEF Recorded
  <2>7. CASE n # len \/ LastSegment(t)
    <3>. DEFINE c == IF n # len THEN L - i + 1 ELSE 1
    <3>1. IovDone(t, k, c) BY <2>4, <2>7, Zenon DEF TransferVector
    <3>2. ~(n # len) => i = L BY <2>7, Zenon DEF LastSegment
    <3>. HIDE DEF k, L, i, C, r, len
    <3>3. c \in Int /\ ((L - i + 2 + C) - 1) - c = C BY <1>3, <1>4, <3>2
    <3>. HIDE DEF c
    <3>4. k.active - c = C BY <2>3, <3>3, Zenon
    <3>5. PICK left \in TaskOf(r) :
             /\ left.result = k.result /\ left.short = k.short
             /\ task' = [task EXCEPT ![r] = left]
             /\ k.active - c = 0 => Goto(t, "write") /\ Set(t, [loc[t] EXCEPT !.res = IovResult(left)])
             /\ k.active - c # 0 => Started(t)
      BY <1>1, <2>1, <3>1, <3>3, IovDoneIs, Zenon DEF r
    <3>6. Recorded(t, n, left) BY <2>6, <3>5, Zenon
    <3>7. Ends(t, n, left) \/ (pending[r] # {} /\ Started(t))
      BY <1>3, <1>6, <2>7, <3>4, <3>5, <3>6, Zenon DEF Ends, r, i, len
    <3>. QED BY <1>2, <3>5, <3>7, Zenon DEF r, i
  <2>8. CASE n = len /\ ~LastSegment(t)
    <3>1. task' = [task EXCEPT ![r] = k] /\ Set(t, [loc[t] EXCEPT !.seg = i + 1]) /\ UNCHANGED pc
      BY <2>4, <2>8, Zenon DEF TransferVector
    <3>. HIDE DEF k
    <3>2. Continues(t, n, k) BY <1>6, <2>5, <2>8, <3>1, Zenon DEF Continues
    <3>. QED BY <1>2, <2>1, <3>1, <3>2, Zenon
  <2>. QED BY <2>7, <2>8, Zenon
<1>. QED BY <1>5, <1>6, Zenon

LEMMA AbortIs ==
    ASSUME AioFacts, TaskInv, NEW t \in Threads, Abort(t)
    PROVE  \/ /\ pending[Mine(t)] = {} /\ Stop(t)
              /\ task' = [task EXCEPT ![Mine(t)] = NoTask] /\ iocount' = iocount - 1
           \/ /\ pending[Mine(t)] # {} /\ Return(t, loc[t].i)
              /\ \E k \in TaskOf(Mine(t)) : task' = [task EXCEPT ![Mine(t)] = k]
<1>. DEFINE r == Mine(t)
            L == Len(Segments[r])
            i == loc[t].seg
            c == L - i + 1
            C == Cardinality(pending[r])
            k == [task[r] EXCEPT !.result[i] = -1, !.active = @ - c]
            x == [k EXCEPT !.active = @ - 1]
<1>1. /\ pc[t] = "io"
      /\ Vectored(r) /\ k.active # 1 => task' = [task EXCEPT ![r] = x] /\ Return(t, loc[t].i)
      /\ ~(Vectored(r) /\ k.active # 1) =>
            task' = [task EXCEPT ![r] = NoTask] /\ iocount' = iocount - 1 /\ Stop(t)
  BY Zenon DEF Abort
<1>2. /\ r \in Requests /\ task[r] \in TaskOf(r) /\ L \in Nat /\ i \in 1 .. L
      /\ C \in Nat /\ (C = 0 <=> pending[r] = {})
      /\ Vectored(r) => task[r].active = L - i + 2 + C
      /\ ~Vectored(r) => pending[r] = {}
  BY <1>1, IoFacts, Zenon
<1>3. c \in Int BY <1>2
<1>4. k \in TaskOf(r) /\ k.active = task[r].active - c
  <2>. HIDE DEF c, i, r
  <2>1. r \in Requests /\ task[r] \in TaskOf(r) /\ i \in 1 .. Len(Segments[r]) BY <1>2, Zenon
  <2>2. k \in TaskOf(r) BY <1>3, <2>1, AbortParts, Zenon
  <2>3. k.active = task[r].active - c BY <1>3, <2>1 DEF TaskOf
  <2>. QED BY <2>2, <2>3, Zenon
<1>5. x \in TaskOf(r)
  <2>. HIDE DEF k, r
  <2>1. 1 \in Int OBVIOUS
  <2>. QED BY <1>2, <1>4, <2>1, LeftParts, Zenon
<1>. HIDE DEF k, x
<1>6. Vectored(r) => (k.active = 1 <=> pending[r] = {})
  <2>1. SUFFICES ASSUME Vectored(r) PROVE k.active = 1 <=> pending[r] = {} OBVIOUS
  <2>2. k.active = (L - i + 2 + C) - c BY <1>2, <1>4, <2>1, Zenon
  <2>. HIDE DEF r, L, i, C
  <2>3. (L - i + 2 + C) - c = C + 1 BY <1>2
  <2>4. k.active = 1 <=> C = 0 BY <1>2, <2>2, <2>3
  <2>. QED BY <1>2, <2>4, Zenon
<1>. QED BY <1>1, <1>2, <1>5, <1>6, Zenon
=============================================================================
