----------------------------- MODULE SyncProofs -----------------------------
(***************************************************************************)
(* Mutexes, condition variables and semaphores for any number of threads,  *)
(* any recursion depth, any clock and any unit of time; and, at the end,   *)
(* signals for any threads, sends and one-shot handlers.                   *)
(***************************************************************************)
EXTENDS Sync, TLAPS

(* Truncating division is less than one divisor off.                         *)
LEMMA QuotClose ==
    ASSUME NEW x \in Int, NEW k \in Nat \ {0}
    PROVE  /\ Quot(x, k) \in Int
           /\ x - Quot(x, k) * k < k
           /\ Quot(x, k) * k - x < k
           /\ x >= 0 => Quot(x, k) >= 0 /\ Quot(x, k) * k <= x
<1>1. CASE x >= 0
  <2>1. x \div k \in Nat /\ (x \div k) * k + (x % k) = x /\ (x % k) \in 0..k - 1
        BY <1>1
  <2>. QED BY <1>1, <2>1 DEF Quot
<1>2. CASE x < 0
  <2>1. (-x) \div k \in Nat /\ ((-x) \div k) * k + ((-x) % k) = -x /\ ((-x) % k) \in 0..k - 1
        BY <1>2
  <2>2. Quot(x, k) = -((-x) \div k) BY <1>2 DEF Quot
  <2>3. Quot(x, k) * k = -(((-x) \div k) * k) BY <2>1, <2>2
  <2>. QED BY <1>2, <2>1, <2>2, <2>3
<1>. QED BY <1>1, <1>2

(* For every clock reading and every deadline, in seconds and nanoseconds of   *)
(* any unit, wpdk_abstime_to_msecs asks for a wait that is less than one       *)
(* millisecond off what is left.                                              *)
THEOREM DeadlineAlwaysClose ==
    \A abstime \in Timespec, now \in Timespec : WaitClose(abstime, now)
<1>. TAKE abstime \in Timespec, now \in Timespec
<1>. DEFINE S == MsPerSec * NsPerMs
            d == abstime.sec - now.sec
            x == abstime.nsec - now.nsec
            q == Quot(x, NsPerMs)
<1>1. /\ NsPerMs \in Nat \ {0} /\ MsPerSec \in Nat \ {0} /\ S \in Nat \ {0}
      /\ abstime.sec \in Nat /\ now.sec \in Nat
      /\ abstime.nsec \in 0..S - 1 /\ now.nsec \in 0..S - 1
      BY DeadlineAssumption DEF Timespec
<1>2. /\ q \in Int /\ x - q * NsPerMs < NsPerMs /\ q * NsPerMs - x < NsPerMs
      /\ x >= 0 => q >= 0 /\ q * NsPerMs <= x
  <2>1. x \in Int BY <1>1
  <2>. HIDE DEF x
  <2>. QED BY <1>1, <2>1, QuotClose
<1>3. Nanos(abstime) - Nanos(now) = d * S + x /\ Nanos(abstime) \in Nat /\ Nanos(now) \in Nat
      BY <1>1 DEF Nanos
<1>4. CASE abstime.sec > now.sec
  <2>1. d \in Nat /\ d >= 1 /\ d * S >= S BY <1>1, <1>4
  <2>2. Left(abstime, now) = d * S + x BY <1>1, <1>3, <2>1 DEF Left
  <2>3. Msecs(abstime, now) = d * MsPerSec + q BY <1>4 DEF Msecs
  <2>4. (d * MsPerSec + q) * NsPerMs = d * S + q * NsPerMs BY <1>1, <1>2, <2>1
  <2>5. d * MsPerSec + q >= 0
    <3>1. x > -S BY <1>1
    <3>2. d * S + q * NsPerMs > -NsPerMs BY <1>1, <1>2, <2>1, <3>1
    <3>. DEFINE m == d * MsPerSec + q
    <3>3. m \in Int BY <1>1, <1>2, <2>1
    <3>4. m * NsPerMs > -NsPerMs BY <2>4, <3>2
    <3>5. m < 0 => m * NsPerMs <= -NsPerMs
      <4>. HIDE DEF m
      <4>. QED BY <1>1, <3>3
    <3>. QED BY <1>1, <3>3, <3>4, <3>5
  <2>6. d * MsPerSec + q \in Nat BY <1>1, <1>2, <2>1, <2>5
  <2>7. /\ Msecs(abstime, now) * NsPerMs - Left(abstime, now) = q * NsPerMs - x
        /\ Left(abstime, now) - Msecs(abstime, now) * NsPerMs = x - q * NsPerMs
    <3>1. x \in Int /\ d * S \in Int /\ q * NsPerMs \in Int BY <1>1, <1>2, <2>1
    <3>. QED BY <2>2, <2>3, <2>4, <3>1
  <2>. QED BY <1>2, <2>3, <2>6, <2>7 DEF WaitClose
<1>5. CASE abstime.sec = now.sec /\ abstime.nsec > now.nsec
  <2>1. Left(abstime, now) = x BY <1>1, <1>3, <1>5 DEF Left
  <2>2. Msecs(abstime, now) = q BY <1>1, <1>5 DEF Msecs
  <2>. QED BY <1>1, <1>2, <1>5, <2>1, <2>2 DEF WaitClose
<1>6. CASE abstime.sec < now.sec \/ (abstime.sec = now.sec /\ abstime.nsec <= now.nsec)
  <2>1. d * S + x <= 0
    <3>1. CASE abstime.sec < now.sec
      <4>1. d \in Int /\ d <= -1 /\ d * S <= -S BY <1>1, <3>1
      <4>. QED BY <1>1, <4>1
    <3>2. CASE abstime.sec = now.sec /\ abstime.nsec <= now.nsec
      <4>1. d * S = 0 BY <1>1, <3>2
      <4>. QED BY <1>1, <3>2, <4>1
    <3>. QED BY <1>6, <3>1, <3>2
  <2>2. Left(abstime, now) = 0 BY <1>3, <2>1 DEF Left
  <2>3. Msecs(abstime, now) = 0 BY <1>1, <1>6 DEF Msecs
  <2>. QED BY <1>1, <2>2, <2>3 DEF WaitClose
<1>. QED BY <1>1, <1>4, <1>5, <1>6

-----------------------------------------------------------------------------
(* What the steps need of each other.                                        *)

Labels == {"run", "cond", "sem", "asleep", "woken", "expired", "blocked"}

SyncTypes ==
    /\ clock \in Nat
    /\ owner \in Threads \cup {NULL} /\ depth \in Nat /\ held \in [Threads -> Nat]
    /\ waiting \subseteq Threads
    /\ value \in Nat /\ taken \in Nat /\ posted \in Nat
    /\ pc \in [Threads -> Labels]
    /\ until \in [Threads -> Nat \cup {NULL}]
    /\ deadline \in [Threads -> Nat \cup {NULL}]

\* The critical section's count is its owner's, and nobody else has any.
MutexInv ==
    /\ owner = NULL => depth = 0
    /\ \A t \in Threads : held[t] = IF owner = t THEN depth ELSE 0
    /\ \A t \in Threads : owner = t => depth > 0

\* What a timed wait still has before it, in the call that converts its
\* deadline, in the wait, and once the wait has timed out.
TimedInv(t) ==
    /\ pc[t] = "run" => deadline[t] = NULL
    /\ pc[t] \in {"cond", "sem"} =>
         until[t] \in Nat /\ deadline[t] \in Nat /\ clock + until[t] * NsPerMs > deadline[t] - NsPerMs
    /\ pc[t] \in {"asleep", "blocked"} /\ deadline[t] # NULL =>
         until[t] \in Nat /\ until[t] > deadline[t] - NsPerMs
    /\ pc[t] = "expired" /\ deadline[t] # NULL => clock > deadline[t] - NsPerMs

SyncInv == SyncTypes /\ MutexInv /\ PermitsKept /\ \A t \in Threads : TimedInv(t)
-----------------------------------------------------------------------------
\* The clock's value and what clock_gettime makes of it.
LEMMA StampExact ==
    ASSUME NEW n \in Nat
    PROVE  Stamp(n) \in Timespec /\ Nanos(Stamp(n)) = n
<1>. DEFINE S == MsPerSec * NsPerMs
<1>1. S \in Nat \ {0}
  BY DeadlineAssumption
<1>2. Stamp(n) = [sec |-> n \div S, nsec |-> n % S]
  BY DEF Stamp
<1>3. Timespec = [sec : Nat, nsec : 0..S - 1] /\ Nanos(Stamp(n)) = Stamp(n).sec * S + Stamp(n).nsec
  BY DEF Timespec, Nanos
<1>. HIDE DEF S
<1>4. n \div S \in Nat /\ n % S \in 0..S - 1 /\ (n \div S) * S + (n % S) = n
  BY <1>1
<1>. QED
  BY <1>2, <1>3, <1>4

\* A wait of the time Convert computes, started at the time it read, ends less
\* than a millisecond before the deadline at the earliest.
LEMMA ConvertedLong ==
    ASSUME NEW d \in Nat, NEW c \in Nat
    PROVE  LET m == Msecs(Stamp(d), Stamp(c)) IN m \in Nat /\ c + m * NsPerMs > d - NsPerMs
<1>. DEFINE m == Msecs(Stamp(d), Stamp(c))
<1>1. Stamp(d) \in Timespec /\ Stamp(c) \in Timespec /\ Nanos(Stamp(d)) = d /\ Nanos(Stamp(c)) = c
  BY StampExact
<1>2. m \in Nat /\ Left(Stamp(d), Stamp(c)) - m * NsPerMs < NsPerMs
  BY <1>1, DeadlineAlwaysClose DEF WaitClose
<1>3. Left(Stamp(d), Stamp(c)) \in Nat /\ Left(Stamp(d), Stamp(c)) >= d - c
  BY <1>1 DEF Left
<1>. HIDE DEF m
<1>4. m * NsPerMs \in Nat /\ NsPerMs \in Nat
  BY <1>2, DeadlineAssumption
<1>5. c + m * NsPerMs > d - NsPerMs
  BY <1>2, <1>3, <1>4
<1>. QED
  BY <1>2, <1>5 DEF m

\* EnterCriticalSection by a thread that may, and LeaveCriticalSection by one
\* that holds the section.
LEMMA EnterKeeps ==
    ASSUME SyncTypes, MutexInv, NEW t \in Threads, Free(t), Enter(t)
    PROVE  /\ owner' \in Threads \cup {NULL} /\ depth' \in Nat /\ held' \in [Threads -> Nat]
           /\ MutexInv'
<1>1. owner' = t /\ depth' = depth + 1 /\ held' = [held EXCEPT ![t] = held[t] + 1]
  BY DEF Enter
<1>2. held \in [Threads -> Nat] /\ depth \in Nat /\ held[t] = depth
  BY SyncNames DEF SyncTypes, MutexInv, Free
<1>3. \A u \in Threads : u # t => held[u] = 0
  BY SyncNames DEF MutexInv, Free
<1>. QED
  BY <1>1, <1>2, <1>3, SyncNames DEF MutexInv

LEMMA LeaveKeeps ==
    ASSUME SyncTypes, MutexInv, NEW t \in Threads, held[t] > 0, Leave(t)
    PROVE  /\ owner' \in Threads \cup {NULL} /\ depth' \in Nat /\ held' \in [Threads -> Nat]
           /\ MutexInv'
<1>1. /\ depth' = depth - 1 /\ owner' = IF depth = 1 THEN NULL ELSE owner
      /\ held' = [held EXCEPT ![t] = held[t] - 1]
  BY DEF Leave
<1>2. held \in [Threads -> Nat] /\ depth \in Nat /\ owner = t /\ held[t] = depth /\ depth > 0
  BY DEF SyncTypes, MutexInv
<1>3. \A u \in Threads : u # t => held[u] = 0
  BY <1>2 DEF MutexInv
<1>. QED
  BY <1>1, <1>2, <1>3, SyncNames DEF MutexInv

\* Time only brings a wait closer to its end.
LEMMA TimedKept ==
    ASSUME SyncTypes, SyncTypes', NEW t \in Threads, TimedInv(t), clock' >= clock,
           pc'[t] = pc[t], until'[t] = until[t], deadline'[t] = deadline[t]
    PROVE  TimedInv(t)'
<1>1. /\ clock \in Nat /\ clock' \in Nat /\ NsPerMs \in Nat
      /\ until[t] \in Nat \cup {NULL} /\ deadline[t] \in Nat \cup {NULL}
  BY DeadlineAssumption DEF SyncTypes
<1>2. ASSUME pc[t] \in {"cond", "sem"}
      PROVE  clock' + until[t] * NsPerMs > deadline[t] - NsPerMs
  <2>1. until[t] \in Nat /\ deadline[t] \in Nat /\ clock + until[t] * NsPerMs > deadline[t] - NsPerMs
    BY <1>2 DEF TimedInv
  <2>2. until[t] * NsPerMs \in Nat
    BY <1>1, <2>1
  <2>. QED
    BY <1>1, <2>1, <2>2
<1>3. ASSUME pc[t] = "expired", deadline[t] # NULL
      PROVE  clock' > deadline[t] - NsPerMs
  BY <1>1, <1>3 DEF TimedInv
<1>. QED
  BY <1>2, <1>3 DEF TimedInv

\* A step after which only the waits of ts differ, and those keep TimedInv.
LEMMA OthersTimed ==
    ASSUME SyncInv, SyncTypes', NEW ts \in SUBSET Threads, clock' >= clock,
           \A u \in Threads \ ts : pc'[u] = pc[u] /\ until'[u] = until[u] /\ deadline'[u] = deadline[u],
           \A u \in ts : TimedInv(u)'
    PROVE  \A u \in Threads : TimedInv(u)'
<1>. TAKE u \in Threads
<1>1. CASE u \in Threads \ ts
  BY <1>1, TimedKept DEF SyncInv
<1>. QED
  BY <1>1

\* The mutex calls.
LEMMA MutexSteps ==
    ASSUME SyncInv, NEW t \in Threads,
           wpdk_pthread_mutex_lock(t) \/ wpdk_pthread_mutex_trylock(t) \/ wpdk_pthread_mutex_unlock(t)
    PROVE  SyncInv'
<1>1. UNCHANGED <<clock, waiting, value, taken, posted, pc, until, deadline>>
  BY DEF wpdk_pthread_mutex_lock, wpdk_pthread_mutex_trylock, wpdk_pthread_mutex_unlock, sem, call
<1>2. /\ owner' \in Threads \cup {NULL} /\ depth' \in Nat /\ held' \in [Threads -> Nat]
      /\ MutexInv'
  <2>1. CASE wpdk_pthread_mutex_unlock(t)
    BY <2>1, LeaveKeeps DEF wpdk_pthread_mutex_unlock, SyncInv
  <2>2. CASE wpdk_pthread_mutex_lock(t) \/ wpdk_pthread_mutex_trylock(t)
    BY <2>2, EnterKeeps DEF wpdk_pthread_mutex_lock, wpdk_pthread_mutex_trylock, SyncInv
  <2>. QED
    BY <2>1, <2>2
<1>3. SyncTypes' /\ PermitsKept'
  BY <1>1, <1>2 DEF SyncInv, SyncTypes, PermitsKept
<1>4. clock' >= clock
  BY <1>1 DEF SyncInv, SyncTypes
<1>5. \A u \in Threads : TimedInv(u)'
  BY <1>1, <1>3, <1>4, TimedKept DEF SyncInv
<1>. QED
  BY <1>2, <1>3, <1>5 DEF SyncInv

\* The conversion of a deadline.
LEMMA ConvertStep ==
    ASSUME SyncInv, NEW t \in Threads, NEW w \in {"cond", "sem"}, NEW d \in Nat, Convert(t, w, d)
    PROVE  SyncInv'
<1>. DEFINE m == Msecs(Stamp(d), Stamp(clock))
<1>1. UNCHANGED <<clock, owner, depth, held, waiting, value, taken, posted>>
  BY DEF Convert, mutex, sem
<1>2. /\ until' = [until EXCEPT ![t] = m] /\ deadline' = [deadline EXCEPT ![t] = d]
      /\ pc' = [pc EXCEPT ![t] = w]
  BY DEF Convert
<1>3. m \in Nat /\ clock + m * NsPerMs > d - NsPerMs
  BY ConvertedLong DEF SyncInv, SyncTypes
<1>. HIDE DEF m
<1>4. SyncTypes'
  BY <1>1, <1>2, <1>3 DEF SyncInv, SyncTypes, Labels
<1>5. MutexInv' /\ PermitsKept'
  BY <1>1 DEF SyncInv, MutexInv, PermitsKept
<1>6. TimedInv(t)'
  <2>1. pc'[t] = w /\ until'[t] = m /\ deadline'[t] = d
    BY <1>2 DEF SyncInv, SyncTypes
  <2>. QED
    BY <2>1, <1>1, <1>3 DEF TimedInv
<1>7. /\ clock' >= clock
      /\ \A u \in Threads \ {t} : pc'[u] = pc[u] /\ until'[u] = until[u] /\ deadline'[u] = deadline[u]
  BY <1>1, <1>2 DEF SyncInv, SyncTypes
<1>8. \A u \in Threads : TimedInv(u)'
  <2>1. {t} \in SUBSET Threads /\ \A u \in {t} : TimedInv(u)'
    BY <1>6
  <2>. QED
    BY <2>1, <1>4, <1>7, OthersTimed
<1>. QED
  BY <1>4, <1>5, <1>8 DEF SyncInv

\* When a wait that starts now ends.
LEMMA EndOf ==
    ASSUME clock \in Nat, NEW m \in Nat \cup {NULL}
    PROVE  /\ End(m) \in Nat \cup {NULL} /\ (m \in Nat => End(m) = clock + m * NsPerMs)
<1>1. NsPerMs \in Nat /\ NULL \notin Nat
  BY DeadlineAssumption, SyncNames
<1>2. ASSUME m \in Nat PROVE m * NsPerMs \in Nat
  BY <1>1, <1>2
<1>. QED
  BY <1>1, <1>2 DEF End

\* A wait begins: until is known, the deadline stays.
LEMMA WaitBegins ==
    ASSUME SyncInv, SyncTypes', NEW t \in Threads, NEW m \in Nat \cup {NULL}, clock' = clock,
           \/ pc[t] = "run"
           \/ pc[t] \in {"cond", "sem"} /\ m = until[t],
           pc'[t] \in {"asleep", "blocked"}, until'[t] = End(m), deadline'[t] = deadline[t]
    PROVE  TimedInv(t)'
<1>1. TimedInv(t) /\ clock \in Nat
  BY DEF SyncInv, SyncTypes
<1>2. CASE pc[t] = "run"
  BY <1>1, <1>2 DEF TimedInv
<1>3. CASE pc[t] \in {"cond", "sem"} /\ m = until[t]
  <2>1. m \in Nat /\ clock + m * NsPerMs > deadline[t] - NsPerMs
    BY <1>1, <1>3 DEF TimedInv
  <2>2. End(m) = clock + m * NsPerMs /\ m * NsPerMs \in Nat
    BY <1>1, <2>1, EndOf, DeadlineAssumption
  <2>3. End(m) \in Nat /\ End(m) > deadline[t] - NsPerMs
    BY <1>1, <2>1, <2>2
  <2>. QED
    BY <2>3 DEF TimedInv
<1>. QED
  BY <1>2, <1>3

LEMMA CondSleepStep ==
    ASSUME SyncInv, NEW t \in Threads, wpdk_pthread_cond_wait(t) \/ wpdk_pthread_cond_timedwait(t)
    PROVE  SyncInv'
<1>1. PICK m \in Nat \cup {NULL} :
        CondSleep(t, m) /\ (pc[t] = "run" \/ (pc[t] \in {"cond", "sem"} /\ m = until[t]))
  BY DEF wpdk_pthread_cond_wait, wpdk_pthread_cond_timedwait, SyncInv, SyncTypes
<1>2. /\ clock' = clock /\ value' = value /\ taken' = taken /\ posted' = posted /\ deadline' = deadline
      /\ waiting' = waiting \cup {t} /\ until' = [until EXCEPT ![t] = End(m)]
      /\ pc' = [pc EXCEPT ![t] = "asleep"]
  BY <1>1 DEF CondSleep, sem
<1>3. /\ owner' \in Threads \cup {NULL} /\ depth' \in Nat /\ held' \in [Threads -> Nat]
      /\ MutexInv'
  BY <1>1, LeaveKeeps DEF CondSleep, SyncInv
<1>4. End(m) \in Nat \cup {NULL}
  BY EndOf DEF SyncInv, SyncTypes
<1>5. SyncTypes' /\ PermitsKept'
  BY <1>2, <1>3, <1>4 DEF SyncInv, SyncTypes, PermitsKept, Labels
<1>6. {t} \in SUBSET Threads /\ \A u \in {t} : TimedInv(u)'
  <2>1. pc'[t] = "asleep" /\ until'[t] = End(m) /\ deadline'[t] = deadline[t]
    BY <1>2 DEF SyncInv, SyncTypes
  <2>. QED
    BY <2>1, <1>1, <1>2, <1>5, WaitBegins
<1>7. /\ clock' >= clock
      /\ \A u \in Threads \ {t} : pc'[u] = pc[u] /\ until'[u] = until[u] /\ deadline'[u] = deadline[u]
  BY <1>2 DEF SyncInv, SyncTypes
<1>8. \A u \in Threads : TimedInv(u)'
  BY <1>5, <1>6, <1>7, OthersTimed
<1>. QED
  BY <1>3, <1>5, <1>8 DEF SyncInv

\* Any number of sleeping threads is woken.
LEMMA WakeStep ==
    ASSUME SyncInv, NEW ts \in SUBSET waiting, Wake(ts)
    PROVE  SyncInv'
<1>1. /\ UNCHANGED <<clock, owner, depth, held, value, taken, posted, until, deadline>>
      /\ waiting' = waiting \ ts /\ pc' = [t \in Threads |-> IF t \in ts THEN "woken" ELSE pc[t]]
  BY DEF Wake, mutex, sem
<1>2. SyncTypes' /\ MutexInv' /\ PermitsKept'
  BY <1>1 DEF SyncInv, SyncTypes, MutexInv, PermitsKept, Labels
<1>3. ts \in SUBSET Threads /\ \A u \in ts : TimedInv(u)'
  BY <1>1 DEF SyncInv, SyncTypes, TimedInv
<1>4. /\ clock' >= clock
      /\ \A u \in Threads \ ts : pc'[u] = pc[u] /\ until'[u] = until[u] /\ deadline'[u] = deadline[u]
  BY <1>1 DEF SyncInv, SyncTypes
<1>5. \A u \in Threads : TimedInv(u)'
  BY <1>2, <1>3, <1>4, OthersTimed
<1>. QED
  BY <1>2, <1>5 DEF SyncInv

LEMMA CondTimeoutStep ==
    ASSUME SyncInv, NEW t \in Threads, CondTimeout(t)
    PROVE  SyncInv'
<1>1. /\ UNCHANGED <<clock, owner, depth, held, value, taken, posted, until, deadline>>
      /\ waiting' = waiting \ {t} /\ pc' = [pc EXCEPT ![t] = "expired"]
      /\ pc[t] = "asleep" /\ until[t] # NULL /\ clock >= until[t]
  BY DEF CondTimeout, mutex, sem
<1>2. SyncTypes' /\ MutexInv' /\ PermitsKept'
  BY <1>1 DEF SyncInv, SyncTypes, MutexInv, PermitsKept, Labels
<1>3. {t} \in SUBSET Threads /\ \A u \in {t} : TimedInv(u)'
  <2>1. pc'[t] = "expired" /\ deadline'[t] = deadline[t] /\ clock' = clock
    BY <1>1 DEF SyncInv, SyncTypes
  <2>2. ASSUME deadline[t] # NULL PROVE clock > deadline[t] - NsPerMs
    <3>1. until[t] \in Nat /\ until[t] > deadline[t] - NsPerMs
      BY <2>2, <1>1 DEF SyncInv, TimedInv
    <3>2. deadline[t] \in Nat /\ clock \in Nat /\ NsPerMs \in Nat
      BY <2>2, DeadlineAssumption DEF SyncInv, SyncTypes
    <3>. QED
      BY <3>1, <3>2, <1>1, SMTT(30)
  <2>. QED
    BY <2>1, <2>2 DEF TimedInv
<1>4. /\ clock' >= clock
      /\ \A u \in Threads \ {t} : pc'[u] = pc[u] /\ until'[u] = until[u] /\ deadline'[u] = deadline[u]
  BY <1>1 DEF SyncInv, SyncTypes
<1>5. \A u \in Threads : TimedInv(u)'
  BY <1>2, <1>3, <1>4, OthersTimed
<1>. QED
  BY <1>2, <1>5 DEF SyncInv

\* A call that returns leaves nothing of its wait behind.
LEMMA ReturnKeeps ==
    ASSUME SyncInv, SyncTypes', NEW t \in Threads, Return(t), clock' = clock
    PROVE  \A u \in Threads : TimedInv(u)'
<1>1. /\ pc' = [pc EXCEPT ![t] = "run"] /\ until' = [until EXCEPT ![t] = NULL]
      /\ deadline' = [deadline EXCEPT ![t] = NULL]
  BY DEF Return
<1>2. {t} \in SUBSET Threads /\ \A u \in {t} : TimedInv(u)'
  <2>1. pc'[t] = "run" /\ deadline'[t] = NULL
    BY <1>1 DEF SyncInv, SyncTypes
  <2>. QED
    BY <2>1 DEF TimedInv
<1>3. /\ clock' >= clock
      /\ \A u \in Threads \ {t} : pc'[u] = pc[u] /\ until'[u] = until[u] /\ deadline'[u] = deadline[u]
  BY <1>1 DEF SyncInv, SyncTypes
<1>. QED
  BY <1>2, <1>3, OthersTimed

LEMMA ReturnSteps ==
    ASSUME SyncInv, NEW t \in Threads, Reacquire(t) \/ SemAcquire(t) \/ SemTimeout(t)
    PROVE  SyncInv'
<1>1. Return(t) /\ clock' = clock /\ waiting' = waiting
  BY DEF Reacquire, SemAcquire, SemTimeout
<1>2. /\ owner' \in Threads \cup {NULL} /\ depth' \in Nat /\ held' \in [Threads -> Nat]
      /\ MutexInv'
  <2>1. CASE Reacquire(t)
    BY <2>1, EnterKeeps DEF Reacquire, SyncInv
  <2>2. CASE SemAcquire(t) \/ SemTimeout(t)
    BY <2>2 DEF SemAcquire, SemTimeout, SyncInv, SyncTypes, MutexInv, mutex
  <2>. QED
    BY <2>1, <2>2
<1>3. value' \in Nat /\ taken' \in Nat /\ posted' \in Nat /\ PermitsKept'
  BY SyncAssumption DEF Reacquire, SemAcquire, SemTimeout, SyncInv, SyncTypes, PermitsKept, sem
<1>4. SyncTypes'
  BY <1>1, <1>2, <1>3 DEF SyncInv, SyncTypes, Return, Labels
<1>5. \A u \in Threads : TimedInv(u)'
  BY <1>1, <1>4, ReturnKeeps
<1>. QED
  BY <1>2, <1>3, <1>4, <1>5 DEF SyncInv

LEMMA SemWaitSteps ==
    ASSUME SyncInv, NEW t \in Threads,
           wpdk_sem_wait(t) \/ wpdk_sem_trywait(t) \/ wpdk_sem_timedwait(t)
    PROVE  SyncInv'
<1>1. PICK m \in Nat \cup {NULL} :
        SemWait(t, m) /\ (pc[t] = "run" \/ (pc[t] \in {"cond", "sem"} /\ m = until[t]))
  BY DEF wpdk_sem_wait, wpdk_sem_trywait, wpdk_sem_timedwait, SyncInv, SyncTypes
<1>2. /\ UNCHANGED <<clock, owner, depth, held, waiting, value, taken, posted, deadline>>
      /\ until' = [until EXCEPT ![t] = End(m)] /\ pc' = [pc EXCEPT ![t] = "blocked"]
  BY <1>1 DEF SemWait, mutex, sem
<1>3. End(m) \in Nat \cup {NULL}
  BY EndOf DEF SyncInv, SyncTypes
<1>4. SyncTypes' /\ MutexInv' /\ PermitsKept'
  BY <1>2, <1>3 DEF SyncInv, SyncTypes, MutexInv, PermitsKept, Labels
<1>5. {t} \in SUBSET Threads /\ \A u \in {t} : TimedInv(u)'
  <2>1. pc'[t] = "blocked" /\ until'[t] = End(m) /\ deadline'[t] = deadline[t]
    BY <1>2 DEF SyncInv, SyncTypes
  <2>. QED
    BY <2>1, <1>1, <1>2, <1>4, WaitBegins
<1>6. /\ clock' >= clock
      /\ \A u \in Threads \ {t} : pc'[u] = pc[u] /\ until'[u] = until[u] /\ deadline'[u] = deadline[u]
  BY <1>2 DEF SyncInv, SyncTypes
<1>7. \A u \in Threads : TimedInv(u)'
  BY <1>4, <1>5, <1>6, OthersTimed
<1>. QED
  BY <1>4, <1>7 DEF SyncInv

LEMMA OtherSteps ==
    ASSUME SyncInv, Tick \/ \E t \in Threads : wpdk_sem_post(t)
    PROVE  SyncInv'
<1>1. UNCHANGED <<owner, depth, held, waiting, taken, pc, until, deadline>>
  BY DEF Tick, wpdk_sem_post, mutex, sem, call
<1>2. /\ clock' \in Nat /\ clock' >= clock /\ value' \in Nat /\ posted' \in Nat
      /\ PermitsKept'
  BY SyncAssumption DEF Tick, wpdk_sem_post, SyncInv, SyncTypes, PermitsKept, sem
<1>3. SyncTypes' /\ MutexInv'
  BY <1>1, <1>2 DEF SyncInv, SyncTypes, MutexInv
<1>4. \A u \in Threads : TimedInv(u)'
  BY <1>1, <1>2, <1>3, TimedKept DEF SyncInv
<1>. QED
  BY <1>2, <1>3, <1>4 DEF SyncInv

\* Every step keeps the invariant.
LEMMA SyncStep ==
    ASSUME SyncInv, [Next]_vars
    PROVE  SyncInv'
<1>1. CASE Tick
  BY <1>1, OtherSteps
<1>2. CASE Spurious
  <2>1. PICK w \in waiting : Wake({w})
    BY <1>2 DEF Spurious
  <2>. QED
    BY <2>1, WakeStep
<1>3. ASSUME NEW t \in Threads, NEW w \in {"cond", "sem"}, NEW d \in 0..MaxTime, Convert(t, w, d)
      PROVE  SyncInv'
  <2>1. d \in Nat
    BY SyncAssumption
  <2>. QED
    BY <1>3, <2>1, ConvertStep
<1>4. ASSUME NEW t \in Threads, wpdk_pthread_cond_signal(t) \/ wpdk_pthread_cond_broadcast(t)
      PROVE  SyncInv'
  <2>1. PICK ts \in SUBSET waiting : Wake(ts)
    BY <1>4 DEF wpdk_pthread_cond_signal, wpdk_pthread_cond_broadcast
  <2>. QED
    BY <2>1, WakeStep
<1>5. CASE UNCHANGED vars
  <2>1. SyncTypes' /\ MutexInv' /\ PermitsKept'
    BY <1>5 DEF SyncInv, SyncTypes, MutexInv, PermitsKept, vars
  <2>2. \A u \in Threads : TimedInv(u)'
    BY <1>5 DEF SyncInv, TimedInv, vars
  <2>. QED
    BY <2>1, <2>2 DEF SyncInv
<1>. QED
  BY <1>1, <1>2, <1>3, <1>4, <1>5, MutexSteps, CondSleepStep, CondTimeoutStep, ReturnSteps,
     SemWaitSteps, OtherSteps
  DEF Next

\* A thread that returns from a timed wait without what it waited for has seen
\* the clock reach the end of the wait.
LEMMA TimeoutStep ==
    ASSUME SyncInv, [Next]_vars, NEW t \in Threads, deadline[t] # NULL, pc'[t] = "run",
           pc[t] = "expired" \/ (pc[t] = "blocked" /\ taken' = taken)
    PROVE  clock > deadline[t] - NsPerMs
<1>1. deadline[t] \in Nat /\ clock \in Nat /\ NsPerMs \in Nat \ {0} /\ TimedInv(t)
  BY DeadlineAssumption DEF SyncInv, SyncTypes
<1>2. CASE pc[t] = "expired"
  BY <1>1, <1>2 DEF TimedInv
<1>3. CASE pc[t] = "blocked" /\ taken' = taken
  <2>1. until[t] \in Nat /\ until[t] > deadline[t] - NsPerMs
    BY <1>1, <1>3 DEF TimedInv
  <2>2. clock >= until[t]
    <3>1. pc \in [Threads -> Labels] /\ taken \in Nat /\ "blocked" # "run" /\ pc'[t] # pc[t]
      BY <1>3 DEF SyncInv, SyncTypes
    <3>2. ASSUME NEW u \in Threads, u # t, pc' = [pc EXCEPT ![u] = "run"] PROVE FALSE
      BY <3>1, <3>2
    <3>3. ~SemAcquire(t)
      BY <1>3, <3>1 DEF SemAcquire
    <3>4. ASSUME NEW u \in Threads, Reacquire(u) \/ SemAcquire(u) \/ SemTimeout(u)
          PROVE  SemTimeout(t)
      <4>1. u = t
        BY <3>2, <3>4 DEF Reacquire, SemAcquire, SemTimeout, Return
      <4>. QED
        BY <4>1, <3>3, <3>4, <1>3 DEF Reacquire
    <3>5. ASSUME NEW ts, Wake(ts) PROVE FALSE
      BY <3>1, <3>5 DEF Wake
    <3>6. ASSUME NEW u \in Threads, NEW label \in Labels \ {"run"}, pc' = [pc EXCEPT ![u] = label]
          PROVE  FALSE
      BY <3>1, <3>6
    <3>7. ASSUME NEW u \in Threads,
                 \/ \E w \in {"cond", "sem"}, d \in 0..MaxTime : Convert(u, w, d)
                 \/ wpdk_pthread_cond_wait(u) \/ wpdk_pthread_cond_timedwait(u) \/ CondTimeout(u)
                 \/ wpdk_sem_wait(u) \/ wpdk_sem_trywait(u) \/ wpdk_sem_timedwait(u)
          PROVE  FALSE
      <4>1. \E label \in Labels \ {"run"} : pc' = [pc EXCEPT ![u] = label]
        BY <3>7 DEF Convert, wpdk_pthread_cond_wait, wpdk_pthread_cond_timedwait, CondSleep, CondTimeout,
           wpdk_sem_wait, wpdk_sem_trywait, wpdk_sem_timedwait, SemWait, Labels
      <4>. QED
        BY <4>1, <3>6
    <3>8. \E u \in Threads : Reacquire(u) \/ SemAcquire(u) \/ SemTimeout(u)
      BY <3>1, <3>5, <3>7 DEF Next, vars, Tick, Spurious, wpdk_pthread_mutex_lock, wpdk_pthread_mutex_trylock,
         wpdk_pthread_mutex_unlock, wpdk_pthread_cond_signal, wpdk_pthread_cond_broadcast, wpdk_sem_post, call
    <3>. QED
      BY <3>4, <3>8 DEF SemTimeout
  <2>. QED
    BY <1>1, <2>1, <2>2
<1>. QED
  BY <1>2, <1>3

\* The invariant holds throughout.
LEMMA SyncInvariant ==
    Spec => []SyncInv
<1>1. Init => SyncInv
  <2>. SUFFICES ASSUME Init PROVE SyncInv
    OBVIOUS
  <2>1. SyncTypes /\ MutexInv /\ PermitsKept
    BY SyncAssumption, SyncNames DEF Init, SyncTypes, MutexInv, PermitsKept, Labels
  <2>2. \A t \in Threads : TimedInv(t)
    BY DEF Init, TimedInv
  <2>. QED
    BY <2>1, <2>2 DEF SyncInv
<1>2. SyncInv /\ [Next]_vars => SyncInv'
  BY SyncStep
<1>. QED
  BY <1>1, <1>2, PTL DEF Spec

(* However locks, sleeps, wake-ups, posts and timeouts of any number of         *)
(* threads interleave, a thread that was told it has the mutex has it and       *)
(* nobody else does, and no permit of the semaphore is lost or made             *)
(* (pthread.c, semaphore.c).                                                    *)
THEOREM NothingEverLost ==
    Spec => []NothingLost
<1>1. SyncInv => NothingLost
  BY DEF SyncInv, SyncTypes, MutexInv, NothingLost, HeldAgrees
<1>. QED
  BY <1>1, SyncInvariant, PTL

(* No timed wait on a condition variable or a semaphore reports a timeout a     *)
(* millisecond or more before its deadline, whatever the clock reads when the   *)
(* deadline is converted, when the wait begins and when it ends                 *)
(* (wpdk_abstime_to_msecs, wpdk_cond_wait, wpdk_wait_sem).                      *)
THEOREM TimeoutsNeverEarly ==
    Spec => NotEarly
<1>1. SyncInv /\ [Next]_vars =>
        [\A t \in Threads :
          /\ deadline[t] # NULL /\ pc'[t] = "run"
          /\ pc[t] = "expired" \/ (pc[t] = "blocked" /\ taken' = taken)
          => clock > deadline[t] - NsPerMs]_vars
  BY TimeoutStep
<1>. QED
  BY <1>1, SyncInvariant, PTL DEF Spec, NotEarly

-----------------------------------------------------------------------------
(***************************************************************************)
(* Signals: any number of threads beside the worker, any set of signals    *)
(* and any number of one-shot handlers and of signals sent.                *)
(***************************************************************************)
CONSTANTS Worker, Signals, MaxSends, MaxOneShots, None
VARIABLES pc2, table, crt, lock, event, dead, sig, act, owed, sends, shots, runs
Signal == INSTANCE Signals WITH pc <- pc2

Everyone == Threads \cup {Worker}
SigLabels == {"none", "start", "wait", "idle", "install", "runtime", "enter", "reinstate", "run"}
Dispositions ==
    {Signal!Default, Signal!Ignore, Signal!Persistent} \cup {Signal!OneShot(n) : n \in 1 .. MaxOneShots}

SigTypes ==
    /\ table \in [Signals -> Dispositions] /\ crt \in [Signals -> {"dfl", "ign", "lib"}]
    /\ event \in [Signals -> {"none", "clear", "set"}]
    /\ lock \in Everyone \cup {None} /\ pc2 \in [Everyone -> SigLabels]
    /\ act \in [Everyone -> Dispositions] /\ sig \in [Everyone -> Signals]
    /\ owed \subseteq Signals /\ shots \in 0 .. MaxOneShots /\ runs \in [1 .. MaxOneShots -> Nat]

\* Whoever changes a disposition has wpdk_sig_lock, and what sigaction has
\* stored stays until it has told the C runtime.
LockInv ==
    \A p \in Everyone :
        /\ pc2[p] \in {"runtime", "reinstate"} <=> lock = p
        /\ pc2[p] = "runtime" => table[sig[p]] = act[p]

\* A signal with a handler that the C runtime would not send to the library is
\* in the hands of a thread that will see to it.
Tells(p, s) == pc2[p] = "runtime" /\ sig[p] = s
Busy(p, s) ==
    sig[p] = s /\ (pc2[p] \in {"runtime", "enter"} \/ (pc2[p] = "reinstate" /\ ~act[p].reset))
AgreeInv ==
    \A s \in Signals :
        /\ table[s].handler = "call" => crt[s] = "lib" \/ \E p \in Everyone : Busy(p, s)
        /\ crt[s] = "ign" => table[s].handler = "ign" \/ \E p \in Everyone : Tells(p, s)

\* A one-shot handler that has not run is in one place: with the call that
\* installs it, in the table, or with the thread that is about to run it.
Holds(p, n) == pc2[p] \in {"install", "reinstate", "run"} /\ act[p].shot = n
Listed(s, n) == table[s].shot = n
Waits(n) == (\E p \in Everyone : Holds(p, n)) \/ (\E s \in Signals : Listed(s, n))
OnceInv ==
    \A n \in 1 .. MaxOneShots :
        /\ \A p, q \in Everyone : Holds(p, n) /\ Holds(q, n) => p = q
        /\ \A r, s \in Signals : Listed(r, n) /\ Listed(s, n) => r = s
        /\ \A p \in Everyone, s \in Signals : ~(Holds(p, n) /\ Listed(s, n))
        /\ Waits(n) => n \in 1 .. shots /\ runs[n] = 0
        /\ runs[n] \in {0, 1}
        /\ n \notin 1 .. shots => runs[n] = 0

\* No signal has an event, and none was sent, before the worker creates them.
EventInv == pc2[Worker] \in {"none", "start"} => \A s \in Signals : event[s] = "none"

SigInv == SigTypes /\ LockInv /\ AgreeInv /\ OnceInv /\ EventInv /\ Signal!NotLost
SigNames == Signal!SignalsAssumption /\ None \notin Everyone /\ Signals # {}

LEMMA DispositionParts ==
    ASSUME SigNames
    PROVE  /\ \A a \in Dispositions :
                /\ a.handler \in {"dfl", "ign", "call"} /\ a.shot \in 0 .. MaxOneShots
                /\ a.reset <=> a.shot # 0
                /\ a.reset => a.handler = "call"
           /\ Signal!Default.shot = 0 /\ ~Signal!Default.reset /\ Signal!Default.handler = "dfl"
           /\ {Signal!Default, Signal!Ignore, Signal!Persistent} \subseteq Dispositions
           /\ Signal!Ignore.shot = 0 /\ Signal!Persistent.shot = 0
           /\ \A n \in 1 .. MaxOneShots : Signal!OneShot(n) \in Dispositions /\ Signal!OneShot(n).shot = n
<1>0. MaxOneShots \in Nat
  BY DEF SigNames, Signal!SignalsAssumption
<1>1. /\ Signal!Default.shot = 0 /\ ~Signal!Default.reset /\ Signal!Default.handler = "dfl"
      /\ Signal!Ignore.shot = 0 /\ ~Signal!Ignore.reset /\ Signal!Ignore.handler = "ign"
      /\ Signal!Persistent.shot = 0 /\ ~Signal!Persistent.reset /\ Signal!Persistent.handler = "call"
  BY DEF Signal!Default, Signal!Ignore, Signal!Persistent
<1>2. ASSUME NEW n \in 1 .. MaxOneShots
      PROVE  /\ Signal!OneShot(n).shot = n /\ Signal!OneShot(n).reset /\ Signal!OneShot(n).handler = "call"
             /\ n # 0 /\ n \in 0 .. MaxOneShots /\ Signal!OneShot(n) \in Dispositions
  <2>1. Signal!OneShot(n).shot = n /\ Signal!OneShot(n).reset /\ Signal!OneShot(n).handler = "call"
    BY DEF Signal!OneShot
  <2>2. n # 0 /\ n \in 0 .. MaxOneShots
    BY <1>0
  <2>. QED
    BY <2>1, <2>2, Zenon DEF Dispositions
<1>3. 0 \in 0 .. MaxOneShots
  BY <1>0
<1>4. {Signal!Default, Signal!Ignore, Signal!Persistent} \subseteq Dispositions
  BY Zenon DEF Dispositions
<1>5. ASSUME NEW a \in Dispositions
      PROVE  /\ a.handler \in {"dfl", "ign", "call"} /\ a.shot \in 0 .. MaxOneShots
             /\ a.reset <=> a.shot # 0
             /\ a.reset => a.handler = "call"
  <2>1. CASE a \in {Signal!Default, Signal!Ignore, Signal!Persistent}
    BY <1>1, <1>3, <2>1, Zenon
  <2>2. ASSUME NEW n \in 1 .. MaxOneShots, a = Signal!OneShot(n)
        PROVE  /\ a.handler \in {"dfl", "ign", "call"} /\ a.shot \in 0 .. MaxOneShots
               /\ a.reset <=> a.shot # 0
               /\ a.reset => a.handler = "call"
    BY <1>2, <2>2, Zenon
  <2>. QED
    BY <2>1, <2>2, Zenon DEF Dispositions
<1>. QED
  BY <1>1, <1>2, <1>4, <1>5, Zenon

LEMMA RuntimeParts ==
    ASSUME SigNames, NEW a \in Dispositions
    PROVE  /\ Signal!Runtime(a) \in {"dfl", "ign", "lib"}
           /\ Signal!Runtime(a) = "lib" <=> a.handler = "call"
           /\ Signal!Runtime(a) = "ign" <=> a.handler = "ign"
  BY DispositionParts, Zenon DEF Signal!Runtime

\* The frames of the steps.
LEMMA LockKept ==
    ASSUME LockInv, lock' = lock, table' = table,
           \A q \in Everyone : /\ pc2'[q] \in {"runtime", "reinstate"} <=> pc2[q] \in {"runtime", "reinstate"}
                               /\ pc2'[q] = "runtime" =>
                                    pc2[q] = "runtime" /\ sig'[q] = sig[q] /\ act'[q] = act[q]
    PROVE  LockInv'
  BY Zenon DEF LockInv

LEMMA AgreeKept ==
    ASSUME AgreeInv, table' = table, crt' = crt,
           \A q \in Everyone, s \in Signals : (Busy(q, s) => Busy(q, s)') /\ (Tells(q, s) => Tells(q, s)')
    PROVE  AgreeInv'
  BY Zenon DEF AgreeInv

LEMMA OnceKept ==
    ASSUME OnceInv, shots' = shots, runs' = runs,
           \A q \in Everyone, n \in 1 .. MaxOneShots : Holds(q, n)' => Holds(q, n),
           \A s \in Signals, n \in 1 .. MaxOneShots : Listed(s, n)' => Listed(s, n)
    PROVE  OnceInv'
<1>. SUFFICES ASSUME NEW n \in 1 .. MaxOneShots
              PROVE  /\ \A p, q \in Everyone : Holds(p, n)' /\ Holds(q, n)' => p = q
                     /\ \A r, s \in Signals : Listed(r, n)' /\ Listed(s, n)' => r = s
                     /\ \A p \in Everyone, s \in Signals : ~(Holds(p, n)' /\ Listed(s, n)')
                     /\ Waits(n)' => n \in 1 .. shots' /\ runs'[n] = 0
                     /\ runs'[n] \in {0, 1}
                     /\ n \notin 1 .. shots' => runs'[n] = 0
  BY Zenon DEF OnceInv
<1>1. Waits(n)' => Waits(n)
  BY Zenon DEF Waits
<1>. QED
  BY <1>1, Zenon DEF OnceInv

\* sigaction, up to the lock: the worker starts with the first call.
LEMMA SigactionStep ==
    ASSUME SigNames, SigInv, NEW t \in Threads, Signal!Sigaction(t)
    PROVE  SigInv'
<1>0. t \in Everyone /\ Worker \in Everyone /\ t # Worker /\ MaxOneShots \in Nat
  BY DEF SigNames, Signal!SignalsAssumption, Everyone
<1>1. /\ pc2[t] = "idle" /\ pc2'[t] = "install"
      /\ pc2'[Worker] = IF pc2[Worker] = "none" THEN "start" ELSE pc2[Worker]
      /\ \A q \in Everyone : q \notin {t, Worker} => pc2'[q] = pc2[q]
      /\ pc2' \in [Everyone -> SigLabels]
  BY <1>0 DEF Signal!Sigaction, SigInv, SigTypes, SigLabels
<1>2. /\ \A q \in Everyone : q # t => sig'[q] = sig[q] /\ act'[q] = act[q]
      /\ sig' \in [Everyone -> Signals] /\ act' \in [Everyone -> Dispositions]
      /\ UNCHANGED <<table, crt, lock, event, dead, owed, sends, runs>>
      /\ \/ act'[t].shot = 0 /\ shots' = shots
         \/ act'[t].shot = shots + 1 /\ shots' = shots + 1 /\ shots + 1 \in 1 .. MaxOneShots
  <2>1. /\ \A q \in Everyone : q # t => sig'[q] = sig[q]
        /\ sig' \in [Everyone -> Signals]
        /\ UNCHANGED <<table, crt, lock, event, dead, owed, sends, runs>>
    BY <1>0, Zenon DEF Signal!Sigaction, SigInv, SigTypes
  <2>2. \/ \E a \in {Signal!Default, Signal!Ignore, Signal!Persistent} :
             act' = [act EXCEPT ![t] = a] /\ UNCHANGED shots
        \/ shots < MaxOneShots /\ shots' = shots + 1 /\ act' = [act EXCEPT ![t] = Signal!OneShot(shots + 1)]
    BY Zenon DEF Signal!Sigaction
  <2>3. ASSUME NEW a \in Dispositions, act' = [act EXCEPT ![t] = a]
        PROVE  /\ act'[t] = a /\ act' \in [Everyone -> Dispositions]
               /\ \A q \in Everyone : q # t => act'[q] = act[q]
    BY <1>0, <2>3, Zenon DEF SigInv, SigTypes
  <2>4. ASSUME NEW a \in {Signal!Default, Signal!Ignore, Signal!Persistent},
               act' = [act EXCEPT ![t] = a], UNCHANGED shots
        PROVE  /\ act'[t].shot = 0 /\ shots' = shots /\ act' \in [Everyone -> Dispositions]
               /\ \A q \in Everyone : q # t => act'[q] = act[q]
    BY <2>3, <2>4, DispositionParts, Zenon
  <2>5. ASSUME shots < MaxOneShots, shots' = shots + 1, act' = [act EXCEPT ![t] = Signal!OneShot(shots + 1)]
        PROVE  /\ act'[t].shot = shots + 1 /\ shots + 1 \in 1 .. MaxOneShots
               /\ act' \in [Everyone -> Dispositions] /\ \A q \in Everyone : q # t => act'[q] = act[q]
    <3>1. shots + 1 \in 1 .. MaxOneShots
      BY <1>0, <2>5 DEF SigInv, SigTypes
    <3>. QED
      BY <2>3, <2>5, <3>1, DispositionParts, Zenon
  <2>. QED
    BY <2>1, <2>2, <2>4, <2>5, Zenon
<1>3. SigTypes'
  <2>1. shots' \in 0 .. MaxOneShots
    BY <1>0, <1>2 DEF SigInv, SigTypes
  <2>. QED
    BY <1>1, <1>2, <2>1, Zenon DEF SigInv, SigTypes
<1>4. \A q \in Everyone : /\ pc2'[q] \in {"runtime", "reinstate"} <=> pc2[q] \in {"runtime", "reinstate"}
                          /\ pc2'[q] = "runtime" =>
                               pc2[q] = "runtime" /\ sig'[q] = sig[q] /\ act'[q] = act[q]
                          /\ pc2[q] \in {"runtime", "enter", "reinstate"} =>
                               pc2'[q] = pc2[q] /\ sig'[q] = sig[q] /\ act'[q] = act[q]
  BY <1>1, <1>2, Zenon
<1>5. LockInv'
  BY <1>2, <1>4, LockKept, Zenon DEF SigInv
<1>6. AgreeInv'
  <2>1. \A q \in Everyone, s \in Signals : (Busy(q, s) => Busy(q, s)') /\ (Tells(q, s) => Tells(q, s)')
    BY <1>4, Zenon DEF Busy, Tells
  <2>. QED
    BY <1>2, <2>1, AgreeKept, Zenon DEF SigInv
<1>7. OnceInv'
  <2>1. \A q \in Everyone, n \in 1 .. MaxOneShots : q # t => (Holds(q, n)' <=> Holds(q, n))
    BY <1>1, <1>2, Zenon DEF Holds
  <2>2. \A s \in Signals, n \in 1 .. MaxOneShots : Listed(s, n)' <=> Listed(s, n)
    BY <1>2, Zenon DEF Listed
  <2>3. \A n \in 1 .. MaxOneShots : n # 0
    BY <1>0
  <2>4. CASE act'[t].shot = 0 /\ shots' = shots
    <3>1. \A n \in 1 .. MaxOneShots : ~Holds(t, n)'
      BY <2>3, <2>4, Zenon DEF Holds
    <3>. QED
      BY <1>2, <2>1, <2>2, <2>4, <3>1, OnceKept, Zenon DEF SigInv
  <2>5. CASE act'[t].shot = shots + 1 /\ shots' = shots + 1 /\ shots + 1 \in 1 .. MaxOneShots
    <3>1. shots + 1 \notin 1 .. shots /\ \A n \in 1 .. shots : n \in 1 .. shots'
      BY <2>5 DEF SigInv, SigTypes
    <3>2. shots + 1 \in 1 .. shots' /\ \A n \in 1 .. shots' : n \in 1 .. shots \/ n = shots + 1
      BY <2>5 DEF SigInv, SigTypes
    <3>3. ~Waits(shots + 1) /\ runs[shots + 1] = 0
      BY <2>5, <3>1, Zenon DEF SigInv, OnceInv
    <3>. SUFFICES ASSUME NEW n \in 1 .. MaxOneShots
                  PROVE  /\ \A p, q \in Everyone : Holds(p, n)' /\ Holds(q, n)' => p = q
                         /\ \A r, s \in Signals : Listed(r, n)' /\ Listed(s, n)' => r = s
                         /\ \A p \in Everyone, s \in Signals : ~(Holds(p, n)' /\ Listed(s, n)')
                         /\ Waits(n)' => n \in 1 .. shots' /\ runs'[n] = 0
                         /\ runs'[n] \in {0, 1}
                         /\ n \notin 1 .. shots' => runs'[n] = 0
      BY Zenon DEF OnceInv
    <3>4. CASE n = shots + 1
      <4>1. (\A q \in Everyone : Holds(q, n)' => q = t) /\ \A s \in Signals : ~Listed(s, n)'
        BY <2>1, <2>2, <3>3, <3>4, Zenon DEF Waits
      <4>2. n \in 1 .. shots' /\ runs'[n] = 0
        BY <1>2, <3>2, <3>3, <3>4
      <4>3. \A p, q \in Everyone : Holds(p, n)' /\ Holds(q, n)' => p = q
        BY <4>1, Zenon
      <4>. QED
        BY <4>1, <4>2, <4>3
    <3>5. CASE n # shots + 1
      <4>1. ~Holds(t, n)'
        BY <2>5, <3>5, Zenon DEF Holds
      <4>2. Waits(n)' => Waits(n)
        BY <2>1, <2>2, <4>1, Zenon DEF Waits
      <4>. QED
        BY <1>2, <2>1, <2>2, <3>1, <4>1, <4>2, Zenon DEF SigInv, OnceInv
    <3>. QED
      BY <3>4, <3>5, Zenon
  <2>. QED
    BY <1>2, <2>4, <2>5, Zenon
<1>8. EventInv'
  BY <1>1, <1>2, Zenon DEF SigInv, EventInv
<1>9. Signal!NotLost'
  BY <1>0, <1>1, <1>2, Zenon DEF SigInv, Signal!NotLost
<1>. QED
  BY <1>3, <1>5, <1>6, <1>7, <1>8, <1>9, Zenon DEF SigInv

\* sigaction, with the lock: the table first.
LEMMA InstallStep ==
    ASSUME SigNames, SigInv, NEW t \in Threads, Signal!Install(t)
    PROVE  SigInv'
<1>0. t \in Everyone /\ Worker \in Everyone /\ t # Worker /\ MaxOneShots \in Nat /\ t # None
  BY Zenon DEF SigNames, Signal!SignalsAssumption, Everyone
<1>1. /\ pc2[t] = "install" /\ pc2'[t] = "runtime" /\ pc2' \in [Everyone -> SigLabels]
      /\ \A q \in Everyone : q # t => pc2'[q] = pc2[q]
      /\ lock = None /\ lock' = t
      /\ UNCHANGED <<crt, event, dead, sig, act, owed, sends, shots, runs>>
  BY <1>0, Zenon DEF Signal!Install, Signal!Goto, Signal!ghosts, SigInv, SigTypes, SigLabels
<1>2. PICK w \in Signals : w = sig[t]
  BY <1>0, Zenon DEF SigInv, SigTypes
<1>3. /\ table'[w] = act[t] /\ table' \in [Signals -> Dispositions]
      /\ \A s \in Signals : s # w => table'[s] = table[s]
  BY <1>0, <1>2, Zenon DEF Signal!Install, SigInv, SigTypes
<1>4. \A q \in Everyone : pc2[q] \notin {"runtime", "reinstate"}
  BY <1>1, Zenon DEF SigInv, LockInv, SigNames
<1>5. SigTypes'
  BY <1>0, <1>1, <1>3, Zenon DEF SigInv, SigTypes
<1>6. LockInv'
  BY <1>0, <1>1, <1>2, <1>3, <1>4, Zenon DEF LockInv
<1>7. AgreeInv'
  <2>1. Busy(t, w)' /\ Tells(t, w)'
    BY <1>1, <1>2, Zenon DEF Busy, Tells
  <2>2. \A q \in Everyone, s \in Signals : (Busy(q, s) => Busy(q, s)') /\ ~Tells(q, s)
    BY <1>1, <1>4, Zenon DEF Busy, Tells
  <2>. QED
    BY <1>0, <1>1, <1>3, <2>1, <2>2, Zenon DEF SigInv, AgreeInv
<1>8. OnceInv'
  <2>. SUFFICES ASSUME NEW n \in 1 .. MaxOneShots
                PROVE  /\ \A p, q \in Everyone : Holds(p, n)' /\ Holds(q, n)' => p = q
                       /\ \A r, s \in Signals : Listed(r, n)' /\ Listed(s, n)' => r = s
                       /\ \A p \in Everyone, s \in Signals : ~(Holds(p, n)' /\ Listed(s, n)')
                       /\ Waits(n)' => n \in 1 .. shots' /\ runs'[n] = 0
                       /\ runs'[n] \in {0, 1}
                       /\ n \notin 1 .. shots' => runs'[n] = 0
    BY Zenon DEF OnceInv
  <2>1. ~Holds(t, n)' /\ \A q \in Everyone : q # t => (Holds(q, n)' <=> Holds(q, n))
    BY <1>1, Zenon DEF Holds
  <2>2. (Listed(w, n)' <=> Holds(t, n)) /\ \A s \in Signals : s # w => (Listed(s, n)' <=> Listed(s, n))
    BY <1>1, <1>3, Zenon DEF Holds, Listed
  <2>3. Waits(n)' => Waits(n)
    BY <1>0, <2>1, <2>2, Zenon DEF Waits
  <2>. QED
    BY <1>0, <1>1, <2>1, <2>2, <2>3, Zenon DEF SigInv, OnceInv
<1>9. EventInv' /\ Signal!NotLost'
  BY <1>0, <1>1, Zenon DEF SigInv, EventInv, Signal!NotLost
<1>. QED
  BY <1>5, <1>6, <1>7, <1>8, <1>9, Zenon DEF SigInv

\* Then the C runtime, which hears of what the table holds.
LEMMA InstallRuntimeStep ==
    ASSUME SigNames, SigInv, NEW t \in Threads, Signal!InstallRuntime(t)
    PROVE  SigInv'
<1>0. t \in Everyone /\ Worker \in Everyone /\ t # Worker
  BY Zenon DEF SigNames, Signal!SignalsAssumption, Everyone
<1>1. /\ pc2[t] = "runtime" /\ pc2'[t] = "idle" /\ pc2' \in [Everyone -> SigLabels]
      /\ \A q \in Everyone : q # t => pc2'[q] = pc2[q] /\ act'[q] = act[q]
      /\ lock' = None
      /\ UNCHANGED <<table, event, dead, sig, owed, sends, shots, runs>>
  BY <1>0, Zenon DEF Signal!InstallRuntime, Signal!Goto, Signal!ghosts, SigInv, SigTypes, SigLabels
<1>2. PICK w \in Signals : w = sig[t]
  BY <1>0, Zenon DEF SigInv, SigTypes
<1>3. /\ crt'[w] = Signal!Runtime(act[t]) /\ crt' \in [Signals -> {"dfl", "ign", "lib"}]
      /\ \A s \in Signals : s # w => crt'[s] = crt[s]
      /\ act' \in [Everyone -> Dispositions]
  BY <1>0, <1>2, RuntimeParts, DispositionParts, Zenon DEF Signal!InstallRuntime, SigInv, SigTypes
<1>4. table[w] = act[t] /\ lock = t /\ \A q \in Everyone : q # t => pc2[q] \notin {"runtime", "reinstate"}
  <2>1. table[w] = act[t] /\ lock = t
    BY <1>0, <1>1, <1>2, Zenon DEF SigInv, LockInv
  <2>2. \A q \in Everyone : q # t => lock # q
    BY <2>1
  <2>. QED
    BY <2>1, <2>2, Zenon DEF SigInv, LockInv
<1>5. SigTypes'
  BY <1>1, <1>3, Zenon DEF SigInv, SigTypes
<1>6. LockInv'
  BY <1>0, <1>1, <1>4, Zenon DEF LockInv, SigNames
<1>7. AgreeInv'
  <2>1. \A q \in Everyone, s \in Signals : s # w => (Busy(q, s) => Busy(q, s)') /\ ~Tells(q, s)
    BY <1>1, <1>2, <1>4, Zenon DEF Busy, Tells
  <2>2. /\ table'[w].handler = "call" => crt'[w] = "lib"
        /\ crt'[w] = "ign" => table'[w].handler = "ign"
    BY <1>0, <1>1, <1>3, <1>4, RuntimeParts, Zenon DEF SigInv, SigTypes
  <2>3. ASSUME NEW s \in Signals, s # w
        PROVE  /\ table'[s].handler = "call" => crt'[s] = "lib" \/ \E p \in Everyone : Busy(p, s)'
               /\ crt'[s] = "ign" => table'[s].handler = "ign"
    BY <1>1, <1>3, <2>1, <2>3, Zenon DEF SigInv, AgreeInv
  <2>. QED
    BY <2>2, <2>3, Zenon DEF AgreeInv
<1>8. OnceInv'
  <2>1. \A q \in Everyone, n \in 1 .. MaxOneShots : Holds(q, n)' => Holds(q, n)
    BY <1>1, Zenon DEF Holds
  <2>2. \A s \in Signals, n \in 1 .. MaxOneShots : Listed(s, n)' => Listed(s, n)
    BY <1>1, Zenon DEF Listed
  <2>. QED
    BY <1>1, <2>1, <2>2, OnceKept, Zenon DEF SigInv
<1>9. EventInv' /\ Signal!NotLost'
  BY <1>0, <1>1, Zenon DEF SigInv, EventInv, Signal!NotLost
<1>. QED
  BY <1>5, <1>6, <1>7, <1>8, <1>9, Zenon DEF SigInv

\* raise: the C runtime forgets the handler it is about to call.
LEMMA RaiseStep ==
    ASSUME SigNames, SigInv, NEW t \in Threads, Signal!Raise(t)
    PROVE  SigInv'
<1>0. t \in Everyone /\ Worker \in Everyone /\ t # Worker
  BY Zenon DEF SigNames, Signal!SignalsAssumption, Everyone
<1>1. PICK w \in Signals :
        /\ sig' = [sig EXCEPT ![t] = w]
        /\ crt' = IF crt[w] = "lib" THEN [crt EXCEPT ![w] = "dfl"] ELSE crt
        /\ IF crt[w] = "lib" THEN Signal!Goto(t, "enter") ELSE UNCHANGED pc2
  BY Zenon DEF Signal!Raise
<1>2. /\ pc2[t] = "idle" /\ pc2'[t] \in {"idle", "enter"} /\ pc2' \in [Everyone -> SigLabels]
      /\ crt[w] = "lib" => pc2'[t] = "enter"
      /\ \A q \in Everyone : q # t => pc2'[q] = pc2[q] /\ sig'[q] = sig[q]
      /\ sig'[t] = w /\ sig' \in [Everyone -> Signals]
      /\ UNCHANGED <<table, lock, event, act, owed, sends, shots, runs>>
  <2>1. /\ \A q \in Everyone : q # t => sig'[q] = sig[q]
        /\ sig'[t] = w /\ sig' \in [Everyone -> Signals]
        /\ UNCHANGED <<table, lock, event, act, owed, sends, shots, runs>> /\ pc2[t] = "idle"
    BY <1>0, <1>1, Zenon DEF Signal!Raise, Signal!ghosts, SigInv, SigTypes
  <2>2. CASE crt[w] = "lib"
    <3>1. pc2' = [pc2 EXCEPT ![t] = "enter"]
      BY <1>1, <2>2, Zenon DEF Signal!Goto
    <3>. QED
      BY <1>0, <2>1, <3>1, Zenon DEF SigInv, SigTypes, SigLabels
  <2>3. CASE crt[w] # "lib"
    BY <1>1, <2>1, <2>3, Zenon DEF SigInv, SigTypes
  <2>. QED
    BY <2>2, <2>3, Zenon
<1>3. /\ crt' \in [Signals -> {"dfl", "ign", "lib"}] /\ \A s \in Signals : s # w => crt'[s] = crt[s]
      /\ crt'[w] = crt[w] \/ (crt[w] = "lib" /\ crt'[w] = "dfl")
  BY <1>1, Zenon DEF SigInv, SigTypes
<1>4. SigTypes'
  BY <1>2, <1>3, Zenon DEF SigInv, SigTypes
<1>5. LockInv'
  BY <1>2, LockKept, Zenon DEF SigInv
<1>6. AgreeInv'
  <2>1. \A q \in Everyone, s \in Signals : (Busy(q, s) => Busy(q, s)') /\ (Tells(q, s) => Tells(q, s)')
    BY <1>2, Zenon DEF Busy, Tells
  <2>2. crt[w] = "lib" => Busy(t, w)'
    BY <1>2, Zenon DEF Busy
  <2>3. crt'[w] = crt[w] \/ (crt'[w] # "ign" /\ Busy(t, w)')
    BY <1>3, <2>2, Zenon
  <2>4. ASSUME NEW s \in Signals
        PROVE  /\ table'[s].handler = "call" => crt'[s] = "lib" \/ \E p \in Everyone : Busy(p, s)'
               /\ crt'[s] = "ign" => table'[s].handler = "ign" \/ \E p \in Everyone : Tells(p, s)'
    <3>1. crt'[s] = crt[s] \/ (crt'[s] # "ign" /\ Busy(t, s)')
      BY <1>3, <2>3, Zenon
    <3>. QED
      BY <1>0, <1>2, <2>1, <3>1, Zenon DEF SigInv, AgreeInv
  <2>. QED
    BY <2>4, Zenon DEF AgreeInv
<1>7. OnceInv'
  <2>1. \A q \in Everyone, n \in 1 .. MaxOneShots : Holds(q, n)' => Holds(q, n)
    BY <1>2, Zenon DEF Holds
  <2>2. \A s \in Signals, n \in 1 .. MaxOneShots : Listed(s, n)' => Listed(s, n)
    BY <1>2, Zenon DEF Listed
  <2>. QED
    BY <1>2, <2>1, <2>2, OnceKept, Zenon DEF SigInv
<1>8. EventInv' /\ Signal!NotLost'
  BY <1>0, <1>2, Zenon DEF SigInv, EventInv, Signal!NotLost
<1>. QED
  BY <1>4, <1>5, <1>6, <1>7, <1>8, Zenon DEF SigInv

\* wpdk_signal_handler takes the disposition out of the table, and a one-shot
\* one for good.
LEMMA HandlerEnterStep ==
    ASSUME SigNames, SigInv, NEW p \in Everyone, Signal!HandlerEnter(p)
    PROVE  SigInv'
<1>0. Worker \in Everyone /\ p # None
  BY Zenon DEF SigNames, Everyone
<1>1. /\ pc2[p] = "enter" /\ pc2'[p] = "reinstate" /\ pc2' \in [Everyone -> SigLabels]
      /\ \A q \in Everyone : q # p => pc2'[q] = pc2[q] /\ act'[q] = act[q]
      /\ lock = None /\ lock' = p
      /\ UNCHANGED <<crt, event, dead, sig, sends, shots, runs>>
  BY Zenon DEF Signal!HandlerEnter, Signal!Goto, SigInv, SigTypes, SigLabels
<1>2. PICK w \in Signals : w = sig[p]
  BY Zenon DEF SigInv, SigTypes
<1>3. act'[p] = table[w] /\ owed' = owed \ {w} /\ act' \in [Everyone -> Dispositions]
  BY <1>2, Zenon DEF Signal!HandlerEnter, SigInv, SigTypes
<1>4. /\ table' \in [Signals -> Dispositions] /\ \A s \in Signals : s # w => table'[s] = table[s]
      /\ table[w].reset => table'[w] = Signal!Default
      /\ ~table[w].reset => table'[w] = table[w]
  <2>1. table' = IF table[w].reset THEN [table EXCEPT ![w] = Signal!Default] ELSE table
    BY <1>2, Zenon DEF Signal!HandlerEnter
  <2>. QED
    BY <2>1, DispositionParts, Zenon DEF SigInv, SigTypes
<1>5. /\ table[w].reset => table[w].handler = "call"
      /\ table[w].reset <=> table[w].shot # 0
      /\ table'[w].shot = 0
  <2>1. table[w] \in Dispositions
    BY Zenon DEF SigInv, SigTypes
  <2>. QED
    BY <1>4, <2>1, DispositionParts, Zenon
<1>6. \A q \in Everyone : pc2[q] \notin {"runtime", "reinstate"}
  BY <1>1, Zenon DEF SigInv, LockInv, SigNames
<1>7. SigTypes'
  BY <1>1, <1>3, <1>4, Zenon DEF SigInv, SigTypes
<1>8. LockInv'
  BY <1>1, <1>6, Zenon DEF LockInv
<1>9. AgreeInv'
  <2>1. \A q \in Everyone, s \in Signals : s # w => (Busy(q, s) => Busy(q, s)')
    BY <1>1, <1>2, <1>6, Zenon DEF Busy
  <2>2. \A q \in Everyone, s \in Signals : ~Tells(q, s)
    BY <1>6, Zenon DEF Tells
  <2>3. ASSUME NEW s \in Signals, s # w
        PROVE  /\ table'[s].handler = "call" => crt'[s] = "lib" \/ \E q \in Everyone : Busy(q, s)'
               /\ crt'[s] = "ign" => table'[s].handler = "ign"
    BY <1>1, <1>4, <2>1, <2>2, <2>3, Zenon DEF SigInv, AgreeInv
  <2>4. crt'[w] = "ign" => table[w].handler = "ign"
    BY <1>1, <2>2, Zenon DEF SigInv, AgreeInv
  <2>5. CASE table[w].reset
    <3>1. table'[w].handler = "dfl" /\ crt'[w] # "ign"
      BY <1>4, <1>5, <2>4, <2>5, DispositionParts, Zenon
    <3>. QED
      BY <2>3, <3>1, Zenon DEF AgreeInv
  <2>6. CASE ~table[w].reset
    <3>1. Busy(p, w)'
      BY <1>1, <1>2, <1>3, <2>6, Zenon DEF Busy
    <3>. QED
      BY <1>4, <2>3, <2>4, <2>6, <3>1, Zenon DEF AgreeInv
  <2>. QED
    BY <2>5, <2>6, Zenon
<1>10. OnceInv'
  <2>. SUFFICES ASSUME NEW n \in 1 .. MaxOneShots
                PROVE  /\ \A r, q \in Everyone : Holds(r, n)' /\ Holds(q, n)' => r = q
                       /\ \A r, s \in Signals : Listed(r, n)' /\ Listed(s, n)' => r = s
                       /\ \A r \in Everyone, s \in Signals : ~(Holds(r, n)' /\ Listed(s, n)')
                       /\ Waits(n)' => n \in 1 .. shots' /\ runs'[n] = 0
                       /\ runs'[n] \in {0, 1}
                       /\ n \notin 1 .. shots' => runs'[n] = 0
    BY Zenon DEF OnceInv
  <2>0. n # 0
    BY DEF SigNames, Signal!SignalsAssumption
  <2>1. ~Listed(w, n)' /\ \A s \in Signals : s # w => (Listed(s, n)' <=> Listed(s, n))
    BY <1>4, <1>5, <2>0, Zenon DEF Listed
  <2>2. /\ ~Holds(p, n) /\ (Holds(p, n)' <=> Listed(w, n))
        /\ \A q \in Everyone : q # p => (Holds(q, n)' <=> Holds(q, n))
    BY <1>1, <1>3, Zenon DEF Holds, Listed
  <2>3. Waits(n)' => Waits(n)
    BY <2>1, <2>2, Zenon DEF Waits
  <2>. QED
    BY <1>1, <2>1, <2>2, <2>3, Zenon DEF SigInv, OnceInv
<1>11. EventInv'
  BY <1>0, <1>1, Zenon DEF SigInv, EventInv
<1>12. Signal!NotLost'
  BY <1>0, <1>1, <1>2, <1>3, Zenon DEF SigInv, Signal!NotLost
<1>. QED
  BY <1>7, <1>8, <1>9, <1>10, <1>11, <1>12, Zenon DEF SigInv

\* It tells the runtime again, unless the handler was for once.
LEMMA HandlerReinstateStep ==
    ASSUME SigNames, SigInv, NEW p \in Everyone, Signal!HandlerReinstate(p)
    PROVE  SigInv'
<1>0. Worker \in Everyone /\ p # None
  BY Zenon DEF SigNames, Everyone
<1>1. /\ pc2[p] = "reinstate" /\ pc2'[p] = "run" /\ pc2' \in [Everyone -> SigLabels]
      /\ \A q \in Everyone : q # p => pc2'[q] = pc2[q]
      /\ lock' = None
      /\ UNCHANGED <<table, event, dead, sig, act, owed, sends, shots, runs>>
  BY Zenon DEF Signal!HandlerReinstate, Signal!Goto, Signal!ghosts, SigInv, SigTypes, SigLabels
<1>2. PICK w \in Signals : w = sig[p]
  BY Zenon DEF SigInv, SigTypes
<1>3. /\ crt' \in [Signals -> {"dfl", "ign", "lib"}] /\ \A s \in Signals : s # w => crt'[s] = crt[s]
      /\ act[p].reset => crt'[w] = crt[w]
      /\ ~act[p].reset => crt'[w] = "lib"
  <2>1. crt' = IF act[p].reset THEN crt ELSE [crt EXCEPT ![w] = "lib"]
    BY <1>2, Zenon DEF Signal!HandlerReinstate
  <2>. QED
    BY <2>1, Zenon DEF SigInv, SigTypes
<1>4. \A q \in Everyone : q # p => pc2[q] \notin {"runtime", "reinstate"}
  <2>1. lock = p
    BY <1>1, Zenon DEF SigInv, LockInv
  <2>2. \A q \in Everyone : q # p => lock # q
    BY <2>1
  <2>. QED
    BY <2>2, Zenon DEF SigInv, LockInv
<1>5. SigTypes'
  BY <1>1, <1>3, Zenon DEF SigInv, SigTypes
<1>6. LockInv'
  BY <1>0, <1>1, <1>4, Zenon DEF LockInv, SigNames
<1>7. AgreeInv'
  <2>1. \A q \in Everyone, s \in Signals : q # p => (Busy(q, s) => Busy(q, s)')
    BY <1>1, Zenon DEF Busy
  <2>2. \A q \in Everyone, s \in Signals : ~Tells(q, s)
    BY <1>1, <1>4, Zenon DEF Tells
  <2>3. \A s \in Signals : Busy(p, s) => s = w /\ ~act[p].reset
    BY <1>1, <1>2, Zenon DEF Busy
  <2>4. ASSUME NEW s \in Signals, crt'[s] = crt[s], ~Busy(p, s)
        PROVE  /\ table'[s].handler = "call" => crt'[s] = "lib" \/ \E q \in Everyone : Busy(q, s)'
               /\ crt'[s] = "ign" => table'[s].handler = "ign"
    BY <1>1, <2>1, <2>2, <2>4, Zenon DEF SigInv, AgreeInv
  <2>5. crt'[w] = "lib" \/ (crt'[w] = crt[w] /\ ~Busy(p, w))
    BY <1>3, <2>3, Zenon
  <2>6. \A s \in Signals : crt'[s] = "lib" \/ (crt'[s] = crt[s] /\ ~Busy(p, s))
    BY <1>3, <2>3, <2>5, Zenon
  <2>7. "lib" # "ign"
    OBVIOUS
  <2>. QED
    BY <2>4, <2>6, <2>7, Zenon DEF AgreeInv
<1>8. OnceInv'
  <2>1. \A q \in Everyone, n \in 1 .. MaxOneShots : Holds(q, n)' => Holds(q, n)
    BY <1>1, Zenon DEF Holds
  <2>2. \A s \in Signals, n \in 1 .. MaxOneShots : Listed(s, n)' => Listed(s, n)
    BY <1>1, Zenon DEF Listed
  <2>. QED
    BY <1>1, <2>1, <2>2, OnceKept, Zenon DEF SigInv
<1>9. EventInv' /\ Signal!NotLost'
  BY <1>0, <1>1, Zenon DEF SigInv, EventInv, Signal!NotLost
<1>. QED
  BY <1>5, <1>6, <1>7, <1>8, <1>9, Zenon DEF SigInv

\* Then it runs the handler.
LEMMA HandlerRunStep ==
    ASSUME SigNames, SigInv, NEW p \in Everyone, Signal!HandlerRun(p)
    PROVE  SigInv'
<1>0. Worker \in Everyone
  BY Zenon DEF Everyone
<1>1. /\ pc2[p] = "run" /\ pc2'[p] \in {"wait", "idle"} /\ pc2' \in [Everyone -> SigLabels]
      /\ \A q \in Everyone : q # p => pc2'[q] = pc2[q] /\ act'[q] = act[q]
      /\ UNCHANGED <<table, crt, lock, event, sig, owed, sends, shots>>
  <2>1. Signal!Rest(p) \in {"wait", "idle"}
    BY Zenon DEF Signal!Rest
  <2>. QED
    BY <2>1, Zenon DEF Signal!HandlerRun, Signal!Goto, SigInv, SigTypes, SigLabels
<1>2. act' \in [Everyone -> Dispositions]
  BY DispositionParts, Zenon DEF Signal!HandlerRun, SigInv, SigTypes
<1>3. PICK k \in 0 .. MaxOneShots : k = act[p].shot
  BY DispositionParts, Zenon DEF SigInv, SigTypes
<1>4. \/ k = 0 /\ runs' = runs
      \/ k \in 1 .. MaxOneShots /\ runs' = [runs EXCEPT ![k] = runs[k] + 1]
  <2>1. act[p].reset <=> k # 0
    BY <1>3, DispositionParts, Zenon DEF SigInv, SigTypes
  <2>2. k # 0 => k \in 1 .. MaxOneShots
    BY DEF SigNames, Signal!SignalsAssumption
  <2>3. runs' = IF act[p].reset THEN [runs EXCEPT ![k] = runs[k] + 1] ELSE runs
    BY <1>3, Zenon DEF Signal!HandlerRun
  <2>. QED
    BY <2>1, <2>2, <2>3, Zenon
<1>5. runs' \in [1 .. MaxOneShots -> Nat]
  <2>1. \A n \in 1 .. MaxOneShots : runs[n] + 1 \in Nat
    BY DEF SigInv, SigTypes
  <2>. QED
    BY <1>4, <2>1, Zenon DEF SigInv, SigTypes
<1>6. SigTypes'
  BY <1>1, <1>2, <1>5, Zenon DEF SigInv, SigTypes
<1>7. LockInv'
  BY <1>1, LockKept, Zenon DEF SigInv
<1>8. AgreeInv'
  <2>1. \A q \in Everyone, s \in Signals : (Busy(q, s) => Busy(q, s)') /\ (Tells(q, s) => Tells(q, s)')
    BY <1>1, Zenon DEF Busy, Tells
  <2>. QED
    BY <1>1, <2>1, AgreeKept, Zenon DEF SigInv
<1>9. OnceInv'
  <2>1. \A q \in Everyone, n \in 1 .. MaxOneShots : Holds(q, n)' => q # p /\ Holds(q, n)
    BY <1>1, Zenon DEF Holds
  <2>2. \A s \in Signals, n \in 1 .. MaxOneShots : Listed(s, n)' => Listed(s, n)
    BY <1>1, Zenon DEF Listed
  <2>3. CASE k = 0 /\ runs' = runs
    BY <1>1, <2>1, <2>2, <2>3, OnceKept, Zenon DEF SigInv
  <2>4. CASE k \in 1 .. MaxOneShots /\ runs' = [runs EXCEPT ![k] = runs[k] + 1]
    <3>1. Holds(p, k)
      BY <1>1, <1>3, Zenon DEF Holds
    <3>2. k \in 1 .. shots /\ runs[k] = 0
      BY <2>4, <3>1, Zenon DEF SigInv, OnceInv, Waits
    <3>3. runs'[k] = 1 /\ \A n \in 1 .. MaxOneShots : n # k => runs'[n] = runs[n]
      BY <2>4, <3>2 DEF SigInv, SigTypes
    <3>4. ~Waits(k)'
      BY <2>1, <2>2, <2>4, <3>1, Zenon DEF SigInv, OnceInv, Waits
    <3>. SUFFICES ASSUME NEW n \in 1 .. MaxOneShots
                  PROVE  /\ \A r, q \in Everyone : Holds(r, n)' /\ Holds(q, n)' => r = q
                         /\ \A r, s \in Signals : Listed(r, n)' /\ Listed(s, n)' => r = s
                         /\ \A r \in Everyone, s \in Signals : ~(Holds(r, n)' /\ Listed(s, n)')
                         /\ Waits(n)' => n \in 1 .. shots' /\ runs'[n] = 0
                         /\ runs'[n] \in {0, 1}
                         /\ n \notin 1 .. shots' => runs'[n] = 0
      BY Zenon DEF OnceInv
    <3>5. /\ \A r, q \in Everyone : Holds(r, n)' /\ Holds(q, n)' => r = q
          /\ \A r, s \in Signals : Listed(r, n)' /\ Listed(s, n)' => r = s
          /\ \A r \in Everyone, s \in Signals : ~(Holds(r, n)' /\ Listed(s, n)')
      BY <2>1, <2>2, Zenon DEF SigInv, OnceInv
    <3>6. CASE n = k
      BY <1>1, <3>2, <3>3, <3>4, <3>5, <3>6, Zenon
    <3>7. CASE n # k
      <4>1. Waits(n)' => Waits(n)
        BY <2>1, <2>2, Zenon DEF Waits
      <4>. QED
        BY <1>1, <3>3, <3>5, <3>7, <4>1, Zenon DEF SigInv, OnceInv
    <3>. QED
      BY <3>6, <3>7, Zenon
  <2>. QED
    BY <1>4, <2>3, <2>4, Zenon
<1>10. EventInv' /\ Signal!NotLost'
  BY <1>0, <1>1, Zenon DEF SigInv, EventInv, Signal!NotLost
<1>. QED
  BY <1>6, <1>7, <1>8, <1>9, <1>10, Zenon DEF SigInv

\* wpdk_signal_worker, between handlers.
LEMMA WorkerStep ==
    ASSUME SigNames, SigInv, Signal!CreateEvents \/ Signal!Wait
    PROVE  SigInv'
<1>0. Worker \in Everyone
  BY Zenon DEF Everyone
<1>1. /\ pc2[Worker] \in {"start", "wait"} /\ pc2'[Worker] \in {"wait", "enter"}
      /\ pc2' \in [Everyone -> SigLabels]
      /\ \A q \in Everyone : q # Worker => pc2'[q] = pc2[q]
      /\ UNCHANGED <<table, crt, lock, dead, act, owed, sends, shots, runs>>
  BY <1>0, Zenon DEF Signal!CreateEvents, Signal!Wait, Signal!Goto, Signal!ghosts, SigInv, SigTypes, SigLabels
<1>2. /\ sig' \in [Everyone -> Signals] /\ event' \in [Signals -> {"none", "clear", "set"}]
      /\ \A q \in Everyone : q # Worker => sig'[q] = sig[q]
      /\ Signal!NotLost'
  <2>1. CASE Signal!CreateEvents
    <3>1. event' = [s \in Signals |-> "clear"] /\ sig' = sig /\ pc2[Worker] = "start"
      BY <2>1, Zenon DEF Signal!CreateEvents
    <3>2. \A s \in owed : FALSE
      BY <3>1, Zenon DEF SigInv, SigTypes, EventInv, Signal!NotLost
    <3>3. event' \in [Signals -> {"none", "clear", "set"}]
      BY <3>1, Zenon
    <3>. QED
      BY <1>1, <3>1, <3>2, <3>3, Zenon DEF SigInv, SigTypes, Signal!NotLost
  <2>2. CASE Signal!Wait
    <3>1. PICK w \in Signals : sig' = [sig EXCEPT ![Worker] = w] /\ event' = [event EXCEPT ![w] = "clear"]
      BY <2>2, Zenon DEF Signal!Wait
    <3>2. pc2[Worker] = "wait" /\ pc2'[Worker] = "enter"
      BY <1>0, <2>2, Zenon DEF Signal!Wait, Signal!Goto, SigInv, SigTypes
    <3>3. /\ sig'[Worker] = w /\ \A q \in Everyone : q # Worker => sig'[q] = sig[q]
          /\ \A s \in Signals : s # w => event'[s] = event[s]
          /\ sig' \in [Everyone -> Signals] /\ event' \in [Signals -> {"none", "clear", "set"}]
      BY <1>0, <3>1, Zenon DEF SigInv, SigTypes
    <3>. QED
      BY <1>1, <3>2, <3>3, Zenon DEF SigInv, SigTypes, Signal!NotLost
  <2>. QED
    BY <2>1, <2>2, Zenon
<1>3. SigTypes'
  BY <1>1, <1>2, Zenon DEF SigInv, SigTypes
<1>4. LockInv'
  BY <1>1, <1>2, LockKept, Zenon DEF SigInv
<1>5. AgreeInv'
  <2>1. \A q \in Everyone, s \in Signals : (Busy(q, s) => Busy(q, s)') /\ (Tells(q, s) => Tells(q, s)')
    BY <1>1, <1>2, Zenon DEF Busy, Tells
  <2>. QED
    BY <1>1, <2>1, AgreeKept, Zenon DEF SigInv
<1>6. OnceInv'
  <2>1. \A q \in Everyone, n \in 1 .. MaxOneShots : Holds(q, n)' => Holds(q, n)
    BY <1>1, Zenon DEF Holds
  <2>2. \A s \in Signals, n \in 1 .. MaxOneShots : Listed(s, n)' => Listed(s, n)
    BY <1>1, Zenon DEF Listed
  <2>. QED
    BY <1>1, <2>1, <2>2, OnceKept, Zenon DEF SigInv
<1>7. EventInv'
  BY <1>1, Zenon DEF EventInv
<1>. QED
  BY <1>2, <1>3, <1>4, <1>5, <1>6, <1>7, Zenon DEF SigInv

\* kill in another process.
LEMMA KillStep ==
    ASSUME SigNames, SigInv, NEW w \in Signals, Signal!Kill(w)
    PROVE  SigInv'
<1>1. /\ event[w] # "none" /\ owed' = owed \cup {w} /\ event' = [event EXCEPT ![w] = "set"]
      /\ UNCHANGED <<table, crt, lock, dead, pc2, sig, act, shots, runs>>
  BY Zenon DEF Signal!Kill
<1>2. /\ event' \in [Signals -> {"none", "clear", "set"}] /\ event'[w] = "set"
      /\ \A s \in Signals : s # w => event'[s] = event[s]
  BY <1>1, Zenon DEF SigInv, SigTypes
<1>3. SigTypes'
  BY <1>1, <1>2, ZenonT(30) DEF SigInv, SigTypes
<1>4. LockInv' /\ AgreeInv'
  <2>1. LockInv'
    BY <1>1, Zenon DEF SigInv, LockInv
  <2>2. \A p \in Everyone, s \in Signals : (Busy(p, s)' <=> Busy(p, s)) /\ (Tells(p, s)' <=> Tells(p, s))
    BY <1>1, Zenon DEF Busy, Tells
  <2>3. AgreeInv'
    BY <1>1, <2>2, Zenon DEF SigInv, AgreeInv
  <2>. QED
    BY <2>1, <2>3, Zenon
<1>5. OnceInv'
  BY <1>1, ZenonT(30) DEF SigInv, OnceInv, Waits, Holds, Listed
<1>6. EventInv'
  BY <1>1, Zenon DEF SigInv, EventInv
<1>7. Signal!NotLost'
  BY <1>1, <1>2, Zenon DEF SigInv, SigTypes, Signal!NotLost
<1>. QED
  BY <1>3, <1>4, <1>5, <1>6, <1>7, Zenon DEF SigInv

LEMMA SigInit ==
    ASSUME SigNames, Signal!Init
    PROVE  SigInv
<1>0. Worker \in Everyone /\ MaxOneShots \in Nat
  BY DEF SigNames, Signal!SignalsAssumption, Everyone
<1>1. /\ \A s \in Signals : table[s] = Signal!Default /\ crt[s] = "dfl" /\ event[s] = "none"
      /\ lock = None /\ owed = {} /\ shots = 0
      /\ \A p \in Everyone : act[p] = Signal!Default /\ pc2[p] \in {"none", "idle"}
      /\ \A n \in 1 .. MaxOneShots : runs[n] = 0
  BY Zenon DEF Signal!Init, Everyone, Signal!Everyone
<1>2. SigTypes
  <2>1. /\ table \in [Signals -> Dispositions] /\ crt \in [Signals -> {"dfl", "ign", "lib"}]
        /\ event \in [Signals -> {"none", "clear", "set"}] /\ act \in [Everyone -> Dispositions]
    BY DispositionParts, Zenon DEF Signal!Init, Everyone, Signal!Everyone
  <2>2. pc2 \in [Everyone -> SigLabels]
    BY Zenon DEF Signal!Init, Everyone, Signal!Everyone, SigLabels
  <2>3. (CHOOSE s \in Signals : TRUE) \in Signals
    BY Zenon DEF SigNames
  <2>4. sig \in [Everyone -> Signals]
    BY <2>3, Zenon DEF Signal!Init, Everyone, Signal!Everyone
  <2>5. shots \in 0 .. MaxOneShots /\ runs \in [1 .. MaxOneShots -> Nat]
    BY <1>0, <1>1 DEF Signal!Init
  <2>. QED
    BY <1>1, <2>1, <2>2, <2>4, <2>5, Zenon DEF SigTypes
<1>3. LockInv
  BY <1>1, Zenon DEF LockInv, SigNames
<1>4. AgreeInv
  BY <1>1, DispositionParts, Zenon DEF AgreeInv
<1>5. OnceInv
  <2>1. \A n \in 1 .. MaxOneShots : n # 0
    BY <1>0
  <2>2. \A s \in Signals : table[s].shot = 0
    BY <1>1, DispositionParts
  <2>3. \A n \in 1 .. MaxOneShots : ~Waits(n)
    BY <1>1, <2>1, <2>2 DEF Waits, Holds, Listed
  <2>. QED
    BY <1>1, <2>3 DEF OnceInv, Waits
<1>6. EventInv /\ Signal!NotLost
  BY <1>1, Zenon DEF EventInv, Signal!NotLost
<1>. QED
  BY <1>2, <1>3, <1>4, <1>5, <1>6, Zenon DEF SigInv

LEMMA SigInvariant ==
    ASSUME SigNames
    PROVE  Signal!Spec => []SigInv
<1>1. Signal!Init => SigInv
  BY SigInit
<1>2. SigInv /\ [Signal!Next]_(Signal!vars) => SigInv'
  <2>. SUFFICES ASSUME SigInv, [Signal!Next]_(Signal!vars)
                PROVE  SigInv'
    OBVIOUS
  <2>1. ASSUME NEW t \in Threads, Signal!Thread(t)
        PROVE  SigInv'
    BY <2>1, SigactionStep, InstallStep, InstallRuntimeStep, RaiseStep, Zenon DEF Signal!Thread
  <2>2. ASSUME NEW p \in Everyone, Signal!Handler(p)
        PROVE  SigInv'
    BY <2>2, HandlerEnterStep, HandlerReinstateStep, HandlerRunStep, Zenon DEF Signal!Handler
  <2>3. CASE UNCHANGED Signal!vars
    <3>1. UNCHANGED <<table, crt, lock, event, pc2, sig, act, owed, shots, runs>>
      BY <2>3, Zenon DEF Signal!vars
    <3>2. SigTypes' /\ LockInv'
      BY <3>1, Zenon DEF SigInv, SigTypes, LockInv
    <3>3. AgreeInv'
      BY <3>1, Zenon DEF SigInv, AgreeInv, Busy, Tells
    <3>4. OnceInv'
      BY <3>1, Zenon DEF SigInv, OnceInv, Waits, Holds, Listed
    <3>5. EventInv' /\ Signal!NotLost'
      BY <3>1, Zenon DEF SigInv, EventInv, Signal!NotLost
    <3>. QED
      BY <3>2, <3>3, <3>4, <3>5, Zenon DEF SigInv
  <2>. QED
    BY <2>1, <2>2, <2>3, WorkerStep, KillStep, Zenon DEF Signal!Next, Everyone, Signal!Everyone
<1>. QED
  BY <1>1, <1>2, PTL DEF Signal!Spec

(* Whatever threads, signals and one-shot handlers there are: the library's     *)
(* table and the C runtime's agree whenever no thread is between the two, a     *)
(* one-shot handler runs at most once although every thread that raises the     *)
(* signal and the worker look it up, and a signal that another process sends is *)
(* looked up after the send or is still the worker's to look up (sigaction,     *)
(* wpdk_signal_handler and wpdk_signal_worker in signal.c).                     *)
THEOREM SignalsAreSound ==
    ASSUME SigNames
    PROVE  Signal!Spec => [](Signal!TypeOK /\ Signal!TablesAgree /\ Signal!OneShotOnce /\ Signal!NotLost)
<1>1. SigInv => Signal!TypeOK
  <2>. SUFFICES ASSUME SigInv
                PROVE  Signal!TypeOK
    OBVIOUS
  <2>1. \A s \in Signals : table[s].handler \in {"dfl", "ign", "call"}
    BY DispositionParts, Zenon DEF SigInv, SigTypes
  <2>. QED
    BY <2>1, Zenon DEF SigInv, SigTypes, SigLabels, Signal!TypeOK, Signal!Everyone, Everyone
<1>2. SigInv => Signal!TablesAgree
  BY Zenon DEF SigInv, AgreeInv, Busy, Tells, Everyone, Signal!TablesAgree, Signal!Quiet, Signal!Everyone
<1>3. SigInv => Signal!OneShotOnce
  BY DEF SigInv, SigTypes, OnceInv, Signal!OneShotOnce
<1>4. SigInv => Signal!NotLost
  BY Zenon DEF SigInv
<1>. QED
  BY <1>1, <1>2, <1>3, <1>4, SigInvariant, PTL
=============================================================================
