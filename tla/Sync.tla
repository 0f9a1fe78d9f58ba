------------------------------- MODULE Sync -------------------------------
(* Mutexes, condition variables and semaphores (src/pthread.c, src/semaphore.c)*)
(* with their timed waits: one of each, used by several threads.  A mutex is   *)
(* a CRITICAL_SECTION whatever its attributes say, so it may be locked again   *)
(* by its owner; a spin lock is the same.  EnterCriticalSection,              *)
(* SleepConditionVariableCS and WaitForSingleObject are external.             *)
EXTENDS Deadline, FiniteSets

CONSTANTS
    Threads,
    NULL,
    MaxTime,        \* bound: the clock stops there, in nanoseconds
    MaxDepth,       \* bound: how often a thread locks the mutex
    MaxPosts,       \* bound: sem_post calls
    SemMax,         \* INT_MAX, the largest value of a semaphore
    Initial         \* the value given to sem_init

ASSUME SyncAssumption == MaxTime \in Nat /\ SemMax \in Nat /\ Initial \in 0..SemMax
ASSUME SyncNames == NULL \notin Threads /\ NULL \notin Int

VARIABLES
    clock,          \* nanoseconds, the real-time clock
    owner, depth,   \* the CRITICAL_SECTION: its owner and recursion count
    held,           \* how often each thread believes it has the mutex locked
    waiting,        \* threads asleep on the condition variable
    value,          \* count of the semaphore
    taken, posted,  \* permits handed to threads, successful sem_post calls
    pc, until, deadline         \* each thread's call

vars == <<clock, owner, depth, held, waiting, value, taken, posted, pc, until, deadline>>
mutex == <<owner, depth>>
sem == <<value, taken, posted>>
call == <<pc, until, deadline>>

Init ==
    /\ clock = 0
    /\ owner = NULL /\ depth = 0
    /\ held = [t \in Threads |-> 0]
    /\ waiting = {}
    /\ value = Initial /\ taken = 0 /\ posted = 0
    /\ pc = [t \in Threads |-> "run"]
    /\ until = [t \in Threads |-> NULL]
    /\ deadline = [t \in Threads |-> NULL]

\* The clock's value as clock_gettime stores it.
Stamp(n) == [sec |-> n \div (MsPerSec * NsPerMs), nsec |-> n % (MsPerSec * NsPerMs)]

Free(t) == owner \in {NULL, t}

Enter(t) ==
    /\ owner' = t
    /\ depth' = depth + 1
    /\ held' = [held EXCEPT ![t] = @ + 1]

Leave(t) ==
    /\ depth' = depth - 1
    /\ owner' = IF depth = 1 THEN NULL ELSE owner
    /\ held' = [held EXCEPT ![t] = @ - 1]

Return(t) ==
    /\ pc' = [pc EXCEPT ![t] = "run"]
    /\ until' = [until EXCEPT ![t] = NULL]
    /\ deadline' = [deadline EXCEPT ![t] = NULL]

Tick == clock < MaxTime /\ clock' = clock + 1 /\ UNCHANGED <<mutex, held, waiting, sem, call>>
-----------------------------------------------------------------------------
(* Mutexes and spin locks.                                                   *)

wpdk_pthread_mutex_lock(t) ==
    /\ pc[t] = "run" /\ held[t] < MaxDepth
    /\ Free(t)
    /\ Enter(t)
    /\ UNCHANGED <<clock, waiting, sem, call>>

\* EBUSY otherwise, and nothing changes.
wpdk_pthread_mutex_trylock(t) ==
    /\ pc[t] = "run" /\ held[t] < MaxDepth
    /\ Free(t)
    /\ Enter(t)
    /\ UNCHANGED <<clock, waiting, sem, call>>

\* Threads unlock only what they hold: LeaveCriticalSection does not check.
wpdk_pthread_mutex_unlock(t) ==
    /\ pc[t] = "run" /\ held[t] > 0
    /\ Leave(t)
    /\ UNCHANGED <<clock, waiting, sem, call>>
-----------------------------------------------------------------------------
(* Condition variables.                                                      *)

\* wpdk_abstime_to_msecs reads the clock; the wait starts later.  A deadline too
\* far away is refused with EINVAL, and nothing changes.
Convert(t, w, d) ==
    /\ pc[t] = "run"
    /\ w = "cond" => held[t] > 0
    /\ LET now == Stamp(clock) IN
       /\ ~Refused(Stamp(d), now)
       /\ until' = [until EXCEPT ![t] = Msecs(Stamp(d), now)]
    /\ deadline' = [deadline EXCEPT ![t] = d]
    /\ pc' = [pc EXCEPT ![t] = w]
    /\ UNCHANGED <<clock, mutex, held, waiting, sem>>

\* The time at which a wait of m milliseconds that starts now ends.
End(m) == IF m = NULL THEN NULL ELSE clock + m * NsPerMs

\* wpdk_cond_wait: SleepConditionVariableCS leaves the critical section once.
CondSleep(t, m) ==
    /\ held[t] > 0
    /\ Leave(t)
    /\ waiting' = waiting \cup {t}
    /\ until' = [until EXCEPT ![t] = End(m)]
    /\ pc' = [pc EXCEPT ![t] = "asleep"]
    /\ UNCHANGED <<clock, sem, deadline>>

wpdk_pthread_cond_wait(t) == pc[t] = "run" /\ CondSleep(t, NULL)

wpdk_pthread_cond_timedwait(t) == pc[t] = "cond" /\ CondSleep(t, until[t])

\* WakeConditionVariable for one sleeping thread, WakeAllConditionVariable for
\* all of them; Windows may also wake a thread by itself.
Wake(ts) ==
    /\ waiting' = waiting \ ts
    /\ pc' = [t \in Threads |-> IF t \in ts THEN "woken" ELSE pc[t]]
    /\ UNCHANGED <<clock, mutex, held, sem, until, deadline>>

wpdk_pthread_cond_signal(t) == pc[t] = "run" /\ \E w \in waiting : Wake({w})

wpdk_pthread_cond_broadcast(t) == pc[t] = "run" /\ waiting # {} /\ Wake(waiting)

Spurious == \E w \in waiting : Wake({w})

CondTimeout(t) ==
    /\ pc[t] = "asleep" /\ t \in waiting
    /\ until[t] # NULL /\ clock >= until[t]
    /\ waiting' = waiting \ {t}
    /\ pc' = [pc EXCEPT ![t] = "expired"]
    /\ UNCHANGED <<clock, mutex, held, sem, until, deadline>>

\* A bug SleepConditionVariableCS might be used with: a wait that times out
\* returns without the critical section.
ReacquireNot(t) ==
    /\ pc[t] \in {"woken", "expired"}
    /\ IF pc[t] = "expired"
       THEN UNCHANGED mutex /\ held' = [held EXCEPT ![t] = @ + 1]
       ELSE Free(t) /\ Enter(t)
    /\ Return(t)
    /\ UNCHANGED <<clock, waiting, sem>>

\* The critical section is entered again before either return.
Reacquire(t) ==
    /\ pc[t] \in {"woken", "expired"}
    /\ Free(t)
    /\ Enter(t)
    /\ Return(t)
    /\ UNCHANGED <<clock, waiting, sem>>
-----------------------------------------------------------------------------
(* Semaphores.                                                               *)

\* ReleaseSemaphore fails at the largest value, and nothing changes.
wpdk_sem_post(t) ==
    /\ pc[t] = "run" /\ posted < MaxPosts
    /\ value < SemMax
    /\ value' = value + 1 /\ posted' = posted + 1
    /\ UNCHANGED <<clock, mutex, held, waiting, taken, call>>

\* wpdk_wait_sem for m milliseconds: WaitForSingleObject takes a permit or waits.
SemWait(t, m) ==
    /\ until' = [until EXCEPT ![t] = End(m)]
    /\ pc' = [pc EXCEPT ![t] = "blocked"]
    /\ UNCHANGED <<clock, mutex, held, waiting, sem, deadline>>

wpdk_sem_wait(t) == pc[t] = "run" /\ SemWait(t, NULL)

wpdk_sem_trywait(t) == pc[t] = "run" /\ SemWait(t, 0)

wpdk_sem_timedwait(t) == pc[t] = "sem" /\ SemWait(t, until[t])

SemAcquire(t) ==
    /\ pc[t] = "blocked" /\ value > 0
    /\ value' = value - 1 /\ taken' = taken + 1
    /\ Return(t)
    /\ UNCHANGED <<clock, mutex, held, waiting, posted>>

\* A semaphore that is signalled when the time is up is taken.
SemTimeout(t) ==
    /\ pc[t] = "blocked" /\ value = 0
    /\ until[t] # NULL /\ clock >= until[t]
    /\ Return(t)
    /\ UNCHANGED <<clock, mutex, held, waiting, sem>>

Next ==
    \/ Tick \/ Spurious
    \/ \E t \in Threads :
        \/ wpdk_pthread_mutex_lock(t) \/ wpdk_pthread_mutex_trylock(t)
        \/ wpdk_pthread_mutex_unlock(t)
        \/ \E w \in {"cond", "sem"}, d \in 0..MaxTime : Convert(t, w, d)
        \/ wpdk_pthread_cond_wait(t) \/ wpdk_pthread_cond_timedwait(t)
        \/ wpdk_pthread_cond_signal(t) \/ wpdk_pthread_cond_broadcast(t)
        \/ CondTimeout(t) \/ Reacquire(t)
        \/ wpdk_sem_post(t) \/ wpdk_sem_wait(t) \/ wpdk_sem_trywait(t)
        \/ wpdk_sem_timedwait(t) \/ SemAcquire(t) \/ SemTimeout(t)

Spec == Init /\ [][Next]_vars
-----------------------------------------------------------------------------
(* A thread that has been told it has the mutex, by lock, trylock or the end  *)
(* of a wait on the condition variable, has it, as often as it was told, and  *)
(* no other thread has been told so.                                          *)
HeldAgrees == \A t \in Threads : held[t] > 0 => owner = t /\ depth = held[t]

(* Permits are neither lost nor made: the semaphore's value is what was put   *)
(* in less what waiters were given, timed-out waiters included.               *)
PermitsKept == value = Initial + posted - taken /\ value \in 0..SemMax

(* Together: a timeout that races a wake-up or a post costs neither the mutex *)
(* nor a permit.                                                              *)
NothingLost == HeldAgrees /\ PermitsKept

(* A timed wait reports a timeout no earlier than one millisecond before its  *)
(* deadline, although the clock moves on between the conversion of the        *)
(* deadline and the wait.                                                     *)
NotEarly ==
    [][\A t \in Threads :
        /\ deadline[t] # NULL /\ pc'[t] = "run"
        /\ pc[t] = "expired" \/ (pc[t] = "blocked" /\ taken' = taken)
        => clock > deadline[t] - NsPerMs]_vars
=============================================================================
