------------------------------ MODULE Deadline ------------------------------
(* wpdk_abstime_to_msecs (src/time.c): how long a timed wait asks Windows to   *)
(* wait for a deadline given as seconds and nanoseconds.  The subtraction and  *)
(* the product stay inside the 64 bits of time_t for deadlines below 2^53 s.   *)
EXTENDS Integers

CONSTANTS
    NsPerMs,        \* 1000000
    MsPerSec,       \* 1000
    MaxMsecs        \* 1000000000: longer waits are refused

ASSUME DeadlineAssumption ==
    /\ NsPerMs \in Nat \ {0}
    /\ MsPerSec \in Nat \ {0}
    /\ MaxMsecs \in Nat \ {0}

\* A valid struct timespec.
Timespec == [sec : Nat, nsec : 0..MsPerSec * NsPerMs - 1]

\* Division of a long, which truncates toward zero.
Quot(a, b) == IF a >= 0 THEN a \div b ELSE -((-a) \div b)

\* A bug the conversion might have: a deadline in a later second but with fewer
\* nanoseconds is taken to have passed.
MsecsFieldwise(abstime, now) ==
    IF abstime.sec >= now.sec /\ abstime.nsec > now.nsec
    THEN (abstime.sec - now.sec) * MsPerSec + Quot(abstime.nsec - now.nsec, NsPerMs)
    ELSE 0

Msecs(abstime, now) ==
    IF abstime.sec > now.sec
    THEN (abstime.sec - now.sec) * MsPerSec + Quot(abstime.nsec - now.nsec, NsPerMs)
    ELSE IF abstime.sec = now.sec /\ abstime.nsec > now.nsec
    THEN Quot(abstime.nsec - now.nsec, NsPerMs)
    ELSE 0

Refused(abstime, now) == Msecs(abstime, now) >= MaxMsecs

\* Nanoseconds since the epoch, and what is left of a deadline.
Nanos(t) == t.sec * (MsPerSec * NsPerMs) + t.nsec
Left(abstime, now) ==
    IF Nanos(abstime) > Nanos(now) THEN Nanos(abstime) - Nanos(now) ELSE 0

(* The wait asked for is never negative and less than a millisecond off what  *)
(* is left of the deadline, on either side: the conversion cannot turn a       *)
(* deadline a second away into none at all or the reverse.                     *)
WaitClose(abstime, now) ==
    LET m == Msecs(abstime, now) IN
    /\ m \in Nat
    /\ m * NsPerMs - Left(abstime, now) < NsPerMs
    /\ Left(abstime, now) - m * NsPerMs < NsPerMs
=============================================================================
