----------------------------- MODULE ThreadName -----------------------------
(* The names of threads (src/pthread.c): the system functions are looked up    *)
(* once, by the first call, names are widened and narrowed on the way, and     *)
(* both directions have a limit.  One thread is named by several callers.      *)
(* InitOnceExecuteOnce and the system functions are external.                 *)
EXTENDS Integers, Sequences

CONSTANTS
    Callers,
    Names,          \* names callers set: sequences of chars, which are signed
    Sizes,          \* sizes of the buffers callers bring
    Limit,          \* 32, wide characters of the buffer of setname
    Provided,       \* the system has the functions (Windows 10 1607 and later)
    NULL

VARIABLES
    once,           \* "none", the caller that runs the callback, or "done"
    pointers,       \* how many of the two functions were found
    desc,           \* the thread's description: wide characters
    last,           \* the last name setname accepted
    call,           \* each caller's call: NULL or [at, op, name, len]
    result          \* what its last call of getname gave: NULL or
                    \* [rc, op, was, len, name]

vars == <<once, pointers, desc, last, call, result>>

Init ==
    /\ once = "none" /\ pointers = 0 /\ desc = <<>> /\ last = <<>>
    /\ call = [c \in Callers |-> NULL]
    /\ result = [c \in Callers |-> NULL]

\* A char is sign-extended to 16 bits, and a wide character cut to 8.
Widen(s) == [k \in DOMAIN s |-> s[k] % 65536]
Narrow(w) == [k \in DOMAIN w |-> ((w[k] + 128) % 256) - 128]

At(c, where) == call[c] # NULL /\ call[c].at = where
Goto(c, where) == call' = [call EXCEPT ![c].at = where]

Start(c, op, name, len) ==
    /\ call[c] = NULL
    /\ call' = [call EXCEPT ![c] = [at |-> "once", op |-> op, name |-> name, len |-> len]]
    /\ result' = [result EXCEPT ![c] = NULL]
    /\ UNCHANGED <<once, pointers, desc, last>>

wpdk_pthread_setname_np(c, name) == Start(c, "set", name, 0)
wpdk_pthread_getname_np(c, len) == Start(c, "get", NULL, len)
wpdk_pthread_get_name_np(c, len) == Start(c, "get_or_clear", NULL, len)

\* A bug a flag in place of the INIT_ONCE would have: it is set at the start.
InitialiseEarly(c) ==
    /\ At(c, "once")
    /\ once' = "done"
    /\ Goto(c, IF once = "none" THEN "load" ELSE "go")
    /\ UNCHANGED <<pointers, desc, last, result>>

\* InitOnceExecuteOnce: the first runs the callback, the others wait for its end.
wpdk_pthread_initialise(c) ==
    /\ At(c, "once") /\ once \in {"none", "done"}
    /\ once' = IF once = "none" THEN c ELSE once
    /\ Goto(c, IF once = "none" THEN "load" ELSE "go")
    /\ UNCHANGED <<pointers, desc, last, result>>

wpdk_pthread_initialise_once(c) ==
    /\ At(c, "load")
    /\ IF Provided /\ pointers < 2
       THEN pointers' = pointers + 1 /\ UNCHANGED <<once, call>>
       ELSE once' = "done" /\ Goto(c, "go") /\ UNCHANGED pointers
    /\ UNCHANGED <<desc, last, result>>

Finish(c) == call' = [call EXCEPT ![c] = NULL] /\ UNCHANGED <<once, pointers>>

\* ENOSYS, EINVAL for an empty name, ERANGE for one without room for the
\* terminator, or an error of OpenThread: the name stays.
Set(c) ==
    /\ At(c, "go") /\ call[c].op = "set"
    /\ \/ /\ pointers > 0 /\ Len(call[c].name) \in 1..Limit - 1
          /\ desc' = Widen(call[c].name)
          /\ last' = call[c].name
       \/ UNCHANGED <<desc, last>>
    /\ Finish(c)
    /\ UNCHANGED result

\* What getname stores: as much of the name as fits, and the terminator if it does.
Fetched(len) ==
    IF Len(desc) < len THEN Append(Narrow(desc), 0) ELSE SubSeq(Narrow(desc), 1, len)

\* The outcomes of getname: ENOSYS, an error of the system, or the name.
Outcomes(len) ==
    IF pointers < 2 THEN {[rc |-> "ENOSYS", name |-> NULL]}
    ELSE {[rc |-> "error", name |-> NULL],
          [rc |-> IF Len(desc) < len THEN "OK" ELSE "ERANGE", name |-> Fetched(len)]}

\* get_name_np makes the name empty after an error.
Left(op, o) == IF op = "get_or_clear" /\ o.rc # "OK" THEN <<0>> ELSE o.name

Get(c) ==
    /\ At(c, "go") /\ call[c].op # "set"
    /\ \E o \in Outcomes(call[c].len) :
        result' = [result EXCEPT ![c] = [rc |-> o.rc, op |-> call[c].op, was |-> last,
                                         len |-> call[c].len, name |-> Left(call[c].op, o)]]
    /\ Finish(c)
    /\ UNCHANGED <<desc, last>>

Next ==
    \E c \in Callers :
        \/ \E s \in Names : wpdk_pthread_setname_np(c, s)
        \/ \E n \in Sizes : wpdk_pthread_getname_np(c, n) \/ wpdk_pthread_get_name_np(c, n)
        \/ wpdk_pthread_initialise(c) \/ wpdk_pthread_initialise_once(c) \/ Set(c) \/ Get(c)

Spec == Init /\ [][Next]_vars
-----------------------------------------------------------------------------
(* A name read without an error is the last one set, every char of it, and is  *)
(* terminated; nothing is stored past the caller's buffer.                    *)
NameComesBack ==
    \A c \in Callers : result[c] # NULL =>
        /\ result[c].rc = "OK" => result[c].name = Append(result[c].was, 0)
        /\ result[c].name # NULL => Len(result[c].name) <= result[c].len

(* get_name_np, which returns no error, leaves a terminated string in every    *)
(* case.                                                                      *)
AlwaysTerminated ==
    \A c \in Callers : result[c] # NULL /\ result[c].op = "get_or_clear" =>
        result[c].name # NULL /\ result[c].name[Len(result[c].name)] = 0

(* ENOSYS means that the system has no such functions: no caller sees the      *)
(* pointers before the first has looked both of them up.                      *)
UnsupportedIsTrue ==
    \A c \in Callers : result[c] # NULL /\ result[c].rc = "ENOSYS" => ~Provided
=========================================================================
