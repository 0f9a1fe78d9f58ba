------------------------------- MODULE MCLive --------------------------------
(* What must happen in the end, for TLC: threads, signals and the retries of   *)
(* getifaddrs.  They share no state; a behaviour is one of the part named by   *)
(* the variable part, the others stay as they are, and only the part that      *)
(* moves is scheduled fairly.                                                 *)
EXTENDS Integers, Sequences, TLC

CONSTANTS s1, s2, main, t1, w, NULL, None

VARIABLE part

VARIABLES mem, heap, table, hwm, os, tid, hopen, pc, loc, info, claimed
threadVars == <<mem, heap, table, hwm, os, tid, hopen, pc, loc, info, claimed>>
Thread == INSTANCE ThreadTable WITH
    Structs <- {s1, s2}, Callers <- {main}, Ids <- {1, 2}, maxthreads <- 1,
    SingleReaper <- TRUE, ZeroDetach <- FALSE

VARIABLES signals, crt, lock, event, dead, sigPc, sig, act, owed, sends, shots, runs
sigVars == <<signals, crt, lock, event, dead, sigPc, sig, act, owed, sends, shots, runs>>
Signal == INSTANCE Signals WITH
    Threads <- {t1}, Worker <- w, Signals <- {2, 15}, MaxSends <- 2, MaxOneShots <- 0,
    table <- signals, pc <- sigPc

\* No adapter to three, of one protocol, of two and of none.
VARIABLES adapters, changes, call, allocated, given, answer
ifVars == <<adapters, changes, call, allocated, given, answer>>
Loopback == [loop |-> TRUE, up |-> TRUE, v4 |-> 1, v6 |-> 1, families |-> <<"AF_INET", "AF_INET6">>]
Wired == [loop |-> FALSE, up |-> TRUE, v4 |-> 2, v6 |-> 2, families |-> <<"AF_INET6", "AF_INET", "AF_INET6">>]
Six == [loop |-> FALSE, up |-> FALSE, v4 |-> 0, v6 |-> 3, families |-> <<"AF_INET6">>]
SixUp == [loop |-> FALSE, up |-> TRUE, v4 |-> 0, v6 |-> 4, families |-> <<"AF_INET6", "other">>]
Other == [loop |-> FALSE, up |-> TRUE, v4 |-> 5, v6 |-> 5, families |-> <<"other">>]
Interface == INSTANCE Ifaddrs WITH
    Configs <- {<<>>, <<Loopback>>, <<Other>>, <<Wired, Loopback>>, <<Six, SixUp>>,
                <<Wired, Six, Loopback>>, <<SixUp, Six, Wired>>},
    MaxChanges <- 3, heap <- allocated

MCInit ==
    /\ part \in {"threads", "signals", "ifaddrs"}
    /\ Thread!Init /\ Signal!Init
    /\ part = "ifaddrs" \/ adapters = <<>>
    /\ Interface!Init

MCNext ==
    /\ UNCHANGED part
    /\ IF part = "threads" THEN Thread!Next ELSE UNCHANGED threadVars
    /\ IF part = "signals" THEN Signal!Next ELSE UNCHANGED sigVars
    /\ IF part = "ifaddrs" THEN Interface!Next ELSE UNCHANGED ifVars

\* Thread!Fairness, and the fairness of FairSpec in Signals and of Spec in
\* Ifaddrs, of the part that moves.
MCFairness ==
    /\ \A p \in {s1, s2, main} :
        /\ WF_threadVars(part = "threads" /\ Thread!Step(p))
        /\ SF_threadVars(part = "threads" /\ Thread!JoinWake(p))
    /\ \A t \in {s1, s2} :
        WF_threadVars(part = "threads"
            /\ (Thread!ThreadStarting(t) \/ Thread!ThreadFree(t) \/ Thread!ThreadEnd(t)))
    /\ WF_sigVars(part = "signals" /\ ~dead /\ (Signal!CreateEvents \/ Signal!Wait))
    /\ \A p \in {t1, w} :
        /\ WF_sigVars(part = "signals" /\ ~dead /\ Signal!HandlerReinstate(p))
        /\ WF_sigVars(part = "signals" /\ ~dead /\ Signal!HandlerRun(p))
    /\ WF_sigVars(part = "signals" /\ ~dead /\ Signal!InstallRuntime(t1))
    /\ SF_sigVars(part = "signals" /\ ~dead /\ Signal!HandlerEnter(w))
    /\ WF_ifVars(part = "ifaddrs" /\ Interface!Step)

MCSpec == MCInit /\ [][MCNext]_<<part, threadVars, sigVars, ifVars>> /\ MCFairness
-----------------------------------------------------------------------------
(* The properties of the parts, as their modules state and explain them.       *)

\* Every struct thread taken out of the table is freed (pthread.c).
Reclaimed == Thread!Reclaimed

\* A join returns once its thread has terminated (pthread.c).
JoinReturns == Thread!JoinReturns

\* A signal another process sends is handled unless the process ends (signal.c).
Delivered == Signal!Delivered

\* Every allocation alive is the buffer of the call or an entry of the list the
\* client holds, and a name tells its interface while the adapters stay as they
\* are (ifaddrs.c).
InterfacesExact == Interface!HeapAccounted /\ Interface!NameTellsInterface

\* getifaddrs and the ioctl return, however the adapters change (ifaddrs.c).
Returns == Interface!Returns
=============================================================================
