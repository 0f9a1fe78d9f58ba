------------------------------ MODULE Signals -------------------------------
(***************************************************************************)
(* Signal dispositions and delivery in src/signal.c, for the signals that  *)
(* have both a disposition in the C runtime and an event for other         *)
(* processes to set.                                                       *)
(*                                                                         *)
(* A signal reaches wpdk_signal_handler from raise(), in the thread that   *)
(* raises it and through the C runtime, which forgets its handler first;   *)
(* or from the worker thread, which waits for the events and goes past the *)
(* runtime.  A disposition with SA_SIGINFO is a handler like any other.    *)
(***************************************************************************)
EXTENDS Integers

CONSTANTS
    Threads,
    Worker,
    Signals,      \* wpdk_siglist, in order: lower numbers win the worker's wait
    MaxSends,     \* signals sent by other processes
    MaxOneShots,  \* one-shot handlers installed
    None

SignalsAssumption ==
    Signals \subseteq Nat /\ {MaxSends, MaxOneShots} \subseteq Nat /\ Worker \notin Threads

VARIABLES
    table,   \* wpdk_signals
    crt,     \* the C runtime's dispositions; Lib is wpdk_signal_handler
    lock,    \* the owner of wpdk_sig_lock
    event,   \* the event of each signal
    dead,    \* the process has been terminated
    pc,
    sig,     \* the signal each thread is busy with
    act,     \* the disposition it installs or runs
    owed,    \* signals sent whose handler has not been looked up since
    sends,
    shots,   \* one-shot handlers installed so far
    runs     \* how often each one has run

vars == <<table, crt, lock, event, dead, pc, sig, act, owed, sends, shots, runs>>
ghosts == <<owed, sends, shots, runs>>

Everyone == Threads \cup {Worker}

\* sa_handler and SA_RESETHAND; shot tells one-shot handlers apart.
Default == [handler |-> "dfl", reset |-> FALSE, shot |-> 0]
Ignore == [handler |-> "ign", reset |-> FALSE, shot |-> 0]
Persistent == [handler |-> "call", reset |-> FALSE, shot |-> 0]
OneShot(n) == [handler |-> "call", reset |-> TRUE, shot |-> n]
Runtime(a) == IF a.handler = "call" THEN "lib" ELSE a.handler

Init ==
    /\ table = [s \in Signals |-> Default]
    /\ crt = [s \in Signals |-> "dfl"]
    /\ lock = None
    /\ event = [s \in Signals |-> "none"]
    /\ dead = FALSE
    /\ pc = [p \in Everyone |-> IF p = Worker THEN "none" ELSE "idle"]
    /\ sig = [p \in Everyone |-> CHOOSE s \in Signals : TRUE]
    /\ act = [p \in Everyone |-> Default]
    /\ owed = {} /\ sends = 0 /\ shots = 0
    /\ runs = [n \in 1 .. MaxOneShots |-> 0]

Goto(p, label) == pc' = [pc EXCEPT ![p] = label]
Rest(p) == IF p = Worker THEN "wait" ELSE "idle"

-----------------------------------------------------------------------------
\* sigaction and signal: InitOnce starts the worker with the first call.
Sigaction(t) ==
    /\ pc[t] = "idle"
    /\ \E s \in Signals : sig' = [sig EXCEPT ![t] = s]
    /\ \/ \E a \in {Default, Ignore, Persistent} : act' = [act EXCEPT ![t] = a] /\ UNCHANGED shots
       \/ /\ shots < MaxOneShots /\ shots' = shots + 1
          /\ act' = [act EXCEPT ![t] = OneShot(shots + 1)]
    /\ pc' = [pc EXCEPT ![t] = "install", ![Worker] = IF @ = "none" THEN "start" ELSE @]
    /\ UNCHANGED <<table, crt, lock, event, dead, owed, sends, runs>>

Install(t) ==
    /\ pc[t] = "install" /\ lock = None
    /\ lock' = t
    /\ table' = [table EXCEPT ![sig[t]] = act[t]]
    /\ Goto(t, "runtime")
    /\ UNCHANGED <<crt, event, dead, sig, act, ghosts>>

InstallRuntime(t) ==
    /\ pc[t] = "runtime"
    /\ crt' = [crt EXCEPT ![sig[t]] = Runtime(act[t])]
    /\ lock' = None
    /\ act' = [act EXCEPT ![t] = Default]
    /\ Goto(t, "idle")
    /\ UNCHANGED <<table, event, dead, sig, ghosts>>

\* kill of the process itself is raise: the runtime resets its disposition to
\* the default before it calls the handler.
Raise(t) ==
    /\ pc[t] = "idle"
    /\ \E s \in Signals :
        /\ sig' = [sig EXCEPT ![t] = s]
        /\ dead' = (crt[s] = "dfl")
        /\ crt' = IF crt[s] = "lib" THEN [crt EXCEPT ![s] = "dfl"] ELSE crt
        /\ IF crt[s] = "lib" THEN Goto(t, "enter") ELSE UNCHANGED pc
    /\ UNCHANGED <<table, lock, event, act, ghosts>>

-----------------------------------------------------------------------------
(***************************************************************************)
(* wpdk_signal_handler, in an application thread or in the worker.         *)
(***************************************************************************)
HandlerEnter(p) ==
    /\ pc[p] = "enter" /\ lock = None
    /\ lock' = p
    /\ act' = [act EXCEPT ![p] = table[sig[p]]]
    /\ table' = IF table[sig[p]].reset THEN [table EXCEPT ![sig[p]] = Default] ELSE table
    /\ owed' = owed \ {sig[p]}
    /\ Goto(p, "reinstate")
    /\ UNCHANGED <<crt, event, dead, sig, sends, shots, runs>>

\* Mutant: the runtime is left with the default disposition.
HandlerReinstateNot(p) ==
    /\ pc[p] = "reinstate"
    /\ lock' = None
    /\ Goto(p, "run")
    /\ UNCHANGED <<table, crt, event, dead, sig, act, ghosts>>

\* Mutant: the critical section is not left.
HandlerReinstateLocked(p) ==
    /\ pc[p] = "reinstate"
    /\ crt' = IF act[p].reset THEN crt ELSE [crt EXCEPT ![sig[p]] = "lib"]
    /\ Goto(p, "run")
    /\ UNCHANGED <<table, lock, event, dead, sig, act, ghosts>>

HandlerReinstate(p) ==
    /\ pc[p] = "reinstate"
    /\ crt' = IF act[p].reset THEN crt ELSE [crt EXCEPT ![sig[p]] = "lib"]
    /\ lock' = None
    /\ Goto(p, "run")
    /\ UNCHANGED <<table, event, dead, sig, act, ghosts>>

HandlerRun(p) ==
    /\ pc[p] = "run"
    /\ dead' = (act[p].handler = "dfl")
    /\ runs' = IF act[p].reset THEN [runs EXCEPT ![act[p].shot] = @ + 1] ELSE runs
    /\ act' = [act EXCEPT ![p] = Default]
    /\ Goto(p, Rest(p))
    /\ UNCHANGED <<table, crt, lock, event, sig, owed, sends, shots>>

-----------------------------------------------------------------------------
\* wpdk_signal_worker.
CreateEvents ==
    /\ pc[Worker] = "start"
    /\ event' = [s \in Signals |-> "clear"]
    /\ Goto(Worker, "wait")
    /\ UNCHANGED <<table, crt, lock, dead, sig, act, ghosts>>

\* The wait returns the first event that is set, which is then reset.
Wait ==
    /\ pc[Worker] = "wait"
    /\ \E s \in Signals :
        /\ event[s] = "set" /\ \A r \in Signals : event[r] = "set" => s <= r
        /\ sig' = [sig EXCEPT ![Worker] = s]
        /\ event' = [event EXCEPT ![s] = "clear"]
    /\ Goto(Worker, "enter")
    /\ UNCHANGED <<table, crt, lock, dead, act, ghosts>>

\* kill in another process; without an event it fails.
Kill(s) ==
    /\ sends < MaxSends /\ event[s] # "none"
    /\ sends' = sends + 1
    /\ owed' = owed \cup {s}
    /\ event' = [event EXCEPT ![s] = "set"]
    /\ UNCHANGED <<table, crt, lock, dead, pc, sig, act, shots, runs>>

-----------------------------------------------------------------------------
Handler(p) == HandlerEnter(p) \/ HandlerReinstate(p) \/ HandlerRun(p)
Thread(t) == Sigaction(t) \/ Install(t) \/ InstallRuntime(t) \/ Raise(t)

Next ==
    /\ ~dead
    /\ \/ \E t \in Threads : Thread(t)
       \/ \E p \in Everyone : Handler(p)
       \/ CreateEvents \/ Wait
       \/ \E s \in Signals : Kill(s)

Spec == Init /\ [][Next]_vars

\* Threads that hold the lock, and the worker, are scheduled.
FairSpec ==
    /\ Spec
    /\ WF_vars(~dead /\ (CreateEvents \/ Wait))
    /\ \A p \in Everyone : WF_vars(~dead /\ HandlerReinstate(p)) /\ WF_vars(~dead /\ HandlerRun(p))
    /\ \A t \in Threads : WF_vars(~dead /\ InstallRuntime(t))
    /\ SF_vars(~dead /\ HandlerEnter(Worker))

-----------------------------------------------------------------------------
TypeOK ==
    /\ \A s \in Signals : table[s].handler \in {"dfl", "ign", "call"} /\ crt[s] \in {"dfl", "ign", "lib"}
    /\ lock \in Everyone \cup {None}
    /\ event \in [Signals -> {"none", "clear", "set"}]
    /\ pc \in [Everyone -> {"none", "start", "wait", "idle", "install", "runtime", "enter", "reinstate", "run"}]

Quiet == \A p \in Everyone : pc[p] \in {"none", "start", "wait", "idle", "install", "run"}

\* signal.c:132-140, 240-256: whenever no thread is between the two tables, the
\* C runtime sends a signal with a handler to the library and drops or defaults
\* only signals that the library's table ignores or defaults too.
TablesAgree ==
    Quiet => \A s \in Signals :
        /\ table[s].handler = "call" => crt[s] = "lib"
        /\ crt[s] = "ign" => table[s].handler = "ign"

\* signal.c:136-137: a one-shot handler runs at most once, however many threads
\* deliver the signal at the same time.
OneShotOnce == \A n \in DOMAIN runs : runs[n] <= 1

\* signal.c:192-195: a signal that another process sends is never lost: the
\* handler is looked up after the send, or the worker is still to do it.
NotLost ==
    \A s \in owed :
        event[s] = "set" \/ (sig[Worker] = s /\ pc[Worker] = "enter")

\* signal.c:189-196: the worker gets to every signal sent, even while threads
\* change dispositions, unless the process ends.
Delivered == \A s \in Signals : s \in owed ~> (s \notin owed \/ dead)
=============================================================================
