--------------------------- MODULE CompletionQueue ---------------------------
(***************************************************************************)
(* What an asynchronous I/O context promises its one client: a request     *)
(* under way either completes, once, or fails without a trace; completions *)
(* are handed out in order, each once, with a length the request allows.   *)
(***************************************************************************)
EXTENDS Integers, Sequences

CONSTANTS
    Requests,
    Total(_),   \* the bytes a request asks for
    None

VARIABLES
    busy,   \* requests begun whose completion has not been handed out
    queue,  \* completions not handed out yet
    given   \* the completion handed out last

vars == <<busy, queue, given>>

Queued == {queue[i].obj : i \in DOMAIN queue}

Init == busy = {} /\ queue = <<>> /\ given = None

Begin(r) == r \notin busy /\ busy' = busy \cup {r} /\ UNCHANGED <<queue, given>>

Fail(r) == r \in busy \ Queued /\ busy' = busy \ {r} /\ UNCHANGED <<queue, given>>

Complete(r) ==
    /\ r \in busy \ Queued
    /\ \E n \in 0 .. Total(r) : queue' = Append(queue, [obj |-> r, res |-> n])
    /\ UNCHANGED <<busy, given>>

Take ==
    /\ queue # <<>>
    /\ given' = Head(queue)
    /\ queue' = Tail(queue)
    /\ busy' = busy \ {Head(queue).obj}

\* The context is destroyed; the completions in it are forgotten.
Drop == queue' = <<>> /\ busy' = busy \ Queued /\ UNCHANGED given

Next == (\E r \in Requests : Begin(r) \/ Fail(r) \/ Complete(r)) \/ Take \/ Drop

Spec == Init /\ [][Next]_vars
=============================================================================
