------------------------------ MODULE MCSync ------------------------------
(* Parts of the library whose calls race in several threads, for TLC: Sync,    *)
(* and signals, thread names, the messages of getaddrinfo and the context of   *)
(* asynchronous I/O.  They share no state; a behaviour is one of the part      *)
(* named by the variable part; the variables of the others are not used in it. *)
EXTENDS Sync, Sequences, TLC

CONSTANTS
    Worker,             \* the thread that waits for signals
    g1, g2, g3,         \* callers of gai_strerror
    e1, e2, o1,         \* error codes in its table, and one that is not
    r1, r2, r3,         \* requests of asynchronous I/O
    None

VARIABLES
    part,
    pc2, lock, result,          \* of several of the parts but Sync
    table, crt, event, dead, sig, act, owed, sends, shots, runs,                \* of Signals
    once, pointers, desc, last, name,                                           \* of ThreadName
    message, shared, copies, ecode,                                             \* of GaiError
    context, iocount, head, tail, events, task, loc, given, moved, pending      \* of AioContext

sigVars == <<table, crt, event, dead, sig, act, owed, sends, shots, runs>>
nameVars == <<once, pointers, desc, last, name>>
gaiVars == <<message, shared, copies, ecode>>
aioVars == <<context, iocount, head, tail, events, task, loc, given, moved, pending>>

Signal == INSTANCE Signals WITH Signals <- {2}, MaxSends <- 2, MaxOneShots <- 2, pc <- pc2
ASSUME Signal!SignalsAssumption

\* Names below, at and above the limit of 4, with chars of both signs.
MCNames == {<<>>, <<97>>, <<-1, 97, 65>>, <<97, -128, 65, 97>>, <<97, 97, 97, 97, 97>>}
Name == INSTANCE ThreadName WITH
    Callers <- Threads, Names <- MCNames, Sizes <- {1, 2, 4, 6}, Limit <- 4,
    Provided <- TRUE, call <- name

Gai == INSTANCE GaiError WITH
    Threads <- {g1, g2, g3}, Codes <- {e1, e2}, Others <- {o1}, pc <- pc2

\* Calls of two threads on one context, which one event fills.
Aio == INSTANCE AioContext WITH
    Requests <- {r1, r2, r3}, Segments <- r1 :> <<1>> @@ r2 :> <<1, 1>> @@ r3 :> <<>>,
    Rejected <- {r3}, Size <- 1, MaxSubmit <- 2, Serial <- FALSE, Quota <- FALSE,
    Overlapped <- FALSE, pc <- pc2

NoSignals == table = None /\ crt = None /\ event = None /\ dead = None /\ sig = None /\ act = None
             /\ owed = None /\ sends = None /\ shots = None /\ runs = None
NoNames == once = None /\ pointers = None /\ desc = None /\ last = None /\ name = None
NoMessages == message = None /\ shared = None /\ copies = None /\ ecode = None
NoContext == context = None /\ iocount = None /\ head = None /\ tail = None /\ events = None
             /\ task = None /\ loc = None /\ given = None /\ moved = None /\ pending = None

MCInit ==
    /\ Init
    /\ part \in {"sync", "signals", "name", "gai", "aio"}
    /\ IF part = "signals" THEN Signal!Init ELSE NoSignals
    /\ IF part = "name" THEN Name!Init ELSE NoNames
    /\ IF part = "gai" THEN Gai!Init ELSE NoMessages
    /\ IF part = "aio" THEN Aio!Init ELSE NoContext
    /\ part \notin {"signals", "gai", "aio"} => pc2 = None
    /\ part \notin {"signals", "gai"} => lock = None
    /\ part \notin {"name", "gai"} => result = None

MCNext ==
    /\ UNCHANGED part
    /\ IF part = "sync" THEN Next ELSE UNCHANGED vars
    /\ IF part = "signals" THEN Signal!Next ELSE UNCHANGED sigVars
    /\ IF part = "name" THEN Name!Next ELSE UNCHANGED nameVars
    /\ IF part = "gai" THEN Gai!Next ELSE UNCHANGED gaiVars
    /\ IF part = "aio" THEN Aio!Next ELSE UNCHANGED aioVars
    /\ part \notin {"signals", "gai", "aio"} => UNCHANGED pc2
    /\ part \notin {"signals", "gai"} => UNCHANGED lock
    /\ part \notin {"name", "gai"} => UNCHANGED result

MCSpec == MCInit /\ [][MCNext]_<<part, vars, pc2, lock, result, sigVars, nameVars, gaiVars, aioVars>>

Symmetry == Permutations(Threads)
-----------------------------------------------------------------------------
\* The library's table of dispositions agrees with the C runtime's, a handler
\* installed with SA_RESETHAND runs once at most, and a signal that was sent
\* keeps its event until it is handled (signal.c).
SignalsSound ==
    part = "signals" =>
        Signal!TypeOK /\ Signal!TablesAgree /\ Signal!OneShotOnce /\ Signal!NotLost

\* A thread's name comes back as it was set, terminated inside the caller's
\* buffer; ENOTSUP is returned only where the system lacks the functions
\* (pthread.c).
NamesExact ==
    part = "name" => Name!NameComesBack /\ Name!AlwaysTerminated /\ Name!UnsupportedIsTrue

\* gai_strerror returns the text of its own code, and its table keeps one copy
\* of each message (netdb.c).
MessagesExact == part = "gai" => Gai!OwnText /\ Gai!CopiedOnce

\* While calls race, iocount counts the requests begun and not yet handed out,
\* and a context that was destroyed has left no task behind (aio.c).
RequestsCounted == part = "aio" => Aio!TypeOK /\ Aio!IocountExact /\ Aio!DestroyClean
=============================================================================
