----------------------------- MODULE AioContext ------------------------------
(***************************************************************************)
(* Asynchronous I/O: one io_context of src/aio.c and the threads that      *)
(* submit to it and read its events.                                       *)
(*                                                                         *)
(* A request stands for an iocb and for the io_task made for it.  Its      *)
(* segments are the buffers of the transfer: one for IO_CMD_PREAD and      *)
(* IO_CMD_PWRITE, the iovec for the vectored commands; reads and writes    *)
(* follow the same steps.  Every access to the shared header that another  *)
(* thread can come between is an action of its own.                        *)
(***************************************************************************)
EXTENDS Integers, Sequences, FiniteSets, Functions

CONSTANTS
    Threads,
    Requests,
    Segments,    \* the lengths of the buffers of each request
    Rejected,    \* requests with a bad descriptor or command
    Size,        \* maxevents
    MaxSubmit,   \* requests in one call of io_submit
    Serial,      \* calls on the context are made one after the other
    Quota,       \* clients keep fewer than Size completions unread
    Overlapped,  \* the handle does I/O asynchronously: ERROR_IO_PENDING
    None

SizeAssumption == Size \in Nat \ {0} /\ MaxSubmit \in Nat \ {0}
SegmentsAssumption ==
    Segments \in [Requests -> Seq(Nat)] /\ Rejected \subseteq Requests
ClientAssumption == {Serial, Quota, Overlapped} \subseteq BOOLEAN

VARIABLES
    context,  \* whether the context exists
    iocount,
    head,
    tail,
    events,   \* the ring
    task,     \* the io_task of each request
    pc,
    loc,      \* the locals of the call each thread is in
    given,    \* the event stored in the caller's array last
    moved,    \* the bytes transferred for each request, from its start
    pending   \* the segments of each request that are in the background

vars == <<context, iocount, head, tail, events, task, pc, loc, given, moved, pending>>
device == <<moved, pending>>

Slots == 0 .. Size - 1
After(i) == (i + 1) % Size
Sum(lens) ==
    LET upto[i \in 0 .. Len(lens)] == IF i = 0 THEN 0 ELSE upto[i - 1] + lens[i] IN upto[Len(lens)]
Total(r) == Sum(Segments[r])
Longest == CHOOSE n \in {Total(r) : r \in Requests} : \A r \in Requests : Total(r) <= n
Event == [obj : Requests, res : -1 .. Longest]

\* A vectored task counts its segments and one more for its submitter.
NoTask == [live |-> FALSE, active |-> 0, result |-> <<>>, short |-> <<>>]
NewTask(r) ==
    [live |-> TRUE,
     active |-> IF Len(Segments[r]) > 1 THEN Len(Segments[r]) + 1 ELSE 0,
     result |-> [i \in DOMAIN Segments[r] |-> 0],
     short |-> [i \in DOMAIN Segments[r] |-> FALSE]]

Idle == [ios |-> <<>>, i |-> 0, seg |-> 0, count |-> 0, at |-> 0, res |-> 0, nr |-> 0, ret |-> 0]

\* wpdk_aio_iov_done: the lengths up to the first short segment, or its error.
IovResult(k) ==
    LET stops == {i \in DOMAIN k.result : k.short[i] \/ k.result[i] < 0}
        last == IF stops = {} THEN Len(k.result)
                ELSE CHOOSE i \in stops : \A j \in stops : i <= j IN
    IF k.result[last] < 0 THEN k.result[last] ELSE Sum(SubSeq(k.result, 1, last))

\* wpdk_aio_validate_iovec: there is at least one segment.
Acceptable(r) == r \notin Rejected /\ Segments[r] # <<>>

InRing == LET n == (tail - head + Size) % Size IN [i \in 1 .. n |-> events[(head + i - 1) % Size]]
Unread == {e.obj : e \in {InRing[i] : i \in DOMAIN InRing} \ {None}}

-----------------------------------------------------------------------------
Goto(t, label) == pc' = [pc EXCEPT ![t] = label]
Set(t, l) == loc' = [loc EXCEPT ![t] = l]
Mine(t) == loc[t].ios[loc[t].i]
Others(t) == Serial => \A u \in Threads \ {t} : pc[u] = "idle"

\* io_submit returns: the number of requests started, or the error of the first.
Return(t, n) == Goto(t, "idle") /\ Set(t, [Idle EXCEPT !.ret = n])
Stop(t) == Return(t, IF loc[t].i = 1 THEN -1 ELSE loc[t].i - 1)

Init ==
    /\ context = FALSE /\ iocount = 0 /\ head = 0 /\ tail = 0
    /\ events = [i \in Slots |-> None]
    /\ task = [r \in Requests |-> NoTask]
    /\ pc = [t \in Threads |-> "idle"]
    /\ loc = [t \in Threads |-> Idle]
    /\ given = None
    /\ moved = [r \in Requests |-> 0]
    /\ pending = [r \in Requests |-> {}]

Setup ==
    /\ \A u \in Threads : pc[u] = "idle"
    /\ ~context
    /\ context' = TRUE /\ iocount' = 0 /\ head' = 0 /\ tail' = 0
    /\ events' = [i \in Slots |-> None]
    /\ UNCHANGED <<task, pc, loc, given, device>>

\* No call is in progress; nothing else is waited for.
Destroy ==
    /\ \A u \in Threads : pc[u] = "idle"
    /\ context
    /\ context' = FALSE /\ head' = 0 /\ tail' = 0
    /\ UNCHANGED <<iocount, events, task, pc, loc, given, device>>

Submit(t) ==
    /\ pc[t] = "idle" /\ Others(t) /\ context
    /\ \E n \in 1 .. MaxSubmit : \E ios \in [1 .. n -> Requests] :
        /\ IsInjective(ios)
        /\ \A i \in 1 .. n : ~task[ios[i]].live /\ ios[i] \notin Unread
        /\ \A u \in Threads, i \in 1 .. n : \A j \in DOMAIN loc[u].ios : loc[u].ios[j] # ios[i]
        /\ Quota => Len(InRing) + n < Size
        /\ Set(t, [Idle EXCEPT !.ios = ios, !.i = 1])
    /\ Goto(t, "next")
    /\ UNCHANGED <<context, iocount, head, tail, events, task, given, device>>

\* The loop of io_submit, and the start of wpdk_aio_allocate.
NextIocb(t) ==
    /\ pc[t] = "next"
    /\ IF loc[t].i > Len(loc[t].ios) THEN Return(t, Len(loc[t].ios))
       ELSE IF ~Acceptable(Mine(t)) THEN Stop(t)
       ELSE Goto(t, "count") /\ UNCHANGED loc
    /\ UNCHANGED <<context, iocount, head, tail, events, task, given, device>>

AllocateFails(t) ==
    /\ pc[t] = "count" /\ Stop(t)
    /\ UNCHANGED <<context, iocount, head, tail, events, task, given, device>>

ReadIocount(t) ==
    /\ pc[t] = "count"
    /\ IF iocount >= Size THEN Stop(t)
       ELSE Goto(t, "cas") /\ Set(t, [loc[t] EXCEPT !.count = iocount])
    /\ UNCHANGED <<context, iocount, head, tail, events, task, given, device>>

\* Mutant: the counter is incremented whatever it has become.
IncrementBlindly(t) ==
    /\ pc[t] = "cas"
    /\ iocount' = iocount + 1
    /\ task' = [task EXCEPT ![Mine(t)] = NewTask(Mine(t))]
    /\ Goto(t, "io") /\ Set(t, [loc[t] EXCEPT !.seg = 1])
    /\ moved' = [moved EXCEPT ![Mine(t)] = 0]
    /\ UNCHANGED <<context, head, tail, events, given, pending>>

IncrementIocount(t) ==
    /\ pc[t] = "cas"
    /\ IF iocount # loc[t].count
       THEN Goto(t, "count") /\ UNCHANGED <<iocount, task, loc, moved>>
       ELSE /\ iocount' = iocount + 1
            /\ task' = [task EXCEPT ![Mine(t)] = NewTask(Mine(t))]
            /\ moved' = [moved EXCEPT ![Mine(t)] = 0]
            /\ Goto(t, "io") /\ Set(t, [loc[t] EXCEPT !.seg = 1])
    /\ UNCHANGED <<context, head, tail, events, given, pending>>

-----------------------------------------------------------------------------
(***************************************************************************)
(* ReadFile or WriteFile on the current segment: it transfers some of the  *)
(* bytes, fails, or goes on in the background.  No code completes what     *)
(* went to the background.                                                 *)
(***************************************************************************)
Vectored(r) == Len(Segments[r]) > 1
LastSegment(t) == loc[t].seg = Len(Segments[Mine(t)])
Started(t) == Goto(t, "next") /\ Set(t, [loc[t] EXCEPT !.i = @ + 1])

\* wpdk_aio_iov_done by the submitter, which then has nothing left to do.
IovDone(t, k, count) ==
    LET left == [k EXCEPT !.active = @ - count] IN
    /\ task' = [task EXCEPT ![Mine(t)] = left]
    /\ IF left.active = 0
       THEN Goto(t, "write") /\ Set(t, [loc[t] EXCEPT !.res = IovResult(left)])
       ELSE Started(t)

\* wpdk_aio_done for one segment of a vectored task.
Record(k, i, len, n) ==
    [k EXCEPT !.short[i] = n # len, !.result[i] = n, !.active = @ - 1]

TransferVector(t, n) ==
    LET i == loc[t].seg
        len == Segments[Mine(t)][i]
        k == Record(task[Mine(t)], i, len, n) IN
    IF n # len THEN IovDone(t, k, Len(Segments[Mine(t)]) - i + 1)
    ELSE IF LastSegment(t) THEN IovDone(t, k, 1)
    ELSE /\ task' = [task EXCEPT ![Mine(t)] = k]
         /\ Set(t, [loc[t] EXCEPT !.seg = i + 1]) /\ UNCHANGED pc

Transfer(t) ==
    /\ pc[t] = "io"
    /\ \E n \in 0 .. Segments[Mine(t)][loc[t].seg] :
        /\ moved' = [moved EXCEPT ![Mine(t)] = @ + n]
        /\ IF Vectored(Mine(t)) THEN TransferVector(t, n)
           ELSE Goto(t, "write") /\ Set(t, [loc[t] EXCEPT !.res = n]) /\ UNCHANGED task
    /\ UNCHANGED <<context, iocount, head, tail, events, given, pending>>

Pending(t) ==
    /\ Overlapped /\ pc[t] = "io" /\ Segments[Mine(t)][loc[t].seg] > 0
    /\ pending' = [pending EXCEPT ![Mine(t)] = @ \cup {loc[t].seg}]
    /\ IF ~Vectored(Mine(t)) THEN Started(t) /\ UNCHANGED task
       ELSE IF LastSegment(t) THEN IovDone(t, task[Mine(t)], 1)
       ELSE Set(t, [loc[t] EXCEPT !.seg = @ + 1]) /\ UNCHANGED <<task, pc>>
    /\ UNCHANGED <<context, iocount, head, tail, events, given, moved>>

\* Mutant: a vectored task that failed is freed whatever is in the background.
AbortFree(t) ==
    /\ pc[t] = "io" /\ Segments[Mine(t)][loc[t].seg] > 0
    /\ task' = [task EXCEPT ![Mine(t)] = NoTask]
    /\ iocount' = iocount - 1 /\ Stop(t)
    /\ UNCHANGED <<context, head, tail, events, given, device>>

\* wpdk_aio_abort and wpdk_aio_iov_abort.  With segments in the background the
\* request counts as started, and io_submit stops after it.
Abort(t) ==
    LET r == Mine(t)
        i == loc[t].seg
        k == [task[r] EXCEPT !.result[i] = -1, !.active = @ - (Len(Segments[r]) - i + 1)] IN
    /\ pc[t] = "io" /\ Segments[r][i] > 0
    /\ IF Vectored(r) /\ k.active # 1
       THEN /\ task' = [task EXCEPT ![r] = [k EXCEPT !.active = @ - 1]]
            /\ Return(t, loc[t].i) /\ UNCHANGED iocount
       ELSE /\ task' = [task EXCEPT ![r] = NoTask]
            /\ iocount' = iocount - 1 /\ Stop(t)
    /\ UNCHANGED <<context, head, tail, events, given, device>>

-----------------------------------------------------------------------------
(***************************************************************************)
(* wpdk_aio_task_done: nothing but the caller keeps other threads away.    *)
(***************************************************************************)
WriteEvent(t) ==
    /\ pc[t] = "write"
    /\ events' = [events EXCEPT ![tail] = [obj |-> Mine(t), res |-> loc[t].res]]
    /\ Goto(t, "tail")
    /\ UNCHANGED <<context, iocount, head, tail, task, loc, given, device>>

ReadTail(t) ==
    /\ pc[t] = "tail"
    /\ Goto(t, "advance") /\ Set(t, [loc[t] EXCEPT !.at = After(tail)])
    /\ UNCHANGED <<context, iocount, head, tail, events, task, given, device>>

AdvanceTail(t) ==
    /\ pc[t] = "advance"
    /\ tail' = loc[t].at
    /\ Goto(t, "free")
    /\ UNCHANGED <<context, iocount, head, events, task, loc, given, device>>

FreeTask(t) ==
    /\ pc[t] = "free"
    /\ iocount' = iocount - 1
    /\ task' = [task EXCEPT ![Mine(t)] = NoTask]
    /\ Started(t)
    /\ UNCHANGED <<context, head, tail, events, given, device>>

-----------------------------------------------------------------------------
Getevents(t) ==
    /\ pc[t] = "idle" /\ Others(t) /\ context
    /\ \E nr \in 0 .. Size : Set(t, [Idle EXCEPT !.nr = nr])
    /\ Goto(t, "get")
    /\ UNCHANGED <<context, iocount, head, tail, events, task, given, device>>

\* Mutant: the event is taken from the slot after the head.
TakeEventAhead(t) ==
    /\ pc[t] = "get"
    /\ IF loc[t].ret = loc[t].nr \/ head = tail
       THEN Return(t, loc[t].ret) /\ UNCHANGED <<head, given>>
       ELSE /\ given' = events[After(head)]
            /\ head' = After(head)
            /\ Set(t, [loc[t] EXCEPT !.ret = @ + 1]) /\ UNCHANGED pc
    /\ UNCHANGED <<context, iocount, tail, events, task, device>>

TakeEvent(t) ==
    /\ pc[t] = "get"
    /\ IF loc[t].ret = loc[t].nr \/ head = tail
       THEN Return(t, loc[t].ret) /\ UNCHANGED <<head, given>>
       ELSE /\ given' = events[head]
            /\ head' = After(head)
            /\ Set(t, [loc[t] EXCEPT !.ret = @ + 1]) /\ UNCHANGED pc
    /\ UNCHANGED <<context, iocount, tail, events, task, device>>

Next ==
    \/ Setup \/ Destroy
    \/ \E t \in Threads :
        \/ Submit(t) \/ NextIocb(t) \/ AllocateFails(t) \/ ReadIocount(t)
        \/ IncrementIocount(t) \/ Transfer(t) \/ Pending(t) \/ Abort(t)
        \/ WriteEvent(t) \/ ReadTail(t) \/ AdvanceTail(t) \/ FreeTask(t)
        \/ Getevents(t) \/ TakeEvent(t)

Spec == Init /\ [][Next]_vars

-----------------------------------------------------------------------------
Live == {r \in Requests : task[r].live}

TypeOK ==
    /\ context \in BOOLEAN /\ iocount \in 0 .. Cardinality(Requests)
    /\ head \in Slots /\ tail \in Slots
    /\ events \in [Slots -> Event \cup {None}]
    /\ given \in Event \cup {None}
    /\ \A r \in Requests : task[r].active \in 0 .. Len(Segments[r]) + 1
    /\ pending \in [Requests -> SUBSET Nat] /\ moved \in [Requests -> Nat]

\* aio.c:111: the count taken with compare-and-swap is the number of tasks
\* allocated and not freed, with any number of threads submitting, and never
\* passes the size of the context.
IocountExact == context => iocount = Cardinality(Live) /\ iocount <= Size

\* aio.c:106: io_destroy does not wait for tasks.  With synchronous I/O none
\* is left when no call is in progress, whatever failed before.
DestroyClean ==
    context /\ (\A t \in Threads : pc[t] = "idle") => Live = {} /\ iocount = 0

\* aio.c:198-227: the length an event reports is the number of bytes moved for
\* the request, whichever segment came up short.
ResultExact == \A i \in DOMAIN InRing : InRing[i].res = moved[InRing[i].obj]

\* aio.c:440: when io_submit returns n, exactly the first n requests have been
\* started: each has a task or an event, and the others have left nothing.
SubmitReports ==
    [][\A t \in Threads :
        pc[t] # "idle" /\ pc'[t] = "idle" =>
            \A i \in DOMAIN loc[t].ios :
                i <= loc'[t].ret <=> loc[t].ios[i] \in Live' \cup Unread']_vars

\* aio.c:247-264: a task whose OVERLAPPED the system still uses is never freed.
PendingKept == \A r \in Requests : pending[r] # {} => task[r].live

\* With one call at a time and fewer than Size completions unread, the context
\* is a queue of completions.
Queue == INSTANCE CompletionQueue WITH busy <- Live \cup Unread, queue <- InRing
ImplementsQueue == Queue!Spec
=============================================================================
