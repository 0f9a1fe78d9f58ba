----------------------------- MODULE ThreadTable -----------------------------
(***************************************************************************)
(* The thread table of src/pthread.c: pthread_create, pthread_join,        *)
(* pthread_detach, pthread_exit and the start-up and wind-down of the      *)
(* threads they manage.                                                    *)
(*                                                                         *)
(* Every section of the code that runs under wpdk_threads_lock is one      *)
(* action, and every access outside the lock (the stores to start and arg, *)
(* _beginthreadex, ResumeThread, WaitForSingleObjectEx, CloseHandle and    *)
(* free) is an action of its own, so all their interleavings are explored. *)
(*                                                                         *)
(* A struct thread is allocated once and its address never comes back:     *)
(* a use after free cannot hide behind a later allocation.  A created      *)
(* thread, its kernel handle and the value it exits with are all named by  *)
(* the address of its struct thread.                                       *)
(***************************************************************************)
EXTENDS Integers

CONSTANTS
    Structs,       \* addresses calloc returns for a struct thread
    Callers,       \* threads that pthread_create did not create
    Ids,           \* thread ids the operating system hands out
    maxthreads,    \* slots of wpdk_threads
    NULL,
    SingleReaper,  \* TRUE: clients join or detach each thread at most once
    ZeroDetach     \* TRUE: clients may call pthread_detach(0)

ASSUME MaxThreadsAssumption == maxthreads \in Nat \ {0}
ASSUME NamesAssumption == NULL \notin Structs /\ Structs \cap Callers = {}
ASSUME IdsAssumption == Ids \subseteq Nat \ {0}
ASSUME ModeAssumption ==
    SingleReaper \in BOOLEAN /\ ZeroDetach \in BOOLEAN

VARIABLES
    mem,       \* the allocator's view of each struct thread
    heap,      \* the contents of each struct thread
    table,     \* wpdk_threads
    hwm,       \* hwmthreads
    os,        \* the kernel's state of each created thread
    tid,       \* the id the kernel gave it
    hopen,     \* whether the handle _beginthreadex returned is still open
    pc,        \* where each thread is
    loc,       \* the locals of the call each thread is in
    info,      \* info.index in wpdk_start_thread
    claimed    \* threads a client has joined or detached, or created detached

vars == <<mem, heap, table, hwm, os, tid, hopen, pc, loc, info, claimed>>
osVars == <<os, tid, hopen>>
tableVars == <<table, hwm>>

Procs == Callers \cup Structs
Slots == 0 .. maxthreads - 1
Ref == Structs \cup {NULL}

\* start is TRUE while the start routine is still stored.  The zeroed
\* contents are also what a freed struct is set to: nothing may depend on it.
Thread == [id : Ids \cup {0}, h : Ref, start : BOOLEAN, result : Ref,
           index : Slots \cup {-1}]
Zeroed == [id |-> 0, h |-> NULL, start |-> FALSE, result |-> NULL, index |-> 0]

Codes == {"0", "EINVAL", "ESRCH", "ENOMEM", "EMFILE", "EAGAIN", "WAIT_FAILED"}
Locals == [op : {"none", "create", "join", "detach"}, tgt : Ref, ptr : Ref,
           index : Slots \cup {-1}, h : Ref, start : BOOLEAN, det : BOOLEAN,
           rc : Codes, val : Ref]
NoCall == [op |-> "none", tgt |-> NULL, ptr |-> NULL, index |-> -1, h |-> NULL,
           start |-> FALSE, det |-> FALSE, rc |-> "0", val |-> NULL]

Labels == {"ready", "c_start", "c_begin", "c_info", "c_resume", "c_close",
           "j_wait", "j_blocked", "j_detach", "close", "free", "return",
           "start", "t_free", "t_exit", "gone"}

Goto(p, label) == pc' = [pc EXCEPT ![p] = label]
Leave(p, l, rc) == Goto(p, "return") /\ loc' = [loc EXCEPT ![p] = [l EXCEPT !.rc = rc]]
Free(c) == mem' = [mem EXCEPT ![c] = "freed"] /\ heap' = [heap EXCEPT ![c] = Zeroed]

(***************************************************************************)
(* The operating system.  An id stays taken while its thread has not       *)
(* terminated or a handle to it is open.                                   *)
(***************************************************************************)
InUse(id) == \E c \in Structs : tid[c] = id /\ (os[c] \in {"suspended", "runnable"} \/ hopen[c])
NewIds == {id \in Ids : ~InUse(id)}

(***************************************************************************)
(* Searching the table by id, with or without the index of a slot.  An     *)
(* all-empty table also stands for the one not allocated yet.              *)
(* Operators marked as mutants are deliberate mistakes that show what the  *)
(* properties catch; the specification does not use them.                  *)
(***************************************************************************)
Holds(i, id) == table[i] # NULL /\ heap[table[i]].id = id
First(i, id) == i < hwm /\ Holds(i, id) /\ \A j \in Slots : j < i => ~Holds(j, id)
\* Mutant: an index is taken at its word.
LocatedByIndex(i, index, id) ==
    IF index = -1 THEN First(i, id) ELSE i = index /\ table[i] # NULL

Located(i, index, id) == IF index = -1 THEN First(i, id) ELSE i = index /\ Holds(i, id)

IdOf(t) == IF t = NULL THEN 0 ELSE tid[t]

\* A client can name a thread once it has been resumed: pthread_create hands
\* its id out after that, and pthread_self tells the thread itself.
Known(t) == os[t] \in {"runnable", "terminated"}
MayReap(t) == Known(t) /\ (SingleReaper => t \notin claimed)
Claim(t) == claimed' = IF SingleReaper THEN claimed \cup {t} ELSE claimed

Init ==
    /\ mem = [c \in Structs |-> "unused"]
    /\ heap = [c \in Structs |-> Zeroed]
    /\ table = [i \in Slots |-> NULL]
    /\ hwm = 0
    /\ os = [c \in Structs |-> "none"]
    /\ tid = [c \in Structs |-> 0]
    /\ hopen = [c \in Structs |-> FALSE]
    /\ pc = [p \in Procs |-> IF p \in Callers THEN "ready" ELSE "start"]
    /\ loc = [p \in Procs |-> NoCall]
    /\ info = [c \in Structs |-> -1]
    /\ claimed = {}

(***************************************************************************)
(* pthread_create.                                                         *)
(***************************************************************************)
\* calloc fails in wpdk_allocate_thread.
CreateNoMemory(p) ==
    /\ pc[p] = "ready"
    /\ Leave(p, [NoCall EXCEPT !.op = "create"], "ENOMEM")
    /\ UNCHANGED <<mem, heap, tableVars, osVars, info, claimed>>

\* Mutant: the high-water mark is not raised.
CreateAllocateNoMark(p, c) ==
    /\ pc[p] = "ready"
    /\ mem[c] = "unused"
    /\ \E i \in Slots :
        /\ table[i] = NULL
        /\ \A j \in Slots : j < i => table[j] # NULL
        /\ table' = [table EXCEPT ![i] = c]
        /\ heap' = [heap EXCEPT ![c] = [Zeroed EXCEPT !.index = i]]
        /\ hwm' = hwm
    /\ mem' = [mem EXCEPT ![c] = "live"]
    /\ loc' = [loc EXCEPT ![p] = [NoCall EXCEPT !.op = "create", !.ptr = c]]
    /\ Goto(p, "c_start")
    /\ UNCHANGED <<osVars, info, claimed>>

\* wpdk_allocate_thread takes the first empty slot.
CreateAllocate(p, c) ==
    /\ pc[p] = "ready"
    /\ mem[c] = "unused"
    /\ \E i \in Slots :
        /\ table[i] = NULL
        /\ \A j \in Slots : j < i => table[j] # NULL
        /\ table' = [table EXCEPT ![i] = c]
        /\ heap' = [heap EXCEPT ![c] = [Zeroed EXCEPT !.index = i]]
        /\ hwm' = IF i >= hwm THEN i + 1 ELSE hwm
    /\ mem' = [mem EXCEPT ![c] = "live"]
    /\ loc' = [loc EXCEPT ![p] = [NoCall EXCEPT !.op = "create", !.ptr = c]]
    /\ Goto(p, "c_start")
    /\ UNCHANGED <<osVars, info, claimed>>

\* wpdk_allocate_thread finds no empty slot: the struct is freed again.
CreateTableFull(p, c) ==
    /\ pc[p] = "ready"
    /\ mem[c] = "unused"
    /\ \A i \in Slots : table[i] # NULL
    /\ mem' = [mem EXCEPT ![c] = "live"]
    /\ loc' = [loc EXCEPT ![p] = [NoCall EXCEPT !.op = "create", !.ptr = c, !.rc = "EMFILE"]]
    /\ Goto(p, "free")
    /\ UNCHANGED <<heap, tableVars, osVars, info, claimed>>

\* start and arg are stored without the lock.
CreateSetStart(p) ==
    /\ pc[p] = "c_start"
    /\ LET c == loc[p].ptr IN heap' = [heap EXCEPT ![c] = [heap[c] EXCEPT !.start = TRUE]]
    /\ Goto(p, "c_begin")
    /\ UNCHANGED <<mem, tableVars, osVars, loc, info, claimed>>

\* _beginthreadex creates the thread suspended, or fails.
CreateBegin(p) ==
    /\ pc[p] = "c_begin"
    /\ \E det \in BOOLEAN :
        LET c == loc[p].ptr IN
        \/ \E id \in NewIds :
            /\ os' = [os EXCEPT ![c] = "suspended"]
            /\ tid' = [tid EXCEPT ![c] = id]
            /\ hopen' = [hopen EXCEPT ![c] = TRUE]
            /\ loc' = [loc EXCEPT ![p] = [loc[p] EXCEPT !.det = det, !.h = c]]
            /\ IF det THEN Claim(c) ELSE UNCHANGED claimed
        \/ /\ loc' = [loc EXCEPT ![p] = [loc[p] EXCEPT !.det = det, !.rc = "EAGAIN"]]
           /\ UNCHANGED <<osVars, claimed>>
    /\ Goto(p, "c_info")
    /\ UNCHANGED <<mem, heap, tableVars, info>>

\* Mutant: a thread created detached stays in the table.
CreateSetInfoKeep(p) ==
    /\ pc[p] = "c_info"
    /\ LET c == loc[p].ptr
           h == loc[p].h
       IN /\ \E id \in Ids \cup {0} :
              /\ loc[p].h # NULL => id = tid[c]
              /\ heap' = [heap EXCEPT ![c] = [heap[c] EXCEPT !.id = id, !.h = h,
                                              !.index = IF h = NULL THEN -1 ELSE heap[c].index]]
          /\ table' = IF h = NULL THEN [table EXCEPT ![heap[c].index] = NULL] ELSE table
    /\ Goto(p, IF loc[p].h = NULL THEN "free" ELSE "c_resume")
    /\ UNCHANGED <<mem, hwm, osVars, loc, info, claimed>>

\* wpdk_set_thread_info.  The id is uninitialised when no thread was created.
CreateSetInfo(p) ==
    /\ pc[p] = "c_info"
    /\ LET c == loc[p].ptr
           h == IF loc[p].det THEN NULL ELSE loc[p].h
       IN /\ \E id \in Ids \cup {0} :
              /\ loc[p].h # NULL => id = tid[c]
              /\ heap' = [heap EXCEPT ![c] = [heap[c] EXCEPT !.id = id, !.h = h,
                                              !.index = IF h = NULL THEN -1 ELSE heap[c].index]]
          /\ table' = IF h = NULL THEN [table EXCEPT ![heap[c].index] = NULL] ELSE table
    /\ Goto(p, IF loc[p].h = NULL THEN "free" ELSE "c_resume")
    /\ UNCHANGED <<mem, hwm, osVars, loc, info, claimed>>

\* ResumeThread; it does nothing through a handle that has been closed.
CreateResume(p) ==
    /\ pc[p] = "c_resume"
    /\ os' = IF hopen[loc[p].h] THEN [os EXCEPT ![loc[p].h] = "runnable"] ELSE os
    /\ Goto(p, IF loc[p].det THEN "c_close" ELSE "return")
    /\ UNCHANGED <<mem, heap, tableVars, tid, hopen, loc, info, claimed>>

\* The handle of a thread created detached is closed straight away.
CreateClose(p) ==
    /\ pc[p] = "c_close"
    /\ hopen' = [hopen EXCEPT ![loc[p].h] = FALSE]
    /\ Goto(p, "return")
    /\ UNCHANGED <<mem, heap, tableVars, os, tid, loc, info, claimed>>

(***************************************************************************)
(* wpdk_start_thread: the created thread's side.                           *)
(***************************************************************************)
\* Mutant: the thread does not free the struct it was left.
ThreadStartingLeak(t) ==
    /\ pc[t] = "start"
    /\ os[t] = "runnable"
    /\ info' = [info EXCEPT ![t] = heap[t].index]
    /\ heap' = [heap EXCEPT ![t] = [heap[t] EXCEPT !.start = FALSE]]
    /\ Goto(t, "ready")
    /\ UNCHANGED <<mem, tableVars, osVars, loc, claimed>>

\* wpdk_thread_starting copies the struct and clears start under the lock.
ThreadStarting(t) ==
    /\ pc[t] = "start"
    /\ os[t] = "runnable"
    /\ info' = [info EXCEPT ![t] = heap[t].index]
    /\ heap' = [heap EXCEPT ![t] = [heap[t] EXCEPT !.start = FALSE]]
    /\ Goto(t, IF heap[t].index = -1 THEN "t_free" ELSE "ready")
    /\ UNCHANGED <<mem, tableVars, osVars, loc, claimed>>

\* Whoever removed the struct from the table left it to the thread to free.
ThreadFree(t) ==
    /\ pc[t] = "t_free"
    /\ Free(t)
    /\ Goto(t, "ready")
    /\ UNCHANGED <<tableVars, osVars, loc, info, claimed>>

\* Mutant: pthread_exit stores no result.
ThreadDoneReturn(t, index) ==
    /\ pc[t] = "ready"
    /\ heap' = [c \in Structs |->
                  IF index # -1 /\ \E i \in Slots : Located(i, index, tid[t]) /\ table[i] = c
                  THEN [heap[c] EXCEPT !.result = t] ELSE heap[c]]
    /\ Goto(t, "t_exit")
    /\ UNCHANGED <<mem, tableVars, osVars, loc, info, claimed>>

\* wpdk_thread_done stores the result if the slot still belongs to the
\* thread.  The start routine returning passes the index the thread started
\* with; pthread_exit passes -1.
ThreadDone(t, index) ==
    /\ pc[t] = "ready"
    /\ heap' = [c \in Structs |->
                  IF \E i \in Slots : Located(i, index, tid[t]) /\ table[i] = c
                  THEN [heap[c] EXCEPT !.result = t] ELSE heap[c]]
    /\ Goto(t, "t_exit")
    /\ UNCHANGED <<mem, tableVars, osVars, loc, info, claimed>>

ThreadEnd(t) ==
    /\ pc[t] = "t_exit"
    /\ os' = [os EXCEPT ![t] = "terminated"]
    /\ Goto(t, "gone")
    /\ UNCHANGED <<mem, heap, tableVars, tid, hopen, loc, info, claimed>>

(***************************************************************************)
(* wpdk_detach_thread, shared by pthread_join and pthread_detach.  l holds *)
(* the caller's locals; found and missing are its return codes.            *)
(***************************************************************************)
DetachThread(p, l, found, missing) ==
    \/ \E i \in Slots :
        /\ Located(i, l.index, IdOf(l.tgt))
        /\ LET c == table[i] IN
            /\ heap' = [heap EXCEPT ![c] = [heap[c] EXCEPT !.index = -1]]
            /\ table' = [table EXCEPT ![i] = NULL]
            /\ loc' = [loc EXCEPT ![p] =
                 [l EXCEPT !.ptr = c, !.start = heap[c].start, !.h = heap[c].h, !.rc = found,
                           !.val = IF l.op = "join" THEN heap[c].result ELSE NULL]]
        /\ Goto(p, "close")
    \/ /\ \A i \in Slots : ~Located(i, l.index, IdOf(l.tgt))
       /\ Leave(p, l, missing)
       /\ UNCHANGED <<heap, table>>

\* Mutant: the struct is freed whether the thread has started or not.
DetachCloseFree(p) ==
    /\ pc[p] = "close"
    /\ hopen' = IF loc[p].h = NULL THEN hopen ELSE [hopen EXCEPT ![loc[p].h] = FALSE]
    /\ Goto(p, "free")
    /\ UNCHANGED <<mem, heap, tableVars, os, tid, loc, info, claimed>>

\* After the unlock: CloseHandle, then free unless the thread still has to
\* read its struct.
DetachClose(p) ==
    /\ pc[p] = "close"
    /\ hopen' = IF loc[p].h = NULL THEN hopen ELSE [hopen EXCEPT ![loc[p].h] = FALSE]
    /\ Goto(p, IF loc[p].start THEN "return" ELSE "free")
    /\ UNCHANGED <<mem, heap, tableVars, os, tid, loc, info, claimed>>

\* The free(pthread) that ends wpdk_detach_thread and the error paths of
\* wpdk_allocate_thread and wpdk_set_thread_info.
FreeStruct(p) ==
    /\ pc[p] = "free"
    /\ Free(loc[p].ptr)
    /\ Goto(p, "return")
    /\ UNCHANGED <<tableVars, osVars, loc, info, claimed>>

PthreadDetach(p, t) ==
    /\ pc[p] = "ready"
    /\ IF t = NULL THEN ZeroDetach /\ UNCHANGED claimed ELSE MayReap(t) /\ Claim(t)
    /\ DetachThread(p, [NoCall EXCEPT !.op = "detach", !.tgt = t], "0", "EINVAL")
    /\ UNCHANGED <<mem, hwm, osVars, info>>

(***************************************************************************)
(* pthread_join.                                                           *)
(***************************************************************************)
\* The check for joining oneself and wpdk_get_thread_info.
PthreadJoin(p, t) ==
    /\ pc[p] = "ready"
    /\ MayReap(t)
    /\ Claim(t)
    /\ LET l == [NoCall EXCEPT !.op = "join", !.tgt = t]
           self == p \in Structs /\ tid[p] = tid[t]
       IN \/ \E i \in Slots :
              /\ ~self
              /\ First(i, tid[t])
              /\ loc' = [loc EXCEPT ![p] = [l EXCEPT !.h = heap[table[i]].h, !.index = i]]
              /\ Goto(p, "j_wait")
          \/ /\ self \/ \A i \in Slots : ~First(i, tid[t])
             /\ Leave(p, l, "EINVAL")
    /\ UNCHANGED <<mem, heap, tableVars, osVars, info>>

\* WaitForSingleObjectEx is entered.  Through a closed handle it fails, or
\* succeeds on whatever object the handle's value names by then.
JoinWait(p) ==
    /\ pc[p] = "j_wait"
    /\ \/ hopen[loc[p].h] /\ Goto(p, "j_blocked") /\ UNCHANGED loc
       \/ /\ ~hopen[loc[p].h]
          /\ \E rc \in {"0", "WAIT_FAILED"} : loc' = [loc EXCEPT ![p] = [loc[p] EXCEPT !.rc = rc]]
          /\ Goto(p, "j_detach")
    /\ UNCHANGED <<mem, heap, tableVars, osVars, info, claimed>>

\* The wait is alertable: an APC ends it and the loop waits again.
JoinAlerted(p) ==
    /\ pc[p] = "j_blocked"
    /\ Goto(p, "j_wait")
    /\ UNCHANGED <<mem, heap, tableVars, osVars, loc, info, claimed>>

\* Mutant: the loop does not leave when the wait succeeds.
JoinWakeAgain(p) ==
    /\ pc[p] = "j_blocked"
    /\ os[loc[p].h] = "terminated"
    /\ Goto(p, "j_wait")
    /\ UNCHANGED <<mem, heap, tableVars, osVars, loc, info, claimed>>

JoinWake(p) ==
    /\ pc[p] = "j_blocked"
    /\ os[loc[p].h] = "terminated"
    /\ Goto(p, "j_detach")
    /\ UNCHANGED <<mem, heap, tableVars, osVars, loc, info, claimed>>

\* The thread is gone: take its struct out of the table and its result.
JoinDetach(p) ==
    /\ pc[p] = "j_detach"
    /\ LET failed == loc[p].rc = "WAIT_FAILED" IN
       DetachThread(p, loc[p], IF failed THEN "WAIT_FAILED" ELSE "0",
                               IF failed THEN "WAIT_FAILED" ELSE "ESRCH")
    /\ UNCHANGED <<mem, hwm, osVars, info, claimed>>

\* The call returns to the client.
Return(p) ==
    /\ pc[p] = "return"
    /\ loc' = [loc EXCEPT ![p] = NoCall]
    /\ Goto(p, "ready")
    /\ UNCHANGED <<mem, heap, tableVars, osVars, info, claimed>>

\* What a thread chooses to do.
Call(p) ==
    \/ CreateNoMemory(p)
    \/ \E c \in Structs : CreateAllocate(p, c) \/ CreateTableFull(p, c) \/ PthreadJoin(p, c)
    \/ \E c \in Ref : PthreadDetach(p, c)

\* What follows from a call, or from a thread being resumed.
Step(p) ==
    \/ CreateSetStart(p) \/ CreateBegin(p) \/ CreateSetInfo(p)
    \/ CreateResume(p) \/ CreateClose(p)
    \/ DetachClose(p) \/ FreeStruct(p)
    \/ JoinWait(p) \/ JoinDetach(p) \/ Return(p)

Lifecycle(t) ==
    \/ ThreadStarting(t) \/ ThreadFree(t) \/ ThreadEnd(t)
    \/ ThreadDone(t, info[t]) \/ ThreadDone(t, -1)

Next ==
    \/ \E p \in Procs : Call(p) \/ Step(p) \/ JoinAlerted(p) \/ JoinWake(p)
    \/ \E t \in Structs : Lifecycle(t)

Spec == Init /\ [][Next]_vars

\* Threads keep running: a thread inside a call, or starting or ending, makes
\* its next step, and a finite number of APCs cannot keep a join from seeing
\* that its thread has terminated.  Clients owe nothing.
Fairness ==
    /\ \A p \in Procs : WF_vars(Step(p)) /\ SF_vars(JoinWake(p))
    /\ \A t \in Structs : WF_vars(ThreadStarting(t) \/ ThreadFree(t) \/ ThreadEnd(t))

FairSpec == Spec /\ Fairness

\* The pointers and handles a call is about to use are not null.
PointersOK ==
    \A p \in Procs :
        /\ pc[p] \in {"c_start", "c_begin", "c_info", "close", "free"} => loc[p].ptr \in Structs
        /\ pc[p] \in {"c_resume", "c_close"} => loc[p].h \in Structs
        /\ pc[p] \in {"j_wait", "j_blocked", "j_detach"} => loc[p].tgt \in Structs

\* Every variable has its type: slots and the high-water mark stay within the
\* table (src/pthread.c:55-59) and no call goes on with a null pointer.
TypeOK ==
    /\ mem \in [Structs -> {"unused", "live", "freed"}]
    /\ heap \in [Structs -> Thread]
    /\ table \in [Slots -> Ref]
    /\ hwm \in 0 .. maxthreads
    /\ os \in [Structs -> {"none", "suspended", "runnable", "terminated"}]
    /\ tid \in [Structs -> Ids \cup {0}]
    /\ hopen \in [Structs -> BOOLEAN]
    /\ pc \in [Procs -> Labels]
    /\ loc \in [Procs -> Locals]
    /\ info \in [Structs -> Slots \cup {-1}]
    /\ claimed \subseteq Structs
    /\ PointersOK

(***************************************************************************)
(* Who still uses, and who has to free or close, what.                     *)
(***************************************************************************)
InTable(c) == \E i \in Slots : table[i] = c

\* pthread_create still writes through its pointer.
Creating(p, c) == pc[p] \in {"c_start", "c_begin", "c_info"} /\ loc[p].ptr = c

\* The created thread has not read its struct yet.
Unread(c) == pc[c] = "start" /\ os[c] # "none"

\* p is on its way to free(c).
Frees(p, c) ==
    \/ loc[p].ptr = c /\ (pc[p] = "free" \/ (pc[p] = "close" /\ ~loc[p].start))
    \/ p = c /\ (pc[p] = "t_free" \/ (Unread(c) /\ heap[c].index = -1))

\* p is on its way to CloseHandle on the handle of c.
Closes(p, c) ==
    /\ loc[p].h = c
    /\ \/ pc[p] \in {"close", "c_close"}
       \/ pc[p] \in {"c_info", "c_resume"} /\ loc[p].det

\* No struct is read or written after it was freed: not through the table,
\* not by the pthread_create that allocated it, not by the thread it belongs
\* to, and not by the code about to free it (src/pthread.c:160-267).
NoUseAfterFree ==
    /\ \A c \in Structs : InTable(c) \/ Unread(c) => mem[c] = "live"
    /\ \A p \in Procs, c \in Structs : Creating(p, c) \/ Frees(p, c) => mem[c] = "live"

\* At most one party ever sets out to free a struct, and by then it is in the
\* table no longer and nobody else is going to look at it: the reaper and the
\* starting thread agree on who frees through start and index.
FreedOnce ==
    \A p \in Procs, c \in Structs : Frees(p, c) =>
        /\ ~InTable(c)
        /\ \A q \in Procs : q # p => ~Frees(q, c)
        /\ Unread(c) => p = c

\* A struct that is in nobody's hands is in the table: whichever way joins,
\* detaches, failed creations and starting threads interleave, none is lost.
NoLeak ==
    \A c \in Structs : mem[c] = "live" =>
        InTable(c) \/ \E p \in Procs : Creating(p, c) \/ Frees(p, c)

\* Together: no struct thread is used after it was freed, freed twice or lost.
MemorySound == NoUseAfterFree /\ FreedOnce /\ NoLeak

\* A handle is closed at most once, only while it is open, and not while the
\* table still offers it to pthread_join.
HandleClosedOnce ==
    \A p \in Procs, c \in Structs : Closes(p, c) =>
        /\ hopen[c]
        /\ \A q \in Procs : q # p => ~Closes(q, c)
        /\ \A i \in Slots : table[i] # NULL => heap[table[i]].h # c

\* An open handle is in the table or in the hands of one call: no handle
\* is lost.
NoHandleLeak ==
    \A c \in Structs : hopen[c] =>
        \/ InTable(c) /\ heap[c].h = c
        \/ \E p \in Procs : Closes(p, c) \/ (Creating(p, c) /\ loc[p].h = c)

\* Together: every handle _beginthreadex returned is closed exactly once by the
\* code, or still to be found.
HandlesSound == HandleClosedOnce /\ NoHandleLeak

\* The table is a partial map between slots and structs that index inverts,
\* and the ids that searches go by are unambiguous.
TableCoherent ==
    /\ \A i \in Slots : table[i] # NULL => heap[table[i]].index = i /\ i < hwm
    /\ \A i, j \in Slots : table[i] # NULL /\ table[j] # NULL /\ i # j =>
         heap[table[i]].id # heap[table[j]].id \/ heap[table[i]].id = 0

\* Clients that join or detach each thread once: WaitForSingleObjectEx and
\* ResumeThread are only given open handles.
HandleUsedOpen ==
    \A p \in Procs : pc[p] \in {"j_wait", "j_blocked", "c_resume"} => hopen[loc[p].h]

\* Together: what a search finds is the thread that was asked for, with a handle
\* that stays open while it is used.
TableSound == TableCoherent /\ HandleUsedOpen

\* Clients that join or detach each thread once: a join by another thread
\* succeeds and delivers the value that very thread ended with, even though
\* slots and ids are reused.
JoinDelivers ==
    \A p \in Procs : pc[p] = "return" /\ loc[p].op = "join" /\ loc[p].tgt # p =>
        loc[p].rc = "0" /\ loc[p].val = loc[p].tgt

\* Clients that race joins and detaches: a join that reports success has the
\* value of the thread it named, whoever else tried to reap it, as long as no
\* id was given out twice.
JoinNeverMixes ==
    (\A c, d \in Structs : c # d /\ tid[c] # 0 => tid[c] # tid[d]) =>
    \A p \in Procs : pc[p] = "return" /\ loc[p].op = "join" /\ loc[p].rc = "0" =>
        loc[p].val = loc[p].tgt

\* What wpdk_detach_thread or a failed creation took out of the table is
\* freed in the end, by the one or the other.
Reclaimed ==
    \A c \in Structs : (mem[c] = "live" /\ ~InTable(c)) ~> (mem[c] = "freed")

\* A join of a thread that has terminated returns.
JoinReturns ==
    \A p \in Procs : (pc[p] = "j_blocked" /\ os[loc[p].h] = "terminated") ~> (pc[p] = "return")

\* pthread_detach(0) names no thread.
ZeroDetachRejected ==
    \A p \in Procs : pc[p] = "return" /\ loc[p].op = "detach" /\ loc[p].tgt = NULL =>
        loc[p].rc = "EINVAL"
(***************************************************************************)
(* The inductive invariant behind NoUseAfterFree, FreedOnce and NoLeak.    *)
(***************************************************************************)
\* Slots hold live structs that know their slot.
SlotsInv == \A i \in Slots : table[i] # NULL => mem[table[i]] = "live" /\ heap[table[i]].index = i

\* A thread that runs was created and resumed, and has an id.
KernelInv ==
    /\ \A c \in Structs : mem[c] = "unused" => os[c] = "none"
    /\ \A c \in Structs : pc[c] # "start" => os[c] \in {"runnable", "terminated"}
    /\ \A c \in Structs : os[c] # "none" => tid[c] # 0

\* A struct being set up is in its slot under the id 0, where no search for
\* the id of a thread finds it.
SetUp(p, c) ==
    /\ heap[c].index # -1 /\ table[heap[c].index] = c /\ heap[c].id = 0
    /\ pc[p] # "c_start" => heap[c].start
    /\ loc[p].h \in {NULL, c}
    /\ os[c] = IF loc[p].h = c THEN "suspended" ELSE "none"
    /\ pc[p] # "c_info" => loc[p].h = NULL
    /\ \A q \in Procs : Creating(q, c) => q = p

CreatingInv == \A p \in Procs, c \in Structs : Creating(p, c) => SetUp(p, c)

\* Until the thread has read its struct, start is set and keeps it alive.
Kept(c) ==
    /\ mem[c] = "live" /\ heap[c].start
    /\ heap[c].index = -1 \/ table[heap[c].index] = c

UnreadInv == \A c \in Structs : Unread(c) => Kept(c)

\* A struct in the table whose start is set has a thread yet to read it.
StartInv ==
    \A i \in Slots : table[i] # NULL /\ heap[table[i]].start =>
        Unread(table[i]) \/ \E p \in Procs : Creating(p, table[i])

\* What calls in progress remember of the threads they deal with.
CallInv ==
    /\ \A p \in Procs : pc[p] \in {"j_wait", "j_blocked", "j_detach"} => os[loc[p].tgt] # "none"
    /\ \A p \in Procs : pc[p] = "c_resume" =>
         os[loc[p].h] # "none" /\ \A q \in Procs : ~Creating(q, loc[p].h)

FreesInv == \A p \in Procs, c \in Structs : Frees(p, c) => mem[c] = "live"

\* Together: every live struct has exactly one party answerable for it.
Ownership ==
    /\ SlotsInv /\ KernelInv /\ CreatingInv /\ UnreadInv /\ StartInv /\ CallInv
    /\ FreesInv /\ FreedOnce /\ NoLeak
=============================================================================
