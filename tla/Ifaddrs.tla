------------------------------ MODULE Ifaddrs ------------------------------
(* getifaddrs, freeifaddrs and the flags ioctl (src/ifaddrs.c): the adapters   *)
(* are read into a buffer that grows until they fit, while they may change     *)
(* between two attempts, and every allocation may fail.                       *)
(* GetAdaptersAddresses and the heap are external.                            *)
EXTENDS Integers, Sequences, SequencesExt

CONSTANTS
    Configs,        \* adapters: sequences of [loop, up, v4, v6, families]; v4 and v6 are
                    \* the indexes of the adapter, 0 without the protocol
    MaxChanges,     \* bound on changes of the adapters
    NULL

VARIABLES
    adapters, changes,
    call,           \* NULL or [at, name, buf, len, seen]: the interface asked for, NULL
                    \* for a list; the size of the buffer, 0 without one, the size
                    \* asked for, and its content
    heap,           \* allocations alive
    given,          \* the list the client holds, or NULL
    answer          \* the last answer of the ioctl: [name, flags] or NULL

vars == <<adapters, changes, call, heap, given, answer>>

Init ==
    /\ adapters \in Configs /\ changes = 0
    /\ call = NULL /\ heap = 0 /\ given = NULL /\ answer = NULL

wpdk_get_if_info(a, family) ==
    [name |-> <<IF a.loop THEN "lo" ELSE "en", IF family = "AF_INET6" THEN a.v6 ELSE a.v4>>,
     flags |-> {f \in {"IFF_UP", "IFF_LOOPBACK"} : IF f = "IFF_UP" THEN a.up ELSE a.loop}]

\* The two loops: the adapters' addresses of the families supported, in order.
Entries(as) ==
    FlattenSeq([k \in DOMAIN as |->
        LET fs == SelectSeq(as[k].families, LAMBDA f : f \in {"AF_INET", "AF_INET6"})
        IN [j \in DOMAIN fs |-> wpdk_get_if_info(as[k], fs[j])]])

\* A list is fetched when the client holds none, and flags for a name of its list.
Call(name) == call' = [at |-> "query", name |-> name, buf |-> 0, len |-> 0, seen |-> <<>>]

wpdk_getifaddrs ==
    /\ call = NULL /\ given = NULL
    /\ Call(NULL)
    /\ UNCHANGED <<adapters, changes, heap, given, answer>>

wpdk_getifflags ==
    /\ call = NULL /\ given # NULL
    /\ \E k \in DOMAIN given : Call(given[k].name)
    /\ answer' = NULL
    /\ UNCHANGED <<adapters, changes, heap, given>>

At(where) == call # NULL /\ call.at = where
Size(as) == Len(as) + 1
Held == IF call.buf = 0 THEN 0 ELSE 1

\* GetAdaptersAddresses fills the buffer, or tells the size it needs.
Query ==
    /\ At("query")
    /\ call' = IF call.buf >= Size(adapters)
               THEN [call EXCEPT !.at = "have", !.seen = adapters]
               ELSE [call EXCEPT !.at = "grow", !.len = Size(adapters)]
    /\ UNCHANGED <<adapters, changes, heap, given, answer>>

\* A bug the loop might have: the size is taken one short.
GrowShort ==
    /\ At("grow")
    /\ call' = [call EXCEPT !.at = "query", !.buf = call.len - 1]
    /\ heap' = heap + 1 - Held
    /\ UNCHANGED <<adapters, changes, given, answer>>

Grow ==
    /\ At("grow")
    /\ call' = [call EXCEPT !.at = "query", !.buf = call.len]
    /\ heap' = heap + 1 - Held
    /\ UNCHANGED <<adapters, changes, given, answer>>

\* A bug the failures might have: the buffer stays.
FailForgets ==
    /\ At("query") \/ At("grow")
    /\ call' = NULL
    /\ UNCHANGED <<adapters, changes, heap, given, answer>>

\* Another error of the query, or realloc fails and leaves the old buffer: it is
\* released.
Fail ==
    /\ At("query") \/ At("grow")
    /\ call' = NULL
    /\ heap' = heap - Held
    /\ UNCHANGED <<adapters, changes, given, answer>>

\* The list, each entry in front of the one before; the buffer is released.
Build ==
    /\ At("have") /\ call.name = NULL
    /\ given' = Reverse(Entries(call.seen))
    /\ heap' = heap + Len(Entries(call.seen)) - 1
    /\ call' = NULL
    /\ UNCHANGED <<adapters, changes, answer>>

\* calloc fails at an entry: those before it and the buffer are released.
BuildFails ==
    /\ At("have") /\ call.name = NULL /\ Entries(call.seen) # <<>>
    /\ heap' = heap - 1
    /\ call' = NULL
    /\ UNCHANGED <<adapters, changes, given, answer>>

\* The flags of the first address with the name, or EINVAL.  `answer' keeps only
\* what was read from the adapters as they are now.
Look ==
    /\ At("have") /\ call.name # NULL
    /\ LET hits == SelectSeq(Entries(call.seen), LAMBDA e : e.name = call.name)
       IN answer' = IF hits = <<>> \/ call.seen # adapters THEN NULL ELSE hits[1]
    /\ heap' = heap - 1
    /\ call' = NULL
    /\ UNCHANGED <<adapters, changes, given>>

wpdk_freeifaddrs ==
    /\ call = NULL /\ given # NULL
    /\ heap' = heap - Len(given)
    /\ given' = NULL /\ answer' = NULL
    /\ UNCHANGED <<adapters, changes, call>>

\* The adapters change at any time; a list made before is out of date.
Change ==
    /\ changes < MaxChanges
    /\ changes' = changes + 1
    /\ adapters' \in Configs \ {adapters}
    /\ answer' = NULL
    /\ UNCHANGED <<call, heap, given>>

Step == Query \/ Grow \/ Fail \/ Build \/ BuildFails \/ Look

Next == wpdk_getifaddrs \/ wpdk_getifflags \/ wpdk_freeifaddrs \/ Step \/ Change

Spec == Init /\ [][Next]_vars /\ WF_vars(Step)
-----------------------------------------------------------------------------
(* Every allocation alive is the buffer of the call or an entry of the list    *)
(* the client holds, after every failure and every retry.                     *)
HeapAccounted ==
    heap = (IF call = NULL THEN 0 ELSE Held) + (IF given = NULL THEN 0 ELSE Len(given))

(* While the adapters stay as they are, a name tells its interface: the flags  *)
(* answered for it are those of every address of that name.                   *)
NameTellsInterface ==
    answer # NULL =>
        \A k \in DOMAIN Entries(adapters) :
            Entries(adapters)[k].name = answer.name => Entries(adapters)[k].flags = answer.flags

(* The buffer grows until the adapters fit, so a call returns once they stop    *)
(* changing.                                                                  *)
Returns == call # NULL ~> call = NULL
=========================================================================
