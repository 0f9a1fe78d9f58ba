-------------------------------- MODULE Epoll --------------------------------
(***************************************************************************)
(* One epoll descriptor of src/epoll.c on top of the socket descriptors.   *)
(* As the comments of the source ask, its calls are made one at a time.    *)
(* Winsock's select, with a zero timeout, is external: it fails on a       *)
(* SOCKET that is not open and otherwise keeps the ready ones.             *)
(***************************************************************************)
EXTENDS Descriptors, Sequences, SequencesExt, Functions

CONSTANTS
    Size,       \* FD_SETSIZE
    MaxEvents,  \* the largest maxevents clients pass
    Tidy,       \* clients delete a descriptor from the epoll before they close it
    None

EpollAssumption == Size \in Nat \ {0} /\ MaxEvents \in Nat \ {0} /\ Tidy \in BOOLEAN

VARIABLES
    exists,
    start,
    maxcount,
    slot,      \* ep->socket
    event,     \* ep->event: the client's data (its descriptor) and interest
    ready,     \* the conditions that hold of each SOCKET
    interest   \* the conditions clients have asked for, by descriptor

epoll == <<exists, start, maxcount, slot, event>>
vars == <<socket, epoll, ready, interest>>

Conditions == {"in", "err"}
Slots == 0 .. Size - 1
Used == {i \in Slots : slot[i] # Invalid}
With(f, x, c) == [y \in DOMAIN f \cup {x} |-> IF y = x THEN c ELSE f[y]]
Without(f, x) == [y \in DOMAIN f \ {x} |-> f[y]]

Init ==
    /\ NoSockets
    /\ exists = FALSE /\ start = 0 /\ maxcount = 0
    /\ slot = [i \in Slots |-> Invalid]
    /\ event = [i \in Slots |-> None]
    /\ ready = [s \in Sockets |-> {}]
    /\ interest = <<>>

-----------------------------------------------------------------------------
OpenSocket(fd, s) ==
    /\ Open(fd, s)
    /\ ready' = [ready EXCEPT ![s] = {}]
    /\ UNCHANGED <<epoll, interest>>

\* Closing a descriptor tells the epoll nothing.
CloseFd(fd) ==
    /\ Tidy => fd \notin DOMAIN interest
    /\ Close(fd)
    /\ interest' = Without(interest, fd)
    /\ UNCHANGED <<epoll, ready>>

Change(s) ==
    /\ IsOpen(s)
    /\ \E c \in SUBSET Conditions : ready' = [ready EXCEPT ![s] = c]
    /\ UNCHANGED <<socket, epoll, interest>>

NewEpoll ==
    /\ start' = 0 /\ maxcount' = 0
    /\ slot' = [i \in Slots |-> Invalid]
    /\ event' = [i \in Slots |-> None]

Create ==
    /\ ~exists /\ exists' = TRUE /\ NewEpoll
    /\ UNCHANGED <<socket, ready, interest>>

\* The structure is freed.
CloseEpoll ==
    /\ exists /\ exists' = FALSE /\ NewEpoll
    /\ interest' = <<>>
    /\ UNCHANGED <<socket, ready>>

-----------------------------------------------------------------------------
Present(s) == {i \in 0 .. maxcount - 1 : slot[i] = s}

\* Mutant: a SOCKET already there is added again.
AddTwice(fd, c) ==
    /\ exists /\ GetSocket(fd) # Invalid
    /\ Used # Slots
    /\ LET i == CHOOSE j \in Slots \ Used : \A k \in Slots \ Used : j <= k IN
       /\ maxcount' = IF i >= maxcount THEN i + 1 ELSE maxcount
       /\ slot' = [slot EXCEPT ![i] = GetSocket(fd)]
       /\ event' = [event EXCEPT ![i] = [data |-> fd, events |-> c]]
    /\ interest' = With(interest, fd, c)
    /\ UNCHANGED <<socket, exists, start, ready>>

\* EPOLL_CTL_ADD; with the SOCKET present (EEXIST) or no free slot (ENOSPC)
\* nothing changes.
Add(fd, c) ==
    /\ exists /\ GetSocket(fd) # Invalid
    /\ Present(GetSocket(fd)) = {} /\ Used # Slots
    /\ LET i == CHOOSE j \in Slots \ Used : \A k \in Slots \ Used : j <= k IN
       /\ maxcount' = IF i >= maxcount THEN i + 1 ELSE maxcount
       /\ slot' = [slot EXCEPT ![i] = GetSocket(fd)]
       /\ event' = [event EXCEPT ![i] = [data |-> fd, events |-> c]]
    /\ interest' = With(interest, fd, c)
    /\ UNCHANGED <<socket, exists, start, ready>>

\* Mutant: every deletion shortens the array.
DelShort(fd) ==
    /\ exists /\ GetSocket(fd) # Invalid
    /\ \E i \in Present(GetSocket(fd)) :
        /\ \A j \in Present(GetSocket(fd)) : i <= j
        /\ maxcount' = maxcount - 1
        /\ slot' = [slot EXCEPT ![i] = Invalid]
        /\ event' = [event EXCEPT ![i] = None]
    /\ interest' = Without(interest, fd)
    /\ UNCHANGED <<socket, exists, start, ready>>

\* EPOLL_CTL_DEL; a SOCKET that is not there (ENOENT) changes nothing.  What
\* stays in the slot's event is never read again.
Del(fd) ==
    /\ exists /\ GetSocket(fd) # Invalid
    /\ \E i \in Present(GetSocket(fd)) :
        /\ \A j \in Present(GetSocket(fd)) : i <= j
        /\ maxcount' = IF i = maxcount - 1 THEN maxcount - 1 ELSE maxcount
        /\ slot' = [slot EXCEPT ![i] = Invalid]
        /\ event' = [event EXCEPT ![i] = None]
    /\ interest' = Without(interest, fd)
    /\ UNCHANGED <<socket, exists, start, ready>>

-----------------------------------------------------------------------------
\* What select leaves in its two sets for a slot.
Hit(i) == IF slot[i] = Invalid THEN {} ELSE event[i].events \cap ready[slot[i]]

Watched == {i \in 0 .. maxcount - 1 : slot[i] # Invalid /\ event[i].events # {}}

\* A SOCKET that is in both sets is counted twice.
Rc == Cardinality({p \in Watched \X Conditions : p[2] \in Hit(p[1])})

\* The slots in the order of the two loops: from start to the end, then from
\* the beginning to start.
Order ==
    LET first == IF start < maxcount THEN [k \in 1 .. maxcount - start |-> start + k - 1] ELSE <<>>
    IN  first \o [k \in 1 .. start |-> k - 1]

Gather(max) ==
    LET hits == SelectSeq(Order, LAMBDA i : Hit(i) # {})
        n == IF Len(hits) < max THEN Len(hits) ELSE max
    IN  [k \in 1 .. n |-> [data |-> event[hits[k]].data, events |-> Hit(hits[k])]]

\* epoll_wait returns Gather(max).  Size bounds start: the code lets it grow
\* for ever.  A closed SOCKET among the slots makes select fail, and the call.
Wait(max) ==
    /\ exists /\ start < Size /\ \A i \in Watched : IsOpen(slot[i])
    /\ start' = IF Rc > Len(Gather(max)) THEN start + 1 ELSE start
    /\ UNCHANGED <<socket, exists, maxcount, slot, event, ready, interest>>

Next ==
    \/ \E fd \in Fds, s \in Sockets : OpenSocket(fd, s)
    \/ \E fd \in Fds : CloseFd(fd) \/ Del(fd)
    \/ \E fd \in Fds, c \in SUBSET Conditions : Add(fd, c)
    \/ \E s \in Sockets : Change(s)
    \/ Create \/ CloseEpoll
    \/ \E max \in 1 .. MaxEvents : Wait(max)

Spec == Init /\ [][Next]_vars

-----------------------------------------------------------------------------
TypeOK ==
    /\ socket \in [Fds -> Sockets \cup {Invalid}]
    /\ exists \in BOOLEAN /\ start \in 0 .. Size /\ maxcount \in 0 .. Size
    /\ slot \in [Slots -> Sockets \cup {Invalid}]
    /\ event \in [Slots -> [data : Fds, events : SUBSET Conditions] \cup {None}]
    /\ DOMAIN interest \subseteq Fds

\* epoll.c:111-163: no SOCKET has two slots and every used slot is scanned,
\* whatever was closed behind the epoll's back.
SlotsSound ==
    /\ \A i, j \in Used : slot[i] = slot[j] => i = j
    /\ \A i \in Used : i < maxcount

\* epoll.c:111-163: for clients that delete before they close, the epoll holds
\* exactly the descriptors and conditions asked for, by their SOCKETs.
InterestExact ==
    exists =>
        {<<slot[i], event[i]>> : i \in Used} =
        {<<socket[fd], [data |-> fd, events |-> interest[fd]]>> : fd \in DOMAIN interest}

\* What a client may be told: each descriptor with a condition asked for.
Due == {[data |-> fd, events |-> interest[fd] \cap ready[socket[fd]]] :
           fd \in {f \in DOMAIN interest : interest[f] \cap ready[socket[f]] # {}}}

\* epoll.c:208-236: a call reports only what is due, no descriptor twice, and
\* leaves something out only when the array is full - although the scan starts
\* somewhere else each time - and select is given no closed SOCKET.
WaitExact ==
    exists => \A max \in 1 .. MaxEvents :
        /\ ToSet(Gather(max)) \subseteq Due
        /\ IsInjective(Gather(max))
        /\ Len(Gather(max)) = IF Cardinality(Due) < max THEN Cardinality(Due) ELSE max
        /\ \A i \in Watched : IsOpen(slot[i])
=============================================================================
