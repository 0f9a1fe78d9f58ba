-------------------------------- MODULE Poll ---------------------------------
(***************************************************************************)
(* poll (src/poll.c) and select with the fd_set operations (src/select.c)  *)
(* beside threads that open and close descriptors.  Both look descriptors  *)
(* up twice: when the sets for Winsock's select are built, and when its    *)
(* answer is turned back into descriptors.                                 *)
(***************************************************************************)
EXTENDS Descriptors

CONSTANTS
    Watched,  \* the conditions that occur, and that clients ask about
    Careful   \* no descriptor is closed while it is polled

PollAssumption == Watched \subseteq {"in", "out", "pri"} /\ Careful \in BOOLEAN

VARIABLES
    ready,    \* the conditions that hold of each SOCKET
    pc,
    events,   \* fds[i].events for each descriptor polled
    revents,  \* fds[i].revents
    sets,     \* the fd_sets, by condition
    asked     \* the SOCKET each descriptor had when it was added to the sets

vars == <<socket, ready, pc, events, revents, sets, asked>>
call == <<pc, events, revents, sets, asked>>

\* POLLIN, POLLOUT, POLLPRI and the read, write and except sets.
Conditions == {"in", "out", "pri"}
Report(c) == IF c = "pri" THEN {"err", "hup", "pri"} ELSE {c}
Empty == [c \in Conditions |-> {}]

Init ==
    /\ NoSockets
    /\ ready = [s \in Sockets |-> {}]
    /\ pc = "idle"
    /\ events = [fd \in {} |-> {}] /\ revents = events /\ asked = events
    /\ sets = Empty

OpenSocket(fd, s) ==
    /\ Open(fd, s)
    /\ ready' = [ready EXCEPT ![s] = {}]
    /\ UNCHANGED call

CloseFd(fd) ==
    /\ Careful => pc = "idle" \/ fd \notin DOMAIN events
    /\ Close(fd)
    /\ UNCHANGED <<ready, call>>

Change(s) ==
    /\ IsOpen(s)
    /\ \E c \in SUBSET Watched : ready' = [ready EXCEPT ![s] = c]
    /\ UNCHANGED <<socket, call>>

\* wpdk_fd_set, for every descriptor of the call.
FdSet(want) ==
    [c \in Conditions |->
        {GetSocket(fd) : fd \in {f \in DOMAIN want : c \in want[f] /\ GetSocket(f) # Invalid}}]

\* Mutant: revents is not cleared first.
StartDirty(want) ==
    /\ pc = "idle"
    /\ pc' = "select"
    /\ events' = want
    /\ revents' = [fd \in DOMAIN want |->
        IF GetSocket(fd) = Invalid THEN {"nval"}
        ELSE IF fd \in DOMAIN revents THEN revents[fd] ELSE {}]
    /\ sets' = FdSet(want)
    /\ asked' = [fd \in DOMAIN want |-> GetSocket(fd)]
    /\ UNCHANGED <<socket, ready>>

Start(want) ==
    /\ pc = "idle"
    /\ pc' = "select"
    /\ events' = want
    /\ revents' = [fd \in DOMAIN want |-> IF GetSocket(fd) = Invalid THEN {"nval"} ELSE {}]
    /\ sets' = FdSet(want)
    /\ asked' = [fd \in DOMAIN want |-> GetSocket(fd)]
    /\ UNCHANGED <<socket, ready>>

Asked == UNION {sets[c] : c \in Conditions}

\* Winsock's select returns: on something ready, or when the time is up.
Select ==
    /\ pc = "select" /\ \A s \in Asked : IsOpen(s)
    /\ sets' = [c \in Conditions |-> {s \in sets[c] : c \in ready[s]}]
    /\ pc' = "report"
    /\ UNCHANGED <<socket, ready, events, revents, asked>>

SelectFails ==
    /\ pc = "select" /\ \E s \in Asked : ~IsOpen(s)
    /\ pc' = "idle" /\ sets' = Empty
    /\ UNCHANGED <<socket, ready, events, revents, asked>>

\* wpdk_fd_isset.
FdIsset(fd, c) == GetSocket(fd) # Invalid /\ GetSocket(fd) \in sets[c]

\* Mutant: the SOCKET found at first is looked for, whatever the descriptor is now.
ReportAsked ==
    /\ pc = "report"
    /\ revents' = [fd \in DOMAIN events |->
        revents[fd] \cup UNION {Report(c) : c \in {d \in Conditions : asked[fd] \in sets[d]}}]
    /\ pc' = "idle" /\ sets' = Empty
    /\ UNCHANGED <<socket, ready, events, asked>>

ReportAll ==
    /\ pc = "report"
    /\ revents' = [fd \in DOMAIN events |->
        revents[fd] \cup UNION {Report(c) : c \in {d \in Conditions : FdIsset(fd, d)}}]
    /\ pc' = "idle" /\ sets' = Empty
    /\ UNCHANGED <<socket, ready, events, asked>>

Requests == UNION {[d -> SUBSET Watched] : d \in SUBSET Fds \ {{}}}

Next ==
    \/ \E fd \in Fds, s \in Sockets : OpenSocket(fd, s)
    \/ \E fd \in Fds : CloseFd(fd)
    \/ \E s \in Sockets : Change(s)
    \/ \E want \in Requests : Start(want)
    \/ Select \/ SelectFails \/ ReportAll

Spec == Init /\ [][Next]_vars

-----------------------------------------------------------------------------
\* poll.c:72-91: a descriptor is reported for conditions asked of it only, and
\* as invalid exactly when it had no socket at the start; select is given no
\* closed SOCKET.
ReportedAsAsked ==
    /\ pc = "idle" => \A fd \in DOMAIN events :
        /\ revents[fd] \ {"nval"} \subseteq UNION {Report(c) : c \in events[fd]}
        /\ "nval" \in revents[fd] <=> asked[fd] = Invalid
    /\ pc = "select" => \A s \in Asked : IsOpen(s)

SilentStep ==
    pc = "report" /\ pc' = "idle" =>
        \A fd \in DOMAIN events : socket[fd] = Invalid => revents'[fd] \subseteq {"nval"}

\* poll.c:74: even when descriptors are closed and opened during the wait, a
\* descriptor with no socket at the end is reported for nothing but being
\* invalid at the start.
GoneIsSilent == [][SilentStep]_vars
=============================================================================
