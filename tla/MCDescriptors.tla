---------------------------- MODULE MCDescriptors ----------------------------
(* Epoll and Poll for TLC, each with clients that keep to its rules and with   *)
(* clients that do not.  A behaviour is one of the part named by the variable  *)
(* part; the variables of the other module are not used in it.                *)
EXTENDS FiniteSets, TLC

CONSTANTS
    f1, f2, f3, s1, s2, s3,     \* descriptors and sockets of the large instance
    d1, d2, k1, k2,             \* and of the small ones
    Invalid, None

VARIABLES
    part, socket, ready,
    exists, start, maxcount, slot, event, interest,     \* of Epoll
    pc, events, revents, sets, asked                    \* of Poll

epoll == <<exists, start, maxcount, slot, event, interest>>
poll == <<pc, events, revents, sets, asked>>

TidyEpoll == INSTANCE Epoll WITH
    Fds <- {f1, f2, f3}, Sockets <- {s1, s2, s3}, Size <- 3, MaxEvents <- 2, Tidy <- TRUE
UntidyEpoll == INSTANCE Epoll WITH
    Fds <- {d1, d2}, Sockets <- {k1, k2}, Size <- 2, MaxEvents <- 2, Tidy <- FALSE
ASSUME TidyEpoll!InvalidAssumption /\ TidyEpoll!EpollAssumption

CarefulPoll == INSTANCE Poll WITH
    Fds <- {d1, d2}, Sockets <- {k1, k2}, Watched <- {"in", "pri"}, Careful <- TRUE
RacingPoll == INSTANCE Poll WITH
    Fds <- {d1, d2}, Sockets <- {k1, k2}, Watched <- {"in", "pri"}, Careful <- FALSE
ASSUME CarefulPoll!PollAssumption

MCInit ==
    \/ /\ \/ part = "tidy" /\ TidyEpoll!Init
          \/ part = "untidy" /\ UntidyEpoll!Init
       /\ pc = None /\ events = None /\ revents = None /\ sets = None /\ asked = None
    \/ /\ \/ part = "careful" /\ CarefulPoll!Init
          \/ part = "racing" /\ RacingPoll!Init
       /\ exists = None /\ start = None /\ maxcount = None /\ slot = None
       /\ event = None /\ interest = None

MCNext ==
    /\ UNCHANGED part
    /\ \/ part = "tidy" /\ TidyEpoll!Next /\ UNCHANGED poll
       \/ part = "untidy" /\ UntidyEpoll!Next /\ UNCHANGED poll
       \/ part = "careful" /\ CarefulPoll!Next /\ UNCHANGED epoll
       \/ part = "racing" /\ RacingPoll!Next /\ UNCHANGED epoll

MCSpec == MCInit /\ [][MCNext]_<<part, socket, ready, epoll, poll>>

\* The two descriptors of the small instances are exchanged along with two of
\* the three of the large one, and so are the sockets: no state belongs to both.
Follow(p, x, y) == IF Cardinality({v \in DOMAIN p : p[v] = v}) = 1 THEN p @@ x :> y @@ y :> x ELSE p
Symmetry ==
    {Follow(p, d1, d2) : p \in Permutations({f1, f2, f3})}
    \cup {Follow(p, k1, k2) : p \in Permutations({s1, s2, s3})}
-----------------------------------------------------------------------------
\* For clients that delete before they close, the epoll holds exactly the
\* descriptors and conditions asked for (epoll.c:111-163).
InterestExact == part = "tidy" => TidyEpoll!TypeOK /\ TidyEpoll!InterestExact

\* epoll_wait reports only what is due, no descriptor twice, and leaves something
\* out only when the array is full (epoll.c:208-236); poll reports a descriptor
\* for conditions asked of it only, and as invalid exactly when it had no socket
\* at the start (poll.c:72-91).
ReportsExact ==
    /\ part = "tidy" => TidyEpoll!WaitExact
    /\ part = "careful" => CarefulPoll!ReportedAsAsked

\* No SOCKET has two slots and every used slot is scanned, whatever was closed
\* behind the epoll's back (epoll.c:111-163).
SlotsSound == part = "untidy" => UntidyEpoll!TypeOK /\ UntidyEpoll!SlotsSound

\* A descriptor with no socket at the end is reported for nothing but being
\* invalid at the start, whatever was closed during the wait (poll.c:74).
GoneIsSilent == RacingPoll!GoneIsSilent
=============================================================================
