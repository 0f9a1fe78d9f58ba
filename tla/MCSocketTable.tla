---------------------------- MODULE MCSocketTable ----------------------------
(* SocketTable for TLC, twice.  A behaviour is one of clients that do as they  *)
(* like, or (part = "careful") one of other clients, with a table of two       *)
(* slots, that use no descriptor they have closed and make every call.        *)
EXTENDS SocketTable, TLC

CONSTANTS u1, u2        \* the threads of the careful clients

VARIABLES part, ready2, table2, wsa2, socket2, info2, lock2, open2, kind2, reuse2, held2,
          pc2, op2, fd2, mine2, want2

vars2 == <<ready2, table2, wsa2, socket2, info2, lock2, open2, kind2, reuse2, held2,
           pc2, op2, fd2, mine2, want2>>
Polite == INSTANCE SocketTable WITH
    Threads <- {u1, u2}, MaxSockets <- 2, Careful <- TRUE,
    Calls <- {"close", "accept", "accept4", "use", "exchange", "option", "getfl", "setfl"},
    ready <- ready2, table <- table2, wsa <- wsa2, socket <- socket2, info <- info2,
    lock <- lock2, open <- open2, kind <- kind2, reuse <- reuse2, held <- held2,
    pc <- pc2, op <- op2, fd <- fd2, mine <- mine2, want <- want2

MCInit == part \in {"any", "careful"} /\ Init /\ Polite!Init

MCNext ==
    /\ UNCHANGED part
    /\ IF part = "any" THEN Next ELSE UNCHANGED vars
    /\ IF part = "careful" THEN Polite!Next ELSE UNCHANGED vars2

MCSpec == MCInit /\ [][MCNext]_<<part, vars, vars2>>

Symmetry == Permutations(Threads) \cup Permutations(Sockets)
-----------------------------------------------------------------------------
\* A descriptor of careful clients reaches the SOCKET it was returned for, from
\* its return to its close; domain and flags are those of that SOCKET, so that
\* SO_REUSEADDR is never set on one of domain AF_UNIX (socket.c:98-152,
\* 651-654, 709-750).
CarefulExact ==
    Polite!TypeOK /\ Polite!DescriptorStable /\ Polite!Described /\ Polite!NoUnixReuse
=============================================================================
