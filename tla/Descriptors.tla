----------------------------- MODULE Descriptors -----------------------------
(***************************************************************************)
(* The socket descriptors as the rest of the library sees them: each one   *)
(* stands for a SOCKET from the compare-and-swap that stores it to the one *)
(* that removes it (module SocketTable), and SOCKETs are reused.           *)
(***************************************************************************)
EXTENDS Integers, FiniteSets

CONSTANTS Fds, Sockets, Invalid

InvalidAssumption == Invalid \notin Sockets

VARIABLE socket

GetSocket(fd) == socket[fd]

NoSockets == socket = [fd \in Fds |-> Invalid]

Open(fd, s) ==
    /\ socket[fd] = Invalid /\ \A f \in Fds : socket[f] # s
    /\ socket' = [socket EXCEPT ![fd] = s]

Close(fd) ==
    /\ socket[fd] # Invalid
    /\ socket' = [socket EXCEPT ![fd] = Invalid]

IsOpen(s) == \E fd \in Fds : socket[fd] = s
=============================================================================
