----------------------------- MODULE SocketTable -----------------------------
(***************************************************************************)
(* The table of socket descriptors in src/socket.c and the threads that    *)
(* open, use and close them.                                               *)
(*                                                                         *)
(* A descriptor is its index in wpdk_socket_fds (the code adds             *)
(* socketbase).  Winsock is external: it hands out SOCKETs, counts         *)
(* WSAStartup calls and keeps each SOCKET's mode.                          *)
(***************************************************************************)
EXTENDS Integers, FiniteSets

CONSTANTS
    Threads,
    Sockets,     \* the values of type SOCKET, reused once closed
    Invalid,     \* INVALID_SOCKET
    MaxSockets,  \* maxsockets
    Calls,       \* the calls clients make on descriptors
    Careful,     \* clients close each descriptor once, and use no closed one
    None

ASSUME SocketAssumption ==
    /\ Invalid \notin Sockets /\ MaxSockets \in Nat \ {0} /\ Careful \in BOOLEAN
    /\ Calls \subseteq {"close", "accept", "accept4", "use", "exchange", "option", "getfl", "setfl"}
    /\ IsFiniteSet(Threads) /\ None \notin Threads

VARIABLES
    ready,   \* wpdk_socket_ready
    table,   \* wpdk_socket_fds is not NULL
    wsa,     \* WSAStartup calls not yet matched by WSACleanup
    socket,  \* wpdk_socket_fds[i].socket
    info,    \* domain (as: is it AF_UNIX) and flags (as: O_NONBLOCK) of each slot
    lock,    \* the SRW lock of each slot
    open,    \* the SOCKETs that are open
    kind,    \* what each SOCKET really is
    reuse,   \* the SOCKETs that SO_REUSEADDR was set on
    held,    \* the SOCKET made for each descriptor the clients may use
    pc,
    op,      \* the call each thread is in
    fd,      \* its descriptor, or its place in the scan for one
    mine,    \* its SOCKET s
    want     \* the domain and flags it opens a socket with

winsock == <<wsa, open, kind, reuse>>
slots == <<socket, info, lock>>
locals == <<op, fd, mine, want>>
vars == <<ready, table, slots, winsock, held, pc, locals>>

Fds == 0 .. MaxSockets - 1
Info == [unix : BOOLEAN, nb : BOOLEAN]
Plain == [unix |-> FALSE, nb |-> FALSE]

Goto(t, label) == pc' = [pc EXCEPT ![t] = label]

\* The call is over and its locals are gone.
Return(t) ==
    /\ Goto(t, "idle")
    /\ op' = [op EXCEPT ![t] = "socket"]
    /\ fd' = [fd EXCEPT ![t] = 0]
    /\ mine' = [mine EXCEPT ![t] = Invalid]
    /\ want' = [want EXCEPT ![t] = Plain]

Closesocket(s) ==
    /\ open' = open \ {s}
    /\ reuse' = reuse \ {s}
    /\ kind' = [kind EXCEPT ![s] = Plain]

Init ==
    /\ ready = FALSE /\ table = FALSE /\ wsa = 0
    /\ socket = [i \in Fds |-> Invalid]
    /\ info = [i \in Fds |-> Plain]
    /\ lock = [i \in Fds |-> None]
    /\ open = {} /\ reuse = {}
    /\ kind = [s \in Sockets |-> Plain]
    /\ held = [i \in Fds |-> Invalid]
    /\ pc = [t \in Threads |-> "idle"]
    /\ op = [t \in Threads |-> "socket"]
    /\ fd = [t \in Threads |-> 0]
    /\ mine = [t \in Threads |-> Invalid]
    /\ want = [t \in Threads |-> Plain]

-----------------------------------------------------------------------------
(***************************************************************************)
(* wpdk_socket_startup, called by socket() until the table is ready and by *)
(* getaddrinfo() always.                                                   *)
(***************************************************************************)
Socket(t) ==
    /\ pc[t] = "idle"
    /\ op' = [op EXCEPT ![t] = "socket"]
    /\ \E w \in Info : want' = [want EXCEPT ![t] = w]
    /\ Goto(t, IF ready THEN "create" ELSE "startup")
    /\ UNCHANGED <<ready, table, slots, winsock, held, fd, mine>>

Getaddrinfo(t) ==
    /\ pc[t] = "idle"
    /\ op' = [op EXCEPT ![t] = "resolve"]
    /\ Goto(t, "startup")
    /\ UNCHANGED <<ready, table, slots, winsock, held, fd, mine, want>>

StartupFails(t) ==
    /\ pc[t] = "startup" /\ Return(t)
    /\ UNCHANGED <<ready, table, slots, winsock, held>>

Startup(t) ==
    /\ pc[t] = "startup"
    /\ wsa' = wsa + 1
    /\ Goto(t, "publish")
    /\ UNCHANGED <<ready, table, slots, open, kind, reuse, held, locals>>

\* The first table stays; later ones are freed again.
PublishTable(t) ==
    /\ pc[t] = "publish"
    /\ table' = TRUE
    /\ Goto(t, "ready")
    /\ UNCHANGED <<ready, slots, winsock, held, locals>>

\* Mutant: a thread that comes second keeps its WSAStartup.
PublishReadyTwice(t) ==
    /\ pc[t] = "ready"
    /\ ready' = TRUE
    /\ IF op[t] = "resolve" THEN Return(t) ELSE Goto(t, "create") /\ UNCHANGED locals
    /\ UNCHANGED <<table, slots, winsock, held>>

PublishReady(t) ==
    /\ pc[t] = "ready"
    /\ ready' = TRUE
    /\ wsa' = IF ready THEN wsa - 1 ELSE wsa
    /\ IF op[t] = "resolve" THEN Return(t) ELSE Goto(t, "create") /\ UNCHANGED locals
    /\ UNCHANGED <<table, slots, open, kind, reuse, held>>

-----------------------------------------------------------------------------
\* socket() or accept(), and ioctlsocket(FIONBIO) at the start of
\* wpdk_allocate_socket.  When one fails no SOCKET is left.
CreateFails(t) ==
    /\ pc[t] = "create" /\ Return(t)
    /\ UNCHANGED <<ready, table, slots, winsock, held>>

Create(t) ==
    /\ pc[t] = "create"
    /\ \E s \in Sockets \ open :
        /\ mine' = [mine EXCEPT ![t] = s]
        /\ open' = open \cup {s}
        /\ kind' = [kind EXCEPT ![s] = want[t]]
        /\ reuse' = reuse \ {s}
    /\ fd' = [fd EXCEPT ![t] = 0]
    /\ Goto(t, "scan")
    /\ UNCHANGED <<ready, table, slots, wsa, held, op, want>>

\* One slot of the scan: a slot read as free that another thread takes before
\* the compare-and-swap is passed over like one read as taken.
Scan(t) ==
    /\ pc[t] = "scan" /\ fd[t] < MaxSockets
    /\ IF socket[fd[t]] = Invalid
       THEN socket' = [socket EXCEPT ![fd[t]] = mine[t]] /\ Goto(t, "describe") /\ UNCHANGED fd
       ELSE fd' = [fd EXCEPT ![t] = @ + 1] /\ UNCHANGED <<socket, pc>>
    /\ UNCHANGED <<ready, table, info, lock, winsock, held, op, mine, want>>

\* Mutant: a full table leaves the SOCKET open.
TableFullKeep(t) ==
    /\ pc[t] = "scan" /\ fd[t] = MaxSockets
    /\ Return(t)
    /\ UNCHANGED <<ready, table, slots, winsock, held>>

TableFull(t) ==
    /\ pc[t] = "scan" /\ fd[t] = MaxSockets
    /\ Closesocket(mine[t])
    /\ Return(t)
    /\ UNCHANGED <<ready, table, slots, wsa, held>>

Describe(t) ==
    /\ pc[t] = "describe"
    /\ info' = [info EXCEPT ![fd[t]] = want[t]]
    /\ held' = [held EXCEPT ![fd[t]] = mine[t]]
    /\ Return(t)
    /\ UNCHANGED <<ready, table, socket, lock, winsock>>

-----------------------------------------------------------------------------
\* wpdk_get_socket at the start of a call on descriptor i.  With no SOCKET
\* there the call returns EBADF and changes nothing.
Allowed(i, o) ==
    Careful =>
        /\ held[i] # Invalid
        /\ o = "close" =>
            \A u \in Threads : fd[u] = i => pc[u] \in {"scan", "closing"} \/ op[u] \in {"socket", "resolve"}

Get(t) ==
    /\ pc[t] = "idle"
    /\ \E i \in Fds, o \in Calls :
        /\ Allowed(i, o)
        /\ table /\ socket[i] # Invalid
        /\ fd' = [fd EXCEPT ![t] = i]
        /\ op' = [op EXCEPT ![t] = o]
        /\ mine' = [mine EXCEPT ![t] = socket[i]]
        /\ held' = IF o = "close" THEN [held EXCEPT ![i] = Invalid] ELSE held
    /\ Goto(t, "call")
    /\ UNCHANGED <<ready, table, slots, winsock, want>>

\* Mutant: the slot is cleared whatever is in it.
CloseClear(t) ==
    /\ pc[t] = "call" /\ op[t] = "close"
    /\ socket' = [socket EXCEPT ![fd[t]] = Invalid] /\ Goto(t, "closing")
    /\ UNCHANGED <<ready, table, info, lock, winsock, held, locals>>

CloseSwap(t) ==
    /\ pc[t] = "call" /\ op[t] = "close"
    /\ IF socket[fd[t]] = mine[t]
       THEN /\ socket' = [socket EXCEPT ![fd[t]] = Invalid]
            /\ Goto(t, "closing") /\ UNCHANGED locals
       ELSE Return(t) /\ UNCHANGED socket
    /\ UNCHANGED <<ready, table, info, lock, winsock, held>>

CloseSocket(t) ==
    /\ pc[t] = "closing"
    /\ Closesocket(mine[t])
    /\ Return(t)
    /\ UNCHANGED <<ready, table, slots, wsa, held>>

\* accept takes domain and flags from the listening socket's slot, accept4
\* the domain only.
Accept(t) ==
    /\ pc[t] = "call" /\ op[t] \in {"accept", "accept4"}
    /\ \E nb \in IF op[t] = "accept" THEN {info[fd[t]].nb} ELSE BOOLEAN :
        want' = [want EXCEPT ![t] = [unix |-> info[fd[t]].unix, nb |-> nb]]
    /\ Goto(t, "create")
    /\ UNCHANGED <<ready, table, slots, winsock, held, op, fd, mine>>

\* The wrappers that check their arguments and pass the SOCKET on, and those
\* that first turn an iovec into an array of WSABUFs.
Exchange(t) ==
    /\ pc[t] = "call" /\ op[t] = "exchange" /\ Return(t)
    /\ UNCHANGED <<ready, table, slots, winsock, held>>

Use(t) ==
    /\ pc[t] = "call" /\ op[t] = "use" /\ Return(t)
    /\ UNCHANGED <<ready, table, slots, winsock, held>>

Setsockopt(t) ==
    /\ pc[t] = "call" /\ op[t] = "option"
    /\ reuse' = IF info[fd[t]].unix THEN reuse ELSE reuse \cup {mine[t]}
    /\ Return(t)
    /\ UNCHANGED <<ready, table, slots, wsa, open, kind, held>>

Getfl(t) ==
    /\ pc[t] = "call" /\ op[t] = "getfl" /\ Return(t)
    /\ UNCHANGED <<ready, table, slots, winsock, held>>

\* Mutant: F_SETFL does not wait for the lock.
SetflUnlocked(t) ==
    /\ pc[t] = "call" /\ op[t] = "setfl"
    /\ \E nb \in BOOLEAN :
        /\ kind' = [kind EXCEPT ![mine[t]].nb = nb]
        /\ want' = [want EXCEPT ![t] = [info[fd[t]] EXCEPT !.nb = nb]]
    /\ lock' = [lock EXCEPT ![fd[t]] = t]
    /\ Goto(t, "setfl")
    /\ UNCHANGED <<ready, table, socket, info, wsa, open, reuse, held, op, fd, mine>>

\* wpdk_socket_fcntl F_SETFL: the lock is taken and the mode of the SOCKET
\* changed, which may fail; then the flags are updated and the lock released.
Setfl(t) ==
    /\ pc[t] = "call" /\ op[t] = "setfl" /\ lock[fd[t]] = None
    /\ \E nb \in BOOLEAN :
        /\ kind' = [kind EXCEPT ![mine[t]].nb = nb]
        /\ want' = [want EXCEPT ![t] = [info[fd[t]] EXCEPT !.nb = nb]]
    /\ lock' = [lock EXCEPT ![fd[t]] = t]
    /\ Goto(t, "setfl")
    /\ UNCHANGED <<ready, table, socket, info, wsa, open, reuse, held, op, fd, mine>>

SetflFails(t) ==
    /\ pc[t] = "call" /\ op[t] = "setfl" /\ lock[fd[t]] = None /\ Return(t)
    /\ UNCHANGED <<ready, table, slots, winsock, held>>

SetflDone(t) ==
    /\ pc[t] = "setfl"
    /\ info' = [info EXCEPT ![fd[t]].nb = want[t].nb]
    /\ lock' = [lock EXCEPT ![fd[t]] = None]
    /\ Return(t)
    /\ UNCHANGED <<ready, table, socket, winsock, held>>

-----------------------------------------------------------------------------
Step(t) ==
    \/ Socket(t) \/ Getaddrinfo(t) \/ StartupFails(t) \/ Startup(t)
    \/ PublishTable(t) \/ PublishReady(t) \/ CreateFails(t) \/ Create(t)
    \/ Scan(t) \/ TableFull(t) \/ Describe(t)
    \/ Get(t) \/ CloseSwap(t) \/ CloseSocket(t) \/ Accept(t) \/ Use(t) \/ Exchange(t)
    \/ Setsockopt(t) \/ Getfl(t) \/ Setfl(t) \/ SetflFails(t) \/ SetflDone(t)

Next == \E t \in Threads : Step(t)

Spec == Init /\ [][Next]_vars

-----------------------------------------------------------------------------
TypeOK ==
    /\ ready \in BOOLEAN /\ table \in BOOLEAN /\ wsa \in Nat
    /\ socket \in [Fds -> Sockets \cup {Invalid}]
    /\ info \in [Fds -> Info]
    /\ lock \in [Fds -> Threads \cup {None}]
    /\ open \subseteq Sockets /\ reuse \subseteq Sockets
    /\ kind \in [Sockets -> Info]
    /\ held \in [Fds -> Sockets \cup {Invalid}]
    /\ pc \in [Threads -> {"idle", "startup", "publish", "ready", "create", "scan",
                           "describe", "call", "closing", "setfl"}]
    /\ op \in [Threads -> Calls \cup {"socket", "resolve"}]
    /\ fd \in [Threads -> 0 .. MaxSockets]
    /\ mine \in [Threads -> Sockets \cup {Invalid}]
    /\ want \in [Threads -> Info]

InTable == {socket[i] : i \in Fds} \ {Invalid}
Carrying == {t \in Threads : pc[t] \in {"scan", "closing"}}

\* socket.c:95-109, 158-169: every open SOCKET is in exactly one slot or in the
\* hands of exactly one thread that is about to store or to close it, so none
\* leaks and none is closed twice - whatever descriptors clients pass, however
\* often they close them, and although SOCKET values are reused.
Accounted ==
    /\ open = InTable \cup {mine[t] : t \in Carrying}
    /\ \A t \in Carrying : mine[t] \in open \ InTable
    /\ \A t, u \in Carrying : mine[t] = mine[u] => t = u
    /\ \A i, j \in Fds : socket[i] = socket[j] /\ socket[i] # Invalid => i = j

\* socket.c:34-69: WSAStartup counts once for the process, plus once for each
\* thread still between its WSAStartup and the compare-and-swap, and a thread
\* that finds the library ready finds the table.
StartedOnce ==
    /\ wsa = Cardinality({t \in Threads : pc[t] \in {"publish", "ready"}}) + IF ready THEN 1 ELSE 0
    /\ ready => table

\* socket.c:135-152: among clients that use no descriptor after its close, a
\* descriptor reaches the SOCKET it was returned for, from its return to its
\* close, in every call.
DescriptorStable ==
    /\ \A i \in Fds : held[i] # Invalid => socket[i] = held[i] /\ held[i] \in open
    /\ \A t \in Threads :
        pc[t] \in {"call", "setfl", "create"} /\ op[t] \in Calls =>
            mine[t] = socket[fd[t]] /\ mine[t] \in open

\* socket.c:98-100, 709-750: domain and flags of a descriptor are those of its
\* SOCKET unless F_SETFL is changing them, whatever the slot was used for
\* before.
Described ==
    \A i \in Fds : held[i] # Invalid =>
        /\ info[i].unix = kind[held[i]].unix
        /\ lock[i] = None => info[i].nb = kind[held[i]].nb

\* socket.c:651-654, "Setting SO_REUSEADDR for AF_UNIX causes the bind to fail":
\* it never is.
NoUnixReuse == \A s \in reuse \cap open : ~kind[s].unix
=============================================================================
