-------------------------- MODULE SocketTableProofs --------------------------
(* Accounted holds for any number of threads, SOCKETs and slots.  The          *)
(* invariant adds to it what the locals of a call hold: a call on a descriptor *)
(* has a slot and a SOCKET, and so has a thread that stores or closes one.     *)
(*                                                                             *)
(* StartedOnce rests on the set of threads inside wpdk_socket_startup, whose   *)
(* size each of its steps changes by one.  For clients that use no descriptor  *)
(* after its close, CarefulInv says who may touch a slot: any number of calls  *)
(* that share a descriptor, or one thread that opens or closes it.             *)
(*                                                                             *)
(* The last two parts are about poll and about epoll, for any descriptors.     *)
EXTENDS SocketTable, FiniteSetTheorems, TLAPS

Labels == {"idle", "startup", "publish", "ready", "create", "scan", "describe", "call",
           "closing", "setfl"}

STypes ==
    /\ socket \in [Fds -> Sockets \cup {Invalid}]
    /\ open \subseteq Sockets
    /\ pc \in [Threads -> Labels]
    /\ fd \in [Threads -> 0 .. MaxSockets]
    /\ mine \in [Threads -> Sockets \cup {Invalid}]

LocalsHeld ==
    \A t \in Threads :
        /\ pc[t] \in {"call", "setfl"} => fd[t] \in Fds /\ mine[t] \in Sockets
        /\ pc[t] \in {"scan", "closing"} => mine[t] \in Sockets

IInv == STypes /\ LocalsHeld /\ Accounted

\* A step of t, the other threads staying where they are.
Others(t) == \A u \in Threads \ {t} : pc'[u] = pc[u] /\ mine'[u] = mine[u] /\ fd'[u] = fd[u]

Busy == {"scan", "closing", "call", "setfl"}

(* A step that moves no SOCKET: t holds none to store or to close before or    *)
(* after it, and neither the table nor the open SOCKETs change.                *)
LEMMA QuietKeeps ==
    ASSUME IInv, NEW t \in Threads,
           socket' = socket, open' = open, Others(t),
           pc[t] \notin {"scan", "closing"}, pc'[t] \notin {"scan", "closing"},
           pc' \in [Threads -> Labels]
    PROVE  Accounted'
<1>1. Carrying' = Carrying BY Zenon DEF Carrying, Others, IInv, STypes
<1>2. \A u \in Carrying : mine'[u] = mine[u] BY Zenon DEF Carrying, Others
<1>. QED BY <1>1, <1>2 DEF IInv, Accounted, InTable

(* What Return leaves of a call.                                               *)
LEMMA ReturnLeaves ==
    ASSUME IInv, NEW t \in Threads, Return(t)
    PROVE  /\ pc' \in [Threads -> Labels] /\ pc'[t] = "idle"
           /\ fd' \in [Threads -> 0 .. MaxSockets]
           /\ mine' \in [Threads -> Sockets \cup {Invalid}]
           /\ Others(t)
<1>1. 0 \in 0 .. MaxSockets BY SocketAssumption
<1>2. pc' \in [Threads -> Labels] /\ pc'[t] = "idle" BY Zenon DEF Return, Goto, IInv, STypes, Labels
<1>3. fd' \in [Threads -> 0 .. MaxSockets] BY <1>1, Zenon DEF Return, IInv, STypes
<1>4. mine' \in [Threads -> Sockets \cup {Invalid}] BY Zenon DEF Return, IInv, STypes
<1>5. Others(t) BY Zenon DEF Return, Goto, IInv, STypes, Others
<1>. QED BY <1>2, <1>3, <1>4, <1>5, Zenon

(* The locals of the other calls stay, and t is in none that holds any.        *)
LEMMA LocalsKept ==
    ASSUME IInv, NEW t \in Threads, Others(t), pc'[t] \notin Busy
    PROVE  LocalsHeld'
BY Zenon DEF IInv, LocalsHeld, Others, Busy

(* The calls that return and moved no SOCKET.                                  *)
LEMMA ReturnKeeps ==
    ASSUME IInv, NEW t \in Threads, Return(t), socket' = socket, open' = open,
           pc[t] \notin {"scan", "closing"}
    PROVE  IInv'
<1>1. STypes' BY ReturnLeaves, Zenon DEF IInv, STypes
<1>2. LocalsHeld' BY ReturnLeaves, LocalsKept, Zenon DEF Busy
<1>3. Accounted' BY ReturnLeaves, QuietKeeps, Zenon
<1>. QED BY <1>1, <1>2, <1>3, Zenon DEF IInv

(* The steps inside a call that moved no SOCKET and left the locals alone, to   *)
(* a place where the call need hold none.                                      *)
LEMMA GotoKeeps ==
    ASSUME IInv, NEW t \in Threads, NEW label \in Labels, Goto(t, label), label \notin Busy,
           socket' = socket, open' = open, mine' = mine, fd' = fd,
           pc[t] \notin {"scan", "closing"}
    PROVE  IInv'
<1>1. pc' \in [Threads -> Labels] /\ pc'[t] = label /\ Others(t)
      BY Zenon DEF Goto, IInv, STypes, Others
<1>2. STypes' BY <1>1, Zenon DEF IInv, STypes
<1>3. LocalsHeld' BY <1>1, LocalsKept, Zenon
<1>4. Accounted' BY <1>1, QuietKeeps, Zenon DEF Busy
<1>. QED BY <1>2, <1>3, <1>4, Zenon DEF IInv

(* The start of a call on a descriptor.                                        *)
LEMMA GetKeeps ==
    ASSUME IInv, NEW t \in Threads, Get(t)
    PROVE  IInv'
<1>1. PICK i \in Fds : /\ socket[i] # Invalid
                       /\ fd' = [fd EXCEPT ![t] = i]
                       /\ mine' = [mine EXCEPT ![t] = socket[i]]
      BY Zenon DEF Get
<1>2. pc' = [pc EXCEPT ![t] = "call"] /\ socket' = socket /\ open' = open /\ pc[t] = "idle"
      BY Zenon DEF Get, Goto, slots, winsock
<1>3. i \in 0 .. MaxSockets /\ socket[i] \in Sockets
      BY <1>1, SocketAssumption DEF Fds, IInv, STypes
<1>4. STypes' BY <1>1, <1>2, <1>3, Zenon DEF IInv, STypes, Labels
<1>5. Others(t) /\ pc'[t] = "call" /\ fd'[t] = i /\ mine'[t] = socket[i]
      BY <1>1, <1>2, Zenon DEF Others, IInv, STypes
<1>6. LocalsHeld' BY <1>3, <1>5, Zenon DEF LocalsHeld, IInv, Others
<1>7. Accounted' BY <1>2, <1>4, <1>5, QuietKeeps, Zenon DEF STypes
<1>. QED BY <1>4, <1>6, <1>7, Zenon DEF IInv

(* F_SETFL keeps its descriptor and SOCKET.                                    *)
LEMMA SetflKeeps ==
    ASSUME IInv, NEW t \in Threads, Setfl(t)
    PROVE  IInv'
<1>1. /\ pc' = [pc EXCEPT ![t] = "setfl"] /\ pc[t] = "call"
      /\ socket' = socket /\ open' = open /\ fd' = fd /\ mine' = mine
      BY Zenon DEF Setfl, Goto
<1>2. STypes' BY <1>1, Zenon DEF IInv, STypes, Labels
<1>3. Others(t) /\ pc'[t] = "setfl" BY <1>1, Zenon DEF Others, IInv, STypes
<1>4. LocalsHeld' BY <1>1, <1>3, Zenon DEF LocalsHeld, IInv, Others
<1>5. Accounted' BY <1>1, <1>2, <1>3, QuietKeeps, Zenon DEF STypes
<1>. QED BY <1>2, <1>4, <1>5, Zenon DEF IInv

(* A new SOCKET is open and in the hands of t alone.                           *)
LEMMA CreateKeeps ==
    ASSUME IInv, NEW t \in Threads, Create(t)
    PROVE  IInv'
<1>1. PICK s \in Sockets \ open : /\ mine' = [mine EXCEPT ![t] = s]
                                  /\ open' = open \cup {s}
      BY Zenon DEF Create
<1>2. /\ pc' = [pc EXCEPT ![t] = "scan"] /\ pc[t] = "create"
      /\ socket' = socket /\ fd' = [fd EXCEPT ![t] = 0]
      BY Zenon DEF Create, Goto, slots
<1>3. 0 \in 0 .. MaxSockets BY SocketAssumption
<1>4. STypes' BY <1>1, <1>2, <1>3, Zenon DEF IInv, STypes, Labels
<1>5. Others(t) /\ pc'[t] = "scan" /\ mine'[t] = s
      BY <1>1, <1>2, Zenon DEF Others, IInv, STypes
<1>6. LocalsHeld' BY <1>5, Zenon DEF LocalsHeld, IInv, Others
<1>7. Carrying' = Carrying \cup {t} /\ t \notin Carrying
      BY <1>2, <1>5, Zenon DEF Carrying, Others
<1>8. \A u \in Carrying : mine'[u] = mine[u] /\ mine[u] # s
      BY <1>1, <1>5, <1>7, Zenon DEF Others, IInv, Accounted, Carrying
<1>9. s \notin InTable BY <1>1, Zenon DEF IInv, Accounted
<1>10. InTable' = InTable BY <1>2, Zenon DEF InTable
<1>11. {mine[u] : u \in Carrying}' = {mine[u] : u \in Carrying} \cup {s}
       BY <1>5, <1>7, <1>8, Zenon
<1>12. Accounted' BY <1>1, <1>2, <1>5, <1>7, <1>8, <1>9, <1>10, <1>11 DEF IInv, Accounted
<1>. QED BY <1>4, <1>6, <1>12, Zenon DEF IInv

(* t stores its SOCKET in a free slot.                                         *)
LEMMA StoreKeeps ==
    ASSUME IInv, NEW t \in Threads, Scan(t), socket[fd[t]] = Invalid
    PROVE  IInv'
<1>. DEFINE i == fd[t]
            s == mine[t]
<1>1. /\ pc[t] = "scan" /\ i \in Fds /\ s \in Sockets /\ t \in Carrying
      BY SocketAssumption DEF Scan, Fds, IInv, STypes, LocalsHeld, Carrying
<1>2. /\ socket' = [socket EXCEPT ![i] = s] /\ pc' = [pc EXCEPT ![t] = "describe"]
      /\ open' = open /\ fd' = fd /\ mine' = mine
      BY Zenon DEF Scan, Goto, winsock
<1>3. STypes' BY <1>1, <1>2, Zenon DEF IInv, STypes, Labels
<1>4. Others(t) /\ pc'[t] = "describe" BY <1>2, Zenon DEF Others, IInv, STypes
<1>5. LocalsHeld' BY <1>4, LocalsKept, Zenon DEF Busy
<1>6. Carrying' = Carrying \ {t} BY <1>4, Zenon DEF Carrying, Others
<1>7. s \in open \ InTable /\ s # Invalid BY <1>1, SocketAssumption, Zenon DEF IInv, Accounted
<1>8. \A j \in Fds : socket'[j] = IF j = i THEN s ELSE socket[j] BY <1>2, Zenon DEF IInv, STypes
<1>9. InTable' = InTable \cup {s}
  <2>1. socket[i] = Invalid OBVIOUS
  <2>. HIDE DEF i, s
  <2>2. \A x : x \in InTable' => x \in InTable \cup {s} BY <1>8 DEF InTable
  <2>3. s \in InTable' BY <1>1, <1>7, <1>8, Zenon DEF InTable
  <2>4. \A x \in InTable : x \in InTable'
    <3>1. TAKE x \in InTable
    <3>2. PICK j \in Fds : x = socket[j] /\ x # Invalid BY Zenon DEF InTable
    <3>3. socket'[j] = x BY <1>8, <2>1, <3>2, Zenon
    <3>. QED BY <3>2, <3>3, Zenon DEF InTable
  <2>. QED BY <2>2, <2>3, <2>4, Zenon
<1>10. \A u \in Carrying \ {t} : mine[u] # s BY <1>1, Zenon DEF IInv, Accounted
<1>11. {mine[u] : u \in Carrying} = {mine[u] : u \in Carrying \ {t}} \cup {s} BY <1>1, Zenon
<1>12. \A j, k \in Fds : socket'[j] = socket'[k] /\ socket'[j] # Invalid => j = k
  <2>1. \A j \in Fds : socket[j] # s BY <1>7, Zenon DEF InTable
  <2>. HIDE DEF i, s
  <2>. QED BY <1>8, <2>1, Zenon DEF IInv, Accounted
<1>13. Accounted'
  <2>1. open' = (InTable \cup {mine[u] : u \in Carrying})'
        BY <1>2, <1>6, <1>9, <1>11 DEF IInv, Accounted
  <2>. HIDE DEF i, s
  <2>. QED BY <1>2, <1>6, <1>7, <1>9, <1>10, <1>12, <2>1, Zenon DEF IInv, Accounted
<1>. QED BY <1>3, <1>5, <1>13, Zenon DEF IInv

(* A slot that is taken: the scan goes on.                                     *)
LEMMA PassKeeps ==
    ASSUME IInv, NEW t \in Threads, Scan(t), socket[fd[t]] # Invalid
    PROVE  IInv'
<1>1. /\ pc' = pc /\ socket' = socket /\ open' = open /\ mine' = mine
      /\ fd' = [fd EXCEPT ![t] = fd[t] + 1] /\ pc[t] = "scan" /\ fd[t] < MaxSockets
      BY Zenon DEF Scan, winsock
<1>2. fd[t] + 1 \in 0 .. MaxSockets BY <1>1, SocketAssumption DEF IInv, STypes
<1>3. STypes' BY <1>1, <1>2, Zenon DEF IInv, STypes
<1>4. \A u \in Threads : u # t => fd'[u] = fd[u] BY <1>1, Zenon DEF IInv, STypes
<1>5. LocalsHeld' BY <1>1, <1>4, Zenon DEF IInv, LocalsHeld
<1>6. Accounted' BY <1>1 DEF IInv, Accounted, InTable, Carrying
<1>. QED BY <1>3, <1>5, <1>6, Zenon DEF IInv

(* A SOCKET that t alone holds is closed.                                      *)
LEMMA CloseKeeps ==
    ASSUME IInv, NEW t \in Threads, pc[t] \in {"scan", "closing"},
           Closesocket(mine[t]), Return(t), socket' = socket
    PROVE  IInv'
<1>. DEFINE s == mine[t]
<1>1. t \in Carrying BY Zenon DEF Carrying
<1>2. open' = open \ {s} BY Zenon DEF Closesocket
<1>3. STypes' BY <1>2, ReturnLeaves, Zenon DEF IInv, STypes
<1>4. LocalsHeld' BY ReturnLeaves, LocalsKept, Zenon DEF Busy
<1>5. Carrying' = Carrying \ {t} BY ReturnLeaves, Zenon DEF Carrying, Others
<1>6. \A u \in Carrying \ {t} : mine'[u] = mine[u] /\ mine[u] # s
      BY <1>1, ReturnLeaves, Zenon DEF Others, Carrying, IInv, Accounted
<1>7. s \notin InTable BY <1>1, Zenon DEF IInv, Accounted
<1>8. InTable' = InTable BY Zenon DEF InTable
<1>9. {mine[u] : u \in Carrying}' = {mine[u] : u \in Carrying} \ {s} BY <1>1, <1>5, <1>6, Zenon
<1>10. Accounted'
  <2>. HIDE DEF s
  <2>. QED BY <1>2, <1>5, <1>6, <1>7, <1>8, <1>9 DEF IInv, Accounted
<1>. QED BY <1>3, <1>4, <1>10, Zenon DEF IInv

(* close takes the SOCKET out of its slot, and t alone holds it then.          *)
LEMMA SwapKeeps ==
    ASSUME IInv, NEW t \in Threads, CloseSwap(t), socket[fd[t]] = mine[t]
    PROVE  IInv'
<1>. DEFINE i == fd[t]
            s == mine[t]
<1>1. pc[t] = "call" /\ i \in Fds /\ s \in Sockets /\ t \notin Carrying
      BY Zenon DEF CloseSwap, IInv, LocalsHeld, Carrying
<1>2. /\ socket' = [socket EXCEPT ![i] = Invalid] /\ pc' = [pc EXCEPT ![t] = "closing"]
      /\ open' = open /\ fd' = fd /\ mine' = mine
      BY Zenon DEF CloseSwap, Goto, winsock, locals
<1>3. STypes' BY <1>1, <1>2, Zenon DEF IInv, STypes, Labels
<1>4. Others(t) /\ pc'[t] = "closing" BY <1>2, Zenon DEF Others, IInv, STypes
<1>5. LocalsHeld' BY <1>1, <1>2, <1>4, Zenon DEF IInv, LocalsHeld, Others
<1>6. Carrying' = Carrying \cup {t} BY <1>4, Zenon DEF Carrying, Others
<1>7. socket[i] = s /\ s # Invalid BY <1>1, SocketAssumption, Zenon
<1>8. \A j \in Fds : socket'[j] = IF j = i THEN Invalid ELSE socket[j] BY <1>2, Zenon DEF IInv, STypes
<1>. HIDE DEF i, s
<1>9. \A j \in Fds : j # i => socket[j] # s BY <1>1, <1>7, Zenon DEF IInv, Accounted
<1>10. InTable' = InTable \ {s}
  <2>1. \A x : x \in InTable' => x \in InTable \ {s} BY <1>7, <1>8, <1>9 DEF InTable
  <2>2. \A x \in InTable \ {s} : x \in InTable'
    <3>1. TAKE x \in InTable \ {s}
    <3>2. PICK j \in Fds : x = socket[j] /\ x # Invalid BY Zenon DEF InTable
    <3>3. socket'[j] = x BY <1>7, <1>8, <3>2, Zenon
    <3>. QED BY <3>2, <3>3, Zenon DEF InTable
  <2>. QED BY <2>1, <2>2, Zenon
<1>11. s \in InTable BY <1>1, <1>7, Zenon DEF InTable
<1>12. {mine[u] : u \in Carrying}' = {mine[u] : u \in Carrying} \cup {s}
       BY <1>2, <1>6, Zenon DEF s
<1>13. \A u \in Carrying : mine[u] # s BY <1>11, Zenon DEF IInv, Accounted
<1>14. \A j, k \in Fds : socket'[j] = socket'[k] /\ socket'[j] # Invalid => j = k
       BY <1>8, Zenon DEF IInv, Accounted
<1>15. mine'[t] = s BY <1>2, Zenon DEF s
<1>16. Accounted'
       BY <1>2, <1>6, <1>10, <1>11, <1>12, <1>13, <1>14, <1>15 DEF IInv, Accounted
<1>. QED BY <1>3, <1>5, <1>16, Zenon DEF IInv

(* One case per action: most move no SOCKET.                                   *)
LEMMA StepKeeps ==
    ASSUME IInv, NEW t \in Threads, Step(t)
    PROVE  IInv'
<1>1. CASE StartupFails(t) BY <1>1, ReturnKeeps, Zenon DEF StartupFails, slots, winsock
<1>2. CASE CreateFails(t) BY <1>2, ReturnKeeps, Zenon DEF CreateFails, slots, winsock
<1>3. CASE Describe(t) BY <1>3, ReturnKeeps, Zenon DEF Describe, slots, winsock
<1>4. CASE Exchange(t) BY <1>4, ReturnKeeps, Zenon DEF Exchange, slots, winsock
<1>5. CASE Use(t) BY <1>5, ReturnKeeps, Zenon DEF Use, slots, winsock
<1>6. CASE Setsockopt(t) BY <1>6, ReturnKeeps, Zenon DEF Setsockopt, slots, winsock
<1>7. CASE Getfl(t) BY <1>7, ReturnKeeps, Zenon DEF Getfl, slots, winsock
<1>8. CASE SetflFails(t) BY <1>8, ReturnKeeps, Zenon DEF SetflFails, slots, winsock
<1>9. CASE SetflDone(t) BY <1>9, ReturnKeeps, Zenon DEF SetflDone, slots, winsock
<1>10. CASE Socket(t)
  <2>1. CASE ready BY <1>10, <2>1, GotoKeeps, Zenon DEF Socket, slots, winsock, Labels, Busy
  <2>2. CASE ~ready BY <1>10, <2>2, GotoKeeps, Zenon DEF Socket, slots, winsock, Labels, Busy
  <2>. QED BY <2>1, <2>2, Zenon
<1>11. CASE Getaddrinfo(t) BY <1>11, GotoKeeps, Zenon DEF Getaddrinfo, slots, winsock, locals, Labels, Busy
<1>12. CASE Startup(t) BY <1>12, GotoKeeps, Zenon DEF Startup, slots, winsock, locals, Labels, Busy
<1>13. CASE PublishTable(t) BY <1>13, GotoKeeps, Zenon DEF PublishTable, slots, winsock, locals, Labels, Busy
<1>14. CASE PublishReady(t)
  <2>1. CASE op[t] = "resolve" BY <1>14, <2>1, ReturnKeeps, Zenon DEF PublishReady, slots
  <2>2. CASE op[t] # "resolve" BY <1>14, <2>2, GotoKeeps, Zenon DEF PublishReady, slots, locals, Labels, Busy
  <2>. QED BY <2>1, <2>2, Zenon
<1>15. CASE Accept(t) BY <1>15, GotoKeeps, Zenon DEF Accept, slots, winsock, Labels, Busy
<1>16. CASE Create(t) BY <1>16, CreateKeeps, Zenon
<1>17. CASE Scan(t) BY <1>17, StoreKeeps, PassKeeps, Zenon
<1>18. CASE TableFull(t) BY <1>18, CloseKeeps, Zenon DEF TableFull, slots
<1>19. CASE Get(t) BY <1>19, GetKeeps, Zenon
<1>20. CASE CloseSwap(t)
  <2>1. CASE socket[fd[t]] = mine[t] BY <1>20, <2>1, SwapKeeps, Zenon
  <2>2. CASE socket[fd[t]] # mine[t] BY <1>20, <2>2, ReturnKeeps, Zenon DEF CloseSwap, winsock
  <2>. QED BY <2>1, <2>2, Zenon
<1>21. CASE CloseSocket(t) BY <1>21, CloseKeeps, Zenon DEF CloseSocket, slots
<1>22. CASE Setfl(t) BY <1>22, SetflKeeps, Zenon
<1>. QED BY <1>1, <1>2, <1>3, <1>4, <1>5, <1>6, <1>7, <1>8, <1>9, <1>10, <1>11, <1>12,
            <1>13, <1>14, <1>15, <1>16, <1>17, <1>18, <1>19, <1>20, <1>21, <1>22, Zenon
         DEF Step

LEMMA InitHolds ==
    ASSUME Init
    PROVE  IInv
<1>1. 0 \in 0 .. MaxSockets BY SocketAssumption
<1>2. STypes BY <1>1, Zenon DEF Init, STypes, Labels
<1>3. LocalsHeld BY Zenon DEF Init, LocalsHeld
<1>4. Carrying = {} /\ InTable = {} BY Zenon DEF Init, Carrying, InTable
<1>5. Accounted BY <1>4, Zenon DEF Init, Accounted
<1>. QED BY <1>2, <1>3, <1>5, Zenon DEF IInv

LEMMA StutterKeeps ==
    ASSUME IInv, UNCHANGED vars
    PROVE  IInv'
BY DEF vars, slots, winsock, locals, IInv, STypes, LocalsHeld, Accounted, InTable, Carrying

(* socket.c:95-109, 158-169: every open SOCKET is in one slot or in the hands  *)
(* of one thread that stores or closes it, for any number of threads, SOCKETs  *)
(* and slots, however clients use their descriptors.                           *)
THEOREM SocketsAccounted == Spec => []Accounted
<1>1. Init => IInv BY InitHolds, Zenon
<1>2. IInv /\ [Next]_vars => IInv'
  <2>1. SUFFICES ASSUME IInv, [Next]_vars PROVE IInv' OBVIOUS
  <2>2. CASE UNCHANGED vars BY <2>1, <2>2, StutterKeeps, Zenon
  <2>3. CASE Next BY <2>1, <2>3, StepKeeps, Zenon DEF Next
  <2>. QED BY <2>1, <2>2, <2>3, Zenon
<1>3. IInv => Accounted BY Zenon DEF IInv
<1>. QED BY <1>1, <1>2, <1>3, PTL DEF Spec

-----------------------------------------------------------------------------
Starting == {t \in Threads : pc[t] \in {"publish", "ready"}}

StartInv ==
    /\ ready \in BOOLEAN
    /\ StartedOnce
    /\ \A t \in Threads : pc[t] = "ready" => table

(* How many threads are inside wpdk_socket_startup after a step of t.          *)
LEMMA StartingCount ==
    ASSUME NEW t \in Threads, \A u \in Threads \ {t} : pc'[u] = pc[u]
    PROVE  /\ Cardinality(Starting) \in Nat
           /\ (t \in Starting <=> t \in Starting') => Cardinality(Starting') = Cardinality(Starting)
           /\ t \notin Starting /\ t \in Starting' => Cardinality(Starting') = Cardinality(Starting) + 1
           /\ t \in Starting /\ t \notin Starting' => Cardinality(Starting') = Cardinality(Starting) - 1
<1>1. IsFiniteSet(Starting) BY SocketAssumption, FS_Subset, Zenon DEF Starting
<1>2. Cardinality(Starting) \in Nat BY <1>1, FS_CardinalityType, Zenon
<1>3. CASE t \in Starting'
  <2>1. Starting' = Starting \cup {t} BY <1>3, Zenon DEF Starting
  <2>2. Cardinality(Starting \cup {t}) =
            IF t \in Starting THEN Cardinality(Starting) ELSE Cardinality(Starting) + 1
        BY <1>1, FS_AddElement, Zenon
  <2>. QED BY <1>2, <1>3, <2>1, <2>2, Zenon
<1>4. CASE t \notin Starting'
  <2>1. Starting' = Starting \ {t} BY <1>4, Zenon DEF Starting
  <2>2. Cardinality(Starting \ {t}) =
            IF t \in Starting THEN Cardinality(Starting) - 1 ELSE Cardinality(Starting)
        BY <1>1, FS_RemoveElement, Zenon
  <2>. QED BY <1>2, <1>4, <2>1, <2>2, Zenon
<1>. QED BY <1>2, <1>3, <1>4, Zenon

(* The steps outside wpdk_socket_startup.                                      *)
LEMMA StartOutside ==
    ASSUME StartInv, IInv, NEW t \in Threads, NEW label \in Labels \ {"publish", "ready"},
           pc' = [pc EXCEPT ![t] = label], pc[t] \notin {"publish", "ready"},
           ready' = ready, table' = table, wsa' = wsa
    PROVE  StartInv'
<1>1. pc \in [Threads -> Labels] BY Zenon DEF IInv, STypes
<1>2. /\ \A u \in Threads \ {t} : pc'[u] = pc[u]
      /\ t \notin Starting /\ t \notin Starting'
      BY <1>1, Zenon DEF Starting
<1>3. Cardinality(Starting') = Cardinality(Starting) /\ Cardinality(Starting) \in Nat
      BY <1>2, StartingCount, Zenon
<1>4. \A u \in Threads : pc'[u] = "ready" => pc[u] = "ready" BY <1>1, Zenon
<1>. QED BY <1>3, <1>4, Zenon DEF StartInv, StartedOnce, Starting

(* A call that returns leaves wpdk_socket_startup to the others.               *)
LEMMA StartReturn ==
    ASSUME StartInv, IInv, NEW t \in Threads, Return(t), pc[t] \notin {"publish", "ready"},
           ready' = ready, table' = table, wsa' = wsa
    PROVE  StartInv'
BY StartOutside, Zenon DEF Return, Goto, Labels

LEMMA StartStep ==
    ASSUME StartInv, IInv, NEW t \in Threads, Step(t)
    PROVE  StartInv'
<1>. pc \in [Threads -> Labels] BY Zenon DEF IInv, STypes
<1>1. CASE StartupFails(t) BY <1>1, StartReturn, Zenon DEF StartupFails, winsock
<1>2. CASE CreateFails(t) BY <1>2, StartReturn, Zenon DEF CreateFails, winsock
<1>3. CASE Describe(t) BY <1>3, StartReturn, Zenon DEF Describe, winsock
<1>4. CASE Exchange(t) BY <1>4, StartReturn, Zenon DEF Exchange, winsock
<1>5. CASE Use(t) BY <1>5, StartReturn, Zenon DEF Use, winsock
<1>6. CASE Setsockopt(t) BY <1>6, StartReturn, Zenon DEF Setsockopt, winsock
<1>7. CASE Getfl(t) BY <1>7, StartReturn, Zenon DEF Getfl, winsock
<1>8. CASE SetflFails(t) BY <1>8, StartReturn, Zenon DEF SetflFails, winsock
<1>9. CASE SetflDone(t) BY <1>9, StartReturn, Zenon DEF SetflDone, winsock
<1>10. CASE TableFull(t) BY <1>10, StartReturn, Zenon DEF TableFull
<1>11. CASE CloseSocket(t) BY <1>11, StartReturn, Zenon DEF CloseSocket
<1>12. CASE Socket(t)
  <2>1. CASE ready BY <1>12, <2>1, StartOutside, Zenon DEF Socket, Goto, winsock, Labels
  <2>2. CASE ~ready BY <1>12, <2>2, StartOutside, Zenon DEF Socket, Goto, winsock, Labels
  <2>. QED BY <2>1, <2>2, Zenon
<1>13. CASE Getaddrinfo(t) BY <1>13, StartOutside, Zenon DEF Getaddrinfo, Goto, winsock, Labels
<1>14. CASE Create(t) BY <1>14, StartOutside, Zenon DEF Create, Goto, Labels
<1>15. CASE Scan(t)
  <2>1. CASE socket[fd[t]] = Invalid
        BY <1>15, <2>1, StartOutside, Zenon DEF Scan, Goto, winsock, Labels
  <2>2. CASE socket[fd[t]] # Invalid
        BY <1>15, <2>2, Zenon DEF Scan, winsock, StartInv, StartedOnce
  <2>. QED BY <2>1, <2>2, Zenon
<1>16. CASE Get(t) BY <1>16, StartOutside, Zenon DEF Get, Goto, winsock, Labels
<1>17. CASE CloseSwap(t)
  <2>1. CASE socket[fd[t]] = mine[t]
        BY <1>17, <2>1, StartOutside, Zenon DEF CloseSwap, Goto, winsock, Labels
  <2>2. CASE socket[fd[t]] # mine[t] BY <1>17, <2>2, StartReturn, Zenon DEF CloseSwap, winsock
  <2>. QED BY <2>1, <2>2, Zenon
<1>18. CASE Accept(t) BY <1>18, StartOutside, Zenon DEF Accept, Goto, winsock, Labels
<1>19. CASE Setfl(t) BY <1>19, StartOutside, Zenon DEF Setfl, Goto, Labels
<1>20. CASE Startup(t)
  <2>1. /\ pc' = [pc EXCEPT ![t] = "publish"] /\ pc[t] = "startup" /\ wsa' = wsa + 1
        /\ ready' = ready /\ table' = table
        BY <1>20, Zenon DEF Startup, Goto
  <2>2. /\ \A u \in Threads \ {t} : pc'[u] = pc[u]
        /\ t \notin Starting /\ t \in Starting'
        BY <2>1, Zenon DEF Starting
  <2>3. Cardinality(Starting') = Cardinality(Starting) + 1 /\ Cardinality(Starting) \in Nat
        BY <2>2, StartingCount, Zenon
  <2>4. \A u \in Threads : pc'[u] = "ready" => pc[u] = "ready" BY <2>1, Zenon
  <2>. QED BY <2>1, <2>3, <2>4 DEF StartInv, StartedOnce, Starting
<1>21. CASE PublishTable(t)
  <2>1. /\ pc' = [pc EXCEPT ![t] = "ready"] /\ pc[t] = "publish" /\ wsa' = wsa
        /\ ready' = ready /\ table' = TRUE
        BY <1>21, Zenon DEF PublishTable, Goto, winsock
  <2>2. /\ \A u \in Threads \ {t} : pc'[u] = pc[u]
        /\ t \in Starting /\ t \in Starting'
        BY <2>1, Zenon DEF Starting
  <2>3. Cardinality(Starting') = Cardinality(Starting) BY <2>2, StartingCount, Zenon
  <2>. QED BY <2>1, <2>3, Zenon DEF StartInv, StartedOnce, Starting
<1>22. CASE PublishReady(t)
  <2>1. PICK label \in {"idle", "create"} : pc' = [pc EXCEPT ![t] = label]
        BY <1>22, Zenon DEF PublishReady, Return, Goto
  <2>2. /\ pc[t] = "ready" /\ wsa' = IF ready THEN wsa - 1 ELSE wsa
        /\ ready' = TRUE /\ table' = table
        BY <1>22, Zenon DEF PublishReady
  <2>3. /\ \A u \in Threads \ {t} : pc'[u] = pc[u]
        /\ t \in Starting /\ t \notin Starting'
        BY <2>1, <2>2, Zenon DEF Starting
  <2>4. Cardinality(Starting') = Cardinality(Starting) - 1 /\ Cardinality(Starting) \in Nat
        BY <2>3, StartingCount, Zenon
  <2>5. table' BY <2>2, Zenon DEF StartInv
  <2>. QED BY <2>2, <2>4, <2>5 DEF StartInv, StartedOnce, Starting
<1>. QED BY <1>1, <1>2, <1>3, <1>4, <1>5, <1>6, <1>7, <1>8, <1>9, <1>10, <1>11, <1>12,
            <1>13, <1>14, <1>15, <1>16, <1>17, <1>18, <1>19, <1>20, <1>21, <1>22
         DEF Step

(* socket.c:34-69: WSAStartup is matched by WSACleanup but for one call, and a *)
(* thread that finds the library ready finds the table, for any number of      *)
(* threads that start it at once.                                              *)
THEOREM SocketsStartedOnce == Spec => []StartedOnce
<1>1. Init => IInv /\ StartInv
  <2>1. SUFFICES ASSUME Init PROVE IInv /\ StartInv OBVIOUS
  <2>2. {t \in Threads : pc[t] \in {"publish", "ready"}} = {} BY <2>1, Zenon DEF Init
  <2>3. Cardinality({}) = 0 BY FS_EmptySet, Zenon
  <2>4. StartedOnce
    <3>1. wsa = 0 /\ ~ready BY <2>1, Zenon DEF Init
    <3>2. Cardinality({t \in Threads : pc[t] \in {"publish", "ready"}}) = 0 BY <2>2, <2>3, Zenon
    <3>. QED BY <3>1, <3>2 DEF StartedOnce
  <2>5. \A t \in Threads : pc[t] # "ready" BY <2>1, Zenon DEF Init
  <2>6. StartInv BY <2>1, <2>4, <2>5, Zenon DEF Init, StartInv
  <2>. QED BY <2>1, <2>6, InitHolds, Zenon
<1>2. IInv /\ StartInv /\ [Next]_vars => (IInv /\ StartInv)'
  <2>1. SUFFICES ASSUME IInv, StartInv, [Next]_vars PROVE IInv' /\ StartInv' OBVIOUS
  <2>2. CASE UNCHANGED vars
    <3>1. IInv' BY <2>1, <2>2, StutterKeeps, Zenon
    <3>2. StartInv' BY <2>1, <2>2, Zenon DEF vars, winsock, StartInv, StartedOnce
    <3>. QED BY <3>1, <3>2, Zenon
  <2>3. CASE Next
    <3>1. PICK t \in Threads : Step(t) BY <2>3, Zenon DEF Next
    <3>. QED BY <2>1, <3>1, StepKeeps, StartStep, Zenon
  <2>. QED BY <2>1, <2>2, <2>3, Zenon
<1>3. StartInv => StartedOnce BY Zenon DEF StartInv
<1>. QED BY <1>1, <1>2, <1>3, PTL DEF Spec

-----------------------------------------------------------------------------
\* t opens or closes descriptor fd[t], and is alone with it.
Taking(t) == pc[t] = "describe" \/ (pc[t] = "call" /\ op[t] = "close")

\* t is in a call that shares descriptor fd[t].
Using(t) == pc[t] \in {"call", "setfl", "create"} /\ op[t] \in Calls \ {"close"}

CTypes ==
    /\ info \in [Fds -> Info] /\ kind \in [Sockets -> Info]
    /\ lock \in [Fds -> Threads \cup {None}]
    /\ held \in [Fds -> Sockets \cup {Invalid}]
    /\ op \in [Threads -> Calls \cup {"socket", "resolve"}]
    /\ want \in [Threads -> Info]

HeldInv == \A i \in Fds : held[i] # Invalid => socket[i] = held[i]

LocalInv(t) ==
    /\ Taking(t) => /\ fd[t] \in Fds /\ mine[t] \in Sockets
                    /\ socket[fd[t]] = mine[t] /\ held[fd[t]] = Invalid
    /\ Using(t) => fd[t] \in Fds /\ mine[t] \in Sockets /\ held[fd[t]] = mine[t]
    /\ pc[t] \in {"startup", "publish", "ready"} => op[t] \in {"socket", "resolve"}
    /\ pc[t] = "create" => op[t] # "close"
    /\ pc[t] = "call" => op[t] \in Calls
    /\ pc[t] = "setfl" => /\ op[t] = "setfl" /\ "setfl" \in Calls
                          /\ lock[fd[t]] = t /\ kind[mine[t]].nb = want[t].nb
    /\ pc[t] \in {"scan", "describe"} => kind[mine[t]] = want[t]

Alone == \A t, u \in Threads : Taking(t) /\ Taking(u) /\ fd[t] = fd[u] => t = u

\* The lock of a slot is held by the F_SETFL that changes its flags.
LockHeld == \A i \in Fds : lock[i] # None => pc[lock[i]] = "setfl" /\ fd[lock[i]] = i

CarefulInv ==
    /\ CTypes /\ HeldInv /\ (\A t \in Threads : LocalInv(t)) /\ Alone /\ LockHeld
    /\ Described /\ NoUnixReuse

Frame(t) ==
    \A u \in Threads \ {t} :
        /\ pc'[u] = pc[u] /\ op'[u] = op[u] /\ fd'[u] = fd[u] /\ mine'[u] = mine[u]
        /\ want'[u] = want[u]

\* What thread u relies on stays: its slot, its lock and the mode of its SOCKET.
Reliance(u) ==
    /\ Taking(u) => socket'[fd[u]] = socket[fd[u]] /\ held'[fd[u]] = held[fd[u]]
    /\ Using(u) => held'[fd[u]] = held[fd[u]]
    /\ pc[u] = "setfl" => /\ lock'[fd[u]] = lock[fd[u]]
                          /\ kind'[mine[u]].nb = kind[mine[u]].nb
    /\ pc[u] \in {"scan", "describe"} => kind'[mine[u]] = kind[mine[u]]

LEMMA OthersRely ==
    ASSUME CarefulInv, NEW t \in Threads, Frame(t), NEW u \in Threads \ {t}, Reliance(u)
    PROVE  LocalInv(u)' /\ (Taking(u)' <=> Taking(u))
<1>1. Taking(u)' <=> Taking(u) BY Zenon DEF Frame, Taking
<1>2. Using(u)' <=> Using(u) BY Zenon DEF Frame, Using
<1>3. LocalInv(u) BY Zenon DEF CarefulInv
<1>. QED BY <1>1, <1>2, <1>3, Zenon DEF Frame, Reliance, LocalInv

(* The invariant after a step of t.                                            *)
LEMMA CarefulStep ==
    ASSUME CarefulInv, NEW t \in Threads, Frame(t), LocalInv(t)',
           \A u \in Threads \ {t} : Reliance(u),
           Taking(t)' => \A u \in Threads \ {t} : Taking(u) => fd[u] # fd'[t],
           CTypes', HeldInv', LockHeld', Described', NoUnixReuse'
    PROVE  CarefulInv'
<1>1. \A u \in Threads \ {t} : LocalInv(u)' /\ (Taking(u)' <=> Taking(u)) BY OthersRely, Zenon
<1>2. \A u \in Threads : LocalInv(u)' BY <1>1, Zenon
<1>3. Alone' BY <1>1, Zenon DEF Alone, CarefulInv, Frame
<1>. QED BY <1>2, <1>3, Zenon DEF CarefulInv

(* A step of t that leaves the slots and the SOCKETs alone.                    *)
LEMMA CarefulQuiet ==
    ASSUME CarefulInv, NEW t \in Threads, Frame(t), LocalInv(t)', ~Taking(t)', pc[t] # "setfl",
           op' \in [Threads -> Calls \cup {"socket", "resolve"}], want' \in [Threads -> Info],
           UNCHANGED <<socket, info, lock, open, kind, reuse, held>>
    PROVE  CarefulInv'
<1>1. CTypes' BY Zenon DEF CarefulInv, CTypes
<1>2. HeldInv' /\ Described' /\ NoUnixReuse' BY Zenon DEF CarefulInv, HeldInv, Described, NoUnixReuse
<1>3. LockHeld' BY DEF CarefulInv, CTypes, LockHeld, Frame
<1>4. \A u \in Threads \ {t} : Reliance(u) BY Zenon DEF Reliance
<1>. QED BY <1>1, <1>2, <1>3, <1>4, CarefulStep, Zenon

LEMMA PlainInfo == Plain \in Info
BY Zenon DEF Plain, Info

(* A call that returns relies on nothing.                                      *)
LEMMA ReturnRelies ==
    ASSUME IInv, CarefulInv, NEW t \in Threads, Return(t)
    PROVE  /\ Frame(t) /\ LocalInv(t)' /\ ~Taking(t)'
           /\ op' \in [Threads -> Calls \cup {"socket", "resolve"}]
           /\ want' \in [Threads -> Info]
<1>1. pc'[t] = "idle" BY ReturnLeaves, Zenon
<1>2. Frame(t) BY Zenon DEF Return, Goto, Frame, IInv, STypes, CarefulInv, CTypes
<1>3. ~Taking(t)' /\ ~Using(t)' BY <1>1, Zenon DEF Taking, Using
<1>4. LocalInv(t)' BY <1>1, <1>3, Zenon DEF LocalInv
<1>. QED BY <1>2, <1>3, <1>4, PlainInfo, Zenon DEF Return, CarefulInv, CTypes

LEMMA QuietReturn ==
    ASSUME IInv, CarefulInv, NEW t \in Threads, Return(t), pc[t] # "setfl",
           UNCHANGED <<socket, info, lock, open, kind, reuse, held>>
    PROVE  CarefulInv'
BY ReturnRelies, CarefulQuiet, Zenon

(* The SOCKET of a descriptor is open, in one slot and in nobody's hands, and  *)
(* so is that of a thread that opens or closes a descriptor.                   *)
LEMMA Apart ==
    ASSUME IInv, CarefulInv
    PROVE  /\ \A i \in Fds : held[i] # Invalid =>
                /\ held[i] \in open
                /\ \A j \in Fds : socket[j] = held[i] => j = i
                /\ \A v \in Carrying : mine[v] # held[i]
           /\ \A u \in Threads : Taking(u) =>
                /\ mine[u] \in open
                /\ \A i \in Fds : held[i] # mine[u]
                /\ \A v \in Carrying : mine[v] # mine[u]
<1>1. \A i \in Fds : socket[i] # Invalid =>
        socket[i] \in open /\ \A v \in Carrying : mine[v] # socket[i]
  <2>1. \A i \in Fds : socket[i] # Invalid => socket[i] \in InTable BY Zenon DEF InTable
  <2>. QED BY <2>1, Zenon DEF IInv, Accounted
<1>2. \A i, j \in Fds : socket[i] = socket[j] /\ socket[i] # Invalid => i = j
      BY Zenon DEF IInv, Accounted
<1>3. \A u \in Threads : Taking(u) =>
        fd[u] \in Fds /\ mine[u] # Invalid /\ socket[fd[u]] = mine[u] /\ held[fd[u]] = Invalid
      BY SocketAssumption DEF CarefulInv, LocalInv
<1>. QED BY <1>1, <1>2, <1>3 DEF CarefulInv, HeldInv

(* A SOCKET that is closed, or in the hands of t alone, may change.            *)
LEMMA LooseRelies ==
    ASSUME IInv, CarefulInv, NEW t \in Threads, NEW s \in Sockets,
           s \notin open \/ (t \in Carrying /\ s = mine[t]),
           \A x \in Sockets \ {s} : kind'[x] = kind[x],
           UNCHANGED <<socket, info, lock, held>>
    PROVE  (\A u \in Threads \ {t} : Reliance(u)) /\ HeldInv' /\ Described'
<1>1. \A i \in Fds : held[i] # Invalid => held[i] # s /\ held[i] \in Sockets
      BY Apart, Zenon DEF CarefulInv, CTypes
<1>2. ASSUME NEW u \in Threads \ {t} PROVE Reliance(u)
  <2>1. pc[u] = "setfl" => kind'[mine[u]] = kind[mine[u]]
    <3>1. SUFFICES ASSUME pc[u] = "setfl" PROVE kind'[mine[u]] = kind[mine[u]] OBVIOUS
    <3>2. LocalInv(u) /\ Using(u) BY <3>1, Zenon DEF CarefulInv, LocalInv, Using
    <3>3. fd[u] \in Fds /\ held[fd[u]] = mine[u] /\ mine[u] \in Sockets BY <3>2, Zenon DEF LocalInv
    <3>. QED BY <1>1, <3>3, SocketAssumption, Zenon
  <2>2. pc[u] = "scan" => kind'[mine[u]] = kind[mine[u]]
    <3>1. SUFFICES ASSUME pc[u] = "scan" PROVE kind'[mine[u]] = kind[mine[u]] OBVIOUS
    <3>2. u \in Carrying /\ mine[u] \in Sockets BY <3>1, Zenon DEF Carrying, IInv, LocalsHeld
    <3>3. mine[u] # s BY <3>2, Zenon DEF IInv, Accounted
    <3>. QED BY <3>2, <3>3, Zenon
  <2>3. pc[u] = "describe" => kind'[mine[u]] = kind[mine[u]]
    <3>1. SUFFICES ASSUME pc[u] = "describe" PROVE kind'[mine[u]] = kind[mine[u]] OBVIOUS
    <3>2. Taking(u) BY <3>1, Zenon DEF Taking
    <3>3. mine[u] \in Sockets /\ mine[u] # s BY <3>2, Apart DEF CarefulInv, LocalInv
    <3>. QED BY <3>3, Zenon
  <2>. QED BY <2>1, <2>2, <2>3, Zenon DEF Reliance
<1>3. HeldInv' BY Zenon DEF HeldInv, CarefulInv
<1>4. Described' BY <1>1, Zenon DEF Described, CarefulInv
<1>. QED BY <1>2, <1>3, <1>4, Zenon

LEMMA CreateCareful ==
    ASSUME IInv, CarefulInv, NEW t \in Threads, Create(t)
    PROVE  CarefulInv'
<1>1. PICK s \in Sockets \ open : /\ mine' = [mine EXCEPT ![t] = s]
                                  /\ open' = open \cup {s}
                                  /\ kind' = [kind EXCEPT ![s] = want[t]]
                                  /\ reuse' = reuse \ {s}
      BY Zenon DEF Create
<1>2. /\ pc[t] = "create" /\ pc' = [pc EXCEPT ![t] = "scan"] /\ fd' = [fd EXCEPT ![t] = 0]
      /\ op' = op /\ want' = want /\ socket' = socket /\ info' = info /\ lock' = lock /\ held' = held
      BY Zenon DEF Create, Goto, slots
<1>3. Frame(t) /\ pc'[t] = "scan" /\ mine'[t] = s
      BY <1>1, <1>2, Zenon DEF Frame, IInv, STypes
<1>4. /\ kind'[s] = want[t] /\ \A x \in Sockets \ {s} : kind'[x] = kind[x]
      /\ kind' \in [Sockets -> Info]
      BY <1>1, Zenon DEF CarefulInv, CTypes
<1>5. ~Taking(t)' /\ LocalInv(t)' BY <1>2, <1>3, <1>4, Zenon DEF Taking, Using, LocalInv
<1>6. CTypes' BY <1>2, <1>4, Zenon DEF CarefulInv, CTypes
<1>7. LockHeld' BY <1>2, <1>3 DEF CarefulInv, CTypes, LockHeld, Frame
<1>8. NoUnixReuse' BY <1>1, <1>4, Zenon DEF CarefulInv, NoUnixReuse, IInv, STypes
<1>9. (\A u \in Threads \ {t} : Reliance(u)) /\ HeldInv' /\ Described'
      BY <1>1, <1>2, <1>4, LooseRelies, Zenon
<1>. QED BY <1>3, <1>5, <1>6, <1>7, <1>8, <1>9, CarefulStep, Zenon

LEMMA CloseCareful ==
    ASSUME IInv, CarefulInv, NEW t \in Threads, pc[t] \in {"scan", "closing"},
           Closesocket(mine[t]), Return(t), UNCHANGED <<socket, info, lock, held>>
    PROVE  CarefulInv'
<1>1. t \in Carrying /\ mine[t] \in Sockets BY Zenon DEF Carrying, IInv, LocalsHeld
<1>2. /\ \A x \in Sockets \ {mine[t]} : kind'[x] = kind[x]
      /\ kind' \in [Sockets -> Info]
      BY PlainInfo, Zenon DEF Closesocket, CarefulInv, CTypes
<1>3. /\ Frame(t) /\ LocalInv(t)' /\ ~Taking(t)'
      /\ op' \in [Threads -> Calls \cup {"socket", "resolve"}] /\ want' \in [Threads -> Info]
      BY ReturnRelies, Zenon
<1>4. CTypes' BY <1>2, <1>3, Zenon DEF CarefulInv, CTypes
<1>5. LockHeld' BY <1>3 DEF CarefulInv, CTypes, LockHeld, Frame
<1>6. NoUnixReuse' BY <1>2, Zenon DEF Closesocket, CarefulInv, NoUnixReuse, IInv, STypes
<1>7. (\A u \in Threads \ {t} : Reliance(u)) /\ HeldInv' /\ Described'
      BY <1>1, <1>2, LooseRelies, Zenon
<1>. QED BY <1>3, <1>4, <1>5, <1>6, <1>7, CarefulStep, Zenon

LEMMA PassCareful ==
    ASSUME IInv, CarefulInv, NEW t \in Threads, Scan(t), socket[fd[t]] # Invalid
    PROVE  CarefulInv'
<1>1. /\ pc[t] = "scan" /\ pc' = pc /\ op' = op /\ mine' = mine /\ want' = want
      /\ fd' = [fd EXCEPT ![t] = fd[t] + 1]
      /\ UNCHANGED <<socket, info, lock, open, kind, reuse, held>>
      BY Zenon DEF Scan, winsock
<1>2. Frame(t) BY <1>1, Zenon DEF Frame, IInv, STypes
<1>3. ~Taking(t)' /\ LocalInv(t)'
      BY <1>1, Zenon DEF Taking, Using, LocalInv, CarefulInv
<1>. QED BY <1>1, <1>2, <1>3, CarefulQuiet, Zenon DEF CarefulInv, CTypes

LEMMA StoreCareful ==
    ASSUME IInv, CarefulInv, NEW t \in Threads, Scan(t), socket[fd[t]] = Invalid
    PROVE  CarefulInv'
<1>1. /\ pc[t] = "scan" /\ pc' = [pc EXCEPT ![t] = "describe"]
      /\ socket' = [socket EXCEPT ![fd[t]] = mine[t]]
      /\ UNCHANGED <<op, fd, mine, want, info, lock, open, kind, reuse, held>>
      BY Zenon DEF Scan, Goto, winsock
<1>2. fd[t] \in Fds /\ mine[t] \in Sockets
      BY <1>1, SocketAssumption DEF Scan, Fds, IInv, STypes, LocalsHeld
<1>3. held[fd[t]] = Invalid BY <1>2, Zenon DEF CarefulInv, HeldInv
<1>4. Frame(t) /\ pc'[t] = "describe" BY <1>1, Zenon DEF Frame, IInv, STypes
<1>5. socket'[fd[t]] = mine[t] /\ \A j \in Fds : j # fd[t] => socket'[j] = socket[j]
      BY <1>1, <1>2, Zenon DEF IInv, STypes
<1>6. LocalInv(t)'
  <2>1. kind[mine[t]] = want[t] BY <1>1, Zenon DEF CarefulInv, LocalInv
  <2>. QED BY <1>1, <1>2, <1>3, <1>4, <1>5, <2>1, Zenon DEF Using, LocalInv
<1>7. \A u \in Threads : Taking(u) => fd[u] \in Fds /\ fd[u] # fd[t]
      BY SocketAssumption DEF CarefulInv, LocalInv
<1>8. \A u \in Threads \ {t} : Reliance(u) BY <1>1, <1>5, <1>7, Zenon DEF Reliance
<1>9. CTypes' BY <1>1, Zenon DEF CarefulInv, CTypes
<1>10. HeldInv' BY <1>1, <1>3, <1>5, Zenon DEF CarefulInv, HeldInv
<1>11. LockHeld' BY <1>1, <1>4 DEF CarefulInv, CTypes, LockHeld, Frame
<1>12. Described' /\ NoUnixReuse' BY <1>1, Zenon DEF CarefulInv, Described, NoUnixReuse
<1>. QED BY <1>1, <1>4, <1>6, <1>7, <1>8, <1>9, <1>10, <1>11, <1>12, CarefulStep, Zenon

LEMMA DescribeCareful ==
    ASSUME IInv, CarefulInv, NEW t \in Threads, Describe(t)
    PROVE  CarefulInv'
<1>1. /\ pc[t] = "describe" /\ Return(t)
      /\ info' = [info EXCEPT ![fd[t]] = want[t]] /\ held' = [held EXCEPT ![fd[t]] = mine[t]]
      /\ UNCHANGED <<socket, lock, open, kind, reuse>>
      BY Zenon DEF Describe, winsock
<1>2. /\ Taking(t) /\ fd[t] \in Fds /\ mine[t] \in Sockets /\ socket[fd[t]] = mine[t]
      /\ held[fd[t]] = Invalid /\ kind[mine[t]] = want[t] /\ want[t] \in Info
      BY <1>1, Zenon DEF Taking, CarefulInv, LocalInv, CTypes
<1>3. /\ Frame(t) /\ LocalInv(t)' /\ ~Taking(t)'
      /\ op' \in [Threads -> Calls \cup {"socket", "resolve"}] /\ want' \in [Threads -> Info]
      BY <1>1, ReturnRelies, Zenon
<1>4. /\ held'[fd[t]] = mine[t] /\ info'[fd[t]] = want[t]
      /\ \A j \in Fds : j # fd[t] => held'[j] = held[j] /\ info'[j] = info[j]
      BY <1>1, <1>2, Zenon DEF CarefulInv, CTypes
<1>5. \A u \in Threads \ {t} : Taking(u) \/ Using(u) => fd[u] \in Fds /\ fd[u] # fd[t]
      BY <1>2, SocketAssumption DEF CarefulInv, LocalInv, Alone
<1>6. \A u \in Threads \ {t} : Reliance(u) BY <1>1, <1>4, <1>5, Zenon DEF Reliance
<1>7. CTypes' BY <1>1, <1>2, <1>3, Zenon DEF CarefulInv, CTypes
<1>8. HeldInv' BY <1>1, <1>2, <1>4, Zenon DEF CarefulInv, HeldInv
<1>9. LockHeld' BY <1>1, <1>3 DEF CarefulInv, CTypes, LockHeld, Frame
<1>10. Described'
  <2>1. SUFFICES ASSUME NEW i \in Fds, held'[i] # Invalid
                 PROVE  /\ info'[i].unix = kind'[held'[i]].unix
                        /\ lock'[i] = None => info'[i].nb = kind'[held'[i]].nb
        BY Zenon DEF Described
  <2>2. CASE i = fd[t] BY <1>1, <1>2, <1>4, <2>2
  <2>3. CASE i # fd[t] BY <1>1, <1>4, <2>1, <2>3 DEF CarefulInv, Described
  <2>. QED BY <2>2, <2>3, Zenon
<1>11. NoUnixReuse' BY <1>1, Zenon DEF CarefulInv, NoUnixReuse
<1>. QED BY <1>3, <1>6, <1>7, <1>8, <1>9, <1>10, <1>11, CarefulStep, Zenon

(* close takes the descriptor from the clients; nobody else is in a call on it.*)
LEMMA GetCareful ==
    ASSUME IInv, CarefulInv, Careful, NEW t \in Threads, Get(t)
    PROVE  CarefulInv'
<1>1. PICK i \in Fds, o \in Calls :
        /\ Allowed(i, o) /\ socket[i] # Invalid
        /\ fd' = [fd EXCEPT ![t] = i] /\ op' = [op EXCEPT ![t] = o]
        /\ mine' = [mine EXCEPT ![t] = socket[i]]
        /\ held' = IF o = "close" THEN [held EXCEPT ![i] = Invalid] ELSE held
      BY Zenon DEF Get
<1>2. /\ pc[t] = "idle" /\ pc' = [pc EXCEPT ![t] = "call"] /\ want' = want
      /\ UNCHANGED <<socket, info, lock, open, kind, reuse>>
      BY Zenon DEF Get, Goto, slots, winsock
<1>3. Frame(t) /\ pc'[t] = "call" /\ op'[t] = o /\ fd'[t] = i /\ mine'[t] = socket[i]
      BY <1>1, <1>2, Zenon DEF Frame, IInv, STypes, CarefulInv, CTypes
<1>4. held[i] # Invalid /\ held[i] = socket[i] /\ socket[i] \in Sockets
      BY <1>1, Zenon DEF Allowed, CarefulInv, HeldInv, IInv, STypes
<1>5. op' \in [Threads -> Calls \cup {"socket", "resolve"}] BY <1>1, Zenon DEF CarefulInv, CTypes
<1>6. CASE o # "close"
  <2>1. held' = held BY <1>1, <1>6, Zenon
  <2>2. ~Taking(t)' BY <1>3, <1>6, Zenon DEF Taking
  <2>3. LocalInv(t)' BY <1>3, <1>4, <2>1, <2>2, Zenon DEF LocalInv, Using
  <2>. QED BY <1>2, <1>3, <1>5, <2>1, <2>2, <2>3, CarefulQuiet, Zenon DEF CarefulInv, CTypes
<1>7. CASE o = "close"
  <2>1. held' \in [Fds -> Sockets \cup {Invalid}] /\ held'[i] = Invalid
        /\ \A j \in Fds : j # i => held'[j] = held[j]
        BY <1>1, <1>7, Zenon DEF CarefulInv, CTypes
  <2>2. \A u \in Threads : fd[u] = i => pc[u] \in {"scan", "closing"} \/ op[u] \in {"socket", "resolve"}
        BY <1>1, <1>7, Zenon DEF Allowed
  <2>3. \A u \in Threads : Taking(u) => fd[u] \in Fds /\ fd[u] # i
        BY <1>4, Zenon DEF CarefulInv, LocalInv
  <2>4. \A u \in Threads : Using(u) => fd[u] \in Fds /\ fd[u] # i
        BY <2>2, SocketAssumption, Zenon DEF CarefulInv, LocalInv, Using
  <2>5. \A u \in Threads \ {t} : Reliance(u) BY <1>2, <2>1, <2>3, <2>4, Zenon DEF Reliance
  <2>6. LocalInv(t)' BY <1>2, <1>3, <1>4, <1>7, <2>1, Zenon DEF LocalInv, Using
  <2>7. CTypes' BY <1>2, <1>5, <2>1, Zenon DEF CarefulInv, CTypes
  <2>8. HeldInv' BY <1>2, <2>1, Zenon DEF CarefulInv, HeldInv
  <2>9. LockHeld' BY <1>2, <1>3 DEF CarefulInv, CTypes, LockHeld, Frame
  <2>10. Described' /\ NoUnixReuse' BY <1>2, <2>1, Zenon DEF CarefulInv, Described, NoUnixReuse
  <2>. QED BY <1>3, <2>3, <2>5, <2>6, <2>7, <2>8, <2>9, <2>10, CarefulStep, Zenon
<1>. QED BY <1>6, <1>7, Zenon

(* A careful close always finds its SOCKET in the slot.                        *)
LEMMA SwapCareful ==
    ASSUME IInv, CarefulInv, NEW t \in Threads, CloseSwap(t)
    PROVE  CarefulInv'
<1>1. /\ Taking(t) /\ fd[t] \in Fds /\ socket[fd[t]] = mine[t] /\ held[fd[t]] = Invalid
      /\ pc[t] = "call"
      BY Zenon DEF CloseSwap, Taking, CarefulInv, LocalInv
<1>2. /\ pc' = [pc EXCEPT ![t] = "closing"] /\ socket' = [socket EXCEPT ![fd[t]] = Invalid]
      /\ UNCHANGED <<op, fd, mine, want, info, lock, open, kind, reuse, held>>
      BY <1>1, Zenon DEF CloseSwap, Goto, winsock, locals
<1>3. Frame(t) /\ pc'[t] = "closing" BY <1>2, Zenon DEF Frame, IInv, STypes
<1>4. \A j \in Fds : j # fd[t] => socket'[j] = socket[j] BY <1>2, Zenon DEF IInv, STypes
<1>5. ~Taking(t)' /\ LocalInv(t)' BY <1>3, Zenon DEF Taking, Using, LocalInv
<1>6. \A u \in Threads \ {t} : Taking(u) => fd[u] \in Fds /\ fd[u] # fd[t]
      BY <1>1, Zenon DEF CarefulInv, LocalInv, Alone
<1>7. \A u \in Threads \ {t} : Reliance(u) BY <1>2, <1>4, <1>6, Zenon DEF Reliance
<1>8. CTypes' BY <1>2, Zenon DEF CarefulInv, CTypes
<1>9. HeldInv' BY <1>1, <1>2, <1>4, Zenon DEF CarefulInv, HeldInv
<1>10. LockHeld' BY <1>1, <1>2, <1>3 DEF CarefulInv, CTypes, LockHeld, Frame
<1>11. Described' /\ NoUnixReuse' BY <1>2, Zenon DEF CarefulInv, Described, NoUnixReuse
<1>. QED BY <1>3, <1>5, <1>7, <1>8, <1>9, <1>10, <1>11, CarefulStep, Zenon

LEMMA AcceptCareful ==
    ASSUME IInv, CarefulInv, NEW t \in Threads, Accept(t)
    PROVE  CarefulInv'
<1>1. /\ pc[t] = "call" /\ op[t] \in {"accept", "accept4"}
      /\ pc' = [pc EXCEPT ![t] = "create"] /\ op' = op /\ fd' = fd /\ mine' = mine
      /\ UNCHANGED <<socket, info, lock, open, kind, reuse, held>>
      BY Zenon DEF Accept, Goto, slots, winsock
<1>2. Using(t) /\ fd[t] \in Fds BY <1>1, Zenon DEF Using, CarefulInv, LocalInv
<1>3. PICK nb \in BOOLEAN : want' = [want EXCEPT ![t] = [unix |-> info[fd[t]].unix, nb |-> nb]]
  <2>1. info[fd[t]].nb \in BOOLEAN BY <1>2, Zenon DEF CarefulInv, CTypes, Info
  <2>. QED BY <2>1, Zenon DEF Accept
<1>4. want' \in [Threads -> Info]
  <2>1. info[fd[t]].unix \in BOOLEAN BY <1>2, Zenon DEF CarefulInv, CTypes, Info
  <2>2. [unix |-> info[fd[t]].unix, nb |-> nb] \in Info BY <2>1, Zenon DEF Info
  <2>. QED BY <1>3, <2>2, Zenon DEF CarefulInv, CTypes
<1>5. Frame(t) /\ pc'[t] = "create" BY <1>1, <1>3, Zenon DEF Frame, IInv, STypes, CarefulInv, CTypes
<1>6. ~Taking(t)' BY <1>5, Zenon DEF Taking
<1>7. LocalInv(t)' BY <1>1, <1>2, <1>5, <1>6, Zenon DEF Using, LocalInv, CarefulInv
<1>. QED BY <1>1, <1>4, <1>5, <1>6, <1>7, CarefulQuiet, Zenon DEF CarefulInv, CTypes

LEMMA SetsockoptCareful ==
    ASSUME IInv, CarefulInv, NEW t \in Threads, Setsockopt(t)
    PROVE  CarefulInv'
<1>1. /\ pc[t] = "call" /\ op[t] = "option" /\ Return(t)
      /\ reuse' = IF info[fd[t]].unix THEN reuse ELSE reuse \cup {mine[t]}
      /\ UNCHANGED <<socket, info, lock, open, kind, held>>
      BY Zenon DEF Setsockopt, slots
<1>2. fd[t] \in Fds /\ held[fd[t]] = mine[t] /\ mine[t] # Invalid
      BY <1>1, SocketAssumption, Zenon DEF Using, CarefulInv, LocalInv
<1>3. /\ Frame(t) /\ LocalInv(t)' /\ ~Taking(t)'
      /\ op' \in [Threads -> Calls \cup {"socket", "resolve"}] /\ want' \in [Threads -> Info]
      BY <1>1, ReturnRelies, Zenon
<1>4. CTypes' BY <1>1, <1>3, Zenon DEF CarefulInv, CTypes
<1>5. HeldInv' /\ Described' BY <1>1, Zenon DEF CarefulInv, HeldInv, Described
<1>6. LockHeld' BY <1>1, <1>3 DEF CarefulInv, CTypes, LockHeld, Frame
<1>7. info[fd[t]].unix = kind[mine[t]].unix BY <1>2, Zenon DEF CarefulInv, Described
<1>8. NoUnixReuse' BY <1>1, <1>7, Zenon DEF CarefulInv, NoUnixReuse
<1>9. \A u \in Threads \ {t} : Reliance(u) BY <1>1, Zenon DEF Reliance
<1>. QED BY <1>3, <1>4, <1>5, <1>6, <1>8, <1>9, CarefulStep, Zenon

(* The mode of the SOCKET changes while its flags are locked.                  *)
LEMMA SetflCareful ==
    ASSUME IInv, CarefulInv, NEW t \in Threads, Setfl(t)
    PROVE  CarefulInv'
<1>1. /\ pc[t] = "call" /\ op[t] = "setfl" /\ lock[fd[t]] = None
      /\ pc' = [pc EXCEPT ![t] = "setfl"] /\ lock' = [lock EXCEPT ![fd[t]] = t]
      /\ UNCHANGED <<op, fd, mine, socket, info, open, reuse, held>>
      BY Zenon DEF Setfl, Goto
<1>2. PICK nb \in BOOLEAN : /\ kind' = [kind EXCEPT ![mine[t]].nb = nb]
                            /\ want' = [want EXCEPT ![t] = [info[fd[t]] EXCEPT !.nb = nb]]
      BY Zenon DEF Setfl
<1>3. /\ Using(t) /\ fd[t] \in Fds /\ held[fd[t]] = mine[t] /\ mine[t] \in Sockets
      /\ op[t] \in Calls
      BY <1>1, Zenon DEF Using, CarefulInv, LocalInv
<1>4. /\ \A s \in Sockets : s # mine[t] => kind'[s] = kind[s]
      /\ kind'[mine[t]].nb = nb /\ kind'[mine[t]].unix = kind[mine[t]].unix
      /\ kind' \in [Sockets -> Info]
  <2>1. [kind[mine[t]] EXCEPT !.nb = nb] \in Info BY <1>3 DEF CarefulInv, CTypes, Info
  <2>2. kind' = [kind EXCEPT ![mine[t]] = [kind[mine[t]] EXCEPT !.nb = nb]] BY <1>2, Zenon
  <2>3. kind[mine[t]] \in [unix : BOOLEAN, nb : BOOLEAN] BY <1>3, Zenon DEF CarefulInv, CTypes, Info
  <2>. QED BY <1>3, <2>1, <2>2, <2>3, Zenon DEF CarefulInv, CTypes
<1>5. want' \in [Threads -> Info] /\ want'[t].nb = nb
  <2>1. info[fd[t]] \in [unix : BOOLEAN, nb : BOOLEAN] BY <1>3, Zenon DEF CarefulInv, CTypes, Info
  <2>2. [info[fd[t]] EXCEPT !.nb = nb] \in Info BY <2>1, Zenon DEF Info
  <2>. QED BY <1>2, <2>1, <2>2, Zenon DEF CarefulInv, CTypes
<1>6. Frame(t) /\ pc'[t] = "setfl" BY <1>1, <1>2, Zenon DEF Frame, IInv, STypes, CarefulInv, CTypes
<1>7. lock'[fd[t]] = t /\ \A j \in Fds : j # fd[t] => lock'[j] = lock[j]
      BY <1>1, <1>3, Zenon DEF CarefulInv, CTypes
<1>8. ~Taking(t)' BY <1>6, Zenon DEF Taking
<1>9. LocalInv(t)' BY <1>1, <1>3, <1>4, <1>5, <1>6, <1>7, <1>8, Zenon DEF Using, LocalInv
<1>10. ASSUME NEW u \in Threads \ {t} PROVE Reliance(u)
  <2>1. LocalInv(u) /\ mine[t] # Invalid BY <1>3, SocketAssumption, Zenon DEF CarefulInv
  <2>2. pc[u] = "setfl" => fd[u] # fd[t] /\ fd[u] \in Fds /\ mine[u] # mine[t] /\ mine[u] \in Sockets
    <3>1. SUFFICES ASSUME pc[u] = "setfl"
                   PROVE  fd[u] # fd[t] /\ fd[u] \in Fds /\ mine[u] # mine[t] /\ mine[u] \in Sockets
          OBVIOUS
    <3>2. Using(u) /\ lock[fd[u]] = u BY <2>1, <3>1, Zenon DEF LocalInv, Using
    <3>3. fd[u] \in Fds /\ held[fd[u]] = mine[u] /\ mine[u] \in Sockets BY <2>1, <3>2, Zenon DEF LocalInv
    <3>4. fd[u] # fd[t] BY <1>1, <3>2, SocketAssumption, Zenon
    <3>5. socket[fd[u]] = mine[u] /\ socket[fd[t]] = mine[t]
          BY <1>3, <2>1, <3>3, SocketAssumption, Zenon DEF CarefulInv, HeldInv
    <3>. QED BY <1>3, <2>1, <3>3, <3>4, <3>5, Zenon DEF IInv, Accounted
  <2>3. pc[u] \in {"scan", "describe"} => mine[u] # mine[t] /\ mine[u] \in Sockets
    <3>1. pc[u] = "scan" => u \in Carrying /\ mine[u] \in Sockets
          BY Zenon DEF Carrying, IInv, LocalsHeld
    <3>2. pc[u] = "describe" => Taking(u) /\ mine[u] \in Sockets BY <2>1, Zenon DEF Taking, LocalInv
    <3>. QED BY <1>3, <2>1, <3>1, <3>2, Apart, Zenon
  <2>. QED BY <1>1, <1>4, <1>7, <2>2, <2>3, Zenon DEF Reliance
<1>11. CTypes' BY <1>1, <1>3, <1>4, <1>5, Zenon DEF CarefulInv, CTypes
<1>12. HeldInv' BY <1>1, Zenon DEF CarefulInv, HeldInv
<1>13. LockHeld' BY <1>1, <1>6, <1>7 DEF CarefulInv, CTypes, LockHeld, Frame
<1>14. Described'
  <2>1. \A i \in Fds : held[i] # Invalid /\ i # fd[t] => held[i] # mine[t] /\ held[i] \in Sockets
        BY <1>3, Apart DEF CarefulInv, HeldInv, CTypes
  <2>2. t # None BY SocketAssumption, Zenon
  <2>. QED BY <1>1, <1>3, <1>4, <1>7, <2>1, <2>2 DEF CarefulInv, Described
<1>15. NoUnixReuse' BY <1>1, <1>4, Zenon DEF CarefulInv, NoUnixReuse, IInv, STypes
<1>. QED BY <1>6, <1>8, <1>9, <1>10, <1>11, <1>12, <1>13, <1>14, <1>15, CarefulStep, Zenon

LEMMA SetflDoneCareful ==
    ASSUME IInv, CarefulInv, NEW t \in Threads, SetflDone(t)
    PROVE  CarefulInv'
<1>1. /\ pc[t] = "setfl" /\ Return(t)
      /\ info' = [info EXCEPT ![fd[t]].nb = want[t].nb] /\ lock' = [lock EXCEPT ![fd[t]] = None]
      /\ UNCHANGED <<socket, open, kind, reuse, held>>
      BY Zenon DEF SetflDone, winsock
<1>2. LocalInv(t) /\ Using(t) BY <1>1, Zenon DEF CarefulInv, LocalInv, Using
<1>3. /\ fd[t] \in Fds /\ held[fd[t]] = mine[t] /\ lock[fd[t]] = t
      /\ kind[mine[t]].nb = want[t].nb /\ mine[t] # Invalid
      BY <1>1, <1>2, SocketAssumption, Zenon DEF LocalInv
<1>4. /\ Frame(t) /\ LocalInv(t)' /\ ~Taking(t)'
      /\ op' \in [Threads -> Calls \cup {"socket", "resolve"}] /\ want' \in [Threads -> Info]
      BY <1>1, ReturnRelies, Zenon
<1>5. /\ \A j \in Fds : j # fd[t] => info'[j] = info[j] /\ lock'[j] = lock[j]
      /\ info'[fd[t]].nb = want[t].nb /\ info'[fd[t]].unix = info[fd[t]].unix
      /\ info' \in [Fds -> Info] /\ lock'[fd[t]] = None
  <2>1. info[fd[t]] \in [unix : BOOLEAN, nb : BOOLEAN] BY <1>3, Zenon DEF CarefulInv, CTypes, Info
  <2>2. want[t] \in [unix : BOOLEAN, nb : BOOLEAN] BY Zenon DEF CarefulInv, CTypes, Info
  <2>3. [info[fd[t]] EXCEPT !.nb = want[t].nb] \in Info BY <2>1, <2>2, Zenon DEF Info
  <2>4. info' = [info EXCEPT ![fd[t]] = [info[fd[t]] EXCEPT !.nb = want[t].nb]] BY <1>1, Zenon
  <2>. QED BY <1>1, <1>3, <2>1, <2>3, <2>4 DEF CarefulInv, CTypes
<1>6. \A u \in Threads \ {t} : pc[u] = "setfl" => fd[u] \in Fds /\ fd[u] # fd[t]
      BY <1>3, Zenon DEF CarefulInv, LocalInv, Using
<1>7. \A u \in Threads \ {t} : Reliance(u) BY <1>1, <1>5, <1>6, Zenon DEF Reliance
<1>8. CTypes' BY <1>1, <1>4, <1>5, Zenon DEF CarefulInv, CTypes
<1>9. HeldInv' /\ NoUnixReuse' BY <1>1, Zenon DEF CarefulInv, HeldInv, NoUnixReuse
<1>10. LockHeld'
  <2>1. \A j \in Fds : lock[j] = t => j = fd[t]
        BY SocketAssumption, Zenon DEF CarefulInv, LockHeld
  <2>. QED BY <1>4, <1>5, <2>1 DEF CarefulInv, CTypes, LockHeld, Frame
<1>11. Described'
  <2>1. info[fd[t]].unix = kind[mine[t]].unix BY <1>3, Zenon DEF CarefulInv, Described
  <2>. QED BY <1>1, <1>3, <1>5, <2>1 DEF CarefulInv, Described
<1>. QED BY <1>4, <1>7, <1>8, <1>9, <1>10, <1>11, CarefulStep, Zenon

(* The steps to and through wpdk_socket_startup, in no call on a descriptor.   *)
LEMMA StartupCareful ==
    ASSUME IInv, CarefulInv, NEW t \in Threads,
           NEW label \in {"startup", "publish", "ready", "create"}, Goto(t, label),
           op'[t] \in {"socket", "resolve"},
           \A u \in Threads \ {t} : op'[u] = op[u] /\ want'[u] = want[u],
           fd' = fd, mine' = mine, pc[t] # "setfl",
           op' \in [Threads -> Calls \cup {"socket", "resolve"}], want' \in [Threads -> Info],
           UNCHANGED <<socket, info, lock, open, kind, reuse, held>>
    PROVE  CarefulInv'
<1>1. Frame(t) /\ pc'[t] = label BY Zenon DEF Goto, Frame, IInv, STypes
<1>2. ~Taking(t)' BY <1>1, Zenon DEF Taking
<1>3. ~Using(t)' BY SocketAssumption, Zenon DEF Using
<1>4. LocalInv(t)' BY <1>1, <1>2, <1>3, Zenon DEF LocalInv
<1>. QED BY <1>1, <1>2, <1>4, CarefulQuiet, Zenon

LEMMA CarefulKept ==
    ASSUME IInv, CarefulInv, Careful, NEW t \in Threads, Step(t)
    PROVE  CarefulInv'
<1>. /\ op \in [Threads -> Calls \cup {"socket", "resolve"}] /\ want \in [Threads -> Info]
     /\ LocalInv(t)
     BY Zenon DEF CarefulInv, CTypes
<1>1. CASE StartupFails(t) BY <1>1, QuietReturn, Zenon DEF StartupFails, slots, winsock
<1>2. CASE CreateFails(t) BY <1>2, QuietReturn, Zenon DEF CreateFails, slots, winsock
<1>3. CASE Describe(t) BY <1>3, DescribeCareful, Zenon
<1>4. CASE Exchange(t) BY <1>4, QuietReturn, Zenon DEF Exchange, slots, winsock
<1>5. CASE Use(t) BY <1>5, QuietReturn, Zenon DEF Use, slots, winsock
<1>6. CASE Setsockopt(t) BY <1>6, SetsockoptCareful, Zenon
<1>7. CASE Getfl(t) BY <1>7, QuietReturn, Zenon DEF Getfl, slots, winsock
<1>8. CASE SetflFails(t) BY <1>8, QuietReturn, Zenon DEF SetflFails, slots, winsock
<1>9. CASE SetflDone(t) BY <1>9, SetflDoneCareful, Zenon
<1>10. CASE Socket(t)
  <2>1. PICK label \in {"startup", "create"} : Goto(t, label) BY <1>10, Zenon DEF Socket
  <2>2. PICK w \in Info : want' = [want EXCEPT ![t] = w] BY <1>10, Zenon DEF Socket
  <2>3. /\ op' = [op EXCEPT ![t] = "socket"] /\ fd' = fd /\ mine' = mine /\ pc[t] = "idle"
        /\ UNCHANGED <<socket, info, lock, open, kind, reuse, held>>
        BY <1>10, Zenon DEF Socket, slots, winsock
  <2>4. /\ op'[t] = "socket" /\ \A u \in Threads \ {t} : op'[u] = op[u] /\ want'[u] = want[u]
        /\ op' \in [Threads -> Calls \cup {"socket", "resolve"}] /\ want' \in [Threads -> Info]
        BY <2>2, <2>3, Zenon
  <2>. QED BY <2>1, <2>3, <2>4, StartupCareful, Zenon
<1>11. CASE Getaddrinfo(t)
  <2>1. /\ op' = [op EXCEPT ![t] = "resolve"] /\ fd' = fd /\ mine' = mine /\ want' = want
        /\ pc[t] = "idle" /\ Goto(t, "startup")
        /\ UNCHANGED <<socket, info, lock, open, kind, reuse, held>>
        BY <1>11, Zenon DEF Getaddrinfo, slots, winsock
  <2>2. /\ op'[t] = "resolve" /\ \A u \in Threads \ {t} : op'[u] = op[u]
        /\ op' \in [Threads -> Calls \cup {"socket", "resolve"}]
        BY <2>1, Zenon
  <2>. QED BY <2>1, <2>2, StartupCareful, Zenon
<1>12. CASE Startup(t)
       BY <1>12, StartupCareful, Zenon DEF Startup, slots, locals, LocalInv
<1>13. CASE PublishTable(t)
       BY <1>13, StartupCareful, Zenon DEF PublishTable, slots, winsock, locals, LocalInv
<1>14. CASE PublishReady(t)
  <2>1. CASE op[t] = "resolve" BY <1>14, <2>1, QuietReturn, Zenon DEF PublishReady, slots
  <2>2. CASE op[t] # "resolve"
        BY <1>14, <2>2, StartupCareful DEF PublishReady, slots, locals, LocalInv
  <2>. QED BY <2>1, <2>2, Zenon
<1>15. CASE Accept(t) BY <1>15, AcceptCareful, Zenon
<1>16. CASE Create(t) BY <1>16, CreateCareful, Zenon
<1>17. CASE Scan(t) BY <1>17, StoreCareful, PassCareful, Zenon
<1>18. CASE TableFull(t) BY <1>18, CloseCareful, Zenon DEF TableFull, slots
<1>19. CASE Get(t) BY <1>19, GetCareful, Zenon
<1>20. CASE CloseSwap(t) BY <1>20, SwapCareful, Zenon
<1>21. CASE CloseSocket(t) BY <1>21, CloseCareful, Zenon DEF CloseSocket, slots
<1>22. CASE Setfl(t) BY <1>22, SetflCareful, Zenon
<1>. QED BY <1>1, <1>2, <1>3, <1>4, <1>5, <1>6, <1>7, <1>8, <1>9, <1>10, <1>11, <1>12,
            <1>13, <1>14, <1>15, <1>16, <1>17, <1>18, <1>19, <1>20, <1>21, <1>22
         DEF Step

(* socket.c:98-100, 135-152, 651-654, 709-750: among clients that use no       *)
(* descriptor after its close, a descriptor reaches the SOCKET it was returned *)
(* for in every call, the domain and flags kept for it are those of that       *)
(* SOCKET, and SO_REUSEADDR is never set on an AF_UNIX one.                    *)
THEOREM CarefulClients ==
    ASSUME Careful
    PROVE  Spec => [](DescriptorStable /\ Described /\ NoUnixReuse)
<1>1. Init => IInv /\ CarefulInv
  <2>1. SUFFICES ASSUME Init PROVE IInv /\ CarefulInv OBVIOUS
  <2>2. CTypes BY <2>1, PlainInfo, Zenon DEF Init, CTypes
  <2>3. \A t \in Threads : ~Taking(t) /\ ~Using(t) BY <2>1, Zenon DEF Init, Taking, Using
  <2>4. \A t \in Threads : LocalInv(t) BY <2>1, <2>3, Zenon DEF Init, LocalInv
  <2>5. HeldInv /\ LockHeld /\ Described /\ NoUnixReuse
        BY <2>1, Zenon DEF Init, HeldInv, LockHeld, Described, NoUnixReuse
  <2>6. CarefulInv BY <2>2, <2>3, <2>4, <2>5, Zenon DEF CarefulInv, Alone
  <2>. QED BY <2>1, <2>6, InitHolds, Zenon
<1>2. IInv /\ CarefulInv /\ [Next]_vars => (IInv /\ CarefulInv)'
  <2>1. SUFFICES ASSUME IInv, CarefulInv, [Next]_vars PROVE IInv' /\ CarefulInv' OBVIOUS
  <2>2. CASE UNCHANGED vars
    <3>1. IInv' BY <2>1, <2>2, StutterKeeps, Zenon
    <3>2. CTypes' /\ HeldInv' /\ LockHeld' /\ Described' /\ NoUnixReuse'
          BY <2>1, <2>2, Zenon DEF vars, slots, winsock, locals, CarefulInv, CTypes, HeldInv, LockHeld,
                            Described, NoUnixReuse
    <3>3. \A t \in Threads : LocalInv(t)' /\ (Taking(t)' <=> Taking(t)) /\ fd'[t] = fd[t]
          BY <2>1, <2>2 DEF vars, slots, winsock, locals, CarefulInv, LocalInv, Taking, Using
    <3>4. Alone' BY <2>1, <3>3, Zenon DEF CarefulInv, Alone
    <3>. QED BY <3>1, <3>2, <3>3, <3>4, Zenon DEF CarefulInv
  <2>3. CASE Next
    <3>1. PICK t \in Threads : Step(t) BY <2>3, Zenon DEF Next
    <3>. QED BY <2>1, <3>1, StepKeeps, CarefulKept, Zenon
  <2>. QED BY <2>1, <2>2, <2>3, Zenon
<1>3. IInv /\ CarefulInv => DescriptorStable /\ Described /\ NoUnixReuse
  <2>1. SUFFICES ASSUME IInv, CarefulInv PROVE DescriptorStable
        BY Zenon DEF CarefulInv
  <2>2. \A i \in Fds : held[i] # Invalid => socket[i] = held[i] /\ held[i] \in open
        BY <2>1, Apart, Zenon DEF CarefulInv, HeldInv
  <2>3. ASSUME NEW t \in Threads, pc[t] \in {"call", "setfl", "create"}, op[t] \in Calls
        PROVE  mine[t] = socket[fd[t]] /\ mine[t] \in open
    <3>1. LocalInv(t) BY <2>1, Zenon DEF CarefulInv
    <3>2. CASE op[t] = "close"
      <4>1. Taking(t) BY <2>3, <3>1, <3>2, Zenon DEF LocalInv, Taking
      <4>. QED BY <2>1, <3>1, <4>1, Apart, Zenon DEF LocalInv
    <3>3. CASE op[t] # "close"
      <4>1. Using(t) BY <2>3, <3>3, Zenon DEF Using
      <4>. QED BY <2>2, <3>1, <4>1, SocketAssumption, Zenon DEF LocalInv
    <3>. QED BY <3>2, <3>3, Zenon
  <2>. QED BY <2>2, <2>3, Zenon DEF DescriptorStable
<1>. QED BY <1>1, <1>2, <1>3, PTL DEF Spec

-----------------------------------------------------------------------------
(***************************************************************************)
(* poll and select, for any set of descriptors and any conditions.         *)
(***************************************************************************)
CONSTANTS Descs, Conds
VARIABLES holds, at, events, revents, sets, asked
Poll == INSTANCE Poll WITH Fds <- Descs, Watched <- Conds, ready <- holds, pc <- at

\* revents while the answer is awaited: nothing but what was invalid.
Awaited == \A f \in DOMAIN events : revents[f] = IF asked[f] = Invalid THEN {"nval"} ELSE {}

PollTypes ==
    /\ socket \in [Descs -> Sockets \cup {Invalid}]
    /\ DOMAIN events \subseteq Descs /\ DOMAIN revents = DOMAIN events
    /\ at \in {"idle", "select", "report"}
    /\ at # "idle" => Awaited

\* No two descriptors have one SOCKET.
OneEach == \A f, g \in Descs : socket[f] = socket[g] => f = g \/ socket[f] = Invalid

\* What is in the sets for select was asked for, and is still the descriptor's.
InSets ==
    /\ \A f \in DOMAIN events : asked[f] # Invalid => socket[f] = asked[f]
    /\ \A c \in Poll!Conditions : \A s \in sets[c] :
          \E f \in DOMAIN events : c \in events[f] /\ s = asked[f] /\ s # Invalid

PollInv == PollTypes /\ OneEach /\ (at # "idle" => InSets) /\ Poll!ReportedAsAsked

LEMMA PollTypesStep ==
    ASSUME PollTypes, [Poll!Next]_(Poll!vars)
    PROVE  PollTypes'
<1>1. ASSUME NEW f \in Descs, NEW s \in Sockets, Poll!OpenSocket(f, s) PROVE PollTypes'
  BY <1>1, Zenon DEF Poll!OpenSocket, Poll!Open, Poll!call, PollTypes, Awaited
<1>2. ASSUME NEW f \in Descs, Poll!CloseFd(f) PROVE PollTypes'
  BY <1>2, Zenon DEF Poll!CloseFd, Poll!Close, Poll!call, PollTypes, Awaited
<1>3. ASSUME NEW s \in Sockets, Poll!Change(s) PROVE PollTypes'
  BY <1>3, Zenon DEF Poll!Change, Poll!call, PollTypes, Awaited
<1>4. ASSUME NEW q \in Poll!Requests, Poll!Start(q) PROVE PollTypes'
  <2>1. DOMAIN q \subseteq Descs
    BY DEF Poll!Requests
  <2>2. /\ events' = q /\ DOMAIN revents' = DOMAIN q
        /\ \A f \in DOMAIN q : /\ asked'[f] = socket[f]
                                  /\ revents'[f] = IF socket[f] = Invalid THEN {"nval"} ELSE {}
        /\ socket' = socket /\ at' = "select"
    BY <1>4, Zenon DEF Poll!Start, Poll!GetSocket
  <2>3. Awaited'
    BY <2>2, Zenon DEF Awaited
  <2>. QED
    BY <2>1, <2>2, <2>3, Zenon DEF PollTypes
<1>5. CASE Poll!Select \/ Poll!SelectFails
  BY <1>5, Zenon DEF Poll!Select, Poll!SelectFails, PollTypes, Awaited
<1>6. CASE Poll!ReportAll
  BY <1>6, Zenon DEF Poll!ReportAll, PollTypes
<1>7. CASE UNCHANGED Poll!vars
  BY <1>7, Zenon DEF Poll!vars, PollTypes, Awaited
<1>. QED
  BY <1>1, <1>2, <1>3, <1>4, <1>5, <1>6, <1>7, Zenon DEF Poll!Next

AllOpen == \A s \in Poll!Asked : Poll!IsOpen(s)

LEMMA AskedAreOpen == PollTypes /\ InSets => AllOpen
<1>. SUFFICES ASSUME PollTypes, InSets
              PROVE  AllOpen
  OBVIOUS
<1>1. ASSUME NEW c \in Poll!Conditions, NEW s \in sets[c]
      PROVE  \E f \in Descs : socket[f] = s
  <2>1. PICK f \in DOMAIN events : s = asked[f] /\ s # Invalid
    BY Zenon DEF InSets
  <2>. QED
    BY <2>1, Zenon DEF InSets, PollTypes
<1>. QED
  BY <1>1, Zenon DEF AllOpen, Poll!Asked, Poll!IsOpen

\* Descriptors come and go beside the call; those it asks about stay.
LEMMA SocketsStep ==
    ASSUME PollInv, Careful = TRUE, NEW f \in Descs,
           (\E s \in Sockets : Poll!OpenSocket(f, s)) \/ Poll!CloseFd(f)
    PROVE  OneEach' /\ (at' # "idle" => InSets')
<1>1. UNCHANGED <<at, events, revents, sets, asked>>
  BY Zenon DEF Poll!OpenSocket, Poll!CloseFd, Poll!call
<1>2. \A g \in Descs : g # f => socket'[g] = socket[g]
  BY Zenon DEF Poll!OpenSocket, Poll!CloseFd, Poll!Open, Poll!Close, PollInv, PollTypes
<1>3. OneEach'
  <2>1. ASSUME NEW s \in Sockets, Poll!OpenSocket(f, s) PROVE OneEach'
    <3>1. socket'[f] = s /\ \A g \in Descs : socket[g] # s
      BY <2>1, Zenon DEF Poll!OpenSocket, Poll!Open, PollInv, PollTypes
    <3>. QED
      BY <1>2, <3>1 DEF PollInv, OneEach
  <2>2. ASSUME Poll!CloseFd(f) PROVE OneEach'
    <3>1. socket'[f] = Invalid
      BY <2>2, Zenon DEF Poll!CloseFd, Poll!Close, PollInv, PollTypes
    <3>. QED
      BY <1>2, <3>1 DEF PollInv, OneEach
  <2>. QED
    BY <2>1, <2>2, Zenon
<1>4. ASSUME at # "idle", f \in DOMAIN events PROVE asked[f] = Invalid
  <2>1. ~Poll!CloseFd(f)
    BY <1>4, Zenon DEF Poll!CloseFd
  <2>2. socket[f] = Invalid
    BY <2>1, Zenon DEF Poll!OpenSocket, Poll!Open
  <2>. QED
    BY <1>4, <2>2, Zenon DEF PollInv, InSets
<1>5. ASSUME at # "idle" PROVE InSets'
  <2>1. InSets /\ DOMAIN events \subseteq Descs
    BY <1>5, Zenon DEF PollInv, PollTypes
  <2>2. \A g \in DOMAIN events : asked[g] # Invalid => socket'[g] = asked[g]
    BY <1>2, <1>4, <1>5, <2>1, Zenon DEF InSets
  <2>. QED
    BY <1>1, <2>1, <2>2, Zenon DEF InSets
<1>. QED
  BY <1>1, <1>3, <1>5, Zenon

LEMMA AskStep ==
    ASSUME PollInv, NEW q \in Poll!Requests, Poll!Start(q)
    PROVE  OneEach' /\ InSets'
<1>1. /\ events' = q /\ socket' = socket
      /\ \A f \in DOMAIN q : asked'[f] = socket[f]
      /\ \A c \in Poll!Conditions : sets'[c] =
            {socket[f] : f \in {g \in DOMAIN q : c \in q[g] /\ socket[g] # Invalid}}
  BY Zenon DEF Poll!Start, Poll!FdSet, Poll!GetSocket
<1>2. OneEach'
  BY <1>1, Zenon DEF PollInv, OneEach
<1>3. \A f \in DOMAIN events' : asked'[f] # Invalid => socket'[f] = asked'[f]
  BY <1>1, Zenon
<1>4. \A c \in Poll!Conditions : \A s \in sets'[c] :
        \E f \in DOMAIN events' : c \in events'[f] /\ s = asked'[f] /\ s # Invalid
  <2>1. ASSUME NEW c \in Poll!Conditions, NEW s, s \in sets'[c]
        PROVE  \E f \in DOMAIN events' : c \in events'[f] /\ s = asked'[f] /\ s # Invalid
    <3>1. s \in {socket[f] : f \in {g \in DOMAIN q : c \in q[g] /\ socket[g] # Invalid}}
      BY <1>1, <2>1
    <3>2. \E f \in {g \in DOMAIN q : c \in q[g] /\ socket[g] # Invalid} : s = socket[f]
      BY <3>1, Zenon
    <3>. QED
      BY <1>1, <3>2, Zenon
  <2>. QED
    BY <2>1, Zenon
<1>. QED
  BY <1>2, <1>3, <1>4, Zenon DEF InSets

\* What is reported of a descriptor was asked of it.
LEMMA ReportStep ==
    ASSUME PollInv, Poll!ReportAll
    PROVE  Poll!ReportedAsAsked'
<1>1. /\ at = "report" /\ at' = "idle" /\ events' = events /\ asked' = asked
      /\ \A f \in DOMAIN events : revents'[f] = revents[f] \cup
            UNION {Poll!Report(c) : c \in {d \in Poll!Conditions : Poll!FdIsset(f, d)}}
  BY Zenon DEF Poll!ReportAll
<1>2. InSets /\ PollTypes /\ OneEach /\ Awaited
  BY <1>1, Zenon DEF PollInv, PollTypes
<1>3. ASSUME NEW f \in DOMAIN events, NEW c \in Poll!Conditions, Poll!FdIsset(f, c)
      PROVE  c \in events[f]
  <2>1. socket[f] # Invalid /\ socket[f] \in sets[c] /\ f \in Descs
    BY <1>2, <1>3, Zenon DEF Poll!FdIsset, Poll!GetSocket, PollTypes
  <2>2. PICK g \in DOMAIN events : c \in events[g] /\ socket[f] = asked[g]
    BY <1>2, <2>1, Zenon DEF InSets
  <2>3. socket[g] = socket[f] /\ g \in Descs
    BY <1>2, <2>1, <2>2, Zenon DEF InSets, PollTypes
  <2>4. f = g
    BY <1>2, <2>1, <2>3, Zenon DEF OneEach
  <2>. QED
    BY <2>2, <2>4, Zenon
<1>4. \A c \in Poll!Conditions : "nval" \notin Poll!Report(c)
  BY DEF Poll!Conditions, Poll!Report
<1>5. ASSUME NEW f \in DOMAIN events
      PROVE  /\ revents'[f] \ {"nval"} \subseteq UNION {Poll!Report(c) : c \in events[f]}
             /\ "nval" \in revents'[f] <=> asked[f] = Invalid
  <2>1. revents[f] \subseteq {"nval"} /\ ("nval" \in revents[f] <=> asked[f] = Invalid)
    BY <1>2, Zenon DEF Awaited
  <2>2. ASSUME NEW x, x \in revents'[f], x \notin revents[f]
        PROVE  \E c \in Poll!Conditions : Poll!FdIsset(f, c) /\ x \in Poll!Report(c)
    <3>1. x \in UNION {Poll!Report(c) : c \in {d \in Poll!Conditions : Poll!FdIsset(f, d)}}
      BY <1>1, <2>2, Zenon
    <3>. QED
      BY <3>1, Zenon
  <2>3. revents[f] \subseteq revents'[f]
    BY <1>1, Zenon
  <2>4. "nval" \in revents'[f] <=> "nval" \in revents[f]
    BY <1>4, <2>2, <2>3, Zenon
  <2>5. ASSUME NEW x, x \in revents'[f], x # "nval"
        PROVE  x \in UNION {Poll!Report(c) : c \in events[f]}
    <3>1. x \notin revents[f]
      BY <2>1, <2>5, Zenon
    <3>2. PICK c \in Poll!Conditions : Poll!FdIsset(f, c) /\ x \in Poll!Report(c)
      BY <2>2, <2>5, <3>1, Zenon
    <3>3. c \in events[f]
      BY <1>3, <3>2, Zenon
    <3>. QED
      BY <3>2, <3>3, Zenon
  <2>. QED
    BY <2>1, <2>4, <2>5, Zenon
<1>. QED
  BY <1>1, <1>5, Zenon DEF Poll!ReportedAsAsked

LEMMA UnchangedPoll ==
    ASSUME PollInv, UNCHANGED <<socket, at, events, revents, sets, asked>>
    PROVE  PollInv'
<1>1. PollTypes' /\ OneEach'
  BY Zenon DEF PollInv, PollTypes, Awaited, OneEach
<1>2. at' # "idle" => InSets'
  BY Zenon DEF PollInv, InSets
<1>3. Poll!ReportedAsAsked'
  BY Zenon DEF PollInv, Poll!ReportedAsAsked, Poll!Asked, Poll!IsOpen
<1>. QED
  BY <1>1, <1>2, <1>3, Zenon DEF PollInv

LEMMA PollInvStep ==
    ASSUME PollInv, Careful = TRUE, [Poll!Next]_(Poll!vars)
    PROVE  PollInv'
<1>0. PollTypes' /\ (PollTypes' /\ InSets' => AllOpen')
  BY PollTypesStep, AskedAreOpen, PTL DEF PollInv
<1>1. ASSUME NEW f \in Descs, (\E s \in Sockets : Poll!OpenSocket(f, s)) \/ Poll!CloseFd(f)
      PROVE  PollInv'
  <2>1. UNCHANGED <<at, events, revents, sets, asked>>
    BY <1>1, Zenon DEF Poll!OpenSocket, Poll!CloseFd, Poll!call
  <2>2. OneEach' /\ (at' # "idle" => InSets')
    BY <1>1, SocketsStep, Zenon
  <2>3. at' = "select" => AllOpen'
    BY <1>0, <2>2, Zenon
  <2>4. Poll!ReportedAsAsked'
    BY <2>1, <2>3, Zenon DEF PollInv, Poll!ReportedAsAsked, AllOpen
  <2>. QED
    BY <1>0, <2>2, <2>4, Zenon DEF PollInv
<1>2. ASSUME NEW s \in Sockets, Poll!Change(s) PROVE PollInv'
  <2>1. UNCHANGED <<socket, at, events, revents, sets, asked>>
    BY <1>2, Zenon DEF Poll!Change, Poll!call
  <2>. QED
    BY <2>1, UnchangedPoll, Zenon
<1>3. ASSUME NEW q \in Poll!Requests, Poll!Start(q) PROVE PollInv'
  <2>1. OneEach' /\ InSets' /\ at' = "select"
    BY <1>3, AskStep, Zenon DEF Poll!Start
  <2>2. Poll!ReportedAsAsked'
    BY <1>0, <2>1, Zenon DEF Poll!ReportedAsAsked, AllOpen
  <2>. QED
    BY <1>0, <2>1, <2>2, Zenon DEF PollInv
<1>4. CASE Poll!Select
  <2>1. /\ at = "select" /\ at' = "report" /\ UNCHANGED <<socket, events, asked>>
        /\ \A c \in Poll!Conditions : sets'[c] \subseteq sets[c]
    BY <1>4, Zenon DEF Poll!Select
  <2>2. OneEach' /\ InSets'
    BY <2>1, Zenon DEF PollInv, OneEach, InSets
  <2>3. Poll!ReportedAsAsked'
    BY <2>1, Zenon DEF Poll!ReportedAsAsked
  <2>. QED
    BY <1>0, <2>2, <2>3, Zenon DEF PollInv
<1>5. ~Poll!SelectFails
  BY Zenon DEF PollInv, Poll!ReportedAsAsked, Poll!SelectFails
<1>6. CASE Poll!ReportAll
  <2>1. at' = "idle" /\ socket' = socket
    BY <1>6, Zenon DEF Poll!ReportAll
  <2>2. OneEach'
    BY <2>1, Zenon DEF PollInv, OneEach
  <2>. QED
    BY <1>0, <1>6, <2>1, <2>2, ReportStep, Zenon DEF PollInv
<1>7. CASE UNCHANGED Poll!vars
  <2>1. UNCHANGED <<socket, at, events, revents, sets, asked>>
    BY <1>7, Zenon DEF Poll!vars
  <2>. QED
    BY <2>1, UnchangedPoll, Zenon
<1>. QED
  BY <1>1, <1>2, <1>3, <1>4, <1>5, <1>6, <1>7, Zenon DEF Poll!Next

\* Initially nothing is polled, and no descriptor has a socket.
LEMMA PollInit == Poll!Init => PollInv
<1>. SUFFICES ASSUME Poll!Init
              PROVE  PollInv
  OBVIOUS
<1>1. /\ socket = [f \in Descs |-> Invalid] /\ at = "idle"
      /\ DOMAIN events = {} /\ DOMAIN revents = {}
  BY Zenon DEF Poll!Init, Poll!NoSockets
<1>2. PollTypes /\ OneEach
  BY <1>1, Zenon DEF PollTypes, OneEach
<1>3. Poll!ReportedAsAsked
  BY <1>1, Zenon DEF Poll!ReportedAsAsked
<1>. QED
  BY <1>1, <1>2, <1>3, Zenon DEF PollInv

(* While no descriptor is closed that poll waits for, it reports each one for   *)
(* conditions asked of it only and as invalid exactly when it had no socket at  *)
(* the start, and gives Winsock no closed SOCKET: for any descriptors, others   *)
(* being opened and closed meanwhile (wpdk_poll in poll.c, wpdk_fd_set and      *)
(* wpdk_fd_isset in select.c).                                                  *)
THEOREM PollReportsAsAsked ==
    ASSUME Careful = TRUE
    PROVE  Poll!Spec => []Poll!ReportedAsAsked
<1>1. PollInv /\ [Poll!Next]_(Poll!vars) => PollInv'
  BY PollInvStep
<1>2. PollInv => Poll!ReportedAsAsked
  BY DEF PollInv
<1>. QED
  BY <1>1, <1>2, PollInit, PTL DEF Poll!Spec

(* Whatever is closed and opened during the wait, a descriptor that has no      *)
(* socket when poll returns is reported for nothing but having had none at the  *)
(* start (wpdk_poll in poll.c).                                                 *)
THEOREM GoneDescriptorsAreSilent ==
    Poll!Spec => Poll!GoneIsSilent
<1>1. Poll!Init => PollTypes
  BY PollInit DEF PollInv
<1>2. PollTypes /\ [Poll!Next]_(Poll!vars) => PollTypes'
  BY PollTypesStep
<1>3. PollTypes /\ [Poll!Next]_(Poll!vars) => [Poll!SilentStep]_(Poll!vars)
  <2>. SUFFICES ASSUME PollTypes, Poll!Next, at = "report", at' = "idle",
                       NEW f \in DOMAIN events, socket[f] = Invalid
                PROVE  revents'[f] \subseteq {"nval"}
    BY DEF Poll!SilentStep
  <2>1. Poll!ReportAll
    BY Zenon DEF Poll!Next, Poll!OpenSocket, Poll!CloseFd, Poll!Change, Poll!call, Poll!Start, Poll!Select,
                 Poll!SelectFails
  <2>2. revents'[f] = revents[f] \cup
          UNION {Poll!Report(c) : c \in {d \in Poll!Conditions : Poll!FdIsset(f, d)}}
    BY <2>1, Zenon DEF Poll!ReportAll
  <2>3. revents[f] \subseteq {"nval"} /\ \A d : ~Poll!FdIsset(f, d)
    BY Zenon DEF PollTypes, Awaited, Poll!FdIsset, Poll!GetSocket
  <2>. QED
    BY <2>2, <2>3, Zenon
<1>. QED
  BY <1>1, <1>2, <1>3, PTL DEF Poll!Spec, Poll!GoneIsSilent

-----------------------------------------------------------------------------
(***************************************************************************)
(* epoll, for a set of any size, any descriptors and any SOCKETs.          *)
(***************************************************************************)
CONSTANTS Size, MaxEvents, Tidy
VARIABLES exists, start, maxcount, slot, event, interest
Epoll == INSTANCE Epoll WITH Fds <- Descs, ready <- holds

EpollNames == Epoll!InvalidAssumption /\ Epoll!EpollAssumption

\* For clients that delete before they close: the slots are those of the
\* descriptors asked about, with what was asked.
Asks(i, f) == event[i] = [data |-> f, events |-> interest[f]] /\ slot[i] = socket[f]
AskedInv ==
    /\ ~exists => DOMAIN interest = {} /\ Epoll!Used = {}
    /\ \A i \in Epoll!Used : \E f \in DOMAIN interest : Asks(i, f)
    /\ \A f \in DOMAIN interest : socket[f] # Invalid /\ \E i \in Epoll!Used : Asks(i, f)

EpollInv == Epoll!TypeOK /\ Epoll!SlotsSound
TidyInv == EpollInv /\ OneEach /\ AskedInv

LEMMA Least ==
    ASSUME NEW S, S \subseteq Nat, S # {}
    PROVE  \E m \in S : \A k \in S : m <= k
<1>1. \E m \in S : \A k \in S : ~(<<k, m>> \in OpToRel(<, Nat))
  BY NatLessThanWellFounded, WFMin, Zenon
<1>2. \A m, k \in Nat : <<k, m>> \in OpToRel(<, Nat) <=> k < m
  BY DEF OpToRel
<1>3. \E m \in S : \A k \in S : ~(k < m)
  BY <1>1, <1>2, Zenon
<1>. QED
  BY <1>3

\* EPOLL_CTL_ADD takes the first free slot.
LEMMA AddTakes ==
    ASSUME EpollNames, Epoll!TypeOK, NEW f \in Descs, NEW c \in SUBSET Epoll!Conditions, Epoll!Add(f, c)
    PROVE  \E i \in Epoll!Slots \ Epoll!Used :
             /\ slot' = [slot EXCEPT ![i] = socket[f]]
             /\ event' = [event EXCEPT ![i] = [data |-> f, events |-> c]]
             /\ maxcount' = IF i >= maxcount THEN i + 1 ELSE maxcount
<1>1. Epoll!Slots \ Epoll!Used # {} /\ Epoll!Slots \ Epoll!Used \subseteq Nat
  BY DEF Epoll!Add, Epoll!Used, Epoll!Slots, EpollNames, Epoll!EpollAssumption
<1>2. PICK i \in Epoll!Slots \ Epoll!Used : \A k \in Epoll!Slots \ Epoll!Used : i <= k
  BY <1>1, Least
<1>3. (CHOOSE j \in Epoll!Slots \ Epoll!Used : \A k \in Epoll!Slots \ Epoll!Used : j <= k)
        \in Epoll!Slots \ Epoll!Used
  BY <1>2, Zenon
<1>. QED
  BY <1>3, Zenon DEF Epoll!Add, Epoll!GetSocket

LEMMA AddKeeps ==
    ASSUME EpollNames, EpollInv, NEW f \in Descs, NEW c \in SUBSET Epoll!Conditions, Epoll!Add(f, c)
    PROVE  EpollInv'
<1>1. PICK i \in Epoll!Slots \ Epoll!Used :
        /\ slot' = [slot EXCEPT ![i] = socket[f]]
        /\ event' = [event EXCEPT ![i] = [data |-> f, events |-> c]]
        /\ maxcount' = IF i >= maxcount THEN i + 1 ELSE maxcount
  BY AddTakes, Zenon DEF EpollInv
<1>2. /\ socket[f] # Invalid /\ socket[f] \in Sockets /\ Epoll!Present(socket[f]) = {}
      /\ interest' = Epoll!With(interest, f, c) /\ UNCHANGED <<socket, exists, start>>
  BY Zenon DEF Epoll!Add, Epoll!GetSocket, EpollInv, Epoll!TypeOK
<1>3. i \in 0 .. Size - 1 /\ Size \in Nat /\ maxcount \in 0 .. Size
  BY <1>1 DEF EpollInv, Epoll!TypeOK, Epoll!Slots, EpollNames, Epoll!EpollAssumption
<1>4. /\ maxcount' \in 0 .. Size /\ i < maxcount' /\ maxcount <= maxcount'
      /\ \A j \in Epoll!Slots : j \in Nat
  BY <1>1, <1>3 DEF Epoll!Slots
<1>5. /\ slot'[i] = socket[f] /\ \A j \in Epoll!Slots : j # i => slot'[j] = slot[j]
      /\ slot' \in [Epoll!Slots -> Sockets \cup {Invalid}]
      /\ event' \in [Epoll!Slots -> [data : Descs, events : SUBSET Epoll!Conditions] \cup {None}]
  <2>1. [data |-> f, events |-> c] \in [data : Descs, events : SUBSET Epoll!Conditions]
    BY Zenon
  <2>. QED
    BY <1>1, <1>2, <2>1, Zenon DEF EpollInv, Epoll!TypeOK
<1>6. DOMAIN interest' \subseteq Descs
  BY <1>2, Zenon DEF Epoll!With, EpollInv, Epoll!TypeOK
<1>7. Epoll!TypeOK'
  BY <1>2, <1>4, <1>5, <1>6, Zenon DEF EpollInv, Epoll!TypeOK, Epoll!Slots
<1>8. \A j \in Epoll!Used : j < maxcount /\ slot[j] # socket[f]
  <2>1. \A j \in Epoll!Used : j < maxcount
    BY Zenon DEF EpollInv, Epoll!SlotsSound
  <2>2. \A j \in Epoll!Used : j \in 0 .. maxcount - 1
    BY <1>3, <1>4, <2>1 DEF Epoll!Used
  <2>. QED
    BY <1>2, <2>1, <2>2, Zenon DEF Epoll!Present
<1>9. \A j \in Epoll!Used' : j = i \/ j \in Epoll!Used
  BY <1>5, Zenon DEF Epoll!Used
<1>10. \A j \in Epoll!Used' : j < maxcount'
  <2>1. \A j \in Epoll!Used : j \in Nat /\ j < maxcount'
    BY <1>3, <1>4, <1>8 DEF Epoll!Used
  <2>. QED
    BY <1>4, <1>9, <2>1, Zenon
<1>11. \A j, k \in Epoll!Used' : slot'[j] = slot'[k] => j = k
  <2>1. \A j \in Epoll!Used : j # i /\ slot'[j] = slot[j]
    BY <1>1, <1>5, Zenon DEF Epoll!Used
  <2>2. \A j, k \in Epoll!Used : slot[j] = slot[k] => j = k
    BY Zenon DEF EpollInv, Epoll!SlotsSound
  <2>. QED
    BY <1>5, <1>8, <1>9, <2>1, <2>2, Zenon
<1>. QED
  BY <1>7, <1>10, <1>11, Zenon DEF EpollInv, Epoll!SlotsSound

\* EPOLL_CTL_DEL frees the SOCKET's slot, and the count falls when it was the
\* last one.
LEMMA DelTakes ==
    ASSUME EpollNames, EpollInv, NEW f \in Descs, Epoll!Del(f)
    PROVE  \E i \in Epoll!Used :
             /\ slot[i] = socket[f] /\ i \in 0 .. maxcount - 1
             /\ slot' = [slot EXCEPT ![i] = Invalid]
             /\ event' = [event EXCEPT ![i] = None]
             /\ maxcount' = IF i = maxcount - 1 THEN maxcount - 1 ELSE maxcount
<1>1. PICK i \in Epoll!Present(socket[f]) :
        /\ maxcount' = IF i = maxcount - 1 THEN maxcount - 1 ELSE maxcount
        /\ slot' = [slot EXCEPT ![i] = Invalid]
        /\ event' = [event EXCEPT ![i] = None]
  BY Zenon DEF Epoll!Del, Epoll!GetSocket
<1>2. i \in 0 .. maxcount - 1 /\ slot[i] = socket[f] /\ socket[f] # Invalid
  BY Zenon DEF Epoll!Del, Epoll!GetSocket, Epoll!Present
<1>3. i \in Epoll!Slots
  BY <1>2 DEF EpollInv, Epoll!TypeOK, Epoll!Slots, EpollNames, Epoll!EpollAssumption
<1>4. i \in Epoll!Used
  BY <1>2, <1>3, Zenon DEF Epoll!Used
<1>. QED
  BY <1>1, <1>2, <1>4, Zenon

LEMMA DelKeeps ==
    ASSUME EpollNames, EpollInv, NEW f \in Descs, Epoll!Del(f)
    PROVE  EpollInv'
<1>1. PICK i \in Epoll!Used :
        /\ slot[i] = socket[f] /\ i \in 0 .. maxcount - 1
        /\ slot' = [slot EXCEPT ![i] = Invalid]
        /\ event' = [event EXCEPT ![i] = None]
        /\ maxcount' = IF i = maxcount - 1 THEN maxcount - 1 ELSE maxcount
  BY DelTakes
<1>2. interest' = Epoll!Without(interest, f) /\ UNCHANGED <<socket, exists, start>>
  BY Zenon DEF Epoll!Del
<1>3. /\ slot'[i] = Invalid /\ \A j \in Epoll!Slots : j # i => slot'[j] = slot[j]
      /\ slot' \in [Epoll!Slots -> Sockets \cup {Invalid}]
      /\ event' \in [Epoll!Slots -> [data : Descs, events : SUBSET Epoll!Conditions] \cup {None}]
  BY <1>1, Zenon DEF EpollInv, Epoll!TypeOK, Epoll!Used
<1>4. DOMAIN interest' \subseteq Descs
  BY <1>2, Zenon DEF Epoll!Without, EpollInv, Epoll!TypeOK
<1>5. maxcount' \in 0 .. Size
  BY <1>1 DEF EpollInv, Epoll!TypeOK, EpollNames, Epoll!EpollAssumption
<1>6. Epoll!TypeOK'
  BY <1>2, <1>3, <1>4, <1>5, Zenon DEF EpollInv, Epoll!TypeOK, Epoll!Slots
<1>7. \A j \in Epoll!Used' : j # i /\ j \in Epoll!Used /\ slot'[j] = slot[j]
  BY <1>3, Zenon DEF Epoll!Used
<1>8. \A j \in Epoll!Used : j < maxcount
  BY Zenon DEF EpollInv, Epoll!SlotsSound
<1>9. \A j \in Epoll!Used : j # i => j < maxcount'
  BY <1>1, <1>8 DEF EpollInv, Epoll!TypeOK, Epoll!Used, Epoll!Slots, EpollNames, Epoll!EpollAssumption
<1>10. \A j, k \in Epoll!Used' : slot'[j] = slot'[k] => j = k
  BY <1>7, Zenon DEF EpollInv, Epoll!SlotsSound
<1>. QED
  BY <1>6, <1>7, <1>9, <1>10, Zenon DEF EpollInv, Epoll!SlotsSound

LEMMA EpollInvStep ==
    ASSUME EpollNames, EpollInv, [Epoll!Next]_(Epoll!vars)
    PROVE  EpollInv'
<1>1. ASSUME UNCHANGED <<maxcount, slot, event, exists>>, start' \in 0 .. Size,
             socket' \in [Descs -> Sockets \cup {Invalid}], DOMAIN interest' \subseteq Descs
      PROVE  EpollInv'
  BY <1>1, Zenon DEF EpollInv, Epoll!TypeOK, Epoll!SlotsSound, Epoll!Used
<1>2. start \in 0 .. Size /\ socket \in [Descs -> Sockets \cup {Invalid}] /\ DOMAIN interest \subseteq Descs
  BY Zenon DEF EpollInv, Epoll!TypeOK
<1>3. ASSUME NEW f \in Descs, NEW s \in Sockets, Epoll!OpenSocket(f, s) PROVE EpollInv'
  BY <1>1, <1>2, <1>3, Zenon DEF Epoll!OpenSocket, Epoll!Open, Epoll!epoll
<1>4. ASSUME NEW f \in Descs, Epoll!CloseFd(f) PROVE EpollInv'
  BY <1>1, <1>2, <1>4, Zenon DEF Epoll!CloseFd, Epoll!Close, Epoll!epoll, Epoll!Without
<1>5. ASSUME NEW s \in Sockets, Epoll!Change(s) PROVE EpollInv'
  BY <1>1, <1>2, <1>5, Zenon DEF Epoll!Change, Epoll!epoll
<1>6. ASSUME Epoll!NewEpoll, exists' \in BOOLEAN, socket' = socket, DOMAIN interest' \subseteq Descs
      PROVE  EpollInv'
  <2>1. 0 \in 0 .. Size
    BY DEF EpollNames, Epoll!EpollAssumption
  <2>2. Epoll!TypeOK'
    BY <1>2, <1>6, <2>1, Zenon DEF Epoll!NewEpoll, Epoll!TypeOK
  <2>3. \A i \in Epoll!Used' : FALSE
    BY <1>6, Zenon DEF Epoll!NewEpoll, Epoll!Used
  <2>. QED
    BY <2>2, <2>3, Zenon DEF EpollInv, Epoll!SlotsSound
<1>7. CASE Epoll!Create
  BY <1>2, <1>6, <1>7, Zenon DEF Epoll!Create
<1>8. CASE Epoll!CloseEpoll
  <2>1. DOMAIN interest' = {}
    BY <1>8 DEF Epoll!CloseEpoll
  <2>. QED
    BY <1>2, <1>6, <1>8, <2>1, Zenon DEF Epoll!CloseEpoll
<1>9. ASSUME NEW max \in 1 .. MaxEvents, Epoll!Wait(max) PROVE EpollInv'
  <2>1. start' = start \/ start' = start + 1
    BY <1>9, Zenon DEF Epoll!Wait
  <2>2. start < Size
    BY <1>9, Zenon DEF Epoll!Wait
  <2>3. start' \in 0 .. Size
    BY <1>2, <2>1, <2>2 DEF EpollNames, Epoll!EpollAssumption
  <2>. QED
    BY <1>1, <1>2, <1>9, <2>3, Zenon DEF Epoll!Wait
<1>10. CASE UNCHANGED Epoll!vars
  BY <1>1, <1>2, <1>10, Zenon DEF Epoll!vars, Epoll!epoll
<1>. QED
  BY <1>3, <1>4, <1>5, <1>7, <1>8, <1>9, <1>10, AddKeeps, DelKeeps, Zenon DEF Epoll!Next

LEMMA EpollInit ==
    ASSUME EpollNames, Epoll!Init
    PROVE  TidyInv
<1>0. Size \in Nat
  BY DEF EpollNames, Epoll!EpollAssumption
<1>1. /\ socket = [f \in Descs |-> Invalid] /\ exists = FALSE /\ start = 0 /\ maxcount = 0
      /\ slot = [i \in Epoll!Slots |-> Invalid] /\ event = [i \in Epoll!Slots |-> None]
      /\ DOMAIN interest = {}
  BY DEF Epoll!Init, Epoll!NoSockets
<1>2. 0 \in 0 .. Size
  BY <1>0
<1>3. Epoll!TypeOK
  BY <1>1, <1>2, Zenon DEF Epoll!TypeOK
<1>4. Epoll!Used = {}
  BY <1>1, Zenon DEF Epoll!Used
<1>5. Epoll!SlotsSound /\ AskedInv
  BY <1>1, <1>4, Zenon DEF Epoll!SlotsSound, AskedInv
<1>6. OneEach
  BY <1>1, Zenon DEF OneEach
<1>. QED
  BY <1>3, <1>5, <1>6, Zenon DEF TidyInv, EpollInv

\* The steps that leave the slots alone, and what was asked of open descriptors.
LEMMA AskedKept ==
    ASSUME AskedInv, UNCHANGED <<exists, slot, event>>, DOMAIN interest' = DOMAIN interest,
           \A f \in DOMAIN interest : interest'[f] = interest[f] /\ socket'[f] = socket[f]
    PROVE  AskedInv'
<1>1. Epoll!Used' = Epoll!Used
  BY Zenon DEF Epoll!Used
<1>2. \A i \in Epoll!Used, f \in DOMAIN interest : Asks(i, f)' <=> Asks(i, f)
  BY Zenon DEF Asks
<1>3. ~exists' => DOMAIN interest' = {} /\ Epoll!Used' = {}
  BY <1>1, Zenon DEF AskedInv
<1>4. \A i \in Epoll!Used' : \E f \in DOMAIN interest' : Asks(i, f)'
  BY <1>1, <1>2, Zenon DEF AskedInv
<1>5. \A f \in DOMAIN interest' : socket'[f] # Invalid /\ \E i \in Epoll!Used' : Asks(i, f)'
  BY <1>1, <1>2, Zenon DEF AskedInv
<1>. QED
  BY <1>3, <1>4, <1>5, Zenon DEF AskedInv

LEMMA TidySockets ==
    ASSUME EpollNames, TidyInv, Tidy = TRUE, NEW f \in Descs,
           (\E s \in Sockets : Epoll!OpenSocket(f, s)) \/ Epoll!CloseFd(f)
    PROVE  OneEach' /\ AskedInv'
<1>1. /\ UNCHANGED <<exists, start, maxcount, slot, event>>
      /\ \A g \in Descs : g # f => socket'[g] = socket[g]
  BY Zenon DEF Epoll!OpenSocket, Epoll!CloseFd, Epoll!Open, Epoll!Close, Epoll!epoll, TidyInv, EpollInv,
               Epoll!TypeOK
<1>2. f \notin DOMAIN interest
  <2>1. CASE Epoll!CloseFd(f)
    BY <2>1, Zenon DEF Epoll!CloseFd
  <2>2. ASSUME NEW s \in Sockets, Epoll!OpenSocket(f, s)
        PROVE  f \notin DOMAIN interest
    BY <2>2, Zenon DEF Epoll!OpenSocket, Epoll!Open, TidyInv, AskedInv
  <2>. QED
    BY <2>1, <2>2, Zenon
<1>3. DOMAIN interest' = DOMAIN interest /\ \A g \in DOMAIN interest : interest'[g] = interest[g]
  <2>1. CASE Epoll!CloseFd(f)
    <3>1. interest' = [g \in DOMAIN interest \ {f} |-> interest[g]]
      BY <2>1, Zenon DEF Epoll!CloseFd, Epoll!Without
    <3>. QED
      BY <1>2, <3>1
  <2>2. ASSUME NEW s \in Sockets, Epoll!OpenSocket(f, s)
        PROVE  interest' = interest
    BY <2>2, Zenon DEF Epoll!OpenSocket
  <2>. QED
    BY <2>1, <2>2, Zenon
<1>4. OneEach'
  <2>1. ASSUME NEW s \in Sockets, Epoll!OpenSocket(f, s) PROVE OneEach'
    <3>1. socket'[f] = s /\ \A g \in Descs : socket[g] # s
      BY <2>1, Zenon DEF Epoll!OpenSocket, Epoll!Open, TidyInv, EpollInv, Epoll!TypeOK
    <3>. QED
      BY <1>1, <3>1 DEF TidyInv, OneEach
  <2>2. ASSUME Epoll!CloseFd(f) PROVE OneEach'
    <3>1. socket'[f] = Invalid
      BY <2>2, Zenon DEF Epoll!CloseFd, Epoll!Close, TidyInv, EpollInv, Epoll!TypeOK
    <3>. QED
      BY <1>1, <3>1 DEF TidyInv, OneEach
  <2>. QED
    BY <2>1, <2>2, Zenon
<1>5. \A g \in DOMAIN interest : interest'[g] = interest[g] /\ socket'[g] = socket[g]
  BY <1>1, <1>2, <1>3, Zenon DEF TidyInv, EpollInv, Epoll!TypeOK
<1>. QED
  BY <1>1, <1>3, <1>4, <1>5, AskedKept, Zenon DEF TidyInv

LEMMA TidyAdd ==
    ASSUME EpollNames, TidyInv, NEW f \in Descs, NEW c \in SUBSET Epoll!Conditions, Epoll!Add(f, c)
    PROVE  AskedInv'
<1>1. PICK i \in Epoll!Slots \ Epoll!Used :
        /\ slot' = [slot EXCEPT ![i] = socket[f]]
        /\ event' = [event EXCEPT ![i] = [data |-> f, events |-> c]]
  BY AddTakes, Zenon DEF TidyInv, EpollInv
<1>2. /\ exists' /\ socket[f] # Invalid /\ Epoll!Present(socket[f]) = {} /\ socket' = socket
      /\ interest' = [g \in DOMAIN interest \cup {f} |-> IF g = f THEN c ELSE interest[g]]
  BY Zenon DEF Epoll!Add, Epoll!GetSocket, Epoll!With
<1>3. /\ slot'[i] = socket[f] /\ event'[i] = [data |-> f, events |-> c]
      /\ \A j \in Epoll!Slots : j # i => slot'[j] = slot[j] /\ event'[j] = event[j]
  BY <1>1, Zenon DEF TidyInv, EpollInv, Epoll!TypeOK
<1>4. f \notin DOMAIN interest
  <2>1. SUFFICES ASSUME f \in DOMAIN interest PROVE FALSE
    OBVIOUS
  <2>2. PICK j \in Epoll!Used : slot[j] = socket[f]
    BY <2>1, Zenon DEF TidyInv, AskedInv, Asks
  <2>3. j < maxcount
    BY <2>2, Zenon DEF TidyInv, EpollInv, Epoll!SlotsSound
  <2>4. j \in 0 .. maxcount - 1
    BY <2>2, <2>3 DEF Epoll!Used, Epoll!Slots, EpollNames, Epoll!EpollAssumption, TidyInv, EpollInv,
                      Epoll!TypeOK
  <2>. QED
    BY <1>2, <2>2, <2>4, Zenon DEF Epoll!Present
<1>5. /\ DOMAIN interest' = DOMAIN interest \cup {f} /\ interest'[f] = c
      /\ \A g \in DOMAIN interest : g # f /\ interest'[g] = interest[g]
  BY <1>2, <1>4, Zenon
<1>6. Epoll!Used' = Epoll!Used \cup {i}
  BY <1>1, <1>2, <1>3, Zenon DEF Epoll!Used
<1>7. Asks(i, f)'
  BY <1>2, <1>3, <1>5, Zenon DEF Asks
<1>8. \A j \in Epoll!Used, g \in DOMAIN interest : Asks(j, g)' <=> Asks(j, g)
  <2>1. \A j \in Epoll!Used : slot'[j] = slot[j] /\ event'[j] = event[j]
    BY <1>1, <1>3, Zenon DEF Epoll!Used
  <2>. QED
    BY <1>2, <1>5, <2>1, Zenon DEF Asks
<1>9. \A j \in Epoll!Used' : \E g \in DOMAIN interest' : Asks(j, g)'
  <2>1. \A j \in Epoll!Used : \E g \in DOMAIN interest : Asks(j, g)'
    BY <1>8, Zenon DEF TidyInv, AskedInv
  <2>. QED
    BY <1>5, <1>6, <1>7, <2>1, Zenon
<1>10. \A g \in DOMAIN interest' : socket'[g] # Invalid /\ \E j \in Epoll!Used' : Asks(j, g)'
  <2>1. \A g \in DOMAIN interest : socket'[g] # Invalid /\ \E j \in Epoll!Used : Asks(j, g)'
    BY <1>2, <1>8, Zenon DEF TidyInv, AskedInv
  <2>. QED
    BY <1>2, <1>5, <1>6, <1>7, <2>1, Zenon
<1>. QED
  BY <1>2, <1>9, <1>10, Zenon DEF AskedInv

LEMMA TidyDel ==
    ASSUME EpollNames, TidyInv, NEW f \in Descs, Epoll!Del(f)
    PROVE  AskedInv'
<1>1. PICK i \in Epoll!Used :
        /\ slot[i] = socket[f]
        /\ slot' = [slot EXCEPT ![i] = Invalid]
        /\ event' = [event EXCEPT ![i] = None]
  BY DelTakes, Zenon DEF TidyInv
<1>2. /\ exists' /\ socket[f] # Invalid /\ socket' = socket
      /\ interest' = [g \in DOMAIN interest \ {f} |-> interest[g]]
  BY Zenon DEF Epoll!Del, Epoll!GetSocket, Epoll!Without
<1>3. /\ slot'[i] = Invalid
      /\ \A j \in Epoll!Slots : j # i => slot'[j] = slot[j] /\ event'[j] = event[j]
  BY <1>1, Zenon DEF TidyInv, EpollInv, Epoll!TypeOK, Epoll!Used
<1>4. Epoll!Used' = Epoll!Used \ {i}
  BY <1>1, <1>3, Zenon DEF Epoll!Used
<1>5. DOMAIN interest' = DOMAIN interest \ {f} /\ \A g \in DOMAIN interest' : interest'[g] = interest[g]
  BY <1>2, Zenon
<1>6. \A j \in Epoll!Used', g \in DOMAIN interest' : Asks(j, g)' <=> Asks(j, g)
  <2>1. \A j \in Epoll!Used' : slot'[j] = slot[j] /\ event'[j] = event[j]
    BY <1>3, <1>4, Zenon DEF Epoll!Used
  <2>. QED
    BY <1>2, <1>5, <2>1, Zenon DEF Asks
<1>7. \A j \in Epoll!Used : slot[j] = slot[i] => j = i
  BY Zenon DEF TidyInv, EpollInv, Epoll!SlotsSound
<1>8. \A g \in DOMAIN interest : Asks(i, g) => g = f
  BY <1>1, <1>2, Zenon DEF Asks, TidyInv, OneEach, EpollInv, Epoll!TypeOK
<1>9. \A j \in Epoll!Used' : \E g \in DOMAIN interest' : Asks(j, g)'
  <2>1. ASSUME NEW j, j \in Epoll!Used' PROVE \E g \in DOMAIN interest' : Asks(j, g)'
    <3>1. PICK g \in DOMAIN interest : Asks(j, g)
      BY <1>4, <2>1, Zenon DEF TidyInv, AskedInv
    <3>2. g # f
      BY <1>1, <1>4, <1>7, <2>1, <3>1, Zenon DEF Asks
    <3>. QED
      BY <1>5, <1>6, <2>1, <3>1, <3>2, Zenon
  <2>. QED
    BY <2>1, Zenon
<1>10. \A g \in DOMAIN interest' : socket'[g] # Invalid /\ \E j \in Epoll!Used' : Asks(j, g)'
  <2>1. ASSUME NEW g, g \in DOMAIN interest'
        PROVE  socket'[g] # Invalid /\ \E j \in Epoll!Used' : Asks(j, g)'
    <3>1. socket[g] # Invalid /\ \E j \in Epoll!Used : Asks(j, g)
      BY <1>5, <2>1, Zenon DEF TidyInv, AskedInv
    <3>2. PICK j \in Epoll!Used : Asks(j, g)
      BY <3>1
    <3>3. j # i
      BY <1>5, <1>8, <2>1, <3>2, Zenon
    <3>. QED
      BY <1>2, <1>4, <1>6, <2>1, <3>1, <3>2, <3>3, Zenon
  <2>. QED
    BY <2>1, Zenon
<1>. QED
  BY <1>2, <1>9, <1>10, Zenon DEF AskedInv

LEMMA TidyStep ==
    ASSUME EpollNames, TidyInv, Tidy = TRUE, [Epoll!Next]_(Epoll!vars)
    PROVE  TidyInv'
<1>0. EpollInv'
  BY EpollInvStep, Zenon DEF TidyInv
<1>1. ASSUME NEW f \in Descs, (\E s \in Sockets : Epoll!OpenSocket(f, s)) \/ Epoll!CloseFd(f)
      PROVE  TidyInv'
  BY <1>0, <1>1, TidySockets, Zenon DEF TidyInv
<1>2. ASSUME socket' = socket PROVE OneEach'
  BY <1>2, Zenon DEF TidyInv, OneEach
<1>3. ASSUME NEW f \in Descs, NEW c \in SUBSET Epoll!Conditions, Epoll!Add(f, c) PROVE TidyInv'
  <2>1. socket' = socket
    BY <1>3, Zenon DEF Epoll!Add
  <2>. QED
    BY <1>0, <1>2, <1>3, <2>1, TidyAdd, Zenon DEF TidyInv
<1>4. ASSUME NEW f \in Descs, Epoll!Del(f) PROVE TidyInv'
  <2>1. socket' = socket
    BY <1>4, Zenon DEF Epoll!Del
  <2>. QED
    BY <1>0, <1>2, <1>4, <2>1, TidyDel, Zenon DEF TidyInv
<1>5. CASE Epoll!Create \/ Epoll!CloseEpoll
  <2>1. socket' = socket /\ slot' = [i \in Epoll!Slots |-> Invalid]
    BY <1>5, Zenon DEF Epoll!Create, Epoll!CloseEpoll, Epoll!NewEpoll
  <2>2. \A i \in Epoll!Used' : FALSE
    BY <2>1, Zenon DEF Epoll!Used
  <2>3. DOMAIN interest' = {}
    BY <1>5 DEF Epoll!Create, Epoll!CloseEpoll, TidyInv, AskedInv
  <2>4. Epoll!Used' = {}
    BY <2>2, Zenon
  <2>5. AskedInv'
    BY <2>3, <2>4, Zenon DEF AskedInv
  <2>. QED
    BY <1>0, <1>2, <2>1, <2>5, Zenon DEF TidyInv
<1>6. ASSUME UNCHANGED <<socket, exists, slot, event, interest>> PROVE TidyInv'
  BY <1>0, <1>2, <1>6, AskedKept, Zenon DEF TidyInv
<1>7. CASE (\E s \in Sockets : Epoll!Change(s)) \/ (\E max \in 1 .. MaxEvents : Epoll!Wait(max))
           \/ UNCHANGED Epoll!vars
  BY <1>6, <1>7, Zenon DEF Epoll!Change, Epoll!Wait, Epoll!vars, Epoll!epoll
<1>. QED
  BY <1>1, <1>3, <1>4, <1>5, <1>7, Zenon DEF Epoll!Next

(* Whatever is closed behind the epoll's back, no SOCKET has two slots and every *)
(* slot in use is one that epoll_wait scans, for a set of any size               *)
(* (wpdk_epoll_ctl in epoll.c).                                                  *)
THEOREM SlotsAlwaysSound ==
    ASSUME EpollNames
    PROVE  Epoll!Spec => [](Epoll!TypeOK /\ Epoll!SlotsSound)
<1>1. Epoll!Init => EpollInv
  BY EpollInit DEF TidyInv
<1>2. EpollInv /\ [Epoll!Next]_(Epoll!vars) => EpollInv'
  BY EpollInvStep
<1>. QED
  BY <1>1, <1>2, PTL DEF Epoll!Spec, EpollInv

(* For clients that delete a descriptor before they close it, the epoll holds    *)
(* exactly the descriptors and conditions they have asked for, by their SOCKETs, *)
(* and never a SOCKET that was closed: select is given open ones only            *)
(* (wpdk_epoll_ctl and wpdk_epoll_wait in epoll.c).                              *)
THEOREM InterestAlwaysExact ==
    ASSUME EpollNames, Tidy = TRUE
    PROVE  Epoll!Spec => [](Epoll!InterestExact /\ \A i \in Epoll!Watched : Epoll!IsOpen(slot[i]))
<1>1. Epoll!Init => TidyInv
  BY EpollInit
<1>2. TidyInv /\ [Epoll!Next]_(Epoll!vars) => TidyInv'
  BY TidyStep
<1>3. TidyInv => Epoll!InterestExact
  <2>. SUFFICES ASSUME TidyInv
                PROVE  {<<slot[i], event[i]>> : i \in Epoll!Used} =
                       {<<socket[f], [data |-> f, events |-> interest[f]]>> : f \in DOMAIN interest}
    BY Zenon DEF Epoll!InterestExact
  <2>1. \A i \in Epoll!Used : \E f \in DOMAIN interest :
          <<slot[i], event[i]>> = <<socket[f], [data |-> f, events |-> interest[f]]>>
    BY Zenon DEF TidyInv, AskedInv, Asks
  <2>2. \A f \in DOMAIN interest : \E i \in Epoll!Used :
          <<slot[i], event[i]>> = <<socket[f], [data |-> f, events |-> interest[f]]>>
    BY Zenon DEF TidyInv, AskedInv, Asks
  <2>. DEFINE Here(i) == <<slot[i], event[i]>>
              Wanted(f) == <<socket[f], [data |-> f, events |-> interest[f]]>>
  <2>3. \A i \in Epoll!Used : \E f \in DOMAIN interest : Here(i) = Wanted(f)
    BY <2>1
  <2>4. \A f \in DOMAIN interest : \E i \in Epoll!Used : Here(i) = Wanted(f)
    BY <2>2
  <2>. HIDE DEF Here, Wanted
  <2>5. {Here(i) : i \in Epoll!Used} = {Wanted(f) : f \in DOMAIN interest}
    BY <2>3, <2>4, Zenon
  <2>. QED
    BY <2>5, Zenon DEF Here, Wanted
<1>4. TidyInv => \A i \in Epoll!Watched : Epoll!IsOpen(slot[i])
  <2>. SUFFICES ASSUME TidyInv, NEW i \in Epoll!Watched
                PROVE  Epoll!IsOpen(slot[i])
    OBVIOUS
  <2>1. i \in Epoll!Used
    BY DEF Epoll!Watched, Epoll!Used, Epoll!Slots, TidyInv, EpollInv, Epoll!TypeOK, EpollNames,
           Epoll!EpollAssumption
  <2>. QED
    BY <2>1, Zenon DEF TidyInv, EpollInv, Epoll!TypeOK, AskedInv, Asks, Epoll!IsOpen
<1>. QED
  BY <1>1, <1>2, <1>3, <1>4, PTL DEF Epoll!Spec
=============================================================================
