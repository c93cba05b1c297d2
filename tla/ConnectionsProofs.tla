------------------------- MODULE ConnectionsProofs --------------------------
(***************************************************************************)
(* What holds of Connections for every number of lives, clients and         *)
(* descriptors: its values, the way of a connection, and, as long as no      *)
(* thread has been given a wrong descriptor, who owns each descriptor.       *)
(*                                                                         *)
(*   TypeInv   values, and which life a thread belongs to                   *)
(*   ConnInv   a connection is idle, then in one backlog, then served       *)
(*   OwnInv    a descriptor has one thread that will close it               *)
(*                                                                         *)
(* A lemma NextX says that every step keeps X, one case for each action      *)
(* that changes a variable of X.                                           *)
(***************************************************************************)
EXTENDS Connections, SequenceTheorems, TLAPS

-----------------------------------------------------------------------------
(* Descriptors and what they stand for.                                     *)

LEMMA Numbers ==
  /\ Lives \subseteq Nat \ {0} /\ Lives \subseteq Conns /\ Clients \subseteq Conns
  /\ 0 \in Fd /\ Fd \subseteq Nat
BY LivesAssumption, FdAssumption DEF Lives, Fd, Conns

\* A descriptor stands for one thing.
LEMMA SocketsDiffer ==
  /\ \A l, m : /\ Listen(l) = Listen(m) => l = m
               /\ Server(l) = Server(m) => l = m
               /\ Api(l) = Api(m) => l = m
               /\ Listen(l) # Server(m) /\ Listen(l) # Api(m) /\ Server(l) # Api(m)
  /\ \A l : Listen(l) # Free /\ Server(l) # Free /\ Api(l) # Free
<1>1. \A l : /\ Listen(l).kind = "listen" /\ Listen(l).of = l
             /\ Server(l).kind = "server" /\ Server(l).of = l
             /\ Api(l).kind = "api" /\ Api(l).of = l
  BY DEF Listen, Server, Api
<1>2. Free.kind = "free"
  BY DEF Free
<1> QED
  BY <1>1, <1>2

LEMMA SocketTypes ==
  /\ Free \in Sockets
  /\ \A l \in Lives : Listen(l) \in Sockets /\ Api(l) \in Sockets
  /\ \A c \in Conns : Server(c) \in Sockets
BY DEF Sockets

-----------------------------------------------------------------------------
(* Types.                                                                   *)

\* Lives begin one after the other; the threads of a life, what was asked of
\* it and the connections there are belong to a life that has begun, and a
\* client thread to a listen thread.
BegunInv ==
  \A l \in Lives : /\ mpc[l] = "none" <=> l > life
                   /\ lpc[l] = "none" <=> mpc[l] \in {"none", "start"}

AskedInv ==
  /\ asked \subseteq 1 .. life
  /\ life = 0 => user = "out"
  /\ \A c \in Clients : link[c] # "idle" => life # 0

HostInv == \A c \in Conns : tpc[c] \notin {"none", "exited"} => host[c] \in Lives /\ host[c] <= life

LifeInv == BegunInv /\ AskedInv /\ HostInv

TypeInv == TypeOK /\ LifeInv

LEMMA InitType == Init => TypeInv
<1> SUFFICES ASSUME Init PROVE TypeInv
  OBVIOUS
<1>1. <<>> \in Seq(Conns)
  BY EmptySeq
<1>2. /\ fds \in [Fd -> Sockets] /\ backlog \in [Lives -> Seq(Conns)]
      /\ link \in [Conns -> {"idle", "up", "closed"}]
      /\ mpc \in [Lives -> {"none", "start", "run", "sleep", "exited"}]
      /\ lpc \in [Lives -> {"none", "start", "unlink", "bind", "accept", "end", "exited"}]
      /\ sockl \in [Lives -> Fd \union {-1}] /\ socknew \in [Lives -> Fd \union {-1}]
      /\ tpc \in [Conns -> {"none", "new", "read", "close", "reset", "exited"}]
      /\ sock \in [Conns -> Fd \union {-1}]
  BY <1>1, SocketTypes DEF Init
<1>3. host \in [Conns -> 0 .. MaxLives] /\ path \in 0 .. MaxLives /\ life \in 0 .. MaxLives
  BY LivesAssumption DEF Init
<1>4. TypeOK
  BY <1>2, <1>3 DEF Init, TypeOK, SocketTypeOK, CommandTypeOK, UserTypeOK,
                  ServiceTypeOK, ThreadTypeOK
<1>5. LifeInv
  BY Numbers DEF Init, LifeInv, BegunInv, AskedInv, HostInv, Lives
<1> QED
  BY <1>4, <1>5 DEF TypeInv

\* accept or listen has failed.
ListenStops(l) == AcceptFails(l) \/ ListenFails(l)

\* What a step can be.
LEMMA NextCases ==
  [Next]_vars =>
    \/ UNCHANGED vars
    \/ InitService
    \/ ConnectService
    \/ ExitService
    \/ \E c \in Clients : ClientConnect(c)
    \/ \E c \in Clients : ClientExit(c)
    \/ \E c \in Clients : ClientClose(c)
    \/ \E l \in Lives : MainStart(l)
    \/ \E l \in Lives : MainTake(l)
    \/ \E l \in Lives : MainFinish(l)
    \/ \E l \in Lives : ListenSocketCreate(l)
    \/ \E l \in Lives : ListenSocketFails(l)
    \/ \E l \in Lives : ListenUnlink(l)
    \/ \E l \in Lives : ListenBind(l)
    \/ \E l \in Lives : ListenAccept(l)
    \/ \E l \in Lives : ListenStops(l)
    \/ \E l \in Lives : ListenEnd(l)
    \/ \E c \in Conns : ThreadStart(c)
    \/ \E c \in Conns : ThreadCommand(c)
    \/ \E c \in Conns : ThreadExit(c)
    \/ \E c \in Conns : ThreadEnd(c)
    \/ \E c \in Conns : ThreadClose(c)
    \/ \E c \in Conns : ThreadReset(c)
BY DEF Next, UserStep, ClientStep, MainStep, ListenStep, ThreadStep, ListenStops

LEMMA StopsTo ==
  ASSUME NEW l \in Lives, ListenStops(l)
  PROVE  /\ ListenLeft(l)
         /\ socknew' = socknew \/ socknew' = [socknew EXCEPT ![l] = -1]
         /\ raced' = raced \/ raced' = (raced \/ Unread(l))
         /\ broken' = broken \/ broken' = broken \union {l}
BY DEF ListenStops, AcceptFails, ListenFails, SocknewSet

\* Sockets, descriptors and connections.
LEMMA NextSocketType == TypeOK /\ LifeInv /\ [Next]_vars => SocketTypeOK'
<1> SUFFICES ASSUME TypeOK, LifeInv, [Next]_vars PROVE SocketTypeOK'
  OBVIOUS
<1>1. \/ UNCHANGED <<fds, path, backlog, shut, link>>
      \/ ConnectService
      \/ \E c \in Clients : ClientConnect(c)
      \/ \E c \in Clients : ClientClose(c)
      \/ \E l \in Lives : MainFinish(l)
      \/ \E l \in Lives : ListenSocketCreate(l)
      \/ \E l \in Lives : ListenUnlink(l)
      \/ \E l \in Lives : ListenBind(l)
      \/ \E l \in Lives : ListenAccept(l)
      \/ \E l \in Lives : ListenStops(l)
      \/ \E l \in Lives : ListenEnd(l)
      \/ \E c \in Conns : ThreadClose(c)
  BY NextCases DEF ListenSocketFails, InitService, ExitService, ClientExit,
    MainStart, MainTake, ThreadStart, ThreadCommand, ThreadExit, ThreadEnd,
    ThreadReset, vars, socketVars
<1> USE Numbers DEF SocketTypeOK, TypeOK
<1>2. CASE UNCHANGED <<fds, path, backlog, shut, link>>
  BY <1>2
<1>3. CASE ConnectService
  <2>1. CASE user' = "ready"
    <3>1. life \in Lives /\ path \in Lives
      BY <1>3, <2>1 DEF ConnectService, LifeInv, AskedInv, UserTypeOK, Listening, Lives
    <3>2. Append(backlog[path], life) \in Seq(Conns)
      BY <3>1, AppendProperties
    <3>3. PICK f \in Fd : fds' = [fds EXCEPT ![f] = Api(life)]
      BY <1>3, <2>1 DEF ConnectService, Taken
    <3> QED
      BY <1>3, <2>1, <3>1, <3>2, <3>3, SocketTypes DEF ConnectService, Connected
  <2>2. CASE user' # "ready"
    BY <1>3, <2>2 DEF ConnectService
  <2> QED
    BY <2>1, <2>2
<1>4. ASSUME NEW c \in Clients, ClientConnect(c) PROVE SocketTypeOK'
  <2>1. path \in Lives
    BY <1>4 DEF ClientConnect, Listening, Lives
  <2>2. Append(backlog[path], c) \in Seq(Conns)
    BY <2>1, AppendProperties
  <2> QED
    BY <1>4, <2>1, <2>2 DEF ClientConnect, Connected
<1>5. ASSUME NEW c \in Clients, ClientClose(c) PROVE SocketTypeOK'
  BY <1>5 DEF ClientClose
<1>6. ASSUME NEW l \in Lives, MainFinish(l) PROVE SocketTypeOK'
  <2>1. ShutDown(SocketAt(ListenSocket)) /\ UNCHANGED <<fds, path, backlog>>
    BY <1>6 DEF MainFinish
  <2>2. SocketAt(ListenSocket) \in Sockets
    BY SocketTypes DEF SocketAt, ListenSocket, ServiceTypeOK
  <2>3. SocketAt(ListenSocket).kind = "listen" => SocketAt(ListenSocket).of \in Lives
    BY <2>2 DEF Sockets, Free, Listen, Server, Api
  <2> QED
    BY <2>1, <2>3 DEF ShutDown
<1>7. ASSUME NEW l \in Lives, ListenSocketCreate(l) PROVE SocketTypeOK'
  <2>1. PICK f \in Fd : fds' = [fds EXCEPT ![f] = Listen(l)]
    BY <1>7 DEF ListenSocketCreate, Taken
  <2> QED
    BY <1>7, <2>1, SocketTypes DEF ListenSocketCreate
<1>8. ASSUME NEW l \in Lives, ListenUnlink(l) PROVE SocketTypeOK'
  <2>1. 0 \in 0 .. MaxLives
    BY LivesAssumption
  <2> QED
    BY <1>8, <2>1 DEF ListenUnlink
<1>9. ASSUME NEW l \in Lives, ListenBind(l) PROVE SocketTypeOK'
  <2>1. Closed(sockl[l]) \in [Fd -> Sockets]
    BY SocketTypes DEF Closed, ServiceTypeOK
  <2>2. l \in 0 .. MaxLives
    BY LivesAssumption DEF Lives
  <2> QED
    BY <1>9, <2>1, <2>2 DEF ListenBind, Bound
<1>10. ASSUME NEW l \in Lives, ListenAccept(l) PROVE SocketTypeOK'
  <2>1. /\ backlog[l] \in Seq(Conns) /\ backlog[l] # <<>>
        /\ backlog' = [backlog EXCEPT ![l] = Tail(@)]
        /\ UNCHANGED <<path, shut, link>>
    BY <1>10 DEF ListenAccept
  <2>2. Head(backlog[l]) \in Conns /\ Tail(backlog[l]) \in Seq(Conns)
    BY <2>1, HeadTailProperties
  <2>3. PICK f \in Fd, c \in {Head(backlog[l])} : fds' = [fds EXCEPT ![f] = Server(c)]
    BY <1>10 DEF ListenAccept, Accepted
  <2>4. fds' \in [Fd -> Sockets]
    BY <2>2, <2>3, SocketTypes
  <2> QED
    BY <2>1, <2>2, <2>4
<1>11. ASSUME NEW l \in Lives, ListenStops(l) PROVE SocketTypeOK'
  <2>1. Closed(sockl[l]) \in [Fd -> Sockets]
    BY SocketTypes DEF Closed, ServiceTypeOK
  <2>2. <<>> \in Seq(Conns)
    BY EmptySeq
  <2>3. ListenLeft(l)
    BY <1>11, StopsTo
  <2> QED
    BY <2>1, <2>2, <2>3 DEF ListenLeft, ListenClosed
<1>12. ASSUME NEW l \in Lives, ListenEnd(l) PROVE SocketTypeOK'
  <2>1. 0 \in 0 .. MaxLives
    BY LivesAssumption
  <2> QED
    BY <1>12, <2>1 DEF ListenEnd
<1>13. ASSUME NEW c \in Conns, ThreadClose(c) PROVE SocketTypeOK'
  <2>1. Closed(sock[c]) \in [Fd -> Sockets]
    BY SocketTypes DEF Closed, ThreadTypeOK
  <2> QED
    BY <1>13, <2>1 DEF ThreadClose
<1> QED
  BY <1>1, <1>2, <1>3, <1>4, <1>5, <1>6, <1>7, <1>8, <1>9, <1>10, <1>11, <1>12,
    <1>13

LEMMA NextCommandType == TypeOK /\ LifeInv /\ [Next]_vars => CommandTypeOK'
<1> SUFFICES ASSUME TypeOK, LifeInv, [Next]_vars PROVE CommandTypeOK'
  OBVIOUS
<1>1. \/ UNCHANGED <<exits, cmds, cmdEvent>>
      \/ ExitService
      \/ \E c \in Clients : ClientExit(c)
      \/ \E l \in Lives : MainTake(l)
      \/ \E l \in Lives : MainFinish(l)
      \/ \E l \in Lives : ListenStops(l)
      \/ \E c \in Conns : ThreadCommand(c)
      \/ \E c \in Conns : ThreadExit(c)
      \/ \E c \in Conns : ThreadClose(c)
  BY NextCases DEF ListenSocketFails, InitService, ConnectService, ClientConnect,
    ClientClose, MainStart, ListenSocketCreate, ListenUnlink, ListenBind,
    ListenAccept, ListenEnd,
    ThreadStart, ThreadEnd, ThreadReset, vars, commandVars
<1> USE Numbers DEF CommandTypeOK, TypeOK
<1>2. CASE UNCHANGED <<exits, cmds, cmdEvent>>
  BY <1>2
<1>3. CASE ExitService
  <2>1. life \in Conns
    BY <1>3 DEF ExitService, LifeInv, AskedInv, UserTypeOK, Lives
  <2> QED
    BY <1>3, <2>1 DEF ExitService, ExitWritten
<1>4. ASSUME NEW c \in Clients, ClientExit(c) PROVE CommandTypeOK'
  BY <1>4 DEF ClientExit, ExitWritten
<1>5. ASSUME NEW l \in Lives, MainTake(l) PROVE CommandTypeOK'
  <2>1. cmds # 0 => cmds - 1 \in Nat
    OBVIOUS
  <2> QED
    BY <1>5, <2>1 DEF MainTake, Unlisted
<1>6. ASSUME NEW l \in Lives, MainFinish(l) PROVE CommandTypeOK'
  BY <1>6 DEF MainFinish, ShutDown, SocketAt, ListenSocket
<1>7. ASSUME NEW c \in Conns, ThreadCommand(c) PROVE CommandTypeOK'
  BY <1>7 DEF ThreadCommand
<1>8. ASSUME NEW c \in Conns, ThreadExit(c) PROVE CommandTypeOK'
  BY <1>8 DEF ThreadExit
<1>9. ASSUME NEW c \in Conns, ThreadClose(c) PROVE CommandTypeOK'
  BY <1>9 DEF ThreadClose, Closed
<1>10. ASSUME NEW l \in Lives, ListenStops(l) PROVE CommandTypeOK'
  BY <1>10, StopsTo DEF ListenLeft
<1> QED
  BY <1>1, <1>2, <1>3, <1>4, <1>5, <1>6, <1>7, <1>8, <1>9, <1>10

LEMMA NextUserType == TypeOK /\ LifeInv /\ [Next]_vars => UserTypeOK'
<1> SUFFICES ASSUME TypeOK, LifeInv, [Next]_vars PROVE UserTypeOK'
  OBVIOUS
<1>1. \/ UNCHANGED <<life, user, overlap, lingered, asked, late>>
      \/ InitService
      \/ ConnectService
      \/ ExitService
      \/ \E c \in Clients : ClientExit(c)
  BY NextCases DEF ListenSocketFails, ClientConnect, ClientClose, MainStart,
    MainTake, MainFinish, ListenSocketCreate, ListenUnlink, ListenBind,
    ListenAccept, ListenStops, AcceptFails, ListenFails, ListenLeft, ListenEnd,
    ThreadStart, ThreadCommand, ThreadExit, ThreadEnd, ThreadClose, ThreadReset,
    vars, userVars, exitVars
<1> USE Numbers DEF UserTypeOK, TypeOK
<1>2. CASE UNCHANGED <<life, user, overlap, lingered, asked, late>>
  BY <1>2
<1>3. CASE InitService
  <2>1. life' \in 0 .. MaxLives
    BY <1>3, LivesAssumption DEF InitService
  <2>2. user' \in {"out", "starting", "ready", "failed"} /\ UNCHANGED <<asked, late>>
    BY <1>3 DEF InitService, exitVars
  <2>3. overlap' \in BOOLEAN
    BY <1>3 DEF InitService, EarlierAlive
  <2>4. lingered' \in BOOLEAN
    BY <1>3 DEF InitService
  <2> QED
    BY <2>1, <2>2, <2>3, <2>4
<1>4. CASE ConnectService
  BY <1>4 DEF ConnectService, Connected, exitVars
<1>5. CASE ExitService
  <2>1. life \in Lives
    BY <1>5 DEF ExitService, LifeInv, AskedInv, Lives
  <2> QED
    BY <1>5, <2>1 DEF ExitService, ExitWritten
<1>6. ASSUME NEW c \in Clients, ClientExit(c) PROVE UserTypeOK'
  <2>1. life \in Lives
    BY <1>6 DEF ClientExit, LifeInv, AskedInv, Lives
  <2> QED
    BY <1>6, <2>1 DEF ClientExit, ExitWritten, userVars
<1> QED
  BY <1>1, <1>2, <1>3, <1>4, <1>5, <1>6

LEMMA NextServiceType == TypeOK /\ [Next]_vars => ServiceTypeOK'
<1> SUFFICES ASSUME TypeOK, [Next]_vars PROVE ServiceTypeOK'
  OBVIOUS
<1>1. \/ UNCHANGED <<mpc, lpc, sockl, socknew, listensocket, broken>>
      \/ InitService
      \/ \E l \in Lives : MainStart(l)
      \/ \E l \in Lives : MainTake(l)
      \/ \E l \in Lives : MainFinish(l)
      \/ \E l \in Lives : ListenSocketCreate(l)
      \/ \E l \in Lives : ListenUnlink(l)
      \/ \E l \in Lives : ListenBind(l)
      \/ \E l \in Lives : ListenAccept(l)
      \/ \E l \in Lives : ListenSocketFails(l)
      \/ \E l \in Lives : ListenStops(l)
      \/ \E l \in Lives : ListenEnd(l)
  BY NextCases DEF ConnectService, ExitService, ClientConnect, ClientExit,
    ClientClose, ThreadStart, ThreadCommand, ThreadExit, ThreadEnd, ThreadClose,
    ThreadReset, vars, listenVars
<1> USE Numbers DEF ServiceTypeOK, TypeOK
<1>2. CASE UNCHANGED <<mpc, lpc, sockl, socknew, listensocket, broken>>
  BY <1>2
<1>3. CASE InitService
  <2>1. mpc' = [mpc EXCEPT ![life'] = "start"] /\ UNCHANGED <<listenVars, listensocket>>
    BY <1>3 DEF InitService
  <2> QED
    BY <2>1 DEF listenVars
<1>4. ASSUME NEW l \in Lives, MainStart(l) PROVE ServiceTypeOK'
  BY <1>4 DEF MainStart
<1>5. ASSUME NEW l \in Lives, MainTake(l) PROVE ServiceTypeOK'
  BY <1>5 DEF MainTake, Unlisted, listenVars
<1>6. ASSUME NEW l \in Lives, MainFinish(l) PROVE ServiceTypeOK'
  BY <1>6 DEF MainFinish, ShutDown, SocketAt, ListenSocket, listenVars
<1>7. ASSUME NEW l \in Lives, ListenSocketCreate(l) PROVE ServiceTypeOK'
  BY <1>7 DEF ListenSocketCreate, ListenSocketSet
<1>8. ASSUME NEW l \in Lives, ListenUnlink(l) PROVE ServiceTypeOK'
  BY <1>8 DEF ListenUnlink
<1>9. ASSUME NEW l \in Lives, ListenBind(l) PROVE ServiceTypeOK'
  <2>1. /\ lpc' \in {[lpc EXCEPT ![l] = "accept"], [lpc EXCEPT ![l] = "end"]}
        /\ broken' \in {broken, broken \union {l}}
    BY <1>9 DEF ListenBind
  <2> QED
    BY <1>9, <2>1 DEF ListenBind
<1>10. ASSUME NEW l \in Lives, ListenAccept(l) PROVE ServiceTypeOK'
  <2>1. PICK f \in Fd : socknew' = [socknew EXCEPT ![l] = f]
    BY <1>10 DEF ListenAccept, SocknewSet
  <2> QED
    BY <1>10, <2>1 DEF ListenAccept, AfterAccept
<1>11. ASSUME NEW l \in Lives, ListenStops(l) PROVE ServiceTypeOK'
  <2>1. UNCHANGED <<mpc, sockl, listensocket>> /\ lpc' = [lpc EXCEPT ![l] = "end"]
    BY <1>11, StopsTo DEF ListenLeft
  <2>2. socknew' = socknew \/ socknew' = [socknew EXCEPT ![l] = -1]
    BY <1>11, StopsTo
  <2>3. broken' = broken \/ broken' = broken \union {l}
    BY <1>11, StopsTo
  <2> QED
    BY <2>1, <2>2, <2>3
<1>12. ASSUME NEW l \in Lives, ListenEnd(l) PROVE ServiceTypeOK'
  BY <1>12 DEF ListenEnd
<1>13. ASSUME NEW l \in Lives, ListenSocketFails(l) PROVE ServiceTypeOK'
  BY <1>13 DEF ListenSocketFails
<1> QED
  BY <1>1, <1>2, <1>3, <1>4, <1>5, <1>6, <1>7, <1>8, <1>9, <1>10, <1>11, <1>12,
    <1>13

LEMMA NextThreadType == TypeOK /\ LifeInv /\ [Next]_vars => ThreadTypeOK'
<1> SUFFICES ASSUME TypeOK, LifeInv, [Next]_vars PROVE ThreadTypeOK'
  OBVIOUS
<1>1. \/ UNCHANGED <<tpc, sock, host, clientsocket, raced>>
      \/ \E l \in Lives : ListenAccept(l)
      \/ \E l \in Lives : ListenStops(l)
      \/ \E l \in Lives : ListenEnd(l)
      \/ \E c \in Conns : ThreadStart(c)
      \/ \E c \in Conns : ThreadExit(c)
      \/ \E c \in Conns : ThreadEnd(c)
      \/ \E c \in Conns : ThreadClose(c)
      \/ \E c \in Conns : ThreadReset(c)
  BY NextCases DEF ListenSocketFails, InitService, ConnectService, ExitService,
    ClientConnect, ClientExit, ClientClose, MainStart, MainTake, MainFinish,
    ListenSocketCreate, ListenUnlink, ListenBind, ThreadCommand, vars,
    threadVars
<1> USE Numbers DEF ThreadTypeOK, TypeOK
<1>2. CASE UNCHANGED <<tpc, sock, host, clientsocket, raced>>
  BY <1>2
<1>3. ASSUME NEW l \in Lives, ListenAccept(l) PROVE ThreadTypeOK'
  <2>1. PICK f \in Fd, c \in {Head(backlog[l])} :
          /\ tpc' = [tpc EXCEPT ![c] = "new"] /\ host' = [host EXCEPT ![c] = l]
    BY <1>3 DEF ListenAccept
  <2>2. raced' \in BOOLEAN
    BY <1>3 DEF ListenAccept, SocknewSet, Unread
  <2>3. l \in 0 .. MaxLives
    BY LivesAssumption DEF Lives
  <2> QED
    BY <1>3, <2>1, <2>2, <2>3 DEF ListenAccept
<1>4. ASSUME NEW l \in Lives, ListenStops(l) PROVE ThreadTypeOK'
  <2>1. raced' \in BOOLEAN
    BY <1>4, StopsTo DEF Unread
  <2> QED
    BY <1>4, <2>1, StopsTo DEF ListenLeft
<1>5. ASSUME NEW c \in Conns, ThreadStart(c) PROVE ThreadTypeOK'
  <2>1. Argument(c) \subseteq Fd \union {-1}
    BY <1>5 DEF ThreadStart, Argument, LifeInv, HostInv, ServiceTypeOK
  <2> QED
    BY <1>5, <2>1 DEF ThreadStart, ClientSocketSet
<1>6. ASSUME NEW c \in Conns, ThreadExit(c) PROVE ThreadTypeOK'
  BY <1>6 DEF ThreadExit
<1>7. ASSUME NEW c \in Conns, ThreadEnd(c) PROVE ThreadTypeOK'
  BY <1>7 DEF ThreadEnd
<1>8. ASSUME NEW c \in Conns, ThreadClose(c) PROVE ThreadTypeOK'
  BY <1>8 DEF ThreadClose, Closed
<1>9. ASSUME NEW c \in Conns, ThreadReset(c) PROVE ThreadTypeOK'
  <2>1. 0 \in 0 .. MaxLives
    BY LivesAssumption
  <2> QED
    BY <1>9, <2>1 DEF ThreadReset, ClientSocketReset
<1>10. ASSUME NEW l \in Lives, ListenEnd(l) PROVE ThreadTypeOK'
  <2>1. raced' \in BOOLEAN
    BY <1>10 DEF ListenEnd, Unread
  <2> QED
    BY <1>10, <2>1 DEF ListenEnd
<1> QED
  BY <1>1, <1>2, <1>3, <1>4, <1>5, <1>6, <1>7, <1>8, <1>9, <1>10

LEMMA NextBegun == TypeInv /\ [Next]_vars => BegunInv'
<1> SUFFICES ASSUME TypeInv, [Next]_vars PROVE BegunInv'
  OBVIOUS
<1>1. \/ UNCHANGED <<mpc, lpc, life>>
      \/ InitService
      \/ \E l \in Lives : MainStart(l)
      \/ \E l \in Lives : MainTake(l)
      \/ \E l \in Lives : MainFinish(l)
      \/ \E l \in Lives : ListenSocketCreate(l)
      \/ \E l \in Lives : ListenUnlink(l)
      \/ \E l \in Lives : ListenBind(l)
      \/ \E l \in Lives : ListenAccept(l)
      \/ \E l \in Lives : ListenSocketFails(l)
      \/ \E l \in Lives : ListenStops(l)
      \/ \E l \in Lives : ListenEnd(l)
  BY NextCases DEF ConnectService, ExitService, ClientConnect, ClientExit,
    ClientClose, ThreadStart, ThreadCommand, ThreadExit, ThreadEnd, ThreadClose,
    ThreadReset, vars, userVars, listenVars
<1> USE Numbers DEF BegunInv, LifeInv, TypeInv, TypeOK, ServiceTypeOK, UserTypeOK
<1>2. CASE UNCHANGED <<mpc, lpc, life>>
  BY <1>2
<1>3. CASE InitService
  <2>1. /\ life' = life + 1 /\ life' \in 0 .. MaxLives /\ mpc' = [mpc EXCEPT ![life'] = "start"]
        /\ lpc' = lpc
    BY <1>3, LivesAssumption DEF InitService, listenVars
  <2>2. life' \in Lives /\ mpc[life'] = "none"
    BY <2>1 DEF Lives
  <2> SUFFICES ASSUME NEW l \in Lives
               PROVE  /\ mpc'[l] = "none" <=> l > life'
                      /\ lpc'[l] = "none" <=> mpc'[l] \in {"none", "start"}
    OBVIOUS
  <2>3. CASE l = life'
    BY <2>1, <2>2, <2>3
  <2>4. CASE l # life'
    <3>1. l > life <=> l > life'
      BY <2>1, <2>4 DEF Lives
    <3> QED
      BY <2>1, <2>4, <3>1
  <2> QED
    BY <2>3, <2>4
<1>4. ASSUME NEW l \in Lives, MainStart(l) PROVE BegunInv'
  BY <1>4 DEF MainStart, userVars
<1>5. ASSUME NEW l \in Lives, MainTake(l) PROVE BegunInv'
  BY <1>5 DEF MainTake, Unlisted, userVars, listenVars
<1>6. ASSUME NEW l \in Lives, MainFinish(l) PROVE BegunInv'
  BY <1>6 DEF MainFinish, ShutDown, SocketAt, ListenSocket, userVars, listenVars
<1>7. ASSUME NEW l \in Lives, ListenSocketCreate(l) PROVE BegunInv'
  BY <1>7 DEF ListenSocketCreate, ListenSocketSet, userVars
<1>8. ASSUME NEW l \in Lives, ListenUnlink(l) PROVE BegunInv'
  BY <1>8 DEF ListenUnlink, userVars
<1>9. ASSUME NEW l \in Lives, ListenBind(l) PROVE BegunInv'
  <2>1. lpc' \in {[lpc EXCEPT ![l] = "accept"], [lpc EXCEPT ![l] = "end"]} /\ UNCHANGED <<mpc, life>>
    BY <1>9 DEF ListenBind, userVars
  <2> QED
    BY <1>9, <2>1 DEF ListenBind
<1>10. ASSUME NEW l \in Lives, ListenAccept(l) PROVE BegunInv'
  BY <1>10 DEF ListenAccept, SocknewSet, Accepted, AfterAccept, userVars
<1>11. ASSUME NEW l \in Lives, ListenStops(l) PROVE BegunInv'
  BY <1>11, StopsTo DEF ListenLeft, userVars
<1>12. ASSUME NEW l \in Lives, ListenEnd(l) PROVE BegunInv'
  BY <1>12 DEF ListenEnd, userVars
<1>13. ASSUME NEW l \in Lives, ListenSocketFails(l) PROVE BegunInv'
  BY <1>13 DEF ListenSocketFails, userVars
<1> QED
  BY <1>1, <1>2, <1>3, <1>4, <1>5, <1>6, <1>7, <1>8, <1>9, <1>10, <1>11, <1>12,
    <1>13

LEMMA NextAsked == TypeInv /\ [Next]_vars => AskedInv'
<1> SUFFICES ASSUME TypeInv, [Next]_vars PROVE AskedInv'
  OBVIOUS
<1>1. \/ UNCHANGED <<asked, life, user, link>>
      \/ InitService
      \/ ConnectService
      \/ ExitService
      \/ \E c \in Clients : ClientConnect(c)
      \/ \E c \in Clients : ClientExit(c)
      \/ \E c \in Clients : ClientClose(c)
      \/ \E l \in Lives : MainFinish(l)
      \/ \E l \in Lives : ListenStops(l)
      \/ \E c \in Conns : ThreadClose(c)
  BY NextCases DEF ListenSocketFails, MainStart, MainTake, ListenSocketCreate,
    ListenUnlink, ListenBind, ListenAccept, ListenEnd, ThreadStart, ThreadCommand, ThreadExit, ThreadEnd,
    ThreadReset, vars, socketVars, userVars, exitVars
<1> USE Numbers DEF AskedInv, LifeInv, TypeInv, TypeOK, UserTypeOK, SocketTypeOK
<1>2. CASE UNCHANGED <<asked, life, user, link>>
  BY <1>2
<1>3. CASE InitService
  BY <1>3 DEF InitService, socketVars, exitVars
<1>4. CASE ConnectService
  BY <1>4 DEF ConnectService, Connected, exitVars
<1>5. CASE ExitService
  <2>1. life # 0 /\ life \in 1 .. life
    BY <1>5 DEF ExitService
  <2> QED
    BY <1>5, <2>1 DEF ExitService, ExitWritten, socketVars
<1>6. ASSUME NEW c \in Clients, ClientConnect(c) PROVE AskedInv'
  <2>1. path \in Lives /\ lpc[path] # "none"
    BY <1>6 DEF ClientConnect, Listening, Lives
  <2>2. life # 0
    BY <2>1 DEF BegunInv, Lives
  <2> QED
    BY <1>6, <2>2 DEF ClientConnect, Connected, userVars, exitVars
<1>7. ASSUME NEW c \in Clients, ClientExit(c) PROVE AskedInv'
  <2>1. life # 0 /\ life \in 1 .. life
    BY <1>7 DEF ClientExit
  <2> QED
    BY <1>7, <2>1 DEF ClientExit, ExitWritten, socketVars, userVars
<1>8. ASSUME NEW c \in Clients, ClientClose(c) PROVE AskedInv'
  BY <1>8 DEF ClientClose, userVars, exitVars
<1>9. ASSUME NEW l \in Lives, MainFinish(l) PROVE AskedInv'
  <2>1. life # 0
    BY <1>9 DEF MainFinish, BegunInv, Lives
  <2> QED
    BY <1>9, <2>1 DEF MainFinish, userVars, exitVars
<1>10. ASSUME NEW c \in Conns, ThreadClose(c) PROVE AskedInv'
  <2>1. life # 0
    BY <1>10 DEF ThreadClose, HostInv, Lives
  <2> QED
    BY <1>10, <2>1 DEF ThreadClose, userVars, exitVars
<1>11. ASSUME NEW l \in Lives, ListenStops(l) PROVE AskedInv'
  <2>1. ListenLeft(l)
    BY <1>11, StopsTo
  <2>2. life # 0
    BY <2>1 DEF ListenLeft, BegunInv, Lives
  <2> QED
    BY <2>1, <2>2 DEF ListenLeft, userVars, exitVars
<1> QED
  BY <1>1, <1>2, <1>3, <1>4, <1>5, <1>6, <1>7, <1>8, <1>9, <1>10, <1>11

LEMMA NextHost == TypeInv /\ [Next]_vars => HostInv'
<1> SUFFICES ASSUME TypeInv, [Next]_vars PROVE HostInv'
  OBVIOUS
<1>1. \/ UNCHANGED <<tpc, host, life>>
      \/ InitService
      \/ \E l \in Lives : ListenAccept(l)
      \/ \E c \in Conns : ThreadStart(c)
      \/ \E c \in Conns : ThreadExit(c)
      \/ \E c \in Conns : ThreadEnd(c)
      \/ \E c \in Conns : ThreadClose(c)
      \/ \E c \in Conns : ThreadReset(c)
  BY NextCases DEF ListenSocketFails, ConnectService, ExitService, ClientConnect,
    ClientExit, ClientClose, MainStart, MainTake, MainFinish, ListenSocketCreate,
    ListenUnlink, ListenBind, ListenStops, AcceptFails, ListenFails, ListenLeft,
    ListenEnd, ThreadCommand, vars, userVars, threadVars
<1> USE Numbers DEF HostInv, LifeInv, TypeInv, TypeOK, ThreadTypeOK, UserTypeOK
<1>2. CASE UNCHANGED <<tpc, host, life>>
  BY <1>2
<1>3. CASE InitService
  <2>1. life' = life + 1 /\ UNCHANGED <<tpc, host>>
    BY <1>3 DEF InitService, threadVars
  <2> QED
    BY <2>1 DEF Lives
<1>4. ASSUME NEW l \in Lives, ListenAccept(l) PROVE HostInv'
  <2>1. l <= life
    BY <1>4 DEF ListenAccept, BegunInv, Lives
  <2>2. PICK c \in {Head(backlog[l])} :
          /\ tpc' = [tpc EXCEPT ![c] = "new"] /\ host' = [host EXCEPT ![c] = l]
    BY <1>4 DEF ListenAccept
  <2> QED
    BY <1>4, <2>1, <2>2 DEF ListenAccept, userVars
<1>5. ASSUME NEW c \in Conns, ThreadStart(c) PROVE HostInv'
  BY <1>5 DEF ThreadStart, Argument, ClientSocketSet, userVars
<1>6. ASSUME NEW c \in Conns, ThreadExit(c) PROVE HostInv'
  BY <1>6 DEF ThreadExit, userVars
<1>7. ASSUME NEW c \in Conns, ThreadEnd(c) PROVE HostInv'
  BY <1>7 DEF ThreadEnd, userVars
<1>8. ASSUME NEW c \in Conns, ThreadClose(c) PROVE HostInv'
  BY <1>8 DEF ThreadClose, Closed, userVars
<1>9. ASSUME NEW c \in Conns, ThreadReset(c) PROVE HostInv'
  BY <1>9 DEF ThreadReset, ClientSocketReset, userVars
<1> QED
  BY <1>1, <1>2, <1>3, <1>4, <1>5, <1>6, <1>7, <1>8, <1>9

LEMMA NextTypeInv == TypeInv /\ [Next]_vars => TypeInv'
BY NextSocketType, NextCommandType, NextUserType, NextServiceType, NextThreadType,
   NextBegun, NextAsked, NextHost DEF TypeInv, TypeOK, LifeInv

LEMMA TypeInvariant == Spec => []TypeInv
BY InitType, NextTypeInv, PTL DEF Spec

\* Every variable keeps to its values, however many lives, clients and
\* descriptors there are.
THEOREM TypeCorrect == Spec => []TypeOK
<1>1. TypeInv => TypeOK
  BY DEF TypeInv
<1> QED
  BY TypeInvariant, <1>1, PTL

-----------------------------------------------------------------------------
(* Connections, in the order of their life: idle, in a backlog, served by a  *)
(* thread.                                                                 *)

\* Of an idle connection there is no thread and nothing to read.
IdleInv == \A c \in Conns : link[c] = "idle" => tpc[c] = "none" /\ c \notin exits

\* Nor does a descriptor stand for one of its ends.
EndsInv ==
  /\ \A f \in Fd, c \in Conns : fds[f] = Server(c) => link[c] # "idle"
  /\ \A f \in Fd, l \in Lives : fds[f] = Api(l) => link[l] # "idle"

\* hdmi_service_init connects in its own life, once.
FreshInv ==
  /\ \A l \in Lives : l > life => link[l] = "idle"
  /\ user = "starting" => link[life] = "idle"
  /\ user = "ready" => link[life] # "idle"

\* What waits for accept is connected and has no thread yet.
WaitInv ==
  \A l \in Lives : \A i \in 1 .. Len(backlog[l]) :
    link[backlog[l][i]] # "idle" /\ tpc[backlog[l][i]] = "none"

\* It waits in one place only.
OnceInv ==
  \A l, m \in Lives : \A i \in 1 .. Len(backlog[l]), j \in 1 .. Len(backlog[m]) :
    backlog[l][i] = backlog[m][j] => l = m /\ i = j

ConnInv == IdleInv /\ EndsInv /\ FreshInv /\ WaitInv /\ OnceInv

\* close frees a descriptor and leaves the others alone.
LEMMA ClosedFds ==
  ASSUME TypeOK, NEW g \in Fd \union {-1}, fds' = Closed(g)
  PROVE  \A f \in Fd : fds'[f] = IF f = g THEN Free ELSE fds[f]
BY DEF Closed, TypeOK, SocketTypeOK, Fd

LEMMA LowestIsFree == ASSUME NEW f \in Fd, IsLowest(f) PROVE fds[f] = Free
BY DEF IsLowest, FreeFds

\* A connection never becomes idle again.
LEMMA StaysConnected ==
  TypeInv /\ [Next]_vars =>
    \A c \in Conns : link[c] # "idle" => link'[c] # "idle"
<1> DEFINE StillConnected == \A c \in Conns : link[c] # "idle" => link'[c] # "idle"
<1> SUFFICES ASSUME TypeInv, [Next]_vars PROVE StillConnected
  OBVIOUS
<1>1. \/ UNCHANGED <<link>>
      \/ ConnectService
      \/ \E c \in Clients : ClientConnect(c)
      \/ \E c \in Clients : ClientClose(c)
      \/ \E l \in Lives : MainFinish(l)
      \/ \E l \in Lives : ListenStops(l)
      \/ \E c \in Conns : ThreadClose(c)
  BY NextCases DEF ListenSocketFails, InitService, ExitService, ClientExit,
    MainStart, MainTake, ListenSocketCreate, ListenUnlink, ListenBind,
    ListenAccept, ListenEnd,
    ThreadStart, ThreadCommand, ThreadExit, ThreadEnd, ThreadReset, vars,
    socketVars
<1> USE DEF TypeInv, TypeOK, SocketTypeOK
<1>2. CASE UNCHANGED <<link>>
  BY <1>2
<1>3. CASE ConnectService
  BY <1>3 DEF ConnectService, Connected
<1>4. ASSUME NEW c \in Clients, ClientConnect(c) PROVE StillConnected
  BY <1>4 DEF ClientConnect, Connected
<1>5. ASSUME NEW c \in Clients, ClientClose(c) PROVE StillConnected
  BY <1>5 DEF ClientClose
<1>6. ASSUME NEW l \in Lives, MainFinish(l) PROVE StillConnected
  BY <1>6, Zenon DEF MainFinish, ShutDown, TypeInv, TypeOK, SocketTypeOK
<1>7. ASSUME NEW c \in Conns, ThreadClose(c) PROVE StillConnected
  BY <1>7 DEF ThreadClose, Closed
<1>8. ASSUME NEW l \in Lives, ListenStops(l) PROVE StillConnected
  BY <1>8, StopsTo DEF ListenLeft
<1> QED
  BY <1>1, <1>2, <1>3, <1>4, <1>5, <1>6, <1>7, <1>8

LEMMA NextIdle == TypeInv /\ ConnInv /\ [Next]_vars => IdleInv'
<1> SUFFICES ASSUME TypeInv, ConnInv, [Next]_vars PROVE IdleInv'
  OBVIOUS
<1>1. \/ UNCHANGED <<link, tpc, exits>>
      \/ ConnectService
      \/ ExitService
      \/ \E c \in Clients : ClientConnect(c)
      \/ \E c \in Clients : ClientExit(c)
      \/ \E c \in Clients : ClientClose(c)
      \/ \E l \in Lives : MainFinish(l)
      \/ \E l \in Lives : ListenAccept(l)
      \/ \E l \in Lives : ListenStops(l)
      \/ \E c \in Conns : ThreadStart(c)
      \/ \E c \in Conns : ThreadExit(c)
      \/ \E c \in Conns : ThreadEnd(c)
      \/ \E c \in Conns : ThreadClose(c)
      \/ \E c \in Conns : ThreadReset(c)
  BY NextCases DEF ListenSocketFails, InitService, MainStart, MainTake,
    ListenSocketCreate, ListenUnlink, ListenBind, ListenEnd, ThreadCommand, vars, socketVars,
    commandVars, threadVars
<1> USE DEF ConnInv, IdleInv, TypeInv, TypeOK, SocketTypeOK, ThreadTypeOK
<1>2. CASE UNCHANGED <<link, tpc, exits>>
  BY <1>2
<1>3. CASE ConnectService
  BY <1>3 DEF ConnectService, Connected, commandVars, threadVars
<1>4. CASE ExitService
  BY <1>4 DEF ExitService, ExitWritten, socketVars, threadVars, FreshInv
<1>5. ASSUME NEW c \in Clients, ClientConnect(c) PROVE IdleInv'
  BY <1>5 DEF ClientConnect, Connected, commandVars, threadVars
<1>6. ASSUME NEW c \in Clients, ClientExit(c) PROVE IdleInv'
  BY <1>6 DEF ClientExit, ExitWritten, socketVars, threadVars
<1>7. ASSUME NEW c \in Clients, ClientClose(c) PROVE IdleInv'
  BY <1>7 DEF ClientClose, commandVars, threadVars
<1>8. ASSUME NEW l \in Lives, MainFinish(l) PROVE IdleInv'
  <2>1. UNCHANGED <<tpc, exits>> /\ \A c \in Conns : link[c] # "idle" => link'[c] # "idle"
    BY <1>8, StaysConnected DEF MainFinish, threadVars
  <2> QED
    BY <2>1
<1>9. ASSUME NEW l \in Lives, ListenAccept(l) PROVE IdleInv'
  <2>1. PICK c \in {Head(backlog[l])} : tpc' = [tpc EXCEPT ![c] = "new"]
    BY <1>9 DEF ListenAccept
  <2>2. /\ backlog[l] \in Seq(Conns) /\ backlog[l] # <<>> /\ UNCHANGED <<link, exits>>
    BY <1>9 DEF ListenAccept, commandVars
  <2>3. Len(backlog[l]) > 0 /\ c = backlog[l][1]
    BY <2>1, <2>2
  <2>4. c \in Conns /\ link[c] # "idle"
    BY <2>2, <2>3 DEF WaitInv
  <2> QED
    BY <2>1, <2>2, <2>4
<1>10. ASSUME NEW c \in Conns, ThreadStart(c) PROVE IdleInv'
  BY <1>10 DEF ThreadStart, Argument, ClientSocketSet, socketVars, commandVars
<1>11. ASSUME NEW c \in Conns, ThreadExit(c) PROVE IdleInv'
  BY <1>11 DEF ThreadExit, socketVars
<1>12. ASSUME NEW c \in Conns, ThreadEnd(c) PROVE IdleInv'
  BY <1>12 DEF ThreadEnd, socketVars, commandVars
<1>13. ASSUME NEW c \in Conns, ThreadClose(c) PROVE IdleInv'
  BY <1>13 DEF ThreadClose, Closed
<1>14. ASSUME NEW c \in Conns, ThreadReset(c) PROVE IdleInv'
  BY <1>14 DEF ThreadReset, ClientSocketReset, socketVars, commandVars
<1>15. ASSUME NEW l \in Lives, ListenStops(l) PROVE IdleInv'
  <2>1. UNCHANGED tpc /\ exits' \subseteq exits
    BY <1>15, StopsTo DEF ListenLeft
  <2>2. \A c \in Conns : link[c] # "idle" => link'[c] # "idle"
    BY StaysConnected
  <2> QED
    BY <2>1, <2>2
<1> QED
  BY <1>1, <1>2, <1>3, <1>4, <1>5, <1>6, <1>7, <1>8, <1>9, <1>10, <1>11, <1>12,
    <1>13, <1>14, <1>15

LEMMA NextEnds == TypeInv /\ ConnInv /\ [Next]_vars => EndsInv'
<1> SUFFICES ASSUME TypeInv, ConnInv, [Next]_vars PROVE EndsInv'
  OBVIOUS
<1>1. \/ UNCHANGED <<fds, link>>
      \/ ConnectService
      \/ \E c \in Clients : ClientConnect(c)
      \/ \E c \in Clients : ClientClose(c)
      \/ \E l \in Lives : MainFinish(l)
      \/ \E l \in Lives : ListenSocketCreate(l)
      \/ \E l \in Lives : ListenBind(l)
      \/ \E l \in Lives : ListenAccept(l)
      \/ \E l \in Lives : ListenStops(l)
      \/ \E c \in Conns : ThreadClose(c)
  BY NextCases DEF ListenSocketFails, InitService, ExitService, ClientExit,
    MainStart, MainTake, ListenUnlink, ListenEnd, ThreadStart, ThreadCommand,
    ThreadExit, ThreadEnd, ThreadReset, vars, socketVars
<1> USE DEF ConnInv, EndsInv, TypeInv, TypeOK, SocketTypeOK
<1>2. CASE UNCHANGED <<fds, link>>
  BY <1>2
<1>3. CASE ConnectService
  <2>1. CASE user' = "ready"
    <3>1. PICK f \in Fd : fds' = [fds EXCEPT ![f] = Api(life)]
      BY <1>3, <2>1 DEF ConnectService, Taken
    <3>2. link' = [link EXCEPT ![life] = "up"]
      BY <1>3, <2>1 DEF ConnectService, Connected
    <3>3. \A c \in Conns : link[c] # "idle" => link'[c] # "idle"
      BY <3>2
    <3>4. \A g \in Fd : g # f => fds'[g] = fds[g]
      BY <3>1
    <3>5. fds'[f] = Api(life)
      BY <3>1
    <3>6. life \in Conns => link'[life] # "idle"
      BY <3>2
    <3> QED
      BY <3>3, <3>4, <3>5, <3>6, SocketsDiffer, Numbers
  <2>2. CASE user' # "ready"
    BY <1>3, <2>2 DEF ConnectService
  <2> QED
    BY <2>1, <2>2
<1>4. ASSUME NEW c \in Clients, ClientConnect(c) PROVE EndsInv'
  BY <1>4 DEF ClientConnect, Connected
<1>5. ASSUME NEW c \in Clients, ClientClose(c) PROVE EndsInv'
  BY <1>5 DEF ClientClose
<1>6. ASSUME NEW l \in Lives, MainFinish(l) PROVE EndsInv'
  <2>1. UNCHANGED fds /\ \A c \in Conns : link[c] # "idle" => link'[c] # "idle"
    BY <1>6, StaysConnected DEF MainFinish
  <2> QED
    BY <2>1, Numbers
<1>7. ASSUME NEW l \in Lives, ListenSocketCreate(l) PROVE EndsInv'
  <2>1. PICK f \in Fd : fds' = [fds EXCEPT ![f] = Listen(l)]
    BY <1>7 DEF ListenSocketCreate, Taken
  <2>2. UNCHANGED link
    BY <1>7 DEF ListenSocketCreate
  <2> QED
    BY <2>1, <2>2, SocketsDiffer
<1>8. ASSUME NEW l \in Lives, ListenBind(l) PROVE EndsInv'
  BY <1>8, SocketsDiffer DEF ListenBind, Bound, Closed
<1>9. ASSUME NEW l \in Lives, ListenAccept(l) PROVE EndsInv'
  <2>1. PICK f \in Fd, c \in {Head(backlog[l])} : fds' = [fds EXCEPT ![f] = Server(c)]
    BY <1>9 DEF ListenAccept, Accepted
  <2>2. backlog[l] \in Seq(Conns) /\ backlog[l] # <<>> /\ UNCHANGED link
    BY <1>9 DEF ListenAccept
  <2>3. Len(backlog[l]) > 0 /\ c = backlog[l][1]
    BY <2>1, <2>2
  <2>4. c \in Conns /\ link[c] # "idle"
    BY <2>2, <2>3 DEF WaitInv
  <2> QED
    BY <2>1, <2>2, <2>4, SocketsDiffer
<1>10. ASSUME NEW l \in Lives, ListenStops(l) PROVE EndsInv'
  <2>1. \A f \in Fd : fds'[f] \in {fds[f], Free}
    BY <1>10, StopsTo, ClosedFds DEF ListenLeft, ListenClosed, ServiceTypeOK
  <2>2. \A d \in Conns : link[d] # "idle" => link'[d] # "idle"
    BY <1>10, StaysConnected
  <2> QED
    BY <2>1, <2>2, SocketsDiffer, Numbers
<1>11. ASSUME NEW c \in Conns, ThreadClose(c) PROVE EndsInv'
  <2>1. \A f \in Fd : fds'[f] \in {fds[f], Free}
    BY <1>11, ClosedFds DEF ThreadClose, ThreadTypeOK
  <2>2. \A d \in Conns : link[d] # "idle" => link'[d] # "idle"
    BY <1>11, StaysConnected
  <2> QED
    BY <2>1, <2>2, SocketsDiffer, Numbers
<1> QED
  BY <1>1, <1>2, <1>3, <1>4, <1>5, <1>6, <1>7, <1>8, <1>9, <1>10, <1>11

\* A connection ceases to be idle when it is made, and no other way.
LEMMA LeavesIdle ==
  TypeInv /\ ConnInv /\ [Next]_vars =>
    \A c \in Conns : link[c] = "idle" /\ link'[c] # "idle"
                        => (ConnectService /\ c = life) \/ (c \in Clients /\ ClientConnect(c))
<1> DEFINE JustMade == \A c \in Conns : link[c] = "idle" /\ link'[c] # "idle"
               => (ConnectService /\ c = life) \/ (c \in Clients /\ ClientConnect(c))
<1> SUFFICES ASSUME TypeInv, ConnInv, [Next]_vars PROVE JustMade
  OBVIOUS
<1>1. \/ UNCHANGED <<link>>
      \/ ConnectService
      \/ \E c \in Clients : ClientConnect(c)
      \/ \E c \in Clients : ClientClose(c)
      \/ \E l \in Lives : MainFinish(l)
      \/ \E l \in Lives : ListenStops(l)
      \/ \E c \in Conns : ThreadClose(c)
  BY NextCases DEF ListenSocketFails, InitService, ExitService, ClientExit,
    MainStart, MainTake, ListenSocketCreate, ListenUnlink, ListenBind,
    ListenAccept, ListenEnd,
    ThreadStart, ThreadCommand, ThreadExit, ThreadEnd, ThreadReset, vars,
    socketVars
<1> USE DEF ConnInv, TypeInv, TypeOK, SocketTypeOK
<1>2. CASE UNCHANGED <<link>>
  BY <1>2
<1>3. CASE ConnectService
  <2>1. CASE user' = "ready"
    <3>1. link' = [link EXCEPT ![life] = "up"]
      BY <1>3, <2>1 DEF ConnectService, Connected
    <3>2. \A c \in Conns : c # life => link'[c] = link[c]
      BY <3>1
    <3> QED
      BY <1>3, <3>2
  <2>2. CASE user' # "ready"
    BY <1>3, <2>2 DEF ConnectService
  <2> QED
    BY <2>1, <2>2
<1>4. ASSUME NEW c \in Clients, ClientConnect(c) PROVE JustMade
  <2>1. link' = [link EXCEPT ![c] = "up"]
    BY <1>4 DEF ClientConnect, Connected
  <2> QED
    BY <1>4, <2>1
<1>5. ASSUME NEW c \in Clients, ClientClose(c) PROVE JustMade
  BY <1>5 DEF ClientClose
<1>6. ASSUME NEW l \in Lives, MainFinish(l) PROVE JustMade
  <2> DEFINE s == SocketAt(ListenSocket)
  <2>1. s \in Sockets /\ (s = Free \/ \E f \in Fd : s = fds[f])
    BY SocketTypes DEF SocketAt, ListenSocket, ServiceTypeOK
  <2>2. s.kind \in {"server", "api"} => s.of \in Conns /\ link[s.of] # "idle"
    <3>1. CASE s = Free
      BY <3>1 DEF Free
    <3>2. CASE \E m \in Lives : s = Listen(m)
      BY <3>2 DEF Listen
    <3>3. ASSUME NEW d \in Conns, s = Server(d) PROVE s.of \in Conns /\ link[s.of] # "idle"
      BY <2>1, <3>3, SocketsDiffer DEF Server, EndsInv
    <3>4. ASSUME NEW m \in Lives, s = Api(m) PROVE s.of \in Conns /\ link[s.of] # "idle"
      BY <2>1, <3>4, SocketsDiffer, Numbers DEF Api, EndsInv
    <3> QED
      BY <2>1, <3>1, <3>2, <3>3, <3>4 DEF Sockets
  <2>3. link' = IF s.kind \in {"server", "api"} THEN [link EXCEPT ![s.of] = "closed"] ELSE link
    BY <1>6 DEF MainFinish, ShutDown
  <2> QED
    BY <2>2, <2>3
<1>7. ASSUME NEW c \in Conns, ThreadClose(c) PROVE JustMade
  <2>1. \A d \in Conns : Reads(c, d) => link[d] # "idle"
    BY SocketsDiffer DEF Reads, SocketAt, EndsInv, ThreadTypeOK
  <2> QED
    BY <1>7, <2>1 DEF ThreadClose
<1>8. ASSUME NEW l \in Lives, ListenStops(l) PROVE JustMade
  <2> SUFFICES ASSUME NEW c \in Conns, link[c] = "idle" PROVE link'[c] = "idle"
    OBVIOUS
  <2>1. \A i \in 1 .. Len(backlog[l]) : backlog[l][i] # c
    BY DEF WaitInv
  <2> QED
    BY <1>8, <2>1, StopsTo DEF ListenLeft
<1> QED
  BY <1>1, <1>2, <1>3, <1>4, <1>5, <1>6, <1>7, <1>8

LEMMA NextFresh == TypeInv /\ ConnInv /\ [Next]_vars => FreshInv'
<1> SUFFICES ASSUME TypeInv, ConnInv, [Next]_vars PROVE FreshInv'
  OBVIOUS
<1>1. \/ UNCHANGED <<link, life, user>>
      \/ InitService
      \/ ConnectService
      \/ ExitService
      \/ \E c \in Clients : ClientConnect(c)
      \/ \E c \in Clients : ClientClose(c)
      \/ \E l \in Lives : MainFinish(l)
      \/ \E l \in Lives : ListenStops(l)
      \/ \E c \in Conns : ThreadClose(c)
  BY NextCases DEF ListenSocketFails, ClientExit, MainStart, MainTake,
    ListenSocketCreate, ListenUnlink, ListenBind, ListenAccept, ListenEnd, ThreadStart, ThreadCommand,
    ThreadExit, ThreadEnd, ThreadReset, vars, socketVars, userVars
<1> USE Numbers DEF ConnInv, FreshInv, TypeInv, TypeOK, SocketTypeOK, UserTypeOK, LifeInv
<1>2. CASE UNCHANGED <<link, life, user>>
  BY <1>2
<1>3. CASE InitService
  <2>1. life' = life + 1 /\ life' \in Lives /\ user' = "starting" /\ UNCHANGED link
    BY <1>3, LivesAssumption DEF InitService, socketVars, Lives
  <2> QED
    BY <2>1 DEF Lives
<1>4. CASE ConnectService
  <2>0. life \in Lives /\ life' = life
    BY <1>4 DEF ConnectService, AskedInv, Lives
  <2>1. CASE user' = "ready"
    <3>1. link' = [link EXCEPT ![life] = "up"] /\ user' = "ready"
      BY <1>4, <2>1 DEF ConnectService, Connected
    <3> QED
      BY <2>0, <3>1 DEF Lives
  <2>2. CASE user' # "ready"
    BY <1>4, <2>0, <2>2 DEF ConnectService
  <2> QED
    BY <2>1, <2>2
<1>5. CASE ExitService
  BY <1>5 DEF ExitService, ExitWritten, socketVars
<1>6. ASSUME NEW c \in Clients, ClientConnect(c) PROVE FreshInv'
  <2>1. link' = [link EXCEPT ![c] = "up"] /\ UNCHANGED <<life, user>>
    BY <1>6 DEF ClientConnect, Connected, userVars
  <2>2. \A l \in Lives : link'[l] = link[l]
    BY <2>1, LivesAssumption
  <2>3. life = 0 \/ life \in Lives
    BY DEF Lives
  <2> QED
    BY <2>1, <2>2, <2>3 DEF AskedInv
<1>7. ASSUME NEW c \in Clients, ClientClose(c) PROVE FreshInv'
  <2>1. link' = [link EXCEPT ![c] = "closed"] /\ UNCHANGED <<life, user>>
    BY <1>7 DEF ClientClose, userVars
  <2>2. \A l \in Lives : link'[l] = link[l]
    BY <2>1, LivesAssumption
  <2>3. life = 0 \/ life \in Lives
    BY DEF Lives
  <2> QED
    BY <2>1, <2>2, <2>3 DEF AskedInv
<1>8. ASSUME NEW l \in Lives, MainFinish(l) PROVE FreshInv'
  <2>1. UNCHANGED <<life, user>>
    BY <1>8 DEF MainFinish, userVars
  <2>2. \A d \in Lives : link'[d] = "idle" <=> link[d] = "idle"
    <3>1. ~ConnectService /\ \A d \in Clients : ~ClientConnect(d)
      BY <1>8 DEF MainFinish, ConnectService, ClientConnect, ServiceTypeOK, ThreadTypeOK, threadVars
    <3> QED
      BY <3>1, StaysConnected, LeavesIdle
  <2>3. life = 0 \/ life \in Lives
    BY DEF Lives
  <2> QED
    BY <2>1, <2>2, <2>3 DEF AskedInv
<1>9. ASSUME NEW c \in Conns, ThreadClose(c) PROVE FreshInv'
  <2>1. UNCHANGED <<life, user>>
    BY <1>9 DEF ThreadClose, userVars
  <2>2. \A d \in Lives : link'[d] = "idle" <=> link[d] = "idle"
    <3>1. ~ConnectService /\ \A d \in Clients : ~ClientConnect(d)
      BY <1>9 DEF ThreadClose, ConnectService, ClientConnect, ServiceTypeOK, ThreadTypeOK, threadVars
    <3> QED
      BY <3>1, StaysConnected, LeavesIdle
  <2>3. life = 0 \/ life \in Lives
    BY DEF Lives
  <2> QED
    BY <2>1, <2>2, <2>3 DEF AskedInv
<1>10. ASSUME NEW l \in Lives, ListenStops(l) PROVE FreshInv'
  <2>1. ListenLeft(l)
    BY <1>10, StopsTo
  <2>2. UNCHANGED <<life, user>>
    BY <2>1 DEF ListenLeft, userVars
  <2>3. \A d \in Lives : link'[d] = "idle" <=> link[d] = "idle"
    <3>1. ~ConnectService /\ \A d \in Clients : ~ClientConnect(d)
      BY <2>1 DEF ListenLeft, ConnectService, ClientConnect, listenVars, ServiceTypeOK
    <3> QED
      BY <3>1, StaysConnected, LeavesIdle
  <2>4. life = 0 \/ life \in Lives
    BY DEF Lives
  <2> QED
    BY <2>2, <2>3, <2>4 DEF AskedInv
<1> QED
  BY <1>1, <1>2, <1>3, <1>4, <1>5, <1>6, <1>7, <1>8, <1>9, <1>10

\* A new connection comes last in the backlog of the path's listen thread.
LEMMA JoinsBacklog ==
  ASSUME TypeInv, ConnInv, NEW c \in Conns, link[c] = "idle", path \in Lives,
         Connected(c), UNCHANGED tpc
  PROVE  WaitInv' /\ OnceInv'
<1>0. /\ backlog \in [Lives -> Seq(Conns)] /\ link \in [Conns -> {"idle", "up", "closed"}]
      /\ IdleInv /\ WaitInv /\ OnceInv
  BY DEF ConnInv, TypeInv, TypeOK, SocketTypeOK
<1>1. tpc[c] = "none" /\ link' = [link EXCEPT ![c] = "up"]
      /\ backlog' = [backlog EXCEPT ![path] = Append(backlog[path], c)]
  BY <1>0 DEF IdleInv, Connected
<1>2. \A l \in Lives : \A i \in 1 .. Len(backlog[l]) : backlog[l][i] \in Conns \ {c}
  BY <1>0 DEF WaitInv
<1> DEFINE n == Len(backlog[path])
<1>3. /\ n \in Nat /\ Len(backlog'[path]) = n + 1 /\ backlog'[path][n + 1] = c
      /\ \A i \in 1 .. n : backlog'[path][i] = backlog[path][i]
  BY <1>0, <1>1
<1>4. \A l \in Lives : l # path => backlog'[l] = backlog[l]
  BY <1>0, <1>1
<1>5. ASSUME NEW l \in Lives, NEW i \in 1 .. Len(backlog'[l])
      PROVE  \/ l = path /\ i = n + 1 /\ backlog'[l][i] = c
             \/ i \in 1 .. Len(backlog[l]) /\ backlog'[l][i] = backlog[l][i]
  <2>1. CASE l # path
    BY <1>4, <2>1
  <2>2. CASE l = path
    <3>1. i = n + 1 \/ i \in 1 .. n
      BY <1>3, <2>2
    <3> QED
      BY <1>3, <2>2, <3>1
  <2> QED
    BY <2>1, <2>2
<1> HIDE DEF n
<1>6. WaitInv'
  <2> SUFFICES ASSUME NEW l \in Lives, NEW i \in 1 .. Len(backlog'[l])
               PROVE  link'[backlog'[l][i]] # "idle" /\ tpc[backlog'[l][i]] = "none"
    BY DEF WaitInv
  <2>1. CASE backlog'[l][i] = c
    BY <1>0, <1>1, <2>1
  <2>2. CASE backlog'[l][i] # c
    <3>1. i \in 1 .. Len(backlog[l]) /\ backlog'[l][i] = backlog[l][i]
      BY <1>5, <2>2
    <3>2. link[backlog[l][i]] # "idle" /\ tpc[backlog[l][i]] = "none"
      BY <1>0, <3>1 DEF WaitInv
    <3>3. link'[backlog[l][i]] = link[backlog[l][i]]
      BY <1>0, <1>1, <1>2, <3>1
    <3> QED
      BY <3>1, <3>2, <3>3
  <2> QED
    BY <2>1, <2>2
<1>7. OnceInv'
  <2> SUFFICES ASSUME NEW l \in Lives, NEW m \in Lives, NEW i \in 1 .. Len(backlog'[l]),
                      NEW j \in 1 .. Len(backlog'[m]), backlog'[l][i] = backlog'[m][j]
               PROVE  l = m /\ i = j
    BY DEF OnceInv
  <2>1. \/ l = path /\ i = n + 1 /\ backlog'[l][i] = c
        \/ i \in 1 .. Len(backlog[l]) /\ backlog'[l][i] = backlog[l][i]
    BY <1>5
  <2>2. \/ m = path /\ j = n + 1 /\ backlog'[m][j] = c
        \/ j \in 1 .. Len(backlog[m]) /\ backlog'[m][j] = backlog[m][j]
    BY <1>5
  <2>3. CASE backlog'[l][i] = c
    <3>1. l = path /\ i = n + 1
      BY <1>2, <2>1, <2>3
    <3>2. m = path /\ j = n + 1
      BY <1>2, <2>2, <2>3
    <3> QED
      BY <3>1, <3>2
  <2>4. CASE backlog'[l][i] # c
    <3>1. i \in 1 .. Len(backlog[l]) /\ j \in 1 .. Len(backlog[m]) /\ backlog[l][i] = backlog[m][j]
      BY <2>1, <2>2, <2>4
    <3> QED
      BY <1>0, <3>1 DEF OnceInv
  <2> QED
    BY <2>3, <2>4
<1> QED
  BY <1>6, <1>7

\* The place that entry i of backlog m had before the first of backlog l left.
PlaceBefore(l, m, i) == IF m = l THEN i + 1 ELSE i

\* What has been accepted was the first in its backlog; the others move up.
LEMMA LeavesBacklog ==
  ASSUME TypeInv, ConnInv, NEW l \in Lives, backlog[l] # <<>>,
         backlog' = [backlog EXCEPT ![l] = Tail(@)]
  PROVE  /\ Head(backlog[l]) \in Conns
         /\ link[Head(backlog[l])] # "idle" /\ tpc[Head(backlog[l])] = "none"
         /\ \A m \in Lives : \A i \in 1 .. Len(backlog'[m]) :
              /\ PlaceBefore(l, m, i) \in 1 .. Len(backlog[m])
              /\ backlog'[m][i] = backlog[m][PlaceBefore(l, m, i)]
              /\ backlog'[m][i] \in Conns \ {Head(backlog[l])}
<1> USE DEF ConnInv, TypeInv, TypeOK, SocketTypeOK
<1>1. backlog[l] \in Seq(Conns) /\ Len(backlog[l]) \in Nat \ {0} /\ Head(backlog[l]) = backlog[l][1]
  OBVIOUS
<1>2. /\ Len(Tail(backlog[l])) = Len(backlog[l]) - 1
      /\ \A i \in 1 .. Len(backlog[l]) - 1 : Tail(backlog[l])[i] = backlog[l][i + 1]
  BY <1>1
<1>3. /\ Head(backlog[l]) \in Conns
      /\ link[Head(backlog[l])] # "idle" /\ tpc[Head(backlog[l])] = "none"
  BY <1>1 DEF WaitInv
<1>4. ASSUME NEW m \in Lives, NEW i \in 1 .. Len(backlog'[m])
      PROVE  /\ PlaceBefore(l, m, i) \in 1 .. Len(backlog[m])
             /\ backlog'[m][i] = backlog[m][PlaceBefore(l, m, i)]
  BY <1>1, <1>2, <1>4 DEF PlaceBefore
<1>5. ASSUME NEW m \in Lives, NEW i \in 1 .. Len(backlog'[m])
      PROVE  backlog'[m][i] \in Conns \ {Head(backlog[l])}
  <2> DEFINE j == PlaceBefore(l, m, i)
  <2>1. j \in 1 .. Len(backlog[m]) /\ backlog'[m][i] = backlog[m][j]
    BY <1>4
  <2>2. backlog[m][j] \in Conns
    BY <2>1
  <2>3. ~(m = l /\ j = 1)
    BY DEF PlaceBefore
  <2>4. 1 \in 1 .. Len(backlog[l])
    BY <1>1
  <2>5. backlog[m][j] # backlog[l][1]
    BY <2>1, <2>3, <2>4 DEF OnceInv
  <2> QED
    BY <1>1, <2>1, <2>2, <2>5
<1> QED
  BY <1>3, <1>4, <1>5

LEMMA NextWait == TypeInv /\ ConnInv /\ [Next]_vars => WaitInv'
<1> SUFFICES ASSUME TypeInv, ConnInv, [Next]_vars PROVE WaitInv'
  OBVIOUS
<1>1. \/ UNCHANGED <<link, backlog, tpc>>
      \/ ConnectService
      \/ \E c \in Clients : ClientConnect(c)
      \/ \E c \in Clients : ClientClose(c)
      \/ \E l \in Lives : MainFinish(l)
      \/ \E l \in Lives : ListenAccept(l)
      \/ \E l \in Lives : ListenStops(l)
      \/ \E c \in Conns : ThreadStart(c)
      \/ \E c \in Conns : ThreadExit(c)
      \/ \E c \in Conns : ThreadEnd(c)
      \/ \E c \in Conns : ThreadClose(c)
      \/ \E c \in Conns : ThreadReset(c)
  BY NextCases DEF ListenSocketFails, InitService, ExitService, ClientExit,
    MainStart, MainTake, ListenSocketCreate, ListenUnlink, ListenBind, ListenEnd, ThreadCommand, vars,
    socketVars, threadVars
<1> USE DEF ConnInv, WaitInv, TypeInv, TypeOK, SocketTypeOK, ThreadTypeOK
<1>2. CASE UNCHANGED <<link, backlog, tpc>>
  BY <1>2
<1>3. CASE ConnectService
  <2>0. life \in Lives /\ link[life] = "idle" /\ tpc' = tpc
    BY <1>3 DEF ConnectService, FreshInv, AskedInv, LifeInv, UserTypeOK, Lives, threadVars
  <2>1. CASE user' = "ready"
    <3>1. Connected(life) /\ path \in Lives
      BY <1>3, <2>1 DEF ConnectService, Listening, Lives
    <3> QED
      BY <2>0, <3>1, JoinsBacklog, Numbers
  <2>2. CASE user' # "ready"
    BY <1>3, <2>0, <2>2 DEF ConnectService
  <2> QED
    BY <2>1, <2>2
<1>4. ASSUME NEW c \in Clients, ClientConnect(c) PROVE WaitInv'
  <2>1. Connected(c) /\ path \in Lives /\ link[c] = "idle" /\ tpc' = tpc
    BY <1>4 DEF ClientConnect, Listening, Lives, threadVars
  <2> QED
    BY <2>1, JoinsBacklog, Numbers
<1>5. ASSUME NEW c \in Clients, ClientClose(c) PROVE WaitInv'
  <2>1. backlog' = backlog /\ \A d \in Conns : tpc[d] = "none" => tpc'[d] = "none"
    BY <1>5 DEF ClientClose, threadVars
  <2> QED
    BY <1>5, <2>1, StaysConnected
<1>6. ASSUME NEW l \in Lives, MainFinish(l) PROVE WaitInv'
  <2>1. backlog' = backlog /\ \A d \in Conns : tpc[d] = "none" => tpc'[d] = "none"
    BY <1>6 DEF MainFinish, threadVars
  <2> QED
    BY <1>6, <2>1, StaysConnected
<1>7. ASSUME NEW l \in Lives, ListenAccept(l) PROVE WaitInv'
  <2>1. PICK c \in {Head(backlog[l])} : tpc' = [tpc EXCEPT ![c] = "new"]
    BY <1>7 DEF ListenAccept
  <2>2. backlog[l] # <<>> /\ backlog' = [backlog EXCEPT ![l] = Tail(@)] /\ link' = link
    BY <1>7 DEF ListenAccept
  <2>3. \A d \in Conns : d # c => tpc'[d] = tpc[d]
    BY <2>1
  <2>4. \A m \in Lives : \A i \in 1 .. Len(backlog'[m]) :
          /\ PlaceBefore(l, m, i) \in 1 .. Len(backlog[m])
          /\ backlog'[m][i] = backlog[m][PlaceBefore(l, m, i)]
          /\ backlog'[m][i] \in Conns \ {Head(backlog[l])}
    BY <2>2, LeavesBacklog
  <2> SUFFICES ASSUME NEW m \in Lives, NEW i \in 1 .. Len(backlog'[m])
               PROVE  link[backlog'[m][i]] # "idle" /\ tpc'[backlog'[m][i]] = "none"
    BY <2>2
  <2> DEFINE j == PlaceBefore(l, m, i)
  <2>5. j \in 1 .. Len(backlog[m]) /\ backlog'[m][i] = backlog[m][j]
    BY <2>4
  <2> HIDE DEF j
  <2> QED
    <3>1. backlog'[m][i] \in Conns /\ backlog'[m][i] # c
      BY <2>1, <2>4
    <3>2. link[backlog'[m][i]] # "idle" /\ tpc[backlog'[m][i]] = "none"
      BY <2>5
    <3> QED
      BY <2>3, <3>1, <3>2
<1>8. ASSUME NEW c \in Conns, ThreadStart(c) PROVE WaitInv'
  <2>1. backlog' = backlog /\ \A d \in Conns : tpc[d] = "none" => tpc'[d] = "none"
    BY <1>8 DEF ThreadStart, socketVars
  <2> QED
    BY <1>8, <2>1, StaysConnected
<1>9. ASSUME NEW c \in Conns, ThreadExit(c) PROVE WaitInv'
  <2>1. backlog' = backlog /\ \A d \in Conns : tpc[d] = "none" => tpc'[d] = "none"
    BY <1>9 DEF ThreadExit, socketVars
  <2> QED
    BY <1>9, <2>1, StaysConnected
<1>10. ASSUME NEW c \in Conns, ThreadEnd(c) PROVE WaitInv'
  <2>1. backlog' = backlog /\ \A d \in Conns : tpc[d] = "none" => tpc'[d] = "none"
    BY <1>10 DEF ThreadEnd, socketVars
  <2> QED
    BY <1>10, <2>1, StaysConnected
<1>11. ASSUME NEW c \in Conns, ThreadClose(c) PROVE WaitInv'
  <2>1. backlog' = backlog /\ \A d \in Conns : tpc[d] = "none" => tpc'[d] = "none"
    BY <1>11 DEF ThreadClose
  <2> QED
    BY <1>11, <2>1, StaysConnected
<1>12. ASSUME NEW c \in Conns, ThreadReset(c) PROVE WaitInv'
  <2>1. backlog' = backlog /\ \A d \in Conns : tpc[d] = "none" => tpc'[d] = "none"
    BY <1>12 DEF ThreadReset, socketVars
  <2> QED
    BY <1>12, <2>1, StaysConnected
<1>13. ASSUME NEW l \in Lives, ListenStops(l) PROVE WaitInv'
  <2>1. backlog' = [backlog EXCEPT ![l] = <<>>] /\ tpc' = tpc
    BY <1>13, StopsTo DEF ListenLeft
  <2>2. \A m \in Lives : m # l => backlog'[m] = backlog[m]
    BY <2>1
  <2>3. Len(backlog'[l]) = 0
    BY <2>1
  <2> SUFFICES ASSUME NEW m \in Lives, NEW i \in 1 .. Len(backlog'[m])
               PROVE  link'[backlog'[m][i]] # "idle" /\ tpc[backlog'[m][i]] = "none"
    BY <2>1
  <2>4. m # l
    BY <2>3
  <2>5. i \in 1 .. Len(backlog[m]) /\ backlog'[m][i] = backlog[m][i] /\ backlog[m][i] \in Conns
    BY <2>2, <2>4
  <2> QED
    BY <2>5, StaysConnected
<1> QED
  BY <1>1, <1>2, <1>3, <1>4, <1>5, <1>6, <1>7, <1>8, <1>9, <1>10, <1>11, <1>12,
    <1>13

LEMMA NextOnce == TypeInv /\ ConnInv /\ [Next]_vars => OnceInv'
<1> SUFFICES ASSUME TypeInv, ConnInv, [Next]_vars PROVE OnceInv'
  OBVIOUS
<1>1. \/ UNCHANGED <<backlog>>
      \/ ConnectService
      \/ \E c \in Clients : ClientConnect(c)
      \/ \E l \in Lives : ListenAccept(l)
      \/ \E l \in Lives : ListenStops(l)
  BY NextCases DEF ListenSocketFails, InitService, ExitService, ClientExit,
    ClientClose, MainStart, MainTake, MainFinish, ListenSocketCreate, ListenUnlink,
    ListenBind, ListenEnd,
    ThreadStart, ThreadCommand, ThreadExit, ThreadEnd, ThreadClose, ThreadReset,
    vars, socketVars
<1> USE DEF ConnInv, OnceInv, TypeInv, TypeOK, SocketTypeOK
<1>2. CASE UNCHANGED <<backlog>>
  BY <1>2
<1>3. CASE ConnectService
  <2>0. life \in Lives /\ link[life] = "idle" /\ tpc' = tpc
    BY <1>3 DEF ConnectService, FreshInv, AskedInv, LifeInv, UserTypeOK, Lives, threadVars
  <2>1. CASE user' = "ready"
    <3>1. Connected(life) /\ path \in Lives
      BY <1>3, <2>1 DEF ConnectService, Listening, Lives
    <3> QED
      BY <2>0, <3>1, JoinsBacklog, Numbers
  <2>2. CASE user' # "ready"
    BY <1>3, <2>0, <2>2 DEF ConnectService
  <2> QED
    BY <2>1, <2>2
<1>4. ASSUME NEW c \in Clients, ClientConnect(c) PROVE OnceInv'
  <2>1. Connected(c) /\ path \in Lives /\ link[c] = "idle" /\ tpc' = tpc
    BY <1>4 DEF ClientConnect, Listening, Lives, threadVars
  <2> QED
    BY <2>1, JoinsBacklog, Numbers
<1>5. ASSUME NEW l \in Lives, ListenAccept(l) PROVE OnceInv'
  <2>1. backlog[l] # <<>> /\ backlog' = [backlog EXCEPT ![l] = Tail(@)]
    BY <1>5 DEF ListenAccept
  <2>2. \A m \in Lives : \A i \in 1 .. Len(backlog'[m]) :
          /\ PlaceBefore(l, m, i) \in 1 .. Len(backlog[m])
          /\ backlog'[m][i] = backlog[m][PlaceBefore(l, m, i)]
          /\ backlog'[m][i] \in Conns \ {Head(backlog[l])}
    BY <2>1, LeavesBacklog
  <2> SUFFICES ASSUME NEW m \in Lives, NEW n \in Lives,
                      NEW i \in 1 .. Len(backlog'[m]), NEW k \in 1 .. Len(backlog'[n]),
                      backlog'[m][i] = backlog'[n][k]
               PROVE  m = n /\ i = k
    OBVIOUS
  <2>3. /\ PlaceBefore(l, m, i) \in 1 .. Len(backlog[m])
        /\ PlaceBefore(l, n, k) \in 1 .. Len(backlog[n])
        /\ backlog[m][PlaceBefore(l, m, i)] = backlog[n][PlaceBefore(l, n, k)]
    BY <2>2
  <2>4. m = n /\ PlaceBefore(l, m, i) = PlaceBefore(l, n, k)
    BY <2>3
  <2> QED
    BY <2>4 DEF PlaceBefore
<1>6. ASSUME NEW l \in Lives, ListenStops(l) PROVE OnceInv'
  <2>1. backlog' = [backlog EXCEPT ![l] = <<>>]
    BY <1>6, StopsTo DEF ListenLeft
  <2>2. \A m \in Lives : m # l => backlog'[m] = backlog[m]
    BY <2>1
  <2>3. Len(backlog'[l]) = 0
    BY <2>1
  <2> SUFFICES ASSUME NEW m \in Lives, NEW n \in Lives,
                      NEW i \in 1 .. Len(backlog'[m]), NEW k \in 1 .. Len(backlog'[n]),
                      backlog'[m][i] = backlog'[n][k]
               PROVE  m = n /\ i = k
    OBVIOUS
  <2>4. m # l /\ n # l
    BY <2>3
  <2> QED
    BY <2>2, <2>4
<1> QED
  BY <1>1, <1>2, <1>3, <1>4, <1>5, <1>6

LEMMA InitConn == Init => ConnInv
<1> SUFFICES ASSUME Init PROVE ConnInv
  OBVIOUS
<1>1. IdleInv /\ FreshInv
  BY Numbers DEF Init, IdleInv, FreshInv
<1>2. EndsInv
  BY SocketsDiffer DEF Init, EndsInv
<1>3. \A l \in Lives : Len(backlog[l]) = 0
  BY DEF Init
<1>4. WaitInv /\ OnceInv
  BY <1>3 DEF WaitInv, OnceInv
<1> QED
  BY <1>1, <1>2, <1>4 DEF ConnInv

LEMMA NextConn == TypeInv /\ ConnInv /\ [Next]_vars => ConnInv'
BY NextIdle, NextEnds, NextFresh, NextWait, NextOnce DEF ConnInv

LEMMA ConnInvariant == Spec => []ConnInv
BY TypeInvariant, InitConn, NextConn, PTL DEF Spec

-----------------------------------------------------------------------------
(* Who owns a descriptor, as long as no thread has been given the wrong one. *)

\* The places where a listen thread has its socket.
Kept == {"unlink", "bind", "accept"}

\* The places where a client thread has its descriptor, and where it finds it.
Serving(c) == tpc[c] \in {"new", "read", "close"}

Held(c) == IF tpc[c] = "new" THEN socknew[host[c]] ELSE sock[c]

ListenInv ==
  \A l \in Lives :
    /\ lpc[l] \in Kept => sockl[l] \in Fd
    /\ \A f \in Fd : fds[f] = Listen(l) <=> lpc[l] \in Kept /\ sockl[l] = f

\* The places where a listen thread holds what accept has written to socknew.
Holding == {"accept", "end"}

\* A thread that has not read its argument is one of a listen thread that has
\* not ended, and socknew is still what it was.
ServeInv ==
  \A c \in Conns :
    /\ Serving(c) => Held(c) \in Fd
    /\ \A f \in Fd : fds[f] = Server(c) <=> Serving(c) /\ Held(c) = f
    /\ tpc[c] = "new" => lpc[host[c]] \in Holding

ListenOwn == ~raced => ListenInv
ServeOwn  == ~raced => ServeInv
OwnInv    == ListenOwn /\ ServeOwn

\* A listen thread that goes to its end closes its socket.
LEMMA ListenFreed ==
  ASSUME TypeOK, ListenInv, NEW l \in Lives, UNCHANGED sockl,
         lpc[l] \in Kept, lpc'[l] \notin Kept,
         \A m \in Lives : m # l => lpc'[m] = lpc[m],
         \A f \in Fd : fds'[f] = IF f = sockl[l] THEN Free ELSE fds[f]
  PROVE  ListenInv'
<1> SUFFICES ASSUME NEW m \in Lives
             PROVE  /\ lpc'[m] \in Kept => sockl[m] \in Fd
                    /\ \A f \in Fd : fds'[f] = Listen(m) <=> lpc'[m] \in Kept /\ sockl[m] = f
  BY DEF ListenInv
<1>1. CASE m = l
  BY <1>1, SocketsDiffer DEF ListenInv
<1>2. CASE m # l
  <2>1. lpc'[m] = lpc[m]
    BY <1>2
  <2>2. ASSUME NEW f \in Fd, f = sockl[l] PROVE fds[f] # Listen(m)
    BY <1>2, <2>2, SocketsDiffer DEF ListenInv
  <2> QED
    BY <2>1, <2>2, SocketsDiffer DEF ListenInv
<1> QED
  BY <1>1, <1>2

LEMMA NextListenOwn == TypeInv /\ OwnInv /\ [Next]_vars => ListenOwn'
<1> SUFFICES ASSUME TypeInv, OwnInv, [Next]_vars PROVE ListenOwn'
  OBVIOUS
<1>1. \/ UNCHANGED <<fds, lpc, sockl, raced>>
      \/ ConnectService
      \/ \E l \in Lives : MainStart(l)
      \/ \E l \in Lives : ListenSocketCreate(l)
      \/ \E l \in Lives : ListenUnlink(l)
      \/ \E l \in Lives : ListenBind(l)
      \/ \E l \in Lives : ListenAccept(l)
      \/ \E l \in Lives : ListenSocketFails(l)
      \/ \E l \in Lives : ListenStops(l)
      \/ \E l \in Lives : ListenEnd(l)
      \/ \E c \in Conns : ThreadClose(c)
  BY NextCases DEF InitService, ExitService, ClientConnect, ClientExit,
    ClientClose, MainTake, MainFinish, ThreadStart, ThreadCommand, ThreadExit,
    ThreadEnd, ThreadReset, vars, socketVars, listenVars, threadVars
<1> USE DEF OwnInv, ListenOwn, TypeInv, LifeInv, TypeOK, SocketTypeOK, ServiceTypeOK, ThreadTypeOK
<1>2. CASE UNCHANGED <<fds, lpc, sockl, raced>>
  BY <1>2 DEF ListenInv
<1>3. CASE ConnectService
  <2> SUFFICES ASSUME ~raced' PROVE ListenInv'
    BY DEF ListenOwn
  <2>1. ListenInv /\ UNCHANGED <<lpc, sockl>>
    BY <1>3 DEF ConnectService, listenVars, threadVars
  <2>2. CASE user' = "ready"
    <3>1. PICK f \in Fd : fds[f] = Free /\ fds' = [fds EXCEPT ![f] = Api(life)]
      BY <1>3, <2>2, LowestIsFree DEF ConnectService, Taken
    <3>2. \A g \in Fd : fds'[g] = IF g = f THEN Api(life) ELSE fds[g]
      BY <3>1
    <3> QED
      BY <2>1, <3>1, <3>2, SocketsDiffer DEF ListenInv
  <2>3. CASE user' # "ready"
    BY <1>3, <2>1, <2>3 DEF ConnectService, ListenInv
  <2> QED
    BY <2>2, <2>3
<1>4. ASSUME NEW l \in Lives, MainStart(l) PROVE ListenOwn'
  <2> SUFFICES ASSUME ~raced' PROVE ListenInv'
    BY DEF ListenOwn
  <2>1. ListenInv /\ UNCHANGED <<fds, sockl>>
    BY <1>4 DEF MainStart, socketVars, threadVars
  <2>2. lpc[l] \notin Kept /\ lpc' = [lpc EXCEPT ![l] = "start"]
    BY <1>4 DEF MainStart, BegunInv, Kept
  <2>3. \A m \in Lives : lpc'[m] \in Kept <=> lpc[m] \in Kept
    BY <2>2 DEF Kept
  <2> QED
    BY <2>1, <2>3 DEF ListenInv
<1>5. ASSUME NEW l \in Lives, ListenSocketCreate(l) PROVE ListenOwn'
  <2> SUFFICES ASSUME ~raced' PROVE ListenInv'
    BY DEF ListenOwn
  <2>1. ListenInv
    BY <1>5 DEF ListenSocketCreate, threadVars
  <2>2. PICK f \in Fd : /\ fds[f] = Free /\ fds' = [fds EXCEPT ![f] = Listen(l)]
                       /\ sockl' = [sockl EXCEPT ![l] = f]
    BY <1>5, LowestIsFree DEF ListenSocketCreate, Taken
  <2>3. \A g \in Fd : fds'[g] = IF g = f THEN Listen(l) ELSE fds[g]
    BY <2>2
  <2>4. lpc[l] \notin Kept /\ lpc'[l] \in Kept /\ \A m \in Lives : m # l => lpc'[m] = lpc[m]
    BY <1>5 DEF ListenSocketCreate, Kept
  <2>5. sockl'[l] = f /\ \A m \in Lives : m # l => sockl'[m] = sockl[m]
    BY <2>2
  <2> QED
    BY <2>1, <2>2, <2>3, <2>4, <2>5, SocketsDiffer DEF ListenInv
<1>6. ASSUME NEW l \in Lives, ListenUnlink(l) PROVE ListenOwn'
  <2> SUFFICES ASSUME ~raced' PROVE ListenInv'
    BY DEF ListenOwn
  <2>1. ListenInv /\ UNCHANGED <<fds, sockl>>
    BY <1>6 DEF ListenUnlink, threadVars
  <2>2. \A m \in Lives : lpc'[m] \in Kept <=> lpc[m] \in Kept
    BY <1>6 DEF ListenUnlink, Kept
  <2> QED
    BY <2>1, <2>2 DEF ListenInv
<1>7. ASSUME NEW l \in Lives, ListenBind(l) PROVE ListenOwn'
  <2> SUFFICES ASSUME ~raced' PROVE ListenInv'
    BY DEF ListenOwn
  <2>1. ListenInv /\ UNCHANGED sockl
    BY <1>7 DEF ListenBind, threadVars
  <2>2. CASE lpc'[l] = "accept"
    <3>1. UNCHANGED fds /\ \A m \in Lives : lpc'[m] \in Kept <=> lpc[m] \in Kept
      BY <1>7, <2>2 DEF ListenBind, Kept
    <3> QED
      BY <2>1, <3>1 DEF ListenInv
  <2>3. CASE lpc'[l] # "accept"
    <3>1. \A f \in Fd : fds'[f] = IF f = sockl[l] THEN Free ELSE fds[f]
      BY <1>7, <2>3, ClosedFds DEF ListenBind
    <3>2. lpc[l] \in Kept /\ lpc'[l] \notin Kept /\ \A m \in Lives : m # l => lpc'[m] = lpc[m]
      BY <1>7, <2>3 DEF ListenBind, Kept
    <3> QED
      BY <2>1, <3>1, <3>2, ListenFreed
  <2> QED
    BY <2>2, <2>3
<1>8. ASSUME NEW l \in Lives, ListenAccept(l) PROVE ListenOwn'
  <2> SUFFICES ASSUME ~raced' PROVE ListenInv'
    BY DEF ListenOwn
  <2>1. ListenInv /\ UNCHANGED sockl
    BY <1>8 DEF ListenAccept, SocknewSet
  <2>2. PICK f \in Fd, c \in {Head(backlog[l])} :
          fds[f] = Free /\ fds' = [fds EXCEPT ![f] = Server(c)]
    BY <1>8, LowestIsFree DEF ListenAccept, Accepted
  <2>3. \A g \in Fd : fds'[g] = IF g = f THEN Server(c) ELSE fds[g]
    BY <2>2
  <2>4. lpc' = lpc
    BY <1>8 DEF ListenAccept, AfterAccept
  <2> QED
    BY <2>1, <2>2, <2>3, <2>4, SocketsDiffer DEF ListenInv
<1>9. ASSUME NEW l \in Lives, ListenStops(l) PROVE ListenOwn'
  <2> SUFFICES ASSUME ~raced' PROVE ListenInv'
    BY DEF ListenOwn
  <2>1. ListenLeft(l) /\ ~raced
    BY <1>9, StopsTo
  <2>2. ListenInv /\ UNCHANGED sockl
    BY <2>1 DEF ListenLeft
  <2>3. \A f \in Fd : fds'[f] = IF f = sockl[l] THEN Free ELSE fds[f]
    BY <2>1, ClosedFds DEF ListenLeft, ListenClosed
  <2>4. lpc[l] \in Kept /\ lpc'[l] \notin Kept /\ \A m \in Lives : m # l => lpc'[m] = lpc[m]
    BY <2>1 DEF ListenLeft, Kept
  <2> QED
    BY <2>2, <2>3, <2>4, ListenFreed
<1>10. ASSUME NEW l \in Lives, ListenEnd(l) PROVE ListenOwn'
  <2> SUFFICES ASSUME ~raced' PROVE ListenInv'
    BY DEF ListenOwn
  <2>1. ListenInv /\ UNCHANGED fds
    BY <1>10 DEF ListenEnd
  <2>2. lpc[l] \notin Kept /\ lpc'[l] \notin Kept
    BY <1>10 DEF ListenEnd, Kept
  <2>3. \A m \in Lives : m # l => lpc'[m] = lpc[m] /\ sockl'[m] = sockl[m]
    BY <1>10 DEF ListenEnd
  <2> SUFFICES ASSUME NEW m \in Lives
               PROVE  /\ lpc'[m] \in Kept => sockl'[m] \in Fd
                      /\ \A f \in Fd : fds[f] = Listen(m) <=> lpc'[m] \in Kept /\ sockl'[m] = f
    BY <2>1 DEF ListenInv
  <2> QED
    BY <2>1, <2>2, <2>3 DEF ListenInv
<1>11. ASSUME NEW c \in Conns, ThreadClose(c) PROVE ListenOwn'
  <2> SUFFICES ASSUME ~raced' PROVE ListenInv'
    BY DEF ListenOwn
  <2>1. ListenInv /\ ServeInv /\ UNCHANGED <<lpc, sockl>>
    BY <1>11 DEF ThreadClose, listenVars, ServeOwn
  <2>2. \A f \in Fd : fds'[f] = IF f = sock[c] THEN Free ELSE fds[f]
    BY <1>11, ClosedFds DEF ThreadClose
  <2>3. \A f \in Fd : f = sock[c] => fds[f] = Server(c)
    BY <1>11, <2>1 DEF ThreadClose, ServeInv, Serving, Held
  <2> QED
    BY <2>1, <2>2, <2>3, SocketsDiffer DEF ListenInv
<1>12. ASSUME NEW l \in Lives, ListenSocketFails(l) PROVE ListenOwn'
  <2> SUFFICES ASSUME ~raced' PROVE ListenInv'
    BY DEF ListenOwn
  <2>1. ListenInv /\ UNCHANGED <<fds, sockl>>
    BY <1>12 DEF ListenSocketFails, socketVars, threadVars
  <2>2. \A m \in Lives : lpc'[m] \in Kept <=> lpc[m] \in Kept
    BY <1>12 DEF ListenSocketFails, Kept
  <2> QED
    BY <2>1, <2>2 DEF ListenInv
<1> QED
  BY <1>1, <1>2, <1>3, <1>4, <1>5, <1>6, <1>7, <1>8, <1>9, <1>10, <1>11, <1>12

\* Whatever leaves the client threads and their descriptors alone.
LEMMA ServeKept ==
  ASSUME TypeInv, ServeInv, UNCHANGED <<tpc, sock, host, socknew>>,
         \A f \in Fd, c \in Conns : fds'[f] = Server(c) <=> fds[f] = Server(c),
         \A l \in Lives : /\ \E c \in Conns : tpc[c] = "new" /\ host[c] = l
                          /\ lpc[l] \in Holding
                          => lpc'[l] \in Holding
  PROVE  ServeInv'
<1>1. \A c \in Conns : (Serving(c)' <=> Serving(c)) /\ Held(c)' = Held(c)
  BY DEF Serving, Held
<1>2. \A c \in Conns : tpc[c] = "new" => host[c] \in Lives
  BY DEF TypeInv, LifeInv, HostInv
<1> QED
  BY <1>1, <1>2 DEF ServeInv

\* A step of thread c by which it goes on, or is no longer serving.
LEMMA ServeStep ==
  ASSUME TypeInv, ServeInv, NEW c \in Conns, Serving(c),
         UNCHANGED <<socknew, lpc>>, tpc'[c] # "new",
         \A d \in Conns : d # c => tpc'[d] = tpc[d] /\ sock'[d] = sock[d] /\ host'[d] = host[d],
         \/ Serving(c)' /\ Held(c)' = Held(c) /\ UNCHANGED fds
         \/ ~Serving(c)' /\ \A f \in Fd : fds'[f] = IF f = Held(c) THEN Free ELSE fds[f]
  PROVE  ServeInv'
<1>1. \A d \in Conns : d # c => (Serving(d)' <=> Serving(d)) /\ Held(d)' = Held(d)
  BY DEF Serving, Held
<1>2. \A d \in Conns, f \in Fd : d # c => (fds'[f] = Server(d) <=> fds[f] = Server(d))
  BY SocketsDiffer DEF ServeInv
<1>3. ASSUME NEW f \in Fd PROVE fds'[f] = Server(c) <=> Serving(c)' /\ Held(c)' = f
  BY SocketsDiffer DEF ServeInv
<1>4. Serving(c)' => Held(c)' \in Fd
  BY DEF ServeInv
<1> SUFFICES ASSUME NEW d \in Conns
             PROVE  /\ Serving(d)' => Held(d)' \in Fd
                    /\ \A f \in Fd : fds'[f] = Server(d) <=> Serving(d)' /\ Held(d)' = f
                    /\ tpc'[d] = "new" => lpc'[host'[d]] \in Holding
  BY DEF ServeInv
<1>5. CASE d = c
  BY <1>3, <1>4, <1>5
<1>6. CASE d # c
  BY <1>1, <1>2, <1>6 DEF ServeInv
<1> QED
  BY <1>5, <1>6

LEMMA NextServeOwn == TypeInv /\ ConnInv /\ OwnInv /\ [Next]_vars => ServeOwn'
<1> SUFFICES ASSUME TypeInv, ConnInv, OwnInv, [Next]_vars PROVE ServeOwn'
  OBVIOUS
<1>1. \/ UNCHANGED <<fds, tpc, socknew, host, lpc, sock, raced>>
      \/ ConnectService
      \/ \E l \in Lives : MainStart(l)
      \/ \E l \in Lives : ListenSocketCreate(l)
      \/ \E l \in Lives : ListenUnlink(l)
      \/ \E l \in Lives : ListenBind(l)
      \/ \E l \in Lives : ListenAccept(l)
      \/ \E l \in Lives : ListenSocketFails(l)
      \/ \E l \in Lives : ListenStops(l)
      \/ \E l \in Lives : ListenEnd(l)
      \/ \E c \in Conns : ThreadStart(c)
      \/ \E c \in Conns : ThreadExit(c)
      \/ \E c \in Conns : ThreadEnd(c)
      \/ \E c \in Conns : ThreadClose(c)
      \/ \E c \in Conns : ThreadReset(c)
  BY NextCases DEF InitService, ExitService, ClientConnect, ClientExit,
    ClientClose, MainTake, MainFinish, ThreadCommand, vars, socketVars, listenVars,
    threadVars
<1> USE DEF OwnInv, ServeOwn, TypeInv, LifeInv, TypeOK, SocketTypeOK, ServiceTypeOK, ThreadTypeOK
<1>2. CASE UNCHANGED <<fds, tpc, socknew, host, lpc, sock, raced>>
  BY <1>2 DEF ServeInv, Serving, Held
<1>3. CASE ConnectService
  <2> SUFFICES ASSUME ~raced' PROVE ServeInv'
    BY DEF ServeOwn
  <2>1. ServeInv /\ UNCHANGED <<tpc, sock, host, socknew>>
    BY <1>3 DEF ConnectService, listenVars, threadVars
  <2>2. \A f \in Fd, c \in Conns : fds'[f] = Server(c) <=> fds[f] = Server(c)
    <3>1. CASE user' = "ready"
      <4>1. PICK f \in Fd : fds[f] = Free /\ fds' = [fds EXCEPT ![f] = Api(life)]
        BY <1>3, <3>1, LowestIsFree DEF ConnectService, Taken
      <4>2. \A g \in Fd : fds'[g] = IF g = f THEN Api(life) ELSE fds[g]
        BY <4>1
      <4> QED
        BY <4>1, <4>2, SocketsDiffer
    <3>2. CASE user' # "ready"
      BY <1>3, <3>2 DEF ConnectService
    <3> QED
      BY <3>1, <3>2
  <2>3. lpc' = lpc
    BY <1>3 DEF ConnectService, listenVars
  <2> QED
    BY <2>1, <2>2, <2>3, ServeKept
<1>4. ASSUME NEW l \in Lives, MainStart(l) PROVE ServeOwn'
  <2> SUFFICES ASSUME ~raced' PROVE ServeInv'
    BY DEF ServeOwn
  <2>1. ServeInv /\ UNCHANGED <<tpc, sock, host, socknew>>
    BY <1>4 DEF MainStart, threadVars
  <2>2. fds' = fds
    BY <1>4 DEF MainStart, socketVars
  <2>3. \A m \in Lives : lpc[m] \in Holding => lpc'[m] \in Holding
    BY <1>4 DEF MainStart, BegunInv, Holding
  <2> QED
    BY <2>1, <2>2, <2>3, ServeKept
<1>5. ASSUME NEW l \in Lives, ListenSocketCreate(l) PROVE ServeOwn'
  <2> SUFFICES ASSUME ~raced' PROVE ServeInv'
    BY DEF ServeOwn
  <2>1. ServeInv /\ UNCHANGED <<tpc, sock, host, socknew>>
    BY <1>5 DEF ListenSocketCreate, threadVars
  <2>2. \A f \in Fd, c \in Conns : fds'[f] = Server(c) <=> fds[f] = Server(c)
    <3>1. PICK f \in Fd : fds[f] = Free /\ fds' = [fds EXCEPT ![f] = Listen(l)]
      BY <1>5, LowestIsFree DEF ListenSocketCreate, Taken
    <3>2. \A g \in Fd : fds'[g] = IF g = f THEN Listen(l) ELSE fds[g]
      BY <3>1
    <3> QED
      BY <3>1, <3>2, SocketsDiffer
  <2>3. \A m \in Lives : lpc[m] \in Holding => lpc'[m] \in Holding
    BY <1>5 DEF ListenSocketCreate, Holding
  <2> QED
    BY <2>1, <2>2, <2>3, ServeKept
<1>6. ASSUME NEW l \in Lives, ListenUnlink(l) PROVE ServeOwn'
  <2> SUFFICES ASSUME ~raced' PROVE ServeInv'
    BY DEF ServeOwn
  <2>1. ServeInv /\ UNCHANGED <<tpc, sock, host, socknew>>
    BY <1>6 DEF ListenUnlink, threadVars
  <2>2. fds' = fds
    BY <1>6 DEF ListenUnlink
  <2>3. \A m \in Lives : lpc[m] \in Holding => lpc'[m] \in Holding
    BY <1>6 DEF ListenUnlink, Holding
  <2> QED
    BY <2>1, <2>2, <2>3, ServeKept
<1>7. ASSUME NEW l \in Lives, ListenBind(l) PROVE ServeOwn'
  <2> SUFFICES ASSUME ~raced' PROVE ServeInv'
    BY DEF ServeOwn
  <2>1. ServeInv /\ UNCHANGED <<tpc, sock, host, socknew>>
    BY <1>7 DEF ListenBind, threadVars
  <2>2. \A f \in Fd, c \in Conns : fds'[f] = Server(c) <=> fds[f] = Server(c)
    <3>1. CASE lpc'[l] # "accept"
      <4>1. ListenInv /\ lpc[l] \in Kept
        BY <1>7 DEF ListenBind, threadVars, ListenOwn, Kept
      <4>2. \A f \in Fd : fds'[f] = IF f = sockl[l] THEN Free ELSE fds[f]
        BY <1>7, <3>1, ClosedFds DEF ListenBind
      <4>3. sockl[l] \in Fd => fds[sockl[l]] = Listen(l)
        BY <4>1 DEF ListenInv
      <4> QED
        BY <4>2, <4>3, SocketsDiffer
    <3>2. CASE lpc'[l] = "accept"
      BY <1>7, <3>2 DEF ListenBind
    <3> QED
      BY <3>1, <3>2
  <2>3. \A m \in Lives : lpc[m] \in Holding => lpc'[m] \in Holding
    BY <1>7 DEF ListenBind, Holding
  <2> QED
    BY <2>1, <2>2, <2>3, ServeKept
<1>8. ASSUME NEW l \in Lives, ListenAccept(l) PROVE ServeOwn'
  <2> SUFFICES ASSUME ~raced' PROVE ServeInv'
    BY DEF ServeOwn
  <2>1. /\ ServeInv /\ UNCHANGED sock
        /\ \A c \in Conns : ~(tpc[c] = "new" /\ host[c] = l)
    BY <1>8 DEF ListenAccept, SocknewSet, Unread
  <2>2. PICK f \in Fd, c \in {Head(backlog[l])} :
          /\ fds[f] = Free /\ fds' = [fds EXCEPT ![f] = Server(c)]
          /\ socknew' = [socknew EXCEPT ![l] = f]
          /\ tpc' = [tpc EXCEPT ![c] = "new"] /\ host' = [host EXCEPT ![c] = l]
    BY <1>8, LowestIsFree DEF ListenAccept, Accepted, SocknewSet
  <2>3. lpc[l] = "accept" /\ lpc' = lpc
    BY <1>8 DEF ListenAccept, AfterAccept
  <2>4. backlog[l] # <<>> /\ backlog' = [backlog EXCEPT ![l] = Tail(@)]
    BY <1>8 DEF ListenAccept
  <2>5. c \in Conns /\ tpc[c] = "none"
    <3>1. Head(backlog[l]) \in Conns /\ tpc[Head(backlog[l])] = "none"
      BY <2>4, LeavesBacklog
    <3> QED
      BY <3>1
  <2>6. \A g \in Fd : fds'[g] = IF g = f THEN Server(c) ELSE fds[g]
    BY <2>2
  <2>7. Serving(c)' /\ Held(c)' = f /\ host'[c] = l
    BY <2>2, <2>5 DEF Serving, Held
  <2>8. \A d \in Conns : d # c => /\ tpc'[d] = tpc[d] /\ host'[d] = host[d]
                                 /\ (Serving(d)' <=> Serving(d)) /\ Held(d)' = Held(d)
    <3> SUFFICES ASSUME NEW d \in Conns, d # c
                 PROVE  /\ tpc'[d] = tpc[d] /\ host'[d] = host[d]
                        /\ (Serving(d)' <=> Serving(d)) /\ Held(d)' = Held(d)
      OBVIOUS
    <3>1. tpc'[d] = tpc[d] /\ host'[d] = host[d]
      BY <2>2
    <3>2. tpc[d] = "new" => host[d] \in Lives /\ host[d] # l
      BY <2>1 DEF HostInv
    <3>3. tpc[d] = "new" => socknew'[host[d]] = socknew[host[d]]
      BY <2>2, <3>2
    <3> QED
      BY <2>1, <3>1, <3>3 DEF Serving, Held
  <2> SUFFICES ASSUME NEW d \in Conns
               PROVE  /\ Serving(d)' => Held(d)' \in Fd
                      /\ \A g \in Fd : fds'[g] = Server(d) <=> Serving(d)' /\ Held(d)' = g
                      /\ tpc'[d] = "new" => lpc'[host'[d]] \in Holding
    BY DEF ServeInv
  <2>9. CASE d = c
    <3>1. \A g \in Fd : fds[g] # Server(c)
      BY <2>1, <2>5 DEF ServeInv, Serving
    <3> QED
      BY <2>3, <2>6, <2>7, <2>9, <3>1 DEF Holding
  <2>10. CASE d # c
    BY <2>1, <2>2, <2>3, <2>6, <2>8, <2>10, SocketsDiffer DEF ServeInv
  <2> QED
    BY <2>9, <2>10
<1>9. ASSUME NEW l \in Lives, ListenStops(l) PROVE ServeOwn'
  <2> SUFFICES ASSUME ~raced' PROVE ServeInv'
    BY DEF ServeOwn
  <2>1. ListenLeft(l) /\ ~raced
    BY <1>9, StopsTo
  <2>2. ServeInv /\ ListenInv /\ UNCHANGED <<tpc, sock, host>>
    BY <2>1 DEF ListenLeft, ListenOwn
  <2>3. \A f \in Fd : fds'[f] = IF f = sockl[l] THEN Free ELSE fds[f]
    BY <2>1, ClosedFds DEF ListenLeft, ListenClosed
  <2>4. sockl[l] \in Fd => fds[sockl[l]] = Listen(l)
    BY <2>1, <2>2 DEF ListenLeft, ListenInv, Kept
  <2>5. \A f \in Fd, c \in Conns : fds'[f] = Server(c) <=> fds[f] = Server(c)
    BY <2>3, <2>4, SocketsDiffer
  <2>6. \A m \in Lives : lpc[m] \in Holding => lpc'[m] \in Holding
    BY <2>1 DEF ListenLeft, Holding
  <2>7. ASSUME NEW c \in Conns, tpc[c] = "new" PROVE socknew'[host[c]] = socknew[host[c]]
    <3>1. CASE AcceptFails(l)
      <4>1. host[c] # l
        BY <2>7, <3>1 DEF AcceptFails, SocknewSet, Unread
      <4>2. host[c] \in Lives
        BY <2>7 DEF HostInv
      <4> QED
        BY <3>1, <4>1, <4>2 DEF AcceptFails, SocknewSet
    <3>2. CASE ListenFails(l)
      BY <3>2 DEF ListenFails
    <3> QED
      BY <1>9, <3>1, <3>2 DEF ListenStops
  <2>8. \A c \in Conns : (Serving(c)' <=> Serving(c)) /\ Held(c)' = Held(c)
    BY <2>2, <2>7 DEF Serving, Held
  <2>9. \A c \in Conns : tpc[c] = "new" => host[c] \in Lives
    BY DEF HostInv
  <2> QED
    BY <2>2, <2>5, <2>6, <2>8, <2>9 DEF ServeInv
<1>10. ASSUME NEW l \in Lives, ListenEnd(l) PROVE ServeOwn'
  <2> SUFFICES ASSUME ~raced' PROVE ServeInv'
    BY DEF ServeOwn
  <2>1. ServeInv /\ UNCHANGED <<tpc, sock, host, socknew>>
    BY <1>10 DEF ListenEnd
  <2>2. fds' = fds
    BY <1>10 DEF ListenEnd
  <2>3. ~\E c \in Conns : tpc[c] = "new" /\ host[c] = l
    BY <1>10 DEF ListenEnd, Unread
  <2>4. \A m \in Lives : m # l => lpc'[m] = lpc[m]
    BY <1>10 DEF ListenEnd
  <2> QED
    BY <2>1, <2>2, <2>3, <2>4, ServeKept
<1>11. ASSUME NEW c \in Conns, ThreadStart(c) PROVE ServeOwn'
  <2> SUFFICES ASSUME ~raced' PROVE ServeInv'
    BY DEF ServeOwn
  <2>1. ServeInv /\ UNCHANGED <<fds, socknew, lpc, host>>
    BY <1>11 DEF ThreadStart, socketVars, listenVars
  <2>2. Argument(c) = {socknew[host[c]]}
    BY <1>11, <2>1 DEF ThreadStart, ServeInv, Argument, Holding
  <2>3. tpc' = [tpc EXCEPT ![c] = "read"] /\ sock' = [sock EXCEPT ![c] = socknew[host[c]]]
    BY <1>11, <2>2 DEF ThreadStart
  <2>4. Serving(c) /\ Held(c) = socknew[host[c]] /\ Serving(c)' /\ Held(c)' = socknew[host[c]]
    BY <1>11, <2>3 DEF ThreadStart, Serving, Held
  <2>5. tpc'[c] # "new"
    BY <2>3
  <2>6. \A d \in Conns : d # c => tpc'[d] = tpc[d] /\ sock'[d] = sock[d] /\ host'[d] = host[d]
    BY <2>1, <2>3
  <2> QED
    BY <2>1, <2>4, <2>5, <2>6, ServeStep
<1>12. ASSUME NEW c \in Conns, ThreadExit(c) PROVE ServeOwn'
  <2> SUFFICES ASSUME ~raced' PROVE ServeInv'
    BY DEF ServeOwn
  <2>1. ServeInv /\ UNCHANGED <<fds, socknew, lpc, host, sock>>
    BY <1>12 DEF ThreadExit, socketVars, listenVars
  <2>2. tpc[c] = "read" /\ tpc' = [tpc EXCEPT ![c] = "close"]
    BY <1>12 DEF ThreadExit
  <2>3. Serving(c) /\ Serving(c)' /\ Held(c)' = Held(c) /\ tpc'[c] # "new"
    BY <2>1, <2>2 DEF Serving, Held
  <2>4. \A d \in Conns : d # c => tpc'[d] = tpc[d] /\ sock'[d] = sock[d] /\ host'[d] = host[d]
    BY <2>1, <2>2
  <2> QED
    BY <2>1, <2>3, <2>4, ServeStep
<1>13. ASSUME NEW c \in Conns, ThreadEnd(c) PROVE ServeOwn'
  <2> SUFFICES ASSUME ~raced' PROVE ServeInv'
    BY DEF ServeOwn
  <2>1. ServeInv /\ UNCHANGED <<fds, socknew, lpc, host, sock>>
    BY <1>13 DEF ThreadEnd, socketVars, listenVars
  <2>2. tpc[c] = "read" /\ tpc' = [tpc EXCEPT ![c] = "close"]
    BY <1>13 DEF ThreadEnd
  <2>3. Serving(c) /\ Serving(c)' /\ Held(c)' = Held(c) /\ tpc'[c] # "new"
    BY <2>1, <2>2 DEF Serving, Held
  <2>4. \A d \in Conns : d # c => tpc'[d] = tpc[d] /\ sock'[d] = sock[d] /\ host'[d] = host[d]
    BY <2>1, <2>2
  <2> QED
    BY <2>1, <2>3, <2>4, ServeStep
<1>14. ASSUME NEW c \in Conns, ThreadClose(c) PROVE ServeOwn'
  <2> SUFFICES ASSUME ~raced' PROVE ServeInv'
    BY DEF ServeOwn
  <2>1. ServeInv /\ UNCHANGED <<socknew, lpc, host, sock>>
    BY <1>14 DEF ThreadClose, listenVars
  <2>2. tpc[c] = "close" /\ tpc' = [tpc EXCEPT ![c] = "reset"]
    BY <1>14 DEF ThreadClose
  <2>3. Serving(c) /\ ~Serving(c)' /\ Held(c) = sock[c] /\ tpc'[c] # "new"
    BY <2>2 DEF Serving, Held
  <2>4. \A f \in Fd : fds'[f] = IF f = sock[c] THEN Free ELSE fds[f]
    BY <1>14, ClosedFds DEF ThreadClose
  <2>5. \A d \in Conns : d # c => tpc'[d] = tpc[d] /\ sock'[d] = sock[d] /\ host'[d] = host[d]
    BY <2>1, <2>2
  <2> QED
    BY <2>1, <2>3, <2>4, <2>5, ServeStep
<1>15. ASSUME NEW c \in Conns, ThreadReset(c) PROVE ServeOwn'
  <2> SUFFICES ASSUME ~raced' PROVE ServeInv'
    BY DEF ServeOwn
  <2>1. ServeInv /\ UNCHANGED <<fds, socknew, lpc>>
    BY <1>15 DEF ThreadReset, socketVars, listenVars
  <2>2. tpc[c] = "reset" /\ tpc'[c] = "exited"
    BY <1>15 DEF ThreadReset
  <2>3. \A d \in Conns : d # c => tpc'[d] = tpc[d] /\ sock'[d] = sock[d] /\ host'[d] = host[d]
    BY <1>15 DEF ThreadReset
  <2>4. \A d \in Conns : d # c => (Serving(d)' <=> Serving(d)) /\ Held(d)' = Held(d)
    BY <2>1, <2>3 DEF Serving, Held
  <2>5. ~Serving(c) /\ ~Serving(c)' /\ tpc'[c] # "new"
    BY <2>2 DEF Serving
  <2> SUFFICES ASSUME NEW d \in Conns
               PROVE  /\ Serving(d)' => Held(d)' \in Fd
                      /\ \A g \in Fd : fds[g] = Server(d) <=> Serving(d)' /\ Held(d)' = g
                      /\ tpc'[d] = "new" => lpc[host'[d]] \in Holding
    BY <2>1 DEF ServeInv
  <2>6. CASE d = c
    BY <2>1, <2>5, <2>6 DEF ServeInv
  <2>7. CASE d # c
    BY <2>1, <2>3, <2>4, <2>7 DEF ServeInv
  <2> QED
    BY <2>6, <2>7
<1>16. ASSUME NEW l \in Lives, ListenSocketFails(l) PROVE ServeOwn'
  <2> SUFFICES ASSUME ~raced' PROVE ServeInv'
    BY DEF ServeOwn
  <2>1. ServeInv /\ UNCHANGED <<tpc, sock, host, socknew>>
    BY <1>16 DEF ListenSocketFails, threadVars
  <2>2. fds' = fds
    BY <1>16 DEF ListenSocketFails, socketVars
  <2>3. \A m \in Lives : lpc[m] \in Holding => lpc'[m] \in Holding
    BY <1>16 DEF ListenSocketFails, Holding
  <2> QED
    BY <2>1, <2>2, <2>3, ServeKept
<1> QED
  BY <1>1, <1>2, <1>3, <1>4, <1>5, <1>6, <1>7, <1>8, <1>9, <1>10, <1>11, <1>12,
    <1>13, <1>14, <1>15, <1>16

LEMMA InitOwn == Init => OwnInv
BY SocketsDiffer DEF Init, OwnInv, ListenOwn, ServeOwn, ListenInv, ServeInv, Serving, Kept

LEMMA OwnInvariant == Spec => []OwnInv
<1>1. TypeInv /\ ConnInv /\ OwnInv /\ [Next]_vars => OwnInv'
  BY NextListenOwn, NextServeOwn DEF OwnInv
<1> QED
  BY TypeInvariant, ConnInvariant, InitOwn, <1>1, PTL DEF Spec

\* As long as accept has not overwritten socknew before a thread had read it,
\* every client thread reads from and closes the connection it was created
\* for (socket.c:170-229), however descriptors are reused and whatever lives
\* overlap.
THEOREM ServedCorrectly == Spec => []ServedByItsThread
<1>1. TypeInv /\ OwnInv => ServedByItsThread
  <2> SUFFICES ASSUME TypeInv, OwnInv, ~raced, NEW c \in Conns, tpc[c] \in {"read", "close"}
               PROVE  Reads(c, c)
    BY DEF ServedByItsThread
  <2>1. Serving(c) /\ Held(c) = sock[c]
    BY DEF Serving, Held
  <2>2. sock[c] \in Fd /\ fds[sock[c]] = Server(c)
    BY <2>1 DEF OwnInv, ServeOwn, ServeInv
  <2> QED
    BY <2>2, Numbers DEF Reads, SocketAt
<1> QED
  BY TypeInvariant, OwnInvariant, <1>1, PTL

\* Under the same condition no descriptor is left without a thread that will
\* close it: a listen socket has its listen thread, an accepted connection its
\* client thread.
THEOREM NoDescriptorLost == Spec => []DescriptorsOwned
<1>1. OwnInv => DescriptorsOwned
  BY DEF OwnInv, ListenOwn, ServeOwn, ListenInv, ServeInv, DescriptorsOwned, Serving, Kept
<1> QED
  BY OwnInvariant, <1>1, PTL

-----------------------------------------------------------------------------
(* clientsocket.                                                            *)

\* Whoever has written clientsocket last has not reset it yet.
LEMMA NextClientSocket ==
  TypeInv /\ ConnInv /\ ClientSocketOwned /\ [Next]_vars =>
    ClientSocketOwned'
<1> SUFFICES ASSUME TypeInv, ConnInv, ClientSocketOwned, [Next]_vars PROVE ClientSocketOwned'
  OBVIOUS
<1>1. \/ UNCHANGED <<clientsocket, tpc, sock>>
      \/ \E l \in Lives : ListenAccept(l)
      \/ \E c \in Conns : ThreadStart(c)
      \/ \E c \in Conns : ThreadExit(c)
      \/ \E c \in Conns : ThreadEnd(c)
      \/ \E c \in Conns : ThreadClose(c)
      \/ \E c \in Conns : ThreadReset(c)
  BY NextCases DEF ListenSocketFails, InitService, ConnectService, ExitService,
    ClientConnect, ClientExit, ClientClose, MainStart, MainTake, MainFinish,
    ListenSocketCreate, ListenUnlink, ListenBind, ListenStops, AcceptFails,
    ListenFails, ListenLeft, ListenEnd, ThreadCommand, vars, threadVars
<1> USE DEF ClientSocketOwned, TypeInv, TypeOK, ThreadTypeOK
<1>2. CASE UNCHANGED <<clientsocket, tpc, sock>>
  BY <1>2
<1>3. ASSUME NEW l \in Lives, ListenAccept(l) PROVE ClientSocketOwned'
  <2>1. /\ UNCHANGED <<clientsocket, sock>>
        /\ backlog[l] # <<>> /\ backlog' = [backlog EXCEPT ![l] = Tail(@)]
        /\ tpc' = [tpc EXCEPT ![Head(backlog[l])] = "new"]
    BY <1>3 DEF ListenAccept
  <2>2. Head(backlog[l]) \in Conns /\ tpc[Head(backlog[l])] = "none"
    BY <2>1, LeavesBacklog
  <2>3. \A d \in Conns : tpc[d] # "none" => tpc'[d] = tpc[d]
    BY <2>1, <2>2
  <2> QED
    BY <2>1, <2>3
<1>4. ASSUME NEW c \in Conns, ThreadStart(c) PROVE ClientSocketOwned'
  <2>1. PICK f \in Argument(c) : sock' = [sock EXCEPT ![c] = f] /\ clientsocket' = f
    BY <1>4 DEF ThreadStart, ClientSocketSet
  <2>2. tpc'[c] = "read" /\ sock'[c] = clientsocket'
    BY <1>4, <2>1 DEF ThreadStart
  <2> QED
    BY <2>2
<1>5. ASSUME NEW c \in Conns, ThreadExit(c) PROVE ClientSocketOwned'
  <2>1. UNCHANGED <<clientsocket, sock>> /\ tpc[c] = "read" /\ tpc' = [tpc EXCEPT ![c] = "close"]
    BY <1>5 DEF ThreadExit
  <2>2. \A d \in Conns : tpc[d] \in {"read", "close", "reset"}
                           => tpc'[d] \in {"read", "close", "reset"}
    BY <2>1
  <2> QED
    BY <2>1, <2>2
<1>6. ASSUME NEW c \in Conns, ThreadEnd(c) PROVE ClientSocketOwned'
  <2>1. UNCHANGED <<clientsocket, sock>> /\ tpc[c] = "read" /\ tpc' = [tpc EXCEPT ![c] = "close"]
    BY <1>6 DEF ThreadEnd
  <2>2. \A d \in Conns : tpc[d] \in {"read", "close", "reset"}
                           => tpc'[d] \in {"read", "close", "reset"}
    BY <2>1
  <2> QED
    BY <2>1, <2>2
<1>7. ASSUME NEW c \in Conns, ThreadClose(c) PROVE ClientSocketOwned'
  <2>1. UNCHANGED <<clientsocket, sock>> /\ tpc[c] = "close" /\ tpc' = [tpc EXCEPT ![c] = "reset"]
    BY <1>7 DEF ThreadClose
  <2>2. \A d \in Conns : tpc[d] \in {"read", "close", "reset"}
                           => tpc'[d] \in {"read", "close", "reset"}
    BY <2>1
  <2> QED
    BY <2>1, <2>2
<1>8. ASSUME NEW c \in Conns, ThreadReset(c) PROVE ClientSocketOwned'
  BY <1>8 DEF ThreadReset, ClientSocketReset
<1> QED
  BY <1>1, <1>2, <1>3, <1>4, <1>5, <1>6, <1>7, <1>8

\* clientsocket, to which the main thread sends (socket.c:146), is -1 or the
\* descriptor of a client thread that has still to reset it (socket.c:140),
\* whichever threads have written and reset it in what order.
THEOREM SendsToAThread == Spec => []ClientSocketOwned
<1>1. Init => ClientSocketOwned
  BY DEF Init, ClientSocketOwned
<1> QED
  BY TypeInvariant, ConnInvariant, <1>1, NextClientSocket, PTL DEF Spec

=============================================================================
