---------------------------- MODULE Connections ----------------------------
(***************************************************************************)
(* Starting, connecting to, stopping and restarting the service: the        *)
(* globals of src/src/socket.c, which no lock protects, and the threads     *)
(* that use them.                                                          *)
(*                                                                         *)
(*   the caller of the API   hdmi_service_init, hdmi_service_exit           *)
(*   main threads            start and end of thread_main_fn                *)
(*   listen threads          thread_socklisten_fn                           *)
(*   client threads          thread_sockclient_fn, one for each connection  *)
(*                           that was accepted                              *)
(*                                                                         *)
(* All of them run in the process of the caller and share its descriptors.  *)
(* Each call of hdmi_service_init begins a new life, with a main and a      *)
(* listen thread of its own, whether or not those of the last have ended.   *)
(* Of the commands only HDMI_EXIT matters here.                             *)
(***************************************************************************)
EXTENDS Integers, Sequences

CONSTANTS
  Clients,      \* clients in other processes; each connects once
  MaxLives,     \* bound: calls of hdmi_service_init
  MaxFd,        \* bound: descriptors of the process are 0 .. MaxFd
  MaxConn       \* SOCKET_MAX_CONN

Lives == 1 .. MaxLives
Fd    == 0 .. MaxFd

\* The connections: one by hdmi_service_init in each life, one by each client.
Conns == Lives \union Clients

ASSUME LivesAssumption   == MaxLives \in Nat \ {0} /\ Lives \intersect Clients = {}
ASSUME FdAssumption      == MaxFd \in Nat
ASSUME MaxConnAssumption == MaxConn \in Nat

\* What a descriptor stands for: the listen socket of a life, the service's
\* end of a connection, the end of hdmi_service_init, or nothing.
Free      == [kind |-> "free", of |-> 0]
Listen(l) == [kind |-> "listen", of |-> l]
Server(c) == [kind |-> "server", of |-> c]
Api(l)    == [kind |-> "api", of |-> l]

Sockets == {Free} \union {Listen(l) : l \in Lives} \union
           {Server(c) : c \in Conns} \union {Api(l) : l \in Lives}

VARIABLES
  fds,          \* the descriptors of the process
  path,         \* the life whose socket SOCKET_LISTEN_PATH leads to, 0 if none
  backlog,      \* connections that wait for accept, by life
  shut,         \* lives whose listen socket has been shut down
  link,         \* state of the other end of each connection
  exits,        \* connections with an unread HDMI_EXIT in them
  listensocket, clientsocket,
  cmds,         \* HDMI_EXITs in the list cmd_data
  cmdEvent,     \* HDMIEVENT_CMD is set in hdmi_events
  life, user,   \* the life begun last, and what its caller knows of it
  mpc,          \* main threads
  lpc, sockl, socknew,      \* listen threads: place, locals of that name
  tpc, sock, host,          \* client threads: place, local, listening life
  raced, overlap, lingered, asked, late, broken     \* histories, see below

socketVars  == <<fds, path, backlog, shut, link>>
commandVars == <<exits, cmds, cmdEvent>>
userVars    == <<life, user, overlap, lingered>>
exitVars    == <<asked, late>>
listenVars  == <<lpc, sockl, socknew, broken>>
threadVars  == <<tpc, sock, host, raced>>
vars == <<socketVars, commandVars, listensocket, clientsocket, userVars, exitVars, mpc,
          listenVars, threadVars>>

(* raced     socknew was overwritten, or its thread was at its end, while a *)
(*           thread had not read it yet                                     *)
(* overlap   an init found a main or listen thread of an earlier life alive *)
(* lingered  an init found a client thread of an earlier life alive         *)
(* asked     lives in which a client has sent HDMI_EXIT                     *)
(* late      an HDMI_EXIT was sent when the life had been asked to end      *)
(* broken    lives in whose listen thread socket, bind, listen or accept    *)
(*           has failed by itself, or because no descriptor was free        *)

SocketTypeOK ==
  /\ fds \in [Fd -> Sockets]
  /\ path \in 0 .. MaxLives
  /\ backlog \in [Lives -> Seq(Conns)]
  /\ shut \in SUBSET Lives
  /\ link \in [Conns -> {"idle", "up", "closed"}]

CommandTypeOK ==
  /\ exits \in SUBSET Conns
  /\ cmds \in Nat
  /\ cmdEvent \in BOOLEAN

UserTypeOK ==
  /\ life \in 0 .. MaxLives
  /\ user \in {"out", "starting", "ready", "failed"}
  /\ asked \in SUBSET Lives
  /\ overlap \in BOOLEAN /\ lingered \in BOOLEAN /\ late \in BOOLEAN

ServiceTypeOK ==
  /\ mpc \in [Lives -> {"none", "start", "run", "sleep", "exited"}]
  /\ lpc \in [Lives -> {"none", "start", "unlink", "bind", "accept", "end", "exited"}]
  /\ sockl \in [Lives -> Fd \union {-1}]
  /\ socknew \in [Lives -> Fd \union {-1}]
  /\ listensocket \in Fd \union {-1}
  /\ broken \in SUBSET Lives

ThreadTypeOK ==
  /\ tpc \in [Conns -> {"none", "new", "read", "close", "reset", "exited"}]
  /\ sock \in [Conns -> Fd \union {-1}]
  /\ host \in [Conns -> 0 .. MaxLives]
  /\ clientsocket \in Fd \union {-1}
  /\ raced \in BOOLEAN

TypeOK ==
  SocketTypeOK /\ CommandTypeOK /\ UserTypeOK /\ ServiceTypeOK /\ ThreadTypeOK

Init ==
  /\ fds = [f \in Fd |-> Free]
  /\ path = 0
  /\ backlog = [l \in Lives |-> <<>>]
  /\ shut = {}
  /\ link = [c \in Conns |-> "idle"]
  /\ exits = {}
  /\ listensocket = -1
  /\ clientsocket = -1
  /\ cmds = 0
  /\ cmdEvent = FALSE
  /\ life = 0
  /\ user = "out"
  /\ mpc = [l \in Lives |-> "none"]
  /\ lpc = [l \in Lives |-> "none"]
  /\ sockl = [l \in Lives |-> -1]
  /\ socknew = [l \in Lives |-> -1]
  /\ tpc = [c \in Conns |-> "none"]
  /\ sock = [c \in Conns |-> -1]
  /\ host = [c \in Conns |-> 0]
  /\ raced = FALSE
  /\ overlap = FALSE
  /\ lingered = FALSE
  /\ asked = {}
  /\ late = FALSE
  /\ broken = {}

-----------------------------------------------------------------------------
(* Descriptors.                                                             *)

FreeFds == {f \in Fd : fds[f] = Free}

\* socket and accept return the lowest descriptor that is free.
IsLowest(f) == f \in FreeFds /\ \A g \in FreeFds : f <= g

\* socket and accept, when they succeed.
Taken(f, s) == IsLowest(f) /\ fds' = [fds EXCEPT ![f] = s]

\* What a thread that holds descriptor f gets to.
SocketAt(f) == IF f = -1 THEN Free ELSE fds[f]

\* close(f)
Closed(f) == IF f = -1 THEN fds ELSE [fds EXCEPT ![f] = Free]

\* A connect succeeds (or, with a full backlog, waits).
Listening == path # 0 /\ lpc[path] = "accept" /\ path \notin shut

HasRoom == Len(backlog[path]) <= MaxConn

-----------------------------------------------------------------------------
(* The caller of the API.                                                   *)

\* A main or listen thread of an earlier life is still about.
EarlierAlive == \E l \in Lives : \/ mpc[l] \in {"start", "run", "sleep"}
                                 \/ lpc[l] \notin {"none", "exited"}

\* Bound: where lives overlap, only the caller of the API connects.
CallerAlone == \A c \in Clients : link[c] = "idle"

\* hdmi_service_init up to its sleep.  Nothing is asked of earlier lives.
InitService ==
  /\ user \in {"out", "failed"}
  /\ life < MaxLives
  /\ life' = life + 1
  /\ user' = "starting"
  /\ mpc' = [mpc EXCEPT ![life'] = "start"]
  /\ EarlierAlive => CallerAlone
  /\ overlap' = (overlap \/ EarlierAlive)
  /\ lingered' = (lingered \/ \E c \in Conns : tpc[c] \notin {"none", "exited"})
  /\ UNCHANGED <<socketVars, commandVars, listensocket, clientsocket, exitVars,
                 listenVars, threadVars>>

Connected(c) ==
  /\ backlog' = [backlog EXCEPT ![path] = Append(@, c)]
  /\ link' = [link EXCEPT ![c] = "up"]

\* serversocket_create, after a sleep of 100 ms: one attempt.  socket may fail,
\* and must without a free descriptor; connect fails if nobody listens.
ConnectService ==
  /\ user = "starting"
  /\ \/ /\ Listening /\ HasRoom
        /\ \E f \in Fd : Taken(f, Api(life))
        /\ Connected(life)
        /\ user' = "ready"
     \/ /\ user' = "failed"
        /\ UNCHANGED <<fds, backlog, link>>
  /\ UNCHANGED <<path, shut, commandVars, listensocket, clientsocket, life,
                 overlap, lingered, exitVars, mpc, listenVars, threadVars>>

\* An HDMI_EXIT is written to connection c.
ExitWritten(c) ==
  /\ exits' = exits \union {c}
  /\ asked' = asked \union {life}
  /\ late' = (late \/ life \in asked)

\* hdmi_service_exit.  serversocket is neither closed nor reset.
ExitService ==
  /\ user = "ready"
  /\ user' = "out"
  /\ ExitWritten(life)
  /\ UNCHANGED <<socketVars, cmds, cmdEvent, listensocket, clientsocket, life,
                 overlap, lingered, mpc, listenVars, threadVars>>

-----------------------------------------------------------------------------
(* Clients in other processes.                                              *)

ClientConnect(c) ==
  /\ ~overlap
  /\ link[c] = "idle"
  /\ Listening /\ HasRoom
  /\ Connected(c)
  /\ UNCHANGED <<fds, path, shut, commandVars, listensocket, clientsocket,
                 userVars, exitVars, mpc, listenVars, threadVars>>

\* At most one HDMI_EXIT at a time, while the thread can still read it.
ClientExit(c) ==
  /\ link[c] = "up"
  /\ c \notin exits
  /\ tpc[c] \in {"none", "new", "read"}
  /\ ExitWritten(c)
  /\ UNCHANGED <<socketVars, cmds, cmdEvent, listensocket, clientsocket,
                 userVars, mpc, listenVars, threadVars>>

ClientClose(c) ==
  /\ link[c] = "up"
  /\ link' = [link EXCEPT ![c] = "closed"]
  /\ UNCHANGED <<fds, path, backlog, shut, commandVars, listensocket,
                 clientsocket, userVars, exitVars, mpc, listenVars, threadVars>>

-----------------------------------------------------------------------------
(* Main threads.                                                            *)

\* Creation of the listen thread.
MainStart(l) ==
  /\ mpc[l] = "start"
  /\ mpc' = [mpc EXCEPT ![l] = "run"]
  /\ lpc' = [lpc EXCEPT ![l] = "start"]
  /\ UNCHANGED <<socketVars, commandVars, listensocket, clientsocket, userVars,
                 exitVars, sockl, socknew, broken, threadVars>>

\* Mutants: HDMI_EXIT is looked at in the list, but not taken from it; it is
\* taken twice.
Unlisted_Kept == {cmds}

Unlisted_Twice == {0, cmds - 2}

\* The list after an HDMI_EXIT has been taken and the rest deleted: cmd_data
\* still points to what was freed, which may be found there again.
Unlisted == {0, cmds - 1}

\* HDMIEVENT_CMD: hdmi_eventcmd takes the whole list, or ends at an HDMI_EXIT.
MainTake(l) ==
  /\ mpc[l] = "run"
  /\ cmdEvent
  /\ cmdEvent' = FALSE
  /\ IF cmds = 0
     THEN UNCHANGED <<cmds, mpc>>
     ELSE /\ cmds' \in Unlisted
          /\ mpc' = [mpc EXCEPT ![l] = "sleep"]
  /\ UNCHANGED <<exits, socketVars, listensocket, clientsocket, userVars,
                 exitVars, listenVars, threadVars>>

\* Mutant: listensocket is reset before it is read.
ListenSocket_Reset == -1

\* The descriptor that hdmi_service_exit_do shuts down.
ListenSocket == listensocket

\* shutdown of a socket: no more connections, or the end of the connection.
ShutDown(s) ==
  /\ shut' = IF s.kind = "listen" THEN shut \union {s.of} ELSE shut
  /\ link' = IF s.kind \in {"server", "api"} THEN [link EXCEPT ![s.of] = "closed"]
                                             ELSE link

\* The end of thread_main_fn and hdmi_service_exit_do, after a sleep of two
\* seconds.  Timing assumption: by then the listen thread is listening.
MainFinish(l) ==
  /\ mpc[l] = "sleep"
  /\ lpc[l] \notin {"start", "unlink", "bind"}
  /\ mpc' = [mpc EXCEPT ![l] = "exited"]
  /\ cmdEvent' = FALSE
  /\ listensocket' = -1
  /\ ShutDown(SocketAt(ListenSocket))
  /\ UNCHANGED <<fds, path, backlog, exits, cmds, clientsocket, userVars,
                 exitVars, listenVars, threadVars>>

-----------------------------------------------------------------------------
(* Listen threads.                                                          *)

\* Mutant: listensocket_set is not called.
ListenSocketSet_Not(f) == listensocket

ListenSocketSet(f) == f

ListenSocketCreate(l) ==
  /\ lpc[l] = "start"
  /\ \E f \in Fd :
       /\ Taken(f, Listen(l))
       /\ sockl' = [sockl EXCEPT ![l] = f]
       /\ listensocket' = ListenSocketSet(f)
  /\ lpc' = [lpc EXCEPT ![l] = "unlink"]
  /\ UNCHANGED <<path, backlog, shut, link, commandVars, clientsocket, userVars,
                 exitVars, mpc, socknew, broken, threadVars>>

\* socket fails; listensocket keeps what it was.
ListenSocketFails(l) ==
  /\ lpc[l] = "start"
  /\ lpc' = [lpc EXCEPT ![l] = "end"]
  /\ broken' = broken \union {l}
  /\ UNCHANGED <<socketVars, commandVars, listensocket, clientsocket, userVars,
                 exitVars, mpc, sockl, socknew, threadVars>>

ListenUnlink(l) ==
  /\ lpc[l] = "unlink"
  /\ path' = 0
  /\ lpc' = [lpc EXCEPT ![l] = "bind"]
  /\ UNCHANGED <<fds, backlog, shut, link, commandVars, listensocket,
                 clientsocket, userVars, exitVars, mpc, sockl, socknew, broken,
                 threadVars>>

\* Mutant: the old path is removed after the new one has been bound.
Bound_Unlinked(l) == 0

Bound(l) == l

\* bind fails if the path exists again, or for another reason; otherwise the
\* thread goes on to listen.
ListenBind(l) ==
  /\ lpc[l] = "bind"
  /\ \/ /\ path = 0
        /\ path' = Bound(l)
        /\ lpc' = [lpc EXCEPT ![l] = "accept"]
        /\ UNCHANGED <<fds, broken>>
     \/ /\ fds' = Closed(sockl[l])
        /\ lpc' = [lpc EXCEPT ![l] = "end"]
        /\ broken' = IF path = 0 THEN broken \union {l} ELSE broken
        /\ UNCHANGED path
  /\ UNCHANGED <<backlog, shut, link, commandVars, listensocket, clientsocket,
                 userVars, exitVars, mpc, sockl, socknew, threadVars>>

\* A thread that was given the address of socknew has not read it yet.
Unread(l) == \E c \in Conns : tpc[c] = "new" /\ host[c] = l

\* accept overwrites socknew.
SocknewSet(l, f) ==
  /\ socknew' = [socknew EXCEPT ![l] = f]
  /\ raced' = (raced \/ Unread(l))

\* Mutants: accept is called once only; the descriptor is closed once the
\* thread has been created.
AfterAccept_Ends == "end"

AfterAccept == "accept"

Accepted_Closed(f, c) == fds

Accepted(f, c) == [fds EXCEPT ![f] = Server(c)]

\* accept returns a connection and a thread is created for it.
ListenAccept(l) ==
  /\ lpc[l] = "accept"
  /\ backlog[l] # <<>>
  /\ SocketAt(sockl[l]) = Listen(l)
  /\ \E f \in Fd, c \in {Head(backlog[l])} :
       /\ IsLowest(f)
       /\ fds' = Accepted(f, c)
       /\ SocknewSet(l, f)
       /\ tpc' = [tpc EXCEPT ![c] = "new"]
       /\ host' = [host EXCEPT ![c] = l]
  /\ backlog' = [backlog EXCEPT ![l] = Tail(@)]
  /\ lpc' = [lpc EXCEPT ![l] = AfterAccept]
  /\ UNCHANGED <<path, shut, link, commandVars, listensocket, clientsocket,
                 userVars, exitVars, mpc, sockl, broken, sock>>

\* Mutant: the listen socket is not closed.
ListenClosed_Not(l) == fds

ListenClosed(l) == Closed(sockl[l])

\* The listen socket is closed, and with it the connections nobody has accepted.
ListenLeft(l) ==
  /\ lpc[l] = "accept"
  /\ fds' = ListenClosed(l)
  /\ LET pending == {backlog[l][i] : i \in 1 .. Len(backlog[l])}
     IN  /\ link' = [c \in Conns |-> IF c \in pending THEN "closed" ELSE link[c]]
         /\ exits' = exits \ pending
  /\ backlog' = [backlog EXCEPT ![l] = <<>>]
  /\ lpc' = [lpc EXCEPT ![l] = "end"]
  /\ UNCHANGED <<path, shut, cmds, cmdEvent, listensocket, clientsocket, userVars,
                 exitVars, mpc, sockl, tpc, sock, host>>

\* accept cannot but fail: the socket has been shut down, and what was connected
\* before has been accepted, or another thread has closed it, or no descriptor
\* is free.
AcceptMustFail(l) ==
  \/ l \in shut /\ backlog[l] = <<>>
  \/ SocketAt(sockl[l]) # Listen(l)
  \/ FreeFds = {} /\ backlog[l] # <<>>

\* accept fails, for one of these reasons or for another.
AcceptFails(l) ==
  /\ ListenLeft(l)
  /\ SocknewSet(l, -1)
  /\ broken' = IF \/ SocketAt(sockl[l]) # Listen(l)
                  \/ l \in shut /\ backlog[l] = <<>>
               THEN broken ELSE broken \union {l}

\* listen fails.
ListenFails(l) ==
  /\ ListenLeft(l)
  /\ broken' = broken \union {l}
  /\ UNCHANGED <<socknew, raced>>

\* The path is removed, whoever has bound it; with the thread goes the stack
\* that holds socknew.
ListenEnd(l) ==
  /\ lpc[l] = "end"
  /\ path' = 0
  /\ lpc' = [lpc EXCEPT ![l] = "exited"]
  /\ sockl' = [sockl EXCEPT ![l] = -1]
  /\ shut' = shut \ {l}
  /\ raced' = (raced \/ Unread(l))
  /\ UNCHANGED <<fds, backlog, link, commandVars, listensocket, clientsocket,
                 userVars, exitVars, mpc, socknew, broken, tpc, sock, host>>

-----------------------------------------------------------------------------
(* Client threads.                                                          *)

\* sock = *arg.  Once the listen thread has ended, its stack holds what it
\* held (-1, see AcceptFails) or something else (bound: descriptor 0).
Argument(c) == {socknew[host[c]]} \union (IF lpc[host[c]] = "exited" THEN {0} ELSE {})

\* Mutant: clientsocket_set is not called.
ClientSocketSet_Not(f) == clientsocket

ClientSocketSet(f) == f

ThreadStart(c) ==
  /\ tpc[c] = "new"
  /\ \E f \in Argument(c) :
       /\ sock' = [sock EXCEPT ![c] = f]
       /\ clientsocket' = ClientSocketSet(f)
  /\ tpc' = [tpc EXCEPT ![c] = "read"]
  /\ UNCHANGED <<socketVars, commandVars, listensocket, userVars, exitVars, mpc,
                 listenVars, host, raced>>

\* The connection the thread reads from.
Reads(c, peer) == SocketAt(sock[c]) = Server(peer)

\* A command that is not HDMI_EXIT: the list is empty again once it is handled.
ThreadCommand(c) ==
  /\ tpc[c] = "read"
  /\ \E peer \in Conns : Reads(c, peer) /\ link[peer] = "up" /\ peer \notin exits
  /\ cmdEvent' = TRUE
  /\ UNCHANGED <<socketVars, exits, cmds, listensocket, clientsocket, userVars,
                 exitVars, mpc, listenVars, threadVars>>

\* HDMI_EXIT: cmd_add and hdmi_event (HdmiService tells the two apart).
ThreadExit(c) ==
  /\ tpc[c] = "read"
  /\ \E peer \in exits : Reads(c, peer) /\ exits' = exits \ {peer}
  /\ cmds' = cmds + 1
  /\ cmdEvent' = TRUE
  /\ tpc' = [tpc EXCEPT ![c] = "close"]
  /\ UNCHANGED <<socketVars, listensocket, clientsocket, userVars, exitVars,
                 mpc, listenVars, sock, host, raced>>

\* End of stream, or an error because the descriptor is none to read from.
ThreadEnd(c) ==
  /\ tpc[c] = "read"
  /\ \/ SocketAt(sock[c]).kind \in {"free", "listen"}
     \/ \E peer \in Conns \ exits : Reads(c, peer) /\ link[peer] = "closed"
  /\ tpc' = [tpc EXCEPT ![c] = "close"]
  /\ UNCHANGED <<socketVars, commandVars, listensocket, clientsocket, userVars,
                 exitVars, mpc, listenVars, sock, host, raced>>

\* A connection is over, with what is unread in it, once either end is closed.
ThreadClose(c) ==
  /\ tpc[c] = "close"
  /\ fds' = Closed(sock[c])
  /\ LET peers == {peer \in Conns : Reads(c, peer)}
     IN  /\ link' = [peer \in Conns |-> IF peer \in peers THEN "closed" ELSE link[peer]]
         /\ exits' = exits \ peers
  /\ tpc' = [tpc EXCEPT ![c] = "reset"]
  /\ UNCHANGED <<path, backlog, shut, cmds, cmdEvent, listensocket,
                 clientsocket, userVars, exitVars, mpc, listenVars, sock, host, raced>>

\* Mutant: clientsocket_set(-1) is not called.
ClientSocketReset_Not == clientsocket

ClientSocketReset == -1

ThreadReset(c) ==
  /\ tpc[c] = "reset"
  /\ clientsocket' = ClientSocketReset
  /\ tpc' = [tpc EXCEPT ![c] = "exited"]
  /\ sock' = [sock EXCEPT ![c] = -1]
  /\ host' = [host EXCEPT ![c] = 0]
  /\ UNCHANGED <<socketVars, commandVars, listensocket, userVars, exitVars, mpc,
                 listenVars, raced>>

-----------------------------------------------------------------------------
UserStep == InitService \/ ConnectService \/ ExitService

ClientStep(c) == ClientConnect(c) \/ ClientExit(c) \/ ClientClose(c)

MainStep(l) == MainStart(l) \/ MainTake(l) \/ MainFinish(l)

ListenStep(l) ==
  \/ ListenSocketCreate(l) \/ ListenSocketFails(l) \/ ListenUnlink(l) \/ ListenBind(l)
  \/ ListenAccept(l) \/ (AcceptMustFail(l) /\ AcceptFails(l)) \/ ListenEnd(l)

ThreadStep(c) ==
  \/ ThreadStart(c) \/ ThreadExit(c) \/ ThreadEnd(c) \/ ThreadClose(c) \/ ThreadReset(c)

Next ==
  \/ UserStep
  \/ \E c \in Clients : ClientStep(c)
  \/ \E l \in Lives : MainStep(l) \/ ListenStep(l) \/ AcceptFails(l) \/ ListenFails(l)
  \/ \E c \in Conns : ThreadStep(c) \/ ThreadCommand(c)

\* The scheduler runs every thread that can run (the properties below need it
\* of the listen threads and of a client thread's start).  Nothing obliges the
\* caller or the clients to do anything, or an accept or listen that can
\* succeed or wait to fail.
Fairness ==
  /\ \A l \in Lives : WF_vars(ListenStep(l))
  /\ \A c \in Conns : WF_vars(ThreadStart(c))

Spec == Init /\ [][Next]_vars
FairSpec == Spec /\ Fairness

-----------------------------------------------------------------------------
(* Properties.                                                              *)

\* Every client thread serves the connection it was created for, unless the
\* next accept was faster than the thread (socknew is passed by address,
\* socket.c:228-229; descriptors are reused as soon as they are closed).
ServedByItsThread ==
  ~raced => \A c \in Conns :
              tpc[c] \in {"read", "close"} => Reads(c, c)

\* Under the same condition a descriptor in use has a thread that will close
\* it, except the one of hdmi_service_init, which nobody closes.
DescriptorsOwned ==
  ~raced => \A f \in Fd :
     /\ \A l \in Lives : fds[f] = Listen(l) =>
          sockl[l] = f /\ lpc[l] \in {"unlink", "bind", "accept"}
     /\ \A c \in Conns : fds[f] = Server(c) =>
          tpc[c] \in {"new", "read", "close"}

\* clientsocket, to which the main thread sends, is the descriptor of a client
\* thread that has not reset it yet.
ClientSocketOwned ==
  clientsocket # -1 =>
    \E c \in Conns : sock[c] = clientsocket /\ tpc[c] \in {"read", "close", "reset"}

\* "Return value: socket number where events will be notified"
\* (hdmi_service_api.c:42): with no other client, no thread left over from an
\* earlier life, and no accept that failed before the thread had read its
\* descriptor, the messages of the main thread go to the connection of
\* hdmi_service_init as long as that is open.
NotifiesCaller ==
  /\ ~lingered /\ ~overlap /\ ~raced
  /\ CallerAlone
  /\ life > 0
  /\ tpc[life] = "read"
  => SocketAt(clientsocket) = Server(life)

\* While the service runs and its listen thread listens, the path leads to
\* it and hdmi_service_exit_do will find its socket, however it was restarted,
\* unless a main or listen thread of an earlier life was still about, or a
\* thread that was given a wrong descriptor has closed the socket.
PathLeads ==
  /\ ~overlap /\ ~raced
  /\ life > 0
  /\ mpc[life] = "run" /\ lpc[life] = "accept"
  => path = life /\ SocketAt(listensocket) = Listen(life)

\* If hdmi_service_init fails, its own socket call has failed (the service
\* listens), or the listen thread needs more than its 100 ms, or one of that
\* thread's calls has failed, or the service has been asked to end in the
\* meantime, or by an HDMI_EXIT left over from the life before.
FailsOnlyIfLate ==
  [][ user = "starting" /\ user' = "failed"
        => \/ Listening \/ life \in broken
           \/ lpc[life] \in {"none", "start", "unlink", "bind"} \/ life \in asked
           \/ overlap \/ late \/ raced ]_vars

\* A service ends only when asked: an HDMI_EXIT left over from one life does
\* not end the next, unless more than one was sent or lives overlap.
EndsOnlyIfAsked ==
  ~late /\ ~overlap => \A l \in Lives : mpc[l] \in {"sleep", "exited"} => l \in asked

\* A connection that connect has established is served, unless it is closed
\* because accept or listen has failed by itself or for want of a descriptor.
ConnectionServed ==
  \A c \in Conns :
    link[c] = "up" ~> \/ tpc[c] \notin {"none", "new"} \/ raced
                      \/ link[c] = "closed" /\ broken # {}

\* After an exit the listen thread ends as well and takes its path with it.
ListenThreadEnds ==
  \A l \in Lives : mpc[l] = "exited" ~> (lpc[l] = "exited" /\ path # l) \/ overlap

=============================================================================
