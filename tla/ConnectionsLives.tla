------------------------- MODULE ConnectionsLives ---------------------------
(***************************************************************************)
(* What one life of the service leaves to the next, in Connections with any  *)
(* number of lives, clients and descriptors.                               *)
(*                                                                         *)
(*   Alone     without overlap, the threads of earlier lives have ended     *)
(*   Exits     where the one HDMI_EXIT of a life can be                     *)
(*   Paths     the path and listensocket are those of the last life         *)
(*   Shut      which listen sockets are shut down, which threads at an end  *)
(*   Caller    what there is when only the caller of the API connects       *)
(*                                                                         *)
(* Each is an implication from the histories it depends on.  They build on   *)
(* one another and on the invariants of ConnectionsProofs.                 *)
(***************************************************************************)
EXTENDS ConnectionsProofs

-----------------------------------------------------------------------------
(* Lives that do not overlap: the threads of earlier ones have ended.       *)

AloneInv == \A l \in Lives : l < life => mpc[l] = "exited" /\ lpc[l] = "exited"

Alone == ~overlap => AloneInv

LEMMA NextAlone == TypeInv /\ Alone /\ [Next]_vars => Alone'
<1> SUFFICES ASSUME TypeInv, Alone, [Next]_vars PROVE Alone'
  OBVIOUS
<1>1. \/ UNCHANGED <<overlap, life, mpc, lpc>>
      \/ InitService
      \/ \E l \in Lives : MainStart(l)
      \/ \E l \in Lives : MainTake(l)
      \/ \E l \in Lives : MainFinish(l)
      \/ \E l \in Lives : ListenSocketCreate(l)
      \/ \E l \in Lives : ListenUnlink(l)
      \/ \E l \in Lives : ListenBind(l)
      \/ \E l \in Lives : ListenAccept(l)
      \/ \E l \in Lives : ListenSocketFails(l)
      \/ \E l \in Lives : ListenStops(l)
      \/ \E l \in Lives : ListenEnd(l)
  BY NextCases DEF ConnectService, ExitService, ClientConnect, ClientExit,
    ClientClose, ThreadStart, ThreadCommand, ThreadExit, ThreadEnd, ThreadClose,
    ThreadReset, vars, userVars, listenVars
<1> USE DEF Alone, AloneInv, TypeInv, LifeInv, TypeOK, ServiceTypeOK, UserTypeOK
<1>2. CASE UNCHANGED <<overlap, life, mpc, lpc>>
  BY <1>2
<1>3. CASE InitService
  <2> SUFFICES ASSUME ~overlap', NEW l \in Lives, l < life'
               PROVE  mpc'[l] = "exited" /\ lpc'[l] = "exited"
    OBVIOUS
  <2>1. life' = life + 1 /\ mpc' = [mpc EXCEPT ![life'] = "start"] /\ lpc' = lpc /\ ~EarlierAlive
    BY <1>3 DEF InitService, listenVars
  <2>2. l # life' /\ ~(l > life)
    BY <2>1 DEF Lives
  <2>3. mpc[l] # "none"
    BY <2>2 DEF BegunInv
  <2>4. mpc[l] = "exited" /\ lpc[l] \in {"none", "exited"}
    BY <2>1, <2>3 DEF EarlierAlive
  <2>5. lpc[l] # "none"
    BY <2>4 DEF BegunInv
  <2> QED
    BY <2>1, <2>2, <2>4, <2>5
<1>4. ASSUME NEW l \in Lives, MainStart(l) PROVE Alone'
  <2>1. /\ UNCHANGED <<overlap, life>> /\ mpc[l] # "exited"
        /\ \A m \in Lives : m # l => mpc'[m] = mpc[m] /\ lpc'[m] = lpc[m]
    BY <1>4 DEF MainStart, userVars
  <2> QED
    BY <2>1
<1>5. ASSUME NEW l \in Lives, MainTake(l) PROVE Alone'
  <2>1. /\ UNCHANGED <<overlap, life>> /\ mpc[l] # "exited"
        /\ \A m \in Lives : m # l => mpc'[m] = mpc[m] /\ lpc'[m] = lpc[m]
    BY <1>5 DEF MainTake, userVars, listenVars
  <2> QED
    BY <2>1
<1>6. ASSUME NEW l \in Lives, MainFinish(l) PROVE Alone'
  <2>1. /\ UNCHANGED <<overlap, life>> /\ mpc[l] # "exited"
        /\ \A m \in Lives : m # l => mpc'[m] = mpc[m] /\ lpc'[m] = lpc[m]
    BY <1>6 DEF MainFinish, userVars, listenVars
  <2> QED
    BY <2>1
<1>7. ASSUME NEW l \in Lives, ListenSocketCreate(l) PROVE Alone'
  <2>1. /\ UNCHANGED <<overlap, life>> /\ lpc[l] # "exited"
        /\ \A m \in Lives : m # l => mpc'[m] = mpc[m] /\ lpc'[m] = lpc[m]
    BY <1>7 DEF ListenSocketCreate, userVars
  <2> QED
    BY <2>1
<1>8. ASSUME NEW l \in Lives, ListenUnlink(l) PROVE Alone'
  <2>1. /\ UNCHANGED <<overlap, life>> /\ lpc[l] # "exited"
        /\ \A m \in Lives : m # l => mpc'[m] = mpc[m] /\ lpc'[m] = lpc[m]
    BY <1>8 DEF ListenUnlink, userVars
  <2> QED
    BY <2>1
<1>9. ASSUME NEW l \in Lives, ListenBind(l) PROVE Alone'
  <2>1. /\ UNCHANGED <<overlap, life>> /\ lpc[l] # "exited"
        /\ \A m \in Lives : m # l => mpc'[m] = mpc[m] /\ lpc'[m] = lpc[m]
    BY <1>9 DEF ListenBind, userVars
  <2> QED
    BY <2>1
<1>10. ASSUME NEW l \in Lives, ListenAccept(l) PROVE Alone'
  <2>1. /\ UNCHANGED <<overlap, life>> /\ lpc[l] # "exited"
        /\ \A m \in Lives : m # l => mpc'[m] = mpc[m] /\ lpc'[m] = lpc[m]
    BY <1>10 DEF ListenAccept, userVars, AfterAccept
  <2> QED
    BY <2>1
<1>11. ASSUME NEW l \in Lives, ListenStops(l) PROVE Alone'
  <2>1. /\ UNCHANGED <<overlap, life>> /\ lpc[l] # "exited"
        /\ \A m \in Lives : m # l => mpc'[m] = mpc[m] /\ lpc'[m] = lpc[m]
    BY <1>11, StopsTo DEF ListenLeft, userVars
  <2> QED
    BY <2>1
<1>12. ASSUME NEW l \in Lives, ListenEnd(l) PROVE Alone'
  <2>1. /\ UNCHANGED <<overlap, life>> /\ lpc[l] # "exited"
        /\ \A m \in Lives : m # l => mpc'[m] = mpc[m] /\ lpc'[m] = lpc[m]
    BY <1>12 DEF ListenEnd, userVars
  <2> QED
    BY <2>1
<1>13. ASSUME NEW l \in Lives, ListenSocketFails(l) PROVE Alone'
  <2>1. /\ UNCHANGED <<overlap, life>> /\ lpc[l] # "exited"
        /\ \A m \in Lives : m # l => mpc'[m] = mpc[m] /\ lpc'[m] = lpc[m]
    BY <1>13 DEF ListenSocketFails, userVars
  <2> QED
    BY <2>1
<1> QED
  BY <1>1, <1>2, <1>3, <1>4, <1>5, <1>6, <1>7, <1>8, <1>9, <1>10, <1>11, <1>12,
    <1>13

LEMMA AloneInvariant == Spec => []Alone
<1>1. Init => Alone
  BY DEF Init, Alone, AloneInv, Lives
<1> QED
  BY TypeInvariant, <1>1, NextAlone, PTL DEF Spec

\* Whatever has begun and not ended belongs to the last life.
LEMMA OnlyTheLast ==
  ASSUME TypeInv, AloneInv, NEW l \in Lives,
         mpc[l] \notin {"none", "exited"} \/ lpc[l] \notin {"none", "exited"}
  PROVE  l = life
<1>1. ~(l > life)
  BY DEF TypeInv, LifeInv, BegunInv
<1>2. ~(l < life)
  BY DEF AloneInv
<1> QED
  BY <1>1, <1>2 DEF Lives, TypeInv, TypeOK, UserTypeOK

-----------------------------------------------------------------------------
(* The end of a service.                                                    *)

\* As long as no HDMI_EXIT was sent twice in a life: there is at most one,
\* either still in its connection or in the list, none before it was sent in
\* this life and none once the main thread has taken it.
ExitInv ==
  /\ life \notin asked => exits = {} /\ cmds = 0
  /\ exits = {} \/ cmds = 0
  /\ cmds <= 1
  /\ \A c, d \in exits : c = d
  /\ life > 0 /\ mpc[life] \in {"sleep", "exited"} => exits = {} /\ cmds = 0
  /\ \A l \in Lives : mpc[l] \in {"sleep", "exited"} => l \in asked

Exits == ~late /\ ~overlap => ExitInv

LEMMA NextExits == TypeInv /\ Alone /\ Exits /\ [Next]_vars => Exits'
<1> SUFFICES ASSUME TypeInv, Alone, Exits, [Next]_vars PROVE Exits'
  OBVIOUS
<1>1. \/ UNCHANGED <<exits, cmds, life, asked, mpc, late, overlap>>
      \/ InitService
      \/ ExitService
      \/ \E c \in Clients : ClientExit(c)
      \/ \E l \in Lives : MainStart(l)
      \/ \E l \in Lives : MainTake(l)
      \/ \E l \in Lives : MainFinish(l)
      \/ \E l \in Lives : ListenStops(l)
      \/ \E c \in Conns : ThreadExit(c)
      \/ \E c \in Conns : ThreadClose(c)
  BY NextCases DEF ListenSocketFails, ConnectService, ClientConnect, ClientClose,
    ListenSocketCreate, ListenUnlink, ListenBind, ListenAccept, ListenEnd, ThreadStart, ThreadCommand,
    ThreadEnd, ThreadReset, vars, commandVars, userVars, exitVars
<1> USE DEF Exits, TypeInv, LifeInv, TypeOK, ServiceTypeOK, UserTypeOK, CommandTypeOK
<1>2. CASE UNCHANGED <<exits, cmds, life, asked, mpc, late, overlap>>
  BY <1>2 DEF ExitInv
<1>3. CASE InitService
  <2> SUFFICES ASSUME ~late', ~overlap' PROVE ExitInv'
    BY DEF Exits
  <2>1. /\ ExitInv /\ AloneInv /\ ~EarlierAlive /\ UNCHANGED <<exits, cmds, asked>>
        /\ life' = life + 1 /\ mpc' = [mpc EXCEPT ![life'] = "start"]
    BY <1>3 DEF InitService, commandVars, exitVars, Alone
  <2>2. life' \in Lives /\ life' \notin asked
    BY <1>3, <2>1, LivesAssumption DEF InitService, AskedInv, Lives
  <2>3. exits = {} /\ cmds = 0
    <3>1. CASE life = 0
      BY <2>1, <3>1 DEF ExitInv, AskedInv
    <3>2. CASE life # 0
      <4>1. life \in Lives
        BY <3>2 DEF Lives
      <4>2. mpc[life] # "none"
        BY <4>1 DEF BegunInv
      <4>3. mpc[life] = "exited"
        BY <2>1, <4>1, <4>2 DEF EarlierAlive
      <4> QED
        BY <2>1, <3>2, <4>3 DEF ExitInv
    <3> QED
      BY <3>1, <3>2
  <2>4. \A l \in Lives : mpc'[l] \in {"sleep", "exited"} => mpc[l] \in {"sleep", "exited"}
    BY <2>1
  <2>5. mpc'[life'] = "start"
    BY <2>1, <2>2
  <2> QED
    BY <2>1, <2>2, <2>3, <2>4, <2>5 DEF ExitInv
<1>4. CASE ExitService
  <2> SUFFICES ASSUME ~late', ~overlap' PROVE ExitInv'
    BY DEF Exits
  <2>1. ~late /\ life \notin asked
    BY <1>4 DEF ExitService, ExitWritten
  <2>2. ~overlap
    BY <1>4 DEF ExitService, userVars
  <2>3. UNCHANGED <<cmds, life, mpc>> /\ life # 0
    BY <1>4 DEF ExitService, userVars, AskedInv
  <2>4. ExitInv /\ UNCHANGED <<cmds, life, mpc>> /\ life \notin asked /\ life \in Lives
    BY <2>1, <2>2, <2>3 DEF Lives
  <2>5. exits' = {life} /\ asked' = asked \union {life}
    BY <1>4, <2>4 DEF ExitService, ExitWritten, ExitInv
  <2>6. cmds = 0 /\ mpc[life] \notin {"sleep", "exited"}
    BY <2>4 DEF ExitInv
  <2> QED
    BY <2>4, <2>5, <2>6 DEF ExitInv
<1>5. ASSUME NEW c \in Clients, ClientExit(c) PROVE Exits'
  <2> SUFFICES ASSUME ~late', ~overlap' PROVE ExitInv'
    BY DEF Exits
  <2>1. ~late /\ life \notin asked
    BY <1>5 DEF ClientExit, ExitWritten
  <2>2. ~overlap
    BY <1>5 DEF ClientExit, userVars
  <2>3. UNCHANGED <<cmds, life, mpc>> /\ life # 0
    BY <1>5 DEF ClientExit, userVars, AskedInv
  <2>4. ExitInv /\ UNCHANGED <<cmds, life, mpc>> /\ life \notin asked /\ life \in Lives
    BY <2>1, <2>2, <2>3 DEF Lives
  <2>5. exits' = {c} /\ asked' = asked \union {life}
    BY <1>5, <2>4 DEF ClientExit, ExitWritten, ExitInv
  <2>6. cmds = 0 /\ mpc[life] \notin {"sleep", "exited"}
    BY <2>4 DEF ExitInv
  <2> QED
    BY <2>4, <2>5, <2>6 DEF ExitInv
<1>6. ASSUME NEW l \in Lives, MainStart(l) PROVE Exits'
  <2> SUFFICES ASSUME ~late', ~overlap' PROVE ExitInv'
    BY DEF Exits
  <2>1. ExitInv /\ UNCHANGED <<exits, cmds, life, asked>>
    BY <1>6 DEF MainStart, commandVars, userVars, exitVars
  <2>2. \A m \in Lives : mpc'[m] \in {"sleep", "exited"} <=> mpc[m] \in {"sleep", "exited"}
    BY <1>6 DEF MainStart
  <2>3. life > 0 => life \in Lives
    BY DEF Lives
  <2> QED
    BY <2>1, <2>2, <2>3 DEF ExitInv
<1>7. ASSUME NEW l \in Lives, MainTake(l) PROVE Exits'
  <2> SUFFICES ASSUME ~late', ~overlap' PROVE ExitInv'
    BY DEF Exits
  <2>1. ExitInv /\ AloneInv /\ UNCHANGED <<exits, life, asked>> /\ mpc[l] = "run"
    BY <1>7 DEF MainTake, userVars, exitVars, Alone
  <2>2. l = life
    BY <2>1, OnlyTheLast
  <2>3. CASE cmds = 0
    BY <1>7, <2>1, <2>3 DEF MainTake, ExitInv
  <2>4. CASE cmds # 0
    <3>1. cmds = 1 /\ exits = {} /\ life \in asked
      BY <2>1, <2>4 DEF ExitInv
    <3>2. cmds' = 0 /\ mpc' = [mpc EXCEPT ![l] = "sleep"]
      BY <1>7, <3>1 DEF MainTake, Unlisted
    <3> QED
      BY <2>1, <2>2, <3>1, <3>2 DEF ExitInv
  <2> QED
    BY <2>3, <2>4
<1>8. ASSUME NEW l \in Lives, MainFinish(l) PROVE Exits'
  <2> SUFFICES ASSUME ~late', ~overlap' PROVE ExitInv'
    BY DEF Exits
  <2>1. ExitInv /\ UNCHANGED <<exits, cmds, life, asked>>
    BY <1>8 DEF MainFinish, userVars, exitVars
  <2>2. \A m \in Lives : mpc'[m] \in {"sleep", "exited"} <=> mpc[m] \in {"sleep", "exited"}
    BY <1>8 DEF MainFinish
  <2>3. life > 0 => life \in Lives
    BY DEF Lives
  <2> QED
    BY <2>1, <2>2, <2>3 DEF ExitInv
<1>9. ASSUME NEW c \in Conns, ThreadExit(c) PROVE Exits'
  <2> SUFFICES ASSUME ~late', ~overlap' PROVE ExitInv'
    BY DEF Exits
  <2>1. ExitInv /\ UNCHANGED <<life, asked, mpc>> /\ cmds' = cmds + 1
    BY <1>9 DEF ThreadExit, userVars, exitVars
  <2>2. PICK peer \in exits : exits' = exits \ {peer}
    BY <1>9 DEF ThreadExit
  <2>3. exits' = {} /\ cmds = 0
    BY <2>1, <2>2 DEF ExitInv
  <2>4. life \in asked /\ ~(life > 0 /\ mpc[life] \in {"sleep", "exited"})
    BY <2>1, <2>2 DEF ExitInv
  <2> QED
    BY <2>1, <2>3, <2>4 DEF ExitInv
<1>10. ASSUME NEW c \in Conns, ThreadClose(c) PROVE Exits'
  <2> SUFFICES ASSUME ~late', ~overlap' PROVE ExitInv'
    BY DEF Exits
  <2>1. ExitInv /\ UNCHANGED <<cmds, life, asked, mpc>> /\ exits' \subseteq exits
    BY <1>10 DEF ThreadClose, userVars, exitVars
  <2> QED
    BY <2>1 DEF ExitInv
<1>11. ASSUME NEW l \in Lives, ListenStops(l) PROVE Exits'
  <2> SUFFICES ASSUME ~late', ~overlap' PROVE ExitInv'
    BY DEF Exits
  <2>1. ExitInv /\ UNCHANGED <<cmds, life, asked, mpc>> /\ exits' \subseteq exits
    BY <1>11, StopsTo DEF ListenLeft, userVars, exitVars
  <2> QED
    BY <2>1 DEF ExitInv
<1> QED
  BY <1>1, <1>2, <1>3, <1>4, <1>5, <1>6, <1>7, <1>8, <1>9, <1>10, <1>11

LEMMA ExitInvariant == Spec => []Exits
<1>1. Init => Exits
  BY DEF Init, Exits, ExitInv
<1> QED
  BY TypeInvariant, AloneInvariant, <1>1, NextExits, PTL DEF Spec

\* An HDMI_EXIT ends the life it was sent in and no other, in whatever order
\* the threads run and however often the service is restarted, unless lives
\* overlap or it is sent twice: neither the connections nor the list keep
\* anything of it for the next life (hdmi_eventcmd, hdmi_service.c:663).
THEOREM OneExitOneEnd == Spec => []EndsOnlyIfAsked
<1>1. Exits => EndsOnlyIfAsked
  BY DEF Exits, ExitInv, EndsOnlyIfAsked
<1> QED
  BY ExitInvariant, <1>1, PTL

-----------------------------------------------------------------------------
(* The path and the listen socket of the last life.                         *)

PathInv ==
  life > 0 =>
  /\ mpc[life] # "exited" /\ lpc[life] \in Kept => listensocket = sockl[life]
  /\ lpc[life] = "accept" => path = life
  /\ lpc[life] = "bind" => path = 0

Paths == ~overlap => PathInv

LEMMA NextPaths == TypeInv /\ Alone /\ Paths /\ [Next]_vars => Paths'
<1> SUFFICES ASSUME TypeInv, Alone, Paths, [Next]_vars PROVE Paths'
  OBVIOUS
<1>1. \/ UNCHANGED <<life, mpc, lpc, listensocket, sockl, path, overlap>>
      \/ InitService
      \/ \E l \in Lives : MainStart(l)
      \/ \E l \in Lives : MainTake(l)
      \/ \E l \in Lives : MainFinish(l)
      \/ \E l \in Lives : ListenSocketCreate(l)
      \/ \E l \in Lives : ListenUnlink(l)
      \/ \E l \in Lives : ListenBind(l)
      \/ \E l \in Lives : ListenAccept(l)
      \/ \E l \in Lives : ListenSocketFails(l)
      \/ \E l \in Lives : ListenStops(l)
      \/ \E l \in Lives : ListenEnd(l)
  BY NextCases DEF ConnectService, ExitService, ClientConnect, ClientExit,
    ClientClose, ThreadStart, ThreadCommand, ThreadExit, ThreadEnd, ThreadClose,
    ThreadReset, vars, socketVars, userVars, listenVars
<1> USE DEF Paths, TypeInv, LifeInv, TypeOK, ServiceTypeOK, UserTypeOK
<1>2. CASE UNCHANGED <<life, mpc, lpc, listensocket, sockl, path, overlap>>
  BY <1>2 DEF PathInv
<1>3. CASE InitService
  <2> SUFFICES ASSUME ~overlap' PROVE PathInv'
    BY DEF Paths
  <2>1. life' = life + 1 /\ life' \in Lives /\ lpc' = lpc
    BY <1>3, LivesAssumption DEF InitService, listenVars, Lives
  <2>2. lpc[life'] = "none"
    BY <2>1 DEF BegunInv, Lives
  <2> QED
    BY <2>1, <2>2 DEF PathInv, Kept
<1>4. ASSUME NEW l \in Lives, MainStart(l) PROVE Paths'
  <2> SUFFICES ASSUME ~overlap' PROVE PathInv'
    BY DEF Paths
  <2>1. PathInv /\ AloneInv /\ UNCHANGED <<life, listensocket, sockl, path>> /\ mpc[l] = "start"
    BY <1>4 DEF MainStart, userVars, socketVars, Alone
  <2>2. l = life
    BY <2>1, OnlyTheLast
  <2>3. lpc'[life] = "start"
    BY <1>4, <2>2 DEF MainStart
  <2> QED
    BY <2>1, <2>3 DEF PathInv, Kept
<1>5. ASSUME NEW l \in Lives, MainTake(l) PROVE Paths'
  <2> SUFFICES ASSUME ~overlap' PROVE PathInv'
    BY DEF Paths
  <2>1. PathInv /\ UNCHANGED <<life, lpc, sockl, path>> /\ life \in {0} \union Lives
    BY <1>5 DEF MainTake, userVars, listenVars, socketVars, Lives
  <2>2. listensocket' = listensocket /\ \A m \in Lives : mpc'[m] = "exited" <=> mpc[m] = "exited"
    BY <1>5 DEF MainTake
  <2> QED
    BY <2>1, <2>2 DEF PathInv
<1>6. ASSUME NEW l \in Lives, MainFinish(l) PROVE Paths'
  <2> SUFFICES ASSUME ~overlap' PROVE PathInv'
    BY DEF Paths
  <2>1. PathInv /\ AloneInv /\ UNCHANGED <<life, lpc, sockl, path>> /\ mpc[l] = "sleep"
    BY <1>6 DEF MainFinish, userVars, listenVars, Alone
  <2>2. l = life
    BY <2>1, OnlyTheLast
  <2>3. mpc'[life] = "exited"
    BY <1>6, <2>2 DEF MainFinish
  <2> QED
    BY <2>1, <2>3 DEF PathInv
<1>7. ASSUME NEW l \in Lives, ListenSocketCreate(l) PROVE Paths'
  <2> SUFFICES ASSUME ~overlap' PROVE PathInv'
    BY DEF Paths
  <2>1. AloneInv /\ UNCHANGED <<life, mpc>> /\ lpc[l] = "start"
    BY <1>7 DEF ListenSocketCreate, userVars, Alone
  <2>2. l = life
    BY <2>1, OnlyTheLast
  <2>3. listensocket' = sockl'[l] /\ lpc'[l] = "unlink"
    BY <1>7 DEF ListenSocketCreate, ListenSocketSet
  <2> QED
    BY <2>1, <2>2, <2>3 DEF PathInv
<1>8. ASSUME NEW l \in Lives, ListenUnlink(l) PROVE Paths'
  <2> SUFFICES ASSUME ~overlap' PROVE PathInv'
    BY DEF Paths
  <2>1. PathInv /\ AloneInv /\ UNCHANGED <<life, mpc>> /\ lpc[l] \notin {"none", "exited"}
    BY <1>8 DEF ListenUnlink, userVars, Alone
  <2>2. l = life /\ life > 0
    BY <2>1, OnlyTheLast DEF Lives
  <2>3. /\ lpc[l] = "unlink" /\ lpc'[l] = "bind" /\ path' = 0
        /\ UNCHANGED <<listensocket, sockl>>
    BY <1>8 DEF ListenUnlink
  <2> QED
    BY <2>1, <2>2, <2>3 DEF PathInv, Kept
<1>9. ASSUME NEW l \in Lives, ListenBind(l) PROVE Paths'
  <2> SUFFICES ASSUME ~overlap' PROVE PathInv'
    BY DEF Paths
  <2>1. PathInv /\ AloneInv /\ UNCHANGED <<life, mpc>> /\ lpc[l] \notin {"none", "exited"}
    BY <1>9 DEF ListenBind, userVars, Alone
  <2>2. l = life /\ life > 0
    BY <2>1, OnlyTheLast DEF Lives
  <2>3. /\ lpc[l] = "bind" /\ UNCHANGED <<listensocket, sockl>>
        /\ lpc'[l] = "end" \/ (lpc'[l] = "accept" /\ path' = l)
    BY <1>9 DEF ListenBind, Bound
  <2> QED
    BY <2>1, <2>2, <2>3 DEF PathInv, Kept
<1>10. ASSUME NEW l \in Lives, ListenAccept(l) PROVE Paths'
  <2> SUFFICES ASSUME ~overlap' PROVE PathInv'
    BY DEF Paths
  <2>1. PathInv /\ AloneInv /\ UNCHANGED <<life, mpc>> /\ lpc[l] \notin {"none", "exited"}
    BY <1>10 DEF ListenAccept, userVars, Alone
  <2>2. l = life /\ life > 0
    BY <2>1, OnlyTheLast DEF Lives
  <2>3. UNCHANGED <<lpc, path, listensocket, sockl>>
    BY <1>10 DEF ListenAccept, AfterAccept
  <2> QED
    BY <2>1, <2>2, <2>3 DEF PathInv, Kept
<1>11. ASSUME NEW l \in Lives, ListenStops(l) PROVE Paths'
  <2> SUFFICES ASSUME ~overlap' PROVE PathInv'
    BY DEF Paths
  <2>1. ListenLeft(l)
    BY <1>11, StopsTo
  <2>2. PathInv /\ AloneInv /\ UNCHANGED <<life, mpc>> /\ lpc[l] \notin {"none", "exited"}
    BY <2>1 DEF ListenLeft, userVars, Alone
  <2>3. l = life /\ life > 0
    BY <2>2, OnlyTheLast DEF Lives
  <2>4. lpc'[l] = "end"
    BY <2>1 DEF ListenLeft
  <2> QED
    BY <2>2, <2>3, <2>4 DEF PathInv, Kept
<1>12. ASSUME NEW l \in Lives, ListenEnd(l) PROVE Paths'
  <2> SUFFICES ASSUME ~overlap' PROVE PathInv'
    BY DEF Paths
  <2>1. PathInv /\ AloneInv /\ UNCHANGED <<life, mpc>> /\ lpc[l] \notin {"none", "exited"}
    BY <1>12 DEF ListenEnd, userVars, Alone
  <2>2. l = life /\ life > 0
    BY <2>1, OnlyTheLast DEF Lives
  <2>3. lpc'[l] = "exited"
    BY <1>12 DEF ListenEnd
  <2> QED
    BY <2>1, <2>2, <2>3 DEF PathInv, Kept
<1>13. ASSUME NEW l \in Lives, ListenSocketFails(l) PROVE Paths'
  <2> SUFFICES ASSUME ~overlap' PROVE PathInv'
    BY DEF Paths
  <2>1. AloneInv /\ UNCHANGED <<life, mpc>> /\ lpc[l] \notin {"none", "exited"}
    BY <1>13 DEF ListenSocketFails, userVars, Alone
  <2>2. l = life /\ life > 0
    BY <2>1, OnlyTheLast DEF Lives
  <2>3. lpc'[l] = "end"
    BY <1>13 DEF ListenSocketFails
  <2> QED
    BY <2>1, <2>2, <2>3 DEF PathInv, Kept
<1> QED
  BY <1>1, <1>2, <1>3, <1>4, <1>5, <1>6, <1>7, <1>8, <1>9, <1>10, <1>11, <1>12,
    <1>13

LEMMA PathInvariant == Spec => []Paths
<1>1. Init => Paths
  BY DEF Init, Paths, PathInv
<1> QED
  BY TypeInvariant, AloneInvariant, <1>1, NextPaths, PTL DEF Spec

\* However often the service was restarted, a client that connects while the
\* service runs and listens reaches it, and hdmi_service_exit_do
\* (hdmi_service.c:829) will shut down its listen socket, unless lives overlap.
THEOREM PathLeadsToTheService == Spec => []PathLeads
<1>1. TypeInv /\ OwnInv /\ Paths => PathLeads
  <2> SUFFICES ASSUME TypeInv, OwnInv, Paths, ~overlap, ~raced, life > 0,
                      mpc[life] = "run", lpc[life] = "accept"
               PROVE  path = life /\ SocketAt(listensocket) = Listen(life)
    BY DEF PathLeads
  <2>1. life \in Lives
    BY DEF TypeInv, TypeOK, UserTypeOK, Lives
  <2>2. path = life /\ listensocket = sockl[life]
    BY DEF Paths, PathInv, Kept
  <2>3. sockl[life] \in Fd /\ fds[sockl[life]] = Listen(life)
    BY <2>1 DEF OwnInv, ListenOwn, ListenInv, Kept
  <2> QED
    BY <2>2, <2>3, Numbers DEF SocketAt
<1> QED
  BY TypeInvariant, OwnInvariant, PathInvariant, <1>1, PTL

-----------------------------------------------------------------------------
(* Why hdmi_service_init may fail.                                          *)

\* Nothing but the main thread of a life that is over shuts its listen socket
\* down, and no listen thread ends before, unless a call of it has failed.
ShutInv ==
  /\ \A l \in shut : mpc[l] = "exited"
  /\ \A l \in Lives : lpc[l] \in {"end", "exited"} => mpc[l] = "exited" \/ l \in broken

Shut == ~overlap /\ ~raced => ShutInv

LEMMA NextShut == TypeInv /\ OwnInv /\ Alone /\ Paths /\ Shut /\ [Next]_vars => Shut'
<1> SUFFICES ASSUME TypeInv, OwnInv, Alone, Paths, Shut, [Next]_vars PROVE Shut'
  OBVIOUS
<1>1. \/ UNCHANGED <<shut, mpc, lpc, overlap, raced, broken>>
      \/ InitService
      \/ \E l \in Lives : MainStart(l)
      \/ \E l \in Lives : MainTake(l)
      \/ \E l \in Lives : MainFinish(l)
      \/ \E l \in Lives : ListenSocketCreate(l)
      \/ \E l \in Lives : ListenUnlink(l)
      \/ \E l \in Lives : ListenBind(l)
      \/ \E l \in Lives : ListenAccept(l)
      \/ \E l \in Lives : ListenSocketFails(l)
      \/ \E l \in Lives : ListenStops(l)
      \/ \E l \in Lives : ListenEnd(l)
  BY NextCases DEF ConnectService, ExitService, ClientConnect, ClientExit,
    ClientClose, ThreadStart, ThreadCommand, ThreadExit, ThreadEnd, ThreadClose,
    ThreadReset, vars, socketVars, userVars, listenVars, threadVars
<1> USE DEF Shut, TypeInv, LifeInv, TypeOK, SocketTypeOK, ServiceTypeOK, UserTypeOK, ThreadTypeOK
<1>2. CASE UNCHANGED <<shut, mpc, lpc, overlap, raced, broken>>
  BY <1>2 DEF ShutInv
<1>3. CASE InitService
  <2> SUFFICES ASSUME ~overlap', ~raced' PROVE ShutInv'
    BY DEF Shut
  <2>1. /\ ShutInv /\ UNCHANGED <<shut, lpc, broken>>
        /\ life' = life + 1 /\ mpc' = [mpc EXCEPT ![life'] = "start"]
    BY <1>3 DEF InitService, socketVars, listenVars, threadVars
  <2>2. life' \in Lives
    BY <1>3, <2>1, LivesAssumption DEF InitService, Lives
  <2>3. mpc[life'] = "none" /\ lpc[life'] = "none"
    BY <2>1, <2>2 DEF BegunInv, Lives
  <2>4. \A l \in Lives : mpc[l] = "exited" => mpc'[l] = "exited"
    BY <2>1, <2>3
  <2> QED
    BY <2>1, <2>4 DEF ShutInv
<1>4. ASSUME NEW l \in Lives, MainStart(l) PROVE Shut'
  <2> SUFFICES ASSUME ~overlap', ~raced' PROVE ShutInv'
    BY DEF Shut
  <2>1. ShutInv /\ UNCHANGED <<shut, broken>>
    BY <1>4 DEF MainStart, socketVars, userVars, threadVars
  <2>2. \A m \in Lives : mpc[m] = "exited" => mpc'[m] = "exited"
    BY <1>4 DEF MainStart
  <2>3. \A m \in Lives : lpc'[m] \in {"end", "exited"} => lpc[m] \in {"end", "exited"}
    BY <1>4 DEF MainStart
  <2> QED
    BY <2>1, <2>2, <2>3 DEF ShutInv
<1>5. ASSUME NEW l \in Lives, MainTake(l) PROVE Shut'
  <2> SUFFICES ASSUME ~overlap', ~raced' PROVE ShutInv'
    BY DEF Shut
  <2>1. ShutInv /\ UNCHANGED <<shut, lpc, broken>>
    BY <1>5 DEF MainTake, socketVars, userVars, listenVars, threadVars
  <2>2. \A m \in Lives : mpc[m] = "exited" => mpc'[m] = "exited"
    BY <1>5 DEF MainTake
  <2> QED
    BY <2>1, <2>2 DEF ShutInv
<1>6. ASSUME NEW l \in Lives, MainFinish(l) PROVE Shut'
  <2> SUFFICES ASSUME ~overlap', ~raced' PROVE ShutInv'
    BY DEF Shut
  <2>1. /\ ShutInv /\ ListenInv /\ AloneInv /\ UNCHANGED <<lpc, broken>>
        /\ mpc[l] = "sleep" /\ mpc' = [mpc EXCEPT ![l] = "exited"]
    BY <1>6 DEF MainFinish, userVars, listenVars, threadVars, OwnInv, ListenOwn, Alone
  <2>2. ASSUME NEW m \in shut', m \notin shut PROVE m = l
    <3> DEFINE s == SocketAt(ListenSocket)
    <3>1. s.kind = "listen" /\ m = s.of
      BY <1>6, <2>2 DEF MainFinish, ShutDown
    <3>2. s \in Sockets
      BY SocketTypes DEF SocketAt, ListenSocket
    <3>3. m \in Lives /\ s = Listen(m)
      BY <3>1, <3>2 DEF Sockets, Free, Listen, Server, Api
    <3>4. PICK f \in Fd : fds[f] = Listen(m)
      BY <3>3, SocketsDiffer DEF SocketAt, ListenSocket
    <3>5. lpc[m] \in Kept
      BY <2>1, <3>3, <3>4 DEF ListenInv
    <3>6. m = life
      BY <2>1, <3>3, <3>5, OnlyTheLast DEF Kept
    <3>7. l = life
      BY <2>1, OnlyTheLast
    <3> QED
      BY <3>6, <3>7
  <2>3. \A m \in Lives : mpc[m] = "exited" => mpc'[m] = "exited"
    BY <2>1
  <2>4. mpc'[l] = "exited"
    BY <2>1
  <2> QED
    BY <2>1, <2>2, <2>3, <2>4 DEF ShutInv
<1>7. ASSUME NEW l \in Lives, ListenSocketCreate(l) PROVE Shut'
  <2> SUFFICES ASSUME ~overlap', ~raced' PROVE ShutInv'
    BY DEF Shut
  <2>1. ShutInv /\ UNCHANGED <<mpc, shut, broken>>
    BY <1>7 DEF ListenSocketCreate, userVars, threadVars
  <2>2. \A m \in Lives : lpc'[m] \in {"end", "exited"} => lpc[m] \in {"end", "exited"}
    BY <1>7 DEF ListenSocketCreate
  <2> QED
    BY <2>1, <2>2 DEF ShutInv
<1>8. ASSUME NEW l \in Lives, ListenUnlink(l) PROVE Shut'
  <2> SUFFICES ASSUME ~overlap', ~raced' PROVE ShutInv'
    BY DEF Shut
  <2>1. ShutInv /\ UNCHANGED <<mpc, shut, broken>>
    BY <1>8 DEF ListenUnlink, userVars, threadVars
  <2>2. \A m \in Lives : lpc'[m] \in {"end", "exited"} => lpc[m] \in {"end", "exited"}
    BY <1>8 DEF ListenUnlink
  <2> QED
    BY <2>1, <2>2 DEF ShutInv
<1>9. ASSUME NEW l \in Lives, ListenBind(l) PROVE Shut'
  <2> SUFFICES ASSUME ~overlap', ~raced' PROVE ShutInv'
    BY DEF Shut
  <2>1. ShutInv /\ PathInv /\ AloneInv /\ UNCHANGED <<mpc, shut>> /\ lpc[l] = "bind"
    BY <1>9 DEF ListenBind, userVars, threadVars, Paths, Alone
  <2>2. path = 0
    <3>1. l = life
      BY <2>1, OnlyTheLast
    <3> QED
      BY <2>1, <3>1 DEF PathInv, Lives
  <2>3. \/ lpc' = [lpc EXCEPT ![l] = "accept"] /\ broken' = broken
        \/ lpc' = [lpc EXCEPT ![l] = "end"] /\ broken' = broken \union {l}
    BY <1>9, <2>2 DEF ListenBind
  <2> QED
    BY <2>1, <2>3 DEF ShutInv
<1>10. ASSUME NEW l \in Lives, ListenAccept(l) PROVE Shut'
  <2> SUFFICES ASSUME ~overlap', ~raced' PROVE ShutInv'
    BY DEF Shut
  <2>1. ShutInv /\ UNCHANGED <<mpc, shut, broken>>
    BY <1>10 DEF ListenAccept, userVars, threadVars, SocknewSet
  <2>2. \A m \in Lives : lpc'[m] \in {"end", "exited"} => lpc[m] \in {"end", "exited"}
    BY <1>10 DEF ListenAccept, AfterAccept
  <2> QED
    BY <2>1, <2>2 DEF ShutInv
<1>11. ASSUME NEW l \in Lives, ListenStops(l) PROVE Shut'
  <2> SUFFICES ASSUME ~overlap', ~raced' PROVE ShutInv'
    BY DEF Shut
  <2>1. ListenLeft(l) /\ ~raced /\ broken \subseteq broken'
    BY <1>11, StopsTo
  <2>2. ShutInv /\ ListenInv /\ UNCHANGED <<mpc, shut>> /\ lpc[l] = "accept"
    BY <2>1 DEF ListenLeft, userVars, OwnInv, ListenOwn
  <2>3. SocketAt(sockl[l]) = Listen(l)
    <3>1. sockl[l] \in Fd /\ fds[sockl[l]] = Listen(l)
      BY <2>2 DEF ListenInv, Kept
    <3> QED
      BY <3>1, Numbers DEF SocketAt
  <2>4. mpc[l] = "exited" \/ l \in broken'
    BY <1>11, <2>2, <2>3 DEF ListenStops, AcceptFails, ListenFails, ShutInv
  <2>5. \A m \in Lives : m # l => lpc'[m] = lpc[m]
    BY <2>1 DEF ListenLeft
  <2> QED
    BY <2>1, <2>2, <2>4, <2>5 DEF ShutInv
<1>12. ASSUME NEW l \in Lives, ListenEnd(l) PROVE Shut'
  <2> SUFFICES ASSUME ~overlap', ~raced' PROVE ShutInv'
    BY DEF Shut
  <2>1. ShutInv /\ UNCHANGED <<mpc, broken>> /\ shut' \subseteq shut /\ lpc[l] = "end"
    BY <1>12 DEF ListenEnd, userVars
  <2>2. \A m \in Lives : m # l => lpc'[m] = lpc[m]
    BY <1>12 DEF ListenEnd
  <2> QED
    BY <2>1, <2>2 DEF ShutInv
<1>13. ASSUME NEW l \in Lives, ListenSocketFails(l) PROVE Shut'
  <2> SUFFICES ASSUME ~overlap', ~raced' PROVE ShutInv'
    BY DEF Shut
  <2>1. ShutInv /\ UNCHANGED <<mpc, shut>> /\ broken' = broken \union {l}
    BY <1>13 DEF ListenSocketFails, socketVars, userVars, threadVars
  <2>2. \A m \in Lives : m # l => lpc'[m] = lpc[m]
    BY <1>13 DEF ListenSocketFails
  <2> QED
    BY <2>1, <2>2 DEF ShutInv
<1> QED
  BY <1>1, <1>2, <1>3, <1>4, <1>5, <1>6, <1>7, <1>8, <1>9, <1>10, <1>11, <1>12,
    <1>13

LEMMA ShutInvariant == Spec => []Shut
<1>1. Init => Shut
  BY DEF Init, Shut, ShutInv
<1> QED
  BY TypeInvariant, OwnInvariant, AloneInvariant, PathInvariant, <1>1, NextShut, PTL DEF Spec

\* If hdmi_service_init fails, then because of a call of socket, bind, listen or
\* accept that failed by itself or for want of a descriptor, or because its
\* listen thread was too slow for it, or because the service had already been
\* asked to end (hdmi_service.c:928, socket.c:177-236 and 298-339): nothing else
\* that an earlier life left behind lets it fail, as long as lives do not
\* overlap, no HDMI_EXIT is sent twice and no thread has the wrong descriptor.
THEOREM InitFailsOnlyIfLate == Spec => FailsOnlyIfLate
<1> DEFINE Inv == TypeInv /\ OwnInv /\ Exits /\ Paths /\ Shut
<1>1. Inv /\ [Next]_vars =>
        [ user = "starting" /\ user' = "failed"
            => \/ Listening \/ life \in broken
               \/ lpc[life] \in {"none", "start", "unlink", "bind"} \/ life \in asked
               \/ overlap \/ late \/ raced ]_vars
  <2> SUFFICES ASSUME Inv, [Next]_vars, user = "starting", user' = "failed",
                      ~Listening, life \notin broken,
                      lpc[life] \notin {"none", "start", "unlink", "bind"},
                      ~overlap, ~late, ~raced
               PROVE  life \in asked
    OBVIOUS
  <2>1. life \in Lives
    BY DEF TypeInv, LifeInv, AskedInv, TypeOK, UserTypeOK, Lives
  <2>2. mpc[life] = "exited"
    <3>1. CASE lpc[life] = "accept"
      <4>1. path = life
        BY <2>1, <3>1 DEF Paths, PathInv, Lives
      <4>2. life \in shut
        BY <2>1, <3>1, <4>1 DEF Listening, Lives
      <4> QED
        BY <4>2 DEF Shut, ShutInv
    <3>2. CASE lpc[life] \in {"end", "exited"}
      BY <2>1, <3>2 DEF Shut, ShutInv
    <3> QED
      BY <2>1, <3>1, <3>2 DEF TypeInv, TypeOK, ServiceTypeOK
  <2> QED
    BY <2>1, <2>2 DEF Exits, ExitInv
<1> QED
  BY TypeInvariant, OwnInvariant, ExitInvariant, PathInvariant, ShutInvariant, <1>1, PTL
     DEF Spec, FailsOnlyIfLate

-----------------------------------------------------------------------------
(* The caller of the API, when nobody else is connected.                    *)

\* No client but hdmi_service_init, no thread of an earlier life, and none with
\* a wrong descriptor.
NobodyElse == ~lingered /\ ~overlap /\ ~raced /\ CallerAlone

\* The only client thread at work is the one of the last life's connection.
OneThreadInv == \A l \in Lives : l < life => tpc[l] \in {"none", "exited"}

\* What waits for accept is the connection of the life itself.
OwnBacklogInv == \A l \in Lives : \A i \in 1 .. Len(backlog[l]) : backlog[l][i] = l

\* What its thread reads from is clientsocket.
NotifyInv == life > 0 /\ tpc[life] = "read" => clientsocket = sock[life]

CallerInv == OneThreadInv /\ OwnBacklogInv /\ NotifyInv

Caller == NobodyElse => CallerInv

BaseInv == TypeInv /\ ConnInv /\ OwnInv /\ Alone

LEMMA CallerFacts ==
  BaseInv /\ NobodyElse => ListenInv /\ ServeInv /\ AloneInv
BY DEF BaseInv, NobodyElse, OwnInv, ListenOwn, ServeOwn, Alone

LEMMA OnlyTheCaller ==
  ASSUME BaseInv, NobodyElse, CallerInv, NEW c \in Conns, tpc[c] \notin {"none", "exited"}
  PROVE  c = life /\ life \in Lives
<1>1. link[c] # "idle"
  BY DEF BaseInv, ConnInv, IdleInv
<1>2. c \in Lives
  BY <1>1 DEF NobodyElse, CallerAlone, Conns
<1>3. ~(c > life)
  BY <1>1, <1>2 DEF BaseInv, ConnInv, FreshInv
<1>4. ~(c < life)
  BY <1>2 DEF CallerInv, OneThreadInv
<1> QED
  BY <1>2, <1>3, <1>4 DEF Lives, BaseInv, TypeInv, TypeOK, UserTypeOK

\* The connection that is accepted is that of the last life, which has no
\* thread yet.
LEMMA AcceptsTheCaller ==
  ASSUME BaseInv, NobodyElse, CallerInv, NEW l \in Lives, ListenAccept(l)
  PROVE  l = life /\ Head(backlog[l]) = l /\ tpc[l] = "none"
<1>1. lpc[l] = "accept" /\ backlog[l] # <<>> /\ backlog' = [backlog EXCEPT ![l] = Tail(@)]
  BY DEF ListenAccept
<1>2. l = life
  BY <1>1, CallerFacts, OnlyTheLast DEF BaseInv
<1>3. Head(backlog[l]) = l
  <2>1. backlog[l] \in Seq(Conns)
    BY DEF BaseInv, TypeInv, TypeOK, SocketTypeOK
  <2>2. 1 \in 1 .. Len(backlog[l]) /\ Head(backlog[l]) = backlog[l][1]
    BY <1>1, <2>1
  <2> QED
    BY <2>2 DEF CallerInv, OwnBacklogInv
<1>4. tpc[Head(backlog[l])] = "none"
  BY <1>1, LeavesBacklog DEF BaseInv
<1> QED
  BY <1>2, <1>3, <1>4

LEMMA StaysAlone == TypeInv /\ [Next]_vars /\ NobodyElse' => NobodyElse
<1> SUFFICES ASSUME TypeInv, [Next]_vars, NobodyElse' PROVE NobodyElse
  OBVIOUS
<1>1. \/ UNCHANGED <<lingered, overlap, raced>>
      \/ InitService
      \/ \E l \in Lives : ListenAccept(l)
      \/ \E l \in Lives : ListenStops(l)
      \/ \E l \in Lives : ListenEnd(l)
  BY NextCases DEF ListenSocketFails, ConnectService, ExitService, ClientConnect,
    ClientExit, ClientClose, MainStart, MainTake, MainFinish, ListenSocketCreate,
    ListenUnlink, ListenBind, ThreadStart, ThreadCommand, ThreadExit, ThreadEnd,
    ThreadClose, ThreadReset, vars, userVars, threadVars
<1> USE DEF NobodyElse
<1>2. ASSUME UNCHANGED <<lingered, overlap, raced>> PROVE ~lingered /\ ~overlap /\ ~raced
  BY <1>2
<1>3. ASSUME InitService PROVE ~lingered /\ ~overlap /\ ~raced
  BY <1>3 DEF InitService, threadVars
<1>4. ASSUME NEW l \in Lives, ListenAccept(l) PROVE ~lingered /\ ~overlap /\ ~raced
  BY <1>4 DEF ListenAccept, SocknewSet, userVars
<1>5. ASSUME NEW l \in Lives, ListenStops(l) PROVE ~lingered /\ ~overlap /\ ~raced
  BY <1>5, StopsTo DEF ListenLeft, userVars
<1>6. ASSUME NEW l \in Lives, ListenEnd(l) PROVE ~lingered /\ ~overlap /\ ~raced
  BY <1>6 DEF ListenEnd, userVars
<1>7. CallerAlone
  BY StaysConnected, Numbers DEF CallerAlone
<1>8. ~lingered /\ ~overlap /\ ~raced
  BY <1>1, <1>2, <1>3, <1>4, <1>5, <1>6
<1> QED
  BY <1>7, <1>8

LEMMA NextOneThread ==
  BaseInv /\ NobodyElse /\ CallerInv /\ NobodyElse' /\ [Next]_vars =>
    OneThreadInv'
<1> SUFFICES ASSUME BaseInv, NobodyElse, CallerInv, NobodyElse', [Next]_vars PROVE OneThreadInv'
  OBVIOUS
<1>1. \/ UNCHANGED <<life, tpc>>
      \/ InitService
      \/ \E l \in Lives : ListenAccept(l)
      \/ \E c \in Conns : ThreadStart(c)
      \/ \E c \in Conns : ThreadExit(c)
      \/ \E c \in Conns : ThreadEnd(c)
      \/ \E c \in Conns : ThreadClose(c)
      \/ \E c \in Conns : ThreadReset(c)
  BY NextCases DEF ListenSocketFails, ConnectService, ExitService, ClientConnect,
    ClientExit, ClientClose, MainStart, MainTake, MainFinish, ListenSocketCreate,
    ListenUnlink, ListenBind, ListenStops, AcceptFails, ListenFails, ListenLeft,
    ListenEnd, ThreadCommand, vars, userVars, threadVars
<1>2. CASE UNCHANGED <<life, tpc>>
  BY <1>2 DEF CallerInv, OneThreadInv
<1>3. CASE InitService
  <2>1. tpc' = tpc /\ lingered' = (lingered \/ \E c \in Conns : tpc[c] \notin {"none", "exited"})
    BY <1>3 DEF InitService, threadVars
  <2>2. ~lingered'
    BY DEF NobodyElse
  <2> QED
    BY <2>1, <2>2, Numbers DEF OneThreadInv
<1>4. ASSUME NEW l \in Lives, ListenAccept(l) PROVE OneThreadInv'
  <2>1. l = life /\ Head(backlog[l]) = l
    BY <1>4, AcceptsTheCaller
  <2>2. life' = life /\ tpc' = [tpc EXCEPT ![l] = "new"]
    BY <1>4, <2>1 DEF ListenAccept, userVars
  <2> QED
    BY <2>1, <2>2 DEF CallerInv, OneThreadInv, Lives
<1>5. ASSUME NEW c \in Conns, ThreadStart(c) PROVE OneThreadInv'
  <2>1. life' = life /\ tpc[c] \notin {"none", "exited"} /\ tpc' = [tpc EXCEPT ![c] = "read"]
    BY <1>5 DEF ThreadStart, userVars
  <2>2. c = life
    BY <2>1, OnlyTheCaller
  <2> QED
    BY <2>1, <2>2 DEF CallerInv, OneThreadInv, Lives
<1>6. ASSUME NEW c \in Conns, ThreadExit(c) PROVE OneThreadInv'
  <2>1. life' = life /\ tpc[c] \notin {"none", "exited"} /\ tpc' = [tpc EXCEPT ![c] = "close"]
    BY <1>6 DEF ThreadExit, userVars
  <2>2. c = life
    BY <2>1, OnlyTheCaller
  <2> QED
    BY <2>1, <2>2 DEF CallerInv, OneThreadInv, Lives
<1>7. ASSUME NEW c \in Conns, ThreadEnd(c) PROVE OneThreadInv'
  <2>1. life' = life /\ tpc[c] \notin {"none", "exited"} /\ tpc' = [tpc EXCEPT ![c] = "close"]
    BY <1>7 DEF ThreadEnd, userVars
  <2>2. c = life
    BY <2>1, OnlyTheCaller
  <2> QED
    BY <2>1, <2>2 DEF CallerInv, OneThreadInv, Lives
<1>8. ASSUME NEW c \in Conns, ThreadClose(c) PROVE OneThreadInv'
  <2>1. life' = life /\ tpc[c] \notin {"none", "exited"} /\ tpc' = [tpc EXCEPT ![c] = "reset"]
    BY <1>8 DEF ThreadClose, userVars
  <2>2. c = life
    BY <2>1, OnlyTheCaller
  <2> QED
    BY <2>1, <2>2 DEF CallerInv, OneThreadInv, Lives
<1>9. ASSUME NEW c \in Conns, ThreadReset(c) PROVE OneThreadInv'
  <2>1. life' = life /\ tpc[c] \notin {"none", "exited"} /\ tpc' = [tpc EXCEPT ![c] = "exited"]
    BY <1>9 DEF ThreadReset, userVars
  <2>2. c = life
    BY <2>1, OnlyTheCaller
  <2> QED
    BY <2>1, <2>2 DEF CallerInv, OneThreadInv, Lives
<1> QED
  BY <1>1, <1>2, <1>3, <1>4, <1>5, <1>6, <1>7, <1>8, <1>9

LEMMA NextOwnBacklog ==
  BaseInv /\ NobodyElse /\ CallerInv /\ NobodyElse' /\ [Next]_vars =>
    OwnBacklogInv'
<1> SUFFICES ASSUME BaseInv, NobodyElse, CallerInv, NobodyElse', [Next]_vars PROVE OwnBacklogInv'
  OBVIOUS
<1>1. \/ UNCHANGED <<backlog>>
      \/ ConnectService
      \/ \E c \in Clients : ClientConnect(c)
      \/ \E l \in Lives : ListenAccept(l)
      \/ \E l \in Lives : ListenStops(l)
  BY NextCases DEF ListenSocketFails, InitService, ExitService, ClientExit,
    ClientClose, MainStart, MainTake, MainFinish, ListenSocketCreate, ListenUnlink,
    ListenBind, ListenEnd,
    ThreadStart, ThreadCommand, ThreadExit, ThreadEnd, ThreadClose, ThreadReset,
    vars, socketVars
<1>2. CASE UNCHANGED <<backlog>>
  BY <1>2 DEF CallerInv, OwnBacklogInv
<1>3. CASE ConnectService
  <2>1. CASE user' = "ready"
    <3>1. path \in Lives /\ lpc[path] = "accept"
      BY <1>3, <2>1 DEF ConnectService, Listening, Lives, BaseInv, TypeInv, TypeOK, SocketTypeOK
    <3>2. path = life
      BY <3>1, CallerFacts, OnlyTheLast DEF BaseInv
    <3>3. backlog' = [backlog EXCEPT ![life] = Append(backlog[life], life)]
      BY <1>3, <2>1, <3>2 DEF ConnectService, Connected
    <3>4. backlog \in [Lives -> Seq(Conns)] /\ life \in Conns
      BY <3>1, <3>2, Numbers DEF BaseInv, TypeInv, TypeOK, SocketTypeOK
    <3> SUFFICES ASSUME NEW l \in Lives, NEW i \in 1 .. Len(backlog'[l]) PROVE backlog'[l][i] = l
      BY DEF OwnBacklogInv
    <3>5. CASE l = life
      BY <3>3, <3>4, <3>5 DEF CallerInv, OwnBacklogInv
    <3>6. CASE l # life
      BY <3>3, <3>4, <3>6 DEF CallerInv, OwnBacklogInv
    <3> QED
      BY <3>5, <3>6
  <2>2. CASE user' # "ready"
    BY <1>3, <2>2 DEF ConnectService, CallerInv, OwnBacklogInv
  <2> QED
    BY <2>1, <2>2
<1>4. ASSUME NEW c \in Clients, ClientConnect(c) PROVE OwnBacklogInv'
  <2>1. link' = [link EXCEPT ![c] = "up"]
    BY <1>4 DEF ClientConnect, Connected
  <2>2. link'[c] = "up"
    BY <2>1, Numbers DEF BaseInv, TypeInv, TypeOK, SocketTypeOK
  <2> QED
    BY <2>2 DEF NobodyElse, CallerAlone
<1>5. ASSUME NEW l \in Lives, ListenAccept(l) PROVE OwnBacklogInv'
  <2>1. backlog[l] # <<>> /\ backlog' = [backlog EXCEPT ![l] = Tail(@)]
    BY <1>5 DEF ListenAccept
  <2>2. \A m \in Lives : \A i \in 1 .. Len(backlog'[m]) :
          /\ PlaceBefore(l, m, i) \in 1 .. Len(backlog[m])
          /\ backlog'[m][i] = backlog[m][PlaceBefore(l, m, i)]
          /\ backlog'[m][i] \in Conns \ {Head(backlog[l])}
    <3>1. TypeInv /\ ConnInv
      BY DEF BaseInv
    <3> QED
      BY <2>1, <3>1, LeavesBacklog
  <2> QED
    BY <2>2 DEF CallerInv, OwnBacklogInv
<1>6. ASSUME NEW l \in Lives, ListenStops(l) PROVE OwnBacklogInv'
  <2>1. backlog' = [backlog EXCEPT ![l] = <<>>]
    BY <1>6, StopsTo DEF ListenLeft
  <2>2. \A m \in Lives : m # l => backlog'[m] = backlog[m]
    BY <2>1
  <2>3. Len(backlog'[l]) = 0
    BY <2>1 DEF BaseInv, TypeInv, TypeOK, SocketTypeOK
  <2> QED
    BY <2>2, <2>3 DEF CallerInv, OwnBacklogInv
<1> QED
  BY <1>1, <1>2, <1>3, <1>4, <1>5, <1>6

LEMMA NextNotify ==
  BaseInv /\ NobodyElse /\ CallerInv /\ NobodyElse' /\ [Next]_vars =>
    NotifyInv'
<1> SUFFICES ASSUME BaseInv, NobodyElse, CallerInv, NobodyElse', [Next]_vars PROVE NotifyInv'
  OBVIOUS
<1>1. \/ UNCHANGED <<life, tpc, clientsocket, sock>>
      \/ InitService
      \/ \E l \in Lives : ListenAccept(l)
      \/ \E c \in Conns : ThreadStart(c)
      \/ \E c \in Conns : ThreadExit(c)
      \/ \E c \in Conns : ThreadEnd(c)
      \/ \E c \in Conns : ThreadClose(c)
      \/ \E c \in Conns : ThreadReset(c)
  BY NextCases DEF ListenSocketFails, ConnectService, ExitService, ClientConnect,
    ClientExit, ClientClose, MainStart, MainTake, MainFinish, ListenSocketCreate,
    ListenUnlink, ListenBind, ListenStops, AcceptFails, ListenFails, ListenLeft,
    ListenEnd, ThreadCommand, vars, userVars, threadVars
<1>2. CASE UNCHANGED <<life, tpc, clientsocket, sock>>
  BY <1>2 DEF CallerInv, NotifyInv
<1>3. CASE InitService
  <2>1. life' = life + 1 /\ life' \in Lives /\ tpc' = tpc
    BY <1>3, LivesAssumption DEF InitService, threadVars, Lives, BaseInv, TypeInv, TypeOK, UserTypeOK
  <2>2. link[life'] = "idle"
    BY <2>1 DEF BaseInv, ConnInv, FreshInv, Lives, TypeInv, TypeOK, UserTypeOK
  <2>3. tpc[life'] = "none"
    BY <2>1, <2>2, Numbers DEF BaseInv, ConnInv, IdleInv
  <2> QED
    BY <2>1, <2>3 DEF NotifyInv
<1>4. ASSUME NEW l \in Lives, ListenAccept(l) PROVE NotifyInv'
  <2>1. l = life /\ Head(backlog[l]) = l
    BY <1>4, AcceptsTheCaller
  <2>2. life' = life /\ tpc' = [tpc EXCEPT ![l] = "new"]
    BY <1>4, <2>1 DEF ListenAccept, userVars
  <2>3. tpc'[life'] = "new"
    BY <2>1, <2>2, Numbers DEF BaseInv, TypeInv, TypeOK, ThreadTypeOK
  <2> QED
    BY <2>3 DEF NotifyInv
<1>5. ASSUME NEW c \in Conns, ThreadStart(c) PROVE NotifyInv'
  <2>1. life' = life /\ tpc[c] = "new"
    BY <1>5 DEF ThreadStart, userVars
  <2>2. PICK f \in Argument(c) : sock' = [sock EXCEPT ![c] = f] /\ clientsocket' = f
    BY <1>5 DEF ThreadStart, ClientSocketSet
  <2>3. c = life
    BY <2>1, OnlyTheCaller
  <2>4. sock'[life] = clientsocket'
    BY <2>2, <2>3 DEF BaseInv, TypeInv, TypeOK, ThreadTypeOK
  <2> QED
    BY <2>1, <2>4 DEF NotifyInv
<1>6. ASSUME NEW c \in Conns, ThreadExit(c) PROVE NotifyInv'
  <2>1. life' = life /\ tpc[c] \notin {"none", "exited"} /\ tpc' = [tpc EXCEPT ![c] = "close"]
    BY <1>6 DEF ThreadExit, userVars
  <2>2. c = life
    BY <2>1, OnlyTheCaller
  <2>3. tpc'[life] = "close"
    BY <2>1, <2>2 DEF BaseInv, TypeInv, TypeOK, ThreadTypeOK
  <2> QED
    BY <2>1, <2>3 DEF CallerInv, NotifyInv
<1>7. ASSUME NEW c \in Conns, ThreadEnd(c) PROVE NotifyInv'
  <2>1. life' = life /\ tpc[c] \notin {"none", "exited"} /\ tpc' = [tpc EXCEPT ![c] = "close"]
    BY <1>7 DEF ThreadEnd, userVars
  <2>2. c = life
    BY <2>1, OnlyTheCaller
  <2>3. tpc'[life] = "close"
    BY <2>1, <2>2 DEF BaseInv, TypeInv, TypeOK, ThreadTypeOK
  <2> QED
    BY <2>1, <2>3 DEF CallerInv, NotifyInv
<1>8. ASSUME NEW c \in Conns, ThreadClose(c) PROVE NotifyInv'
  <2>1. life' = life /\ tpc[c] \notin {"none", "exited"} /\ tpc' = [tpc EXCEPT ![c] = "reset"]
    BY <1>8 DEF ThreadClose, userVars
  <2>2. c = life
    BY <2>1, OnlyTheCaller
  <2>3. tpc'[life] = "reset"
    BY <2>1, <2>2 DEF BaseInv, TypeInv, TypeOK, ThreadTypeOK
  <2> QED
    BY <2>1, <2>3 DEF CallerInv, NotifyInv
<1>9. ASSUME NEW c \in Conns, ThreadReset(c) PROVE NotifyInv'
  <2>1. life' = life /\ tpc[c] \notin {"none", "exited"} /\ tpc' = [tpc EXCEPT ![c] = "exited"]
    BY <1>9 DEF ThreadReset, userVars
  <2>2. c = life
    BY <2>1, OnlyTheCaller
  <2>3. tpc'[life] = "exited"
    BY <2>1, <2>2 DEF BaseInv, TypeInv, TypeOK, ThreadTypeOK
  <2> QED
    BY <2>1, <2>3 DEF CallerInv, NotifyInv
<1> QED
  BY <1>1, <1>2, <1>3, <1>4, <1>5, <1>6, <1>7, <1>8, <1>9

LEMMA CallerInvariant == Spec => []Caller
<1>1. Init => Caller
  <2>1. Init => \A l \in Lives : Len(backlog[l]) = 0
    BY DEF Init
  <2> QED
    BY <2>1 DEF Init, Caller, CallerInv, OneThreadInv, OwnBacklogInv, NotifyInv, Lives
<1>2. BaseInv /\ Caller /\ [Next]_vars => Caller'
  <2> SUFFICES ASSUME BaseInv, Caller, [Next]_vars, NobodyElse' PROVE CallerInv'
    BY DEF Caller
  <2>1. NobodyElse /\ CallerInv
    BY StaysAlone DEF BaseInv, Caller
  <2> QED
    BY <2>1, NextOneThread, NextOwnBacklog, NextNotify DEF CallerInv
<1> QED
  BY TypeInvariant, ConnInvariant, OwnInvariant, AloneInvariant, <1>1, <1>2, PTL
     DEF Spec, BaseInv

\* "Return value: socket number where events will be notified"
\* (hdmi_service_api.c:42) holds for every life of the service, as long as
\* nobody but its caller connects, lives do not overlap and no thread has the
\* wrong descriptor: the thread that serves the caller's connection is the one
\* whose descriptor the main thread sends to.
THEOREM CallerIsNotified == Spec => []NotifiesCaller
<1>1. BaseInv /\ Caller => NotifiesCaller
  <2> SUFFICES ASSUME BaseInv, Caller, NobodyElse, life > 0, tpc[life] = "read"
               PROVE  SocketAt(clientsocket) = Server(life)
    BY DEF NotifiesCaller, NobodyElse
  <2>1. CallerInv /\ life \in Conns
    BY Numbers DEF Caller, BaseInv, TypeInv, TypeOK, UserTypeOK, Lives
  <2>2. clientsocket = sock[life] /\ Serving(life) /\ Held(life) = sock[life]
    BY <2>1 DEF CallerInv, NotifyInv, Serving, Held
  <2>3. sock[life] \in Fd /\ fds[sock[life]] = Server(life)
    BY <2>1, <2>2, CallerFacts DEF ServeInv
  <2> QED
    BY <2>2, <2>3, Numbers DEF SocketAt
<1> QED
  BY TypeInvariant, ConnInvariant, OwnInvariant, AloneInvariant, CallerInvariant, <1>1, PTL
     DEF BaseInv

=============================================================================
