------------------------ MODULE HdmiServiceRefinement ------------------------
(***************************************************************************)
(* Every step of the threads is a step of CommandService or a stutter, for  *)
(* every set of clients, commands and faults.                               *)
(***************************************************************************)
EXTENDS HdmiServiceProofs, SequenceTheorems

LEMMA ConsOfHead ==
  ASSUME NEW S, NEW s \in Seq(S), s # <<>>
  PROVE  <<Head(s)>> \o Tail(s) = s
<1>1. Head(s) \in S /\ Tail(s) \in Seq(S) /\ Len(Tail(s)) = Len(s) - 1
  BY HeadTailProperties
<1>2. <<Head(s)>> \in Seq(S) /\ Len(<<Head(s)>>) = 1
  BY <1>1
<1>3. /\ <<Head(s)>> \o Tail(s) \in Seq(S)
      /\ Len(<<Head(s)>> \o Tail(s)) = Len(s)
  BY <1>1, <1>2, ConcatProperties, LenProperties
<1>4. ASSUME NEW i \in 1 .. Len(s)
      PROVE  (<<Head(s)>> \o Tail(s))[i] = s[i]
  BY <1>1, <1>2, ConcatProperties, HeadTailProperties, LenProperties
<1> QED BY <1>3, <1>4, SeqEqual, LenProperties

LEMMA HeadOfCons ==
  ASSUME NEW S, NEW e \in S, NEW s \in Seq(S)
  PROVE  /\ <<e>> \o s # <<>>
         /\ Head(<<e>> \o s) = e
         /\ Tail(<<e>> \o s) = s
<1> DEFINE t == <<e>> \o s
<1>1. <<e>> \in Seq(S) /\ Len(<<e>>) = 1
  OBVIOUS
<1>2. /\ t \in Seq(S)
      /\ Len(t) = 1 + Len(s)
      /\ \A i \in 1 .. 1 + Len(s) : t[i] = IF i <= 1 THEN <<e>>[i] ELSE s[i - 1]
  BY <1>1, ConcatProperties
<1>3. Len(s) \in Nat
  BY LenProperties
<1>4. t # <<>> /\ t[1] = e
  BY <1>2, <1>3
<1>5. /\ Tail(t) \in Seq(S)
      /\ Len(Tail(t)) = Len(s)
      /\ \A i \in 1 .. Len(s) : Tail(t)[i] = t[i + 1]
  <2> HIDE DEF t
  <2> QED BY <1>2, <1>3, <1>4, HeadTailProperties
<1>6. \A i \in 1 .. Len(s) : Tail(t)[i] = s[i]
  <2> HIDE DEF t
  <2> QED BY <1>2, <1>3, <1>5
<1>7. Tail(t) = s
  <2> HIDE DEF t
  <2> QED BY <1>5, <1>6, SeqEqual
<1> QED BY <1>4, <1>7

LEMMA AppendToCons ==
  ASSUME NEW S, NEW e \in S, NEW s \in Seq(S), NEW k \in S
  PROVE  <<e>> \o Append(s, k) = Append(<<e>> \o s, k)
  OBVIOUS

-----------------------------------------------------------------------------
\* The second half of HDMI_FB_RELEASE is reached from the first only.
SubscribeInv == mpc = "subscribe" => cmd_obj = "FB_RELEASE"

\* See SubscribeInv.
LEMMA SubscribeInvariant == Spec => []SubscribeInv
<1>1. Init => SubscribeInv
  BY DEF Init, DriverInit, SubscribeInv
<1>2. SubscribeInv /\ [Next]_vars => SubscribeInv'
  <2> SUFFICES ASSUME SubscribeInv, [Next]_vars PROVE SubscribeInv'
    OBVIOUS
  <2> USE DEF SubscribeInv, driverVars, sharedVars, plugVars, mainVars,
              keventVars, clientVars, Fail
  <2>1. CASE MainRelease BY <2>1 DEF MainRelease, FbClose
  <2>2. CASE KSignal BY <2>2 DEF KSignal, HdmiEvent, AfterSignal
  <2>3. CASE MainWait \/ MainSpuriousWakeup \/ MainTake \/ MainPlugged \/
         MainUnplugged \/ MainNoPlugEvent \/ MainEdid \/ MainFb \/ MainNotify
         \/ MainDispatch \/ MainPop \/ MainRefuse \/ MainHandle \/ MainDisable
         \/ MainSubscribe \/ MainExit \/ MainWakeup \/ MainFinish \/ KOpen \/
         KRead \/ KReadFails \/ KPoll \/ KClear
    BY <2>3 DEF MainWait, MainSpuriousWakeup, MainTake, MainPlugged,
           AlreadyPlugged, FbOpened, MainUnplugged, MainNoPlugEvent, MainEdid,
           MainFb, MainNotify, MainDispatch, MainPop, MainRefuse, MainHandle,
           NextCmd, MainDisable, FbClose, MainSubscribe, EnablePlugDetection,
           PlugReported, Accumulated, PlugBits, MainExit, MainWakeup,
           WakeupWritten, MainFinish, WakeupUnderWay, KOpen, KRead,
           KReadFails, KPoll, KClear
  <2>4. ASSUME NEW c \in Clients, ClientStep(c) \/ UserStep(c)
        PROVE  SubscribeInv'
    BY <2>4 DEF ClientStep, UserStep, CmdAdd, CmdSignal, HdmiEvent, Queued,
       Connect, Disconnect, Receive
  <2>5. CASE DriverStep
    BY <2>5 DEF DriverStep, PlugIn, PlugOut, SetCable, ChipEvent,
       PlugReported, Accumulated, PlugBits
  <2>6. CASE UNCHANGED vars BY <2>6 DEF vars
  <2> QED
    BY <2>1, <2>2, <2>3, <2>4, <2>5, <2>6
       DEF Next, MainStep, KeventStep
<1> QED BY <1>1, <1>2, PTL DEF Spec

Inv == TypeOK /\ EventsInv /\ SubscribeInv

\* A step that CommandService does not see.
Invisible == UNCHANGED <<CommandQueue, Stalled, Running>>

\* What CommandService calls the queue, with and without a command in hand.
LEMMA QueueInHand ==
  ASSUME Inv, mpc \in {"handle", "subscribe"}
  PROVE  /\ Running = TRUE
         /\ Stalled = FALSE
         /\ CommandQueue = <<cmd_obj>> \o cmd_data
         /\ CommandQueue # <<>>
         /\ Head(CommandQueue) = cmd_obj
         /\ Tail(CommandQueue) = cmd_data
<1>1. /\ Running = TRUE
      /\ Stalled = FALSE
      /\ CommandQueue = <<cmd_obj>> \o cmd_data
  BY DEF Inv, TypeOK, MainTypeOK, Running, Stalled, CmdWork, CommandQueue
<1>2. cmd_obj \in Commands /\ cmd_data \in Seq(Commands)
  BY DEF Inv, TypeOK, MainTypeOK, SharedTypeOK
<1> QED BY <1>1, <1>2, HeadOfCons

LEMMA QueueNotInHand ==
  ASSUME cmd_data \in Seq(Commands), cmd_obj = NoCmd, Running
  PROVE  CommandQueue = cmd_data
  BY ConcatEmptySeq DEF CommandQueue

\* Steps that touch neither the list nor the command in hand.
LEMMA OtherSteps ==
  ASSUME Inv,
         \/ MainWait \/ MainSpuriousWakeup \/ MainTake \/ MainPlugged
         \/ MainUnplugged \/ MainNoPlugEvent \/ MainEdid \/ MainFb
         \/ MainNotify \/ MainDispatch \/ MainRelease \/ MainWakeup
         \/ MainFinish \/ KeventStep \/ DriverStep \/ UNCHANGED vars
  PROVE  Invisible
<1> USE DEF Inv, TypeOK, SharedTypeOK, MainTypeOK, KeventTypeOK, EventsInv,
            Invisible, CommandQueue, Stalled, CmdWork, Running, driverVars,
            sharedVars, plugVars, mainVars, keventVars, clientVars
<1>1. CASE MainWait BY <1>1 DEF MainWait
<1>2. CASE MainSpuriousWakeup BY <1>2 DEF MainSpuriousWakeup
<1>3. CASE MainTake BY <1>3 DEF MainTake
<1>4. CASE MainPlugged BY <1>4 DEF MainPlugged, AlreadyPlugged, FbOpened
<1>5. CASE MainUnplugged BY <1>5 DEF MainUnplugged
<1>6. CASE MainNoPlugEvent BY <1>6 DEF MainNoPlugEvent
<1>7. CASE MainEdid BY <1>7 DEF MainEdid
<1>8. CASE MainFb BY <1>8 DEF MainFb
<1>9. CASE MainNotify BY <1>9 DEF MainNotify
<1>10. CASE MainDispatch BY <1>10 DEF MainDispatch
<1>11. CASE MainRelease BY <1>11 DEF MainRelease, FbClose
<1>12. CASE MainWakeup BY <1>12 DEF MainWakeup, WakeupWritten, Accumulated
<1>13. CASE MainFinish BY <1>13 DEF MainFinish, WakeupUnderWay
<1>14. CASE KeventStep
  BY <1>14 DEF KeventStep, KOpen, KRead, KReadFails, KSignal, KPoll, KClear,
     HdmiEvent, AfterSignal, KernelBits, PlugBits, ChipBits
<1>15. CASE DriverStep BY <1>15 DEF DriverStep
<1>16. CASE UNCHANGED vars BY <1>16 DEF vars
<1> QED BY <1>1, <1>2, <1>3, <1>4, <1>5, <1>6, <1>7, <1>8, <1>9, <1>10, <1>11,
       <1>12, <1>13, <1>14, <1>15, <1>16

\* Taking the next command from the list only moves it within the queue.
LEMMA PopStep ==
  ASSUME Inv, MainPop
  PROVE  Invisible
<1>1. /\ cmd_data \in Seq(Commands)
      /\ mpc = "pop" /\ cmd_obj = NoCmd
      /\ Running = TRUE /\ Stalled = FALSE
  BY DEF Inv, TypeOK, SharedTypeOK, MainTypeOK, MainPop, Running, Stalled,
         CmdWork
<1>2. CommandQueue = cmd_data
  BY <1>1, QueueNotInHand
<1>3. Running' = TRUE /\ Stalled' = FALSE
  BY <1>1 DEF MainPop, Running, Stalled, CmdWork
<1>4. CASE cmd_data = <<>>
  <2>1. CommandQueue' = <<>> \o cmd_data
    BY <1>1, <1>3, <1>4 DEF MainPop, CommandQueue
  <2> QED BY <1>1, <1>2, <1>3, <2>1, ConcatEmptySeq DEF Invisible
<1>5. CASE cmd_data # <<>>
  <2>1. Head(cmd_data) # NoCmd
    BY <1>1, <1>5, NoCmdNotCommand, HeadTailProperties
  <2>2. CommandQueue' = <<Head(cmd_data)>> \o Tail(cmd_data)
    BY <1>3, <1>5, <2>1 DEF MainPop, CommandQueue
  <2> QED BY <1>1, <1>2, <1>3, <1>5, <2>2, ConsOfHead DEF Invisible
<1> QED BY <1>4, <1>5

\* A handled command leaves the queue; the others stay in their order.
LEMMA ServeStep ==
  ASSUME Inv, MainHandle \/ MainDisable \/ MainSubscribe
  PROVE  CS!Serve
<1>1. /\ mpc \in {"handle", "subscribe"}
      /\ cmd_obj # "EXIT"
      /\ mpc' = "pop" /\ cmd_obj' = NoCmd
      /\ UNCHANGED cmd_data
  BY DEF Inv, SubscribeInv, MainHandle, MainDisable, MainSubscribe, NextCmd,
         sharedVars
<1>2. cmd_data \in Seq(Commands)
  BY DEF Inv, TypeOK, SharedTypeOK
<1>3. Running' = TRUE /\ Stalled' = FALSE
  BY <1>1 DEF Running, Stalled, CmdWork
<1>4. CommandQueue' = cmd_data
  <2>1. CommandQueue' = <<>> \o cmd_data
    BY <1>1, <1>3 DEF CommandQueue
  <2> QED BY <1>2, <2>1, ConcatEmptySeq
<1> QED BY <1>1, <1>3, <1>4, QueueInHand DEF CS!Serve

\* A refused command leaves the queue, too, and may leave it stalled.
LEMMA RefuseStep ==
  ASSUME Inv, MainRefuse
  PROVE  CS!Refuse
<1>1. /\ mpc = "handle"
      /\ cmd_obj # "EXIT"
      /\ mpc' = "check" /\ cmd_obj' = NoCmd
      /\ UNCHANGED cmd_data
  BY DEF MainRefuse, Allowed, PoweredCmds, sharedVars
<1>2. cmd_data \in Seq(Commands)
  BY DEF Inv, TypeOK, SharedTypeOK
<1>3. Running' = TRUE
  BY <1>1 DEF Running
<1>4. CommandQueue' = cmd_data
  <2>1. CommandQueue' = <<>> \o cmd_data
    BY <1>1, <1>3 DEF CommandQueue
  <2> QED BY <1>2, <2>1, ConcatEmptySeq
<1>5. Stalled' \in {FALSE, cmd_data # <<>>}
  BY <1>1 DEF Stalled
<1> QED BY <1>1, <1>3, <1>4, <1>5, QueueInHand DEF CS!Refuse

\* HDMI_EXIT closes the service.
LEMMA ExitStep ==
  ASSUME Inv, MainExit
  PROVE  CS!Close
<1>1. mpc = "handle" /\ cmd_obj = "EXIT" /\ mpc' = "wakeup"
  BY DEF MainExit
<1>2. Running' = FALSE /\ Stalled' = FALSE /\ CommandQueue' = <<>>
  BY <1>1 DEF Running, Stalled, CommandQueue
<1> QED BY <1>1, <1>2, QueueInHand DEF CS!Close

\* A client thread submits a command or signals for a lost one; its other
\* steps, and all its steps after the exit, are invisible.
LEMMA ClientSteps ==
  ASSUME Inv, NEW c \in Clients, ClientStep(c) \/ UserStep(c)
  PROVE  CS!Submit \/ CS!Nudge \/ Invisible
<1> USE DEF Inv, TypeOK, SharedTypeOK, MainTypeOK, ClientTypeOK, ClientPlaces,
            driverVars, sharedVars, plugVars, mainVars, keventVars, clientVars
<1>1. CASE UserStep(c)
  BY <1>1 DEF UserStep, Connect, Disconnect, Receive, Invisible, CommandQueue,
              Stalled, CmdWork, Running
<1>2. CASE CmdSignal(c)
  BY <1>2 DEF CmdSignal, HdmiEvent, Invisible, CommandQueue, Stalled, CmdWork,
              Running
<1>3. CASE CmdAdd(c) /\ ~Running
  BY <1>3 DEF CmdAdd, Invisible, CommandQueue, Stalled, Running
<1>4. CASE CmdAdd(c) /\ Running /\ cmd_data' = Queued(c)
  <2>1. Running' = TRUE /\ Stalled' = FALSE
    BY <1>4 DEF CmdAdd, Running, Stalled, CmdWork
  <2>2. ccmd[c] \in Commands
    BY <1>4 DEF CmdAdd
  <2>3. CommandQueue' = Append(CommandQueue, ccmd[c])
    <3>1. CASE cmd_obj = NoCmd
      <4>1. CommandQueue' = <<>> \o Append(cmd_data, ccmd[c])
        BY <1>4, <2>1, <3>1 DEF CmdAdd, CommandQueue, Queued
      <4> QED BY <1>4, <2>2, <3>1, <4>1, QueueNotInHand, ConcatEmptySeq
    <3>2. CASE cmd_obj # NoCmd
      <4>1. /\ CommandQueue = <<cmd_obj>> \o cmd_data
            /\ CommandQueue' = <<cmd_obj>> \o Append(cmd_data, ccmd[c])
        BY <1>4, <2>1, <3>2 DEF CmdAdd, CommandQueue, Queued
      <4>2. cmd_obj \in Commands /\ cmd_data \in Seq(Commands)
        BY <3>2
      <4> QED BY <2>2, <4>1, <4>2, AppendToCons
    <3> QED BY <3>1, <3>2
  <2> QED BY <1>4, <2>1, <2>2, <2>3 DEF CS!Submit
<1>5. CASE CmdAdd(c) /\ Running /\ UNCHANGED cmd_data
  BY <1>5 DEF CmdAdd, CS!Nudge, CommandQueue, Stalled, CmdWork, Running
<1> QED BY <1>1, <1>2, <1>3, <1>4, <1>5 DEF ClientStep, CmdAdd

\* The list, the event bits and the condition variable together serve the
\* commands first in, first out, each once (cmd_add, hdmi_eventcmd).
THEOREM CommandServiceCorrect == Spec => CS!Init /\ [][CS!Next]_(CS!csVars)
<1>1. Init => CS!Init
  BY DEF Init, CS!Init, CommandQueue, Stalled, Running
<1>2. Inv /\ [Next]_vars => [CS!Next]_(CS!csVars)
  <2> SUFFICES ASSUME Inv, [Next]_vars PROVE [CS!Next]_(CS!csVars)
    OBVIOUS
  <2>1. CASE MainPop BY <2>1, PopStep DEF Invisible, CS!csVars
  <2>2. CASE MainHandle \/ MainDisable \/ MainSubscribe
    BY <2>2, ServeStep DEF CS!Next
  <2>3. CASE MainRefuse BY <2>3, RefuseStep DEF CS!Next
  <2>4. CASE MainExit BY <2>4, ExitStep DEF CS!Next
  <2>5. ASSUME NEW c \in Clients, ClientStep(c) \/ UserStep(c)
        PROVE  [CS!Next]_(CS!csVars)
    BY <2>5, ClientSteps DEF Invisible, CS!Next, CS!csVars
  <2>6. CASE \/ MainWait \/ MainSpuriousWakeup \/ MainTake \/ MainPlugged
             \/ MainUnplugged \/ MainNoPlugEvent \/ MainEdid \/ MainFb
             \/ MainNotify \/ MainDispatch \/ MainRelease \/ MainWakeup
             \/ MainFinish \/ KeventStep \/ DriverStep \/ UNCHANGED vars
    BY <2>6, OtherSteps DEF Invisible, CS!csVars
  <2> QED BY <2>1, <2>2, <2>3, <2>4, <2>5, <2>6 DEF Next, MainStep
<1> QED
  BY <1>1, <1>2, TypeCorrect, EventsInvariant, SubscribeInvariant, PTL
     DEF Spec, Inv

==============================================================================
