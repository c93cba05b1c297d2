-------------------------- MODULE HdmiServiceProofs --------------------------
(***************************************************************************)
(* Proofs about HdmiService, for every set of clients, commands and faults. *)
(***************************************************************************)
EXTENDS HdmiService, TLAPS

\* The command in hand is never confused with "no command".
LEMMA NoCmdNotCommand == NoCmd \notin Commands
  BY CommandsAssumption DEF NoCmd, CmdKinds, PoweredCmds

\* Every variable keeps its type, and the main thread holds a command
\* exactly while it handles one (cmd_obj of hdmi_eventcmd).
THEOREM TypeCorrect == Spec => []TypeOK
<1>1. Init => TypeOK
  <2> SUFFICES ASSUME Init PROVE TypeOK
    OBVIOUS
  <2> USE DEF Init
  <2>1. DriverTypeOK BY DEF DriverInit, DriverTypeOK
  <2>2. SharedTypeOK
    <3>1. cmd_data \in Seq(Commands) OBVIOUS
    <3>2. hdmi_events \in SUBSET EventBits /\ freed \in BOOLEAN OBVIOUS
    <3> QED BY <3>1, <3>2 DEF SharedTypeOK
  <2>3. PlugTypeOK BY DEF PlugTypeOK
  <2>4. MainTypeOK BY DEF MainTypeOK, MainPlaces, NoCmd
  <2>5. KeventTypeOK BY DEF KeventTypeOK, KeventPlaces
  <2>6. ClientTypeOK BY DEF ClientTypeOK, ClientPlaces
  <2> QED BY <2>1, <2>2, <2>3, <2>4, <2>5, <2>6 DEF TypeOK
<1>2. TypeOK /\ [Next]_vars => TypeOK'
  <2> SUFFICES ASSUME TypeOK, [Next]_vars PROVE TypeOK'
    OBVIOUS
  <2> USE DEF TypeOK, DriverTypeOK, SharedTypeOK, PlugTypeOK, MainTypeOK,
              KeventTypeOK, ClientTypeOK, driverVars, sharedVars, plugVars,
              mainVars, keventVars, clientVars, EventBits, KernelBits,
              ChipBits, PlugBits, MainPlaces, KeventPlaces, ClientPlaces,
              Fail, LastingFaults
  <2>1. CASE MainWait BY <2>1 DEF MainWait
  <2>2. CASE MainSpuriousWakeup BY <2>2 DEF MainSpuriousWakeup
  <2>3. CASE MainTake BY <2>3 DEF MainTake
  <2>4. CASE MainPlugged BY <2>4 DEF MainPlugged, AlreadyPlugged, FbOpened
  <2>5. CASE MainUnplugged BY <2>5 DEF MainUnplugged
  <2>6. CASE MainNoPlugEvent BY <2>6 DEF MainNoPlugEvent
  <2>7. CASE MainEdid
    <3>1. MainTypeOK'
      BY <2>7 DEF MainEdid
    <3>2. (failed \in SUBSET LastingFaults)'
      BY <2>7 DEF MainEdid
    <3>3. DriverTypeOK' /\ SharedTypeOK' /\ PlugTypeOK' /\ KeventTypeOK' /\ ClientTypeOK'
      BY <2>7 DEF MainEdid
    <3> QED BY <3>1, <3>2, <3>3
  <2>8. CASE MainFb
    <3>1. DriverTypeOK'
      BY <2>8 DEF MainFb
    <3>2. MainTypeOK'
      BY <2>8 DEF MainFb
    <3>3. (failed \in SUBSET LastingFaults)'
      BY <2>8 DEF MainFb
    <3>4. SharedTypeOK' /\ PlugTypeOK' /\ KeventTypeOK' /\ ClientTypeOK'
      BY <2>8 DEF MainFb
    <3> QED BY <3>1, <3>2, <3>3, <3>4
  <2>9. CASE MainNotify BY <2>9 DEF MainNotify
  <2>10. CASE MainDispatch BY <2>10 DEF MainDispatch
  <2>11. CASE MainPop BY <2>11, NoCmdNotCommand DEF MainPop
  <2>12. CASE MainRefuse BY <2>12 DEF MainRefuse
  <2>13. CASE MainHandle BY <2>13 DEF MainHandle, NextCmd
  <2>14. CASE MainDisable
    <3>1. DriverTypeOK'
      BY <2>14 DEF MainDisable, NextCmd, FbClose, ClearEvents
    <3>2. PlugTypeOK'
      BY <2>14 DEF MainDisable, NextCmd, FbClose
    <3>3. MainTypeOK'
      BY <2>14 DEF MainDisable, NextCmd, FbClose
    <3>4. (failed \in SUBSET LastingFaults)'
      BY <2>14 DEF MainDisable, NextCmd, FbClose
    <3>5. SharedTypeOK' /\ KeventTypeOK' /\ ClientTypeOK'
      BY <2>14 DEF MainDisable, NextCmd, FbClose
    <3> QED BY <3>1, <3>2, <3>3, <3>4, <3>5
  <2>15. CASE MainRelease
    <3>1. DriverTypeOK'
      BY <2>15 DEF MainRelease, FbClose, ClearEvents
    <3>2. PlugTypeOK'
      BY <2>15 DEF MainRelease, FbClose
    <3>3. MainTypeOK'
      BY <2>15, NoCmdNotCommand DEF MainRelease, FbClose
    <3>4. (failed \in SUBSET LastingFaults)'
      BY <2>15 DEF MainRelease, FbClose
    <3>5. SharedTypeOK' /\ KeventTypeOK' /\ ClientTypeOK'
      BY <2>15 DEF MainRelease, FbClose
    <3> QED BY <3>1, <3>2, <3>3, <3>4, <3>5
  <2>16. CASE MainSubscribe
    <3>1. DriverTypeOK'
      BY <2>16 DEF MainSubscribe, NextCmd, EnablePlugDetection, PlugReported, Accumulated
    <3>2. MainTypeOK'
      BY <2>16 DEF MainSubscribe, NextCmd, EnablePlugDetection, PlugReported, Accumulated
    <3>3. (failed \in SUBSET LastingFaults)'
      BY <2>16 DEF MainSubscribe, NextCmd, EnablePlugDetection, PlugReported, Accumulated
    <3>4. SharedTypeOK' /\ PlugTypeOK' /\ KeventTypeOK' /\ ClientTypeOK'
      BY <2>16 DEF MainSubscribe, NextCmd, EnablePlugDetection, PlugReported, Accumulated
    <3> QED BY <3>1, <3>2, <3>3, <3>4
  <2>17. CASE MainExit
    <3>1. DriverTypeOK'
      BY <2>17 DEF MainExit, FbClose, ClearEvents
    <3>2. PlugTypeOK'
      BY <2>17 DEF MainExit, FbClose
    <3>3. SharedTypeOK'
      BY <2>17 DEF MainExit, FbClose
    <3>4. MainTypeOK'
      BY <2>17 DEF MainExit, FbClose
    <3>5. (failed \in SUBSET LastingFaults)'
      BY <2>17 DEF MainExit, FbClose
    <3>6. KeventTypeOK' /\ ClientTypeOK'
      BY <2>17 DEF MainExit, FbClose
    <3> QED BY <3>1, <3>2, <3>3, <3>4, <3>5, <3>6
  <2>18. CASE MainWakeup
    <3>1. DriverTypeOK'
      BY <2>18 DEF MainWakeup, WakeupWritten, Accumulated
    <3>2. MainTypeOK'
      BY <2>18 DEF MainWakeup, WakeupWritten, Accumulated
    <3>3. (failed \in SUBSET LastingFaults)'
      BY <2>18 DEF MainWakeup, WakeupWritten, Accumulated
    <3>4. SharedTypeOK' /\ PlugTypeOK' /\ KeventTypeOK' /\ ClientTypeOK'
      BY <2>18 DEF MainWakeup, WakeupWritten, Accumulated
    <3> QED BY <3>1, <3>2, <3>3, <3>4
  <2>19. CASE MainFinish BY <2>19 DEF MainFinish
  <2>20. CASE KOpen
    <3>1. KeventTypeOK'
      BY <2>20 DEF KOpen
    <3>2. (failed \in SUBSET LastingFaults)'
      BY <2>20 DEF KOpen
    <3>3. DriverTypeOK' /\ SharedTypeOK' /\ PlugTypeOK' /\ MainTypeOK' /\ ClientTypeOK'
      BY <2>20 DEF KOpen
    <3> QED BY <3>1, <3>2, <3>3
  <2>21. CASE KRead BY <2>21 DEF KRead
  <2>22. CASE KReadFails
    <3>1. KeventTypeOK'
      BY <2>22 DEF KReadFails
    <3>2. (failed \in SUBSET LastingFaults)'
      BY <2>22 DEF KReadFails
    <3>3. DriverTypeOK' /\ SharedTypeOK' /\ PlugTypeOK' /\ MainTypeOK' /\ ClientTypeOK'
      BY <2>22 DEF KReadFails
    <3> QED BY <3>1, <3>2, <3>3
  <2>23. CASE KSignal BY <2>23 DEF KSignal, HdmiEvent, AfterSignal
  <2>24. CASE KPoll BY <2>24 DEF KPoll
  <2>25. CASE KClear
    <3>1. DriverTypeOK'
      BY <2>25 DEF KClear, ClearEvents
    <3>2. KeventTypeOK'
      BY <2>25 DEF KClear
    <3>3. SharedTypeOK' /\ PlugTypeOK' /\ MainTypeOK' /\ ClientTypeOK' /\ (failed \in SUBSET LastingFaults)'
      BY <2>25 DEF KClear
    <3> QED BY <3>1, <3>2, <3>3
  <2>26. ASSUME NEW c \in Clients, ClientStep(c) PROVE TypeOK'
    <3>1. CASE CmdAdd(c)
      <4>1. SharedTypeOK'
        BY <3>1 DEF CmdAdd, Queued
      <4>2. ClientTypeOK'
        BY <3>1 DEF CmdAdd, Queued
      <4>3. (failed \in SUBSET LastingFaults)'
        BY <3>1 DEF CmdAdd, Queued
      <4>4. DriverTypeOK' /\ PlugTypeOK' /\ MainTypeOK' /\ KeventTypeOK'
        BY <3>1 DEF CmdAdd, Queued
      <4> QED BY <4>1, <4>2, <4>3, <4>4
    <3>2. CASE CmdSignal(c) BY <3>2 DEF CmdSignal, HdmiEvent
    <3> QED BY <2>26, <3>1, <3>2 DEF ClientStep
  <2>27. ASSUME NEW c \in Clients, UserStep(c) PROVE TypeOK'
    <3>1. CASE Connect(c) BY <3>1 DEF Connect
    <3>2. CASE Disconnect(c) BY <3>2 DEF Disconnect
    <3>3. ASSUME NEW k \in Commands, Receive(c, k) PROVE TypeOK'
      BY <3>3 DEF Receive
    <3> QED BY <2>27, <3>1, <3>2, <3>3 DEF UserStep
  <2>28. CASE DriverStep
    <3>1. DriverTypeOK'
      BY <2>28, ChipEventsAssumption
         DEF DriverStep, PlugIn, PlugOut, SetCable, ChipEvent, PlugReported,
             Accumulated
    <3>2. UNCHANGED <<sharedVars, plugVars, mainVars, keventVars, clientVars,
                      failed>>
      BY <2>28 DEF DriverStep
    <3> QED BY <3>1, <3>2
  <2>29. CASE UNCHANGED vars BY <2>29 DEF vars
  <2> QED
    BY <2>1, <2>2, <2>3, <2>4, <2>5, <2>6, <2>7, <2>8, <2>9, <2>10,
       <2>11, <2>12, <2>13, <2>14, <2>15, <2>16, <2>17, <2>18, <2>19,
       <2>20, <2>21, <2>22, <2>23, <2>24, <2>25, <2>26, <2>27, <2>28,
       <2>29
       DEF Next, MainStep, KeventStep
<1> QED BY <1>1, <1>2, PTL DEF Spec

-----------------------------------------------------------------------------
(* Inductive invariants.                                                    *)

\* While the plug handler works, both states are as its first lines set them.
HandlerInv ==
  mpc \in {"edid", "fb"} =>
    hdmi_plug_state = "PLUGGED" /\ hdmi_fb_state = "OPENED"

\* A client that was told "plugged" has not been told, or is just being
\* told, that the sink went away.
NoticeInv ==
  notice = "PLUGGED_EV" =>
    \/ hdmi_plug_state = "PLUGGED" /\ mpc \notin {"edid", "fb", "notify"}
    \/ hdmi_plug_state = "UNPLUGGED" /\ mpc = "notify"

\* Once written, the wakeup is pending, has been read or has been obeyed.
WakeupInv ==
  /\ kpc # "signal" => kev = {}
  /\ mpc \in {"sleep", "exited"} /\ "evwakeup" \notin failed =>
       \/ "WAKEUP" \in kevents
       \/ "WAKEUP" \in kev
       \/ kpc \in {"clear", "done"}

\* The local events hold nothing between the dispatch and the next take.
EventsInv ==
  events # {} => mpc \in {"plug", "edid", "fb", "notify", "dispatch"}

\* See HandlerInv.
LEMMA HandlerInvariant == Spec => []HandlerInv
<1>1. Init => HandlerInv
  BY DEF Init, DriverInit, HandlerInv
<1>2. HandlerInv /\ [Next]_vars => HandlerInv'
  <2> SUFFICES ASSUME HandlerInv, [Next]_vars PROVE HandlerInv'
    OBVIOUS
  <2> USE DEF HandlerInv, driverVars, sharedVars, plugVars, mainVars,
              keventVars, clientVars, Fail
  <2>1. CASE MainPlugged BY <2>1 DEF MainPlugged, AlreadyPlugged, FbOpened
  <2>2. CASE MainUnplugged BY <2>2 DEF MainUnplugged
  <2>3. CASE MainDisable BY <2>3 DEF MainDisable, NextCmd, FbClose
  <2>4. CASE MainRelease BY <2>4 DEF MainRelease, FbClose
  <2>5. CASE MainExit BY <2>5 DEF MainExit, FbClose
  <2>6. CASE KSignal BY <2>6 DEF KSignal, HdmiEvent, AfterSignal
  <2>7. CASE MainWait \/ MainSpuriousWakeup \/ MainTake \/ MainNoPlugEvent \/
         MainEdid \/ MainFb \/ MainNotify \/ MainDispatch \/ MainPop \/
         MainRefuse \/ MainHandle \/ MainSubscribe \/ MainWakeup \/ MainFinish
         \/ KOpen \/ KRead \/ KReadFails \/ KPoll \/ KClear
    BY <2>7 DEF MainWait, MainSpuriousWakeup, MainTake, MainNoPlugEvent,
           MainEdid, MainFb, MainNotify, MainDispatch, MainPop, MainRefuse,
           MainHandle, NextCmd, MainSubscribe, EnablePlugDetection,
           PlugReported, Accumulated, PlugBits, MainWakeup, WakeupWritten,
           MainFinish, WakeupUnderWay, KOpen, KRead, KReadFails, KPoll, KClear
  <2>8. ASSUME NEW c \in Clients, ClientStep(c) \/ UserStep(c)
        PROVE  HandlerInv'
    BY <2>8 DEF ClientStep, UserStep, CmdAdd, CmdSignal, HdmiEvent, Queued,
       Connect, Disconnect, Receive
  <2>9. CASE DriverStep
    BY <2>9 DEF DriverStep, PlugIn, PlugOut, SetCable, ChipEvent,
       PlugReported, Accumulated, PlugBits
  <2>10. CASE UNCHANGED vars BY <2>10 DEF vars
  <2> QED
    BY <2>1, <2>2, <2>3, <2>4, <2>5, <2>6, <2>7, <2>8, <2>9, <2>10
       DEF Next, MainStep, KeventStep
<1> QED BY <1>1, <1>2, PTL DEF Spec

\* See EventsInv.
LEMMA EventsInvariant == Spec => []EventsInv
<1>1. Init => EventsInv
  BY DEF Init, DriverInit, EventsInv
<1>2. EventsInv /\ [Next]_vars => EventsInv'
  <2> SUFFICES ASSUME EventsInv, [Next]_vars PROVE EventsInv'
    OBVIOUS
  <2> USE DEF EventsInv, driverVars, sharedVars, plugVars, mainVars,
              keventVars, clientVars, Fail
  <2>1. CASE MainTake BY <2>1 DEF MainTake
  <2>2. CASE MainDispatch BY <2>2 DEF MainDispatch
  <2>3. CASE KSignal BY <2>3 DEF KSignal, HdmiEvent, AfterSignal
  <2>4. CASE MainWait \/ MainSpuriousWakeup \/ MainPlugged \/ MainUnplugged \/
         MainNoPlugEvent \/ MainEdid \/ MainFb \/ MainNotify \/ MainPop \/
         MainRefuse \/ MainHandle \/ MainDisable \/ MainRelease \/
         MainSubscribe \/ MainExit \/ MainWakeup \/ MainFinish \/ KOpen \/
         KRead \/ KReadFails \/ KPoll \/ KClear
    BY <2>4 DEF MainWait, MainSpuriousWakeup, MainPlugged, AlreadyPlugged,
           FbOpened, MainUnplugged, MainNoPlugEvent, MainEdid, MainFb,
           MainNotify, MainPop, MainRefuse, MainHandle, NextCmd, MainDisable,
           FbClose, MainRelease, MainSubscribe, EnablePlugDetection,
           PlugReported, Accumulated, PlugBits, MainExit, MainWakeup,
           WakeupWritten, MainFinish, WakeupUnderWay, KOpen, KRead,
           KReadFails, KPoll, KClear
  <2>5. ASSUME NEW c \in Clients, ClientStep(c) \/ UserStep(c)
        PROVE  EventsInv'
    BY <2>5 DEF ClientStep, UserStep, CmdAdd, CmdSignal, HdmiEvent, Queued,
       Connect, Disconnect, Receive
  <2>6. CASE DriverStep
    BY <2>6 DEF DriverStep, PlugIn, PlugOut, SetCable, ChipEvent,
       PlugReported, Accumulated, PlugBits
  <2>7. CASE UNCHANGED vars BY <2>7 DEF vars
  <2> QED
    BY <2>1, <2>2, <2>3, <2>4, <2>5, <2>6, <2>7
       DEF Next, MainStep, KeventStep
<1> QED BY <1>1, <1>2, PTL DEF Spec

\* No event is left behind while the main thread waits: the wait in
\* thread_main_fn and the signal in hdmi_event never miss each other.
THEOREM NoLostWakeupCorrect == Spec => []NoLostWakeup
<1>1. Init => NoLostWakeup
  BY DEF Init, DriverInit, NoLostWakeup
<1>2. NoLostWakeup /\ [Next]_vars => NoLostWakeup'
  <2> SUFFICES ASSUME NoLostWakeup, [Next]_vars PROVE NoLostWakeup'
    OBVIOUS
  <2> USE DEF NoLostWakeup, driverVars, sharedVars, plugVars, mainVars,
              keventVars, clientVars, Fail
  <2>1. CASE MainWait BY <2>1 DEF MainWait
  <2>2. CASE MainTake BY <2>2 DEF MainTake
  <2>3. CASE KSignal BY <2>3 DEF KSignal, HdmiEvent, AfterSignal
  <2>4. CASE MainSpuriousWakeup \/ MainPlugged \/ MainUnplugged \/
         MainNoPlugEvent \/ MainEdid \/ MainFb \/ MainNotify \/ MainDispatch
         \/ MainPop \/ MainRefuse \/ MainHandle \/ MainDisable \/ MainRelease
         \/ MainSubscribe \/ MainExit \/ MainWakeup \/ MainFinish \/ KOpen \/
         KRead \/ KReadFails \/ KPoll \/ KClear
    BY <2>4 DEF MainSpuriousWakeup, MainPlugged, AlreadyPlugged, FbOpened,
           MainUnplugged, MainNoPlugEvent, MainEdid, MainFb, MainNotify,
           MainDispatch, MainPop, MainRefuse, MainHandle, NextCmd,
           MainDisable, FbClose, MainRelease, MainSubscribe,
           EnablePlugDetection, PlugReported, Accumulated, PlugBits, MainExit,
           MainWakeup, WakeupWritten, MainFinish, WakeupUnderWay, KOpen,
           KRead, KReadFails, KPoll, KClear
  <2>5. ASSUME NEW c \in Clients, ClientStep(c) \/ UserStep(c)
        PROVE  NoLostWakeup'
    BY <2>5 DEF ClientStep, UserStep, CmdAdd, CmdSignal, HdmiEvent, Queued,
       Connect, Disconnect, Receive
  <2>6. CASE DriverStep
    BY <2>6 DEF DriverStep, PlugIn, PlugOut, SetCable, ChipEvent,
       PlugReported, Accumulated, PlugBits
  <2>7. CASE UNCHANGED vars BY <2>7 DEF vars
  <2> QED
    BY <2>1, <2>2, <2>3, <2>4, <2>5, <2>6, <2>7
       DEF Next, MainStep, KeventStep
<1> QED BY <1>1, <1>2, PTL DEF Spec

\* A frame buffer that exists is one that hdmi_fb_close will destroy.
THEOREM FbAccountedCorrect == Spec => []FbAccounted
<1>1. Init => FbAccounted
  BY DEF Init, DriverInit, FbAccounted, HandlerInv
<1>2. HandlerInv /\ FbAccounted /\ [Next]_vars => FbAccounted'
  <2> SUFFICES ASSUME HandlerInv, FbAccounted, [Next]_vars PROVE FbAccounted'
    OBVIOUS
  <2> USE DEF FbAccounted, HandlerInv, driverVars, sharedVars, plugVars,
              mainVars, keventVars, clientVars, Fail, LastingFaults
  <2>1. CASE MainPlugged BY <2>1 DEF MainPlugged, AlreadyPlugged, FbOpened
  <2>2. CASE MainFb BY <2>2 DEF MainFb
  <2>3. CASE MainDisable BY <2>3 DEF MainDisable, NextCmd, FbClose
  <2>4. CASE MainRelease BY <2>4 DEF MainRelease, FbClose
  <2>5. CASE MainExit BY <2>5 DEF MainExit, FbClose
  <2>6. CASE KSignal BY <2>6 DEF KSignal, HdmiEvent, AfterSignal
  <2>7. CASE MainWait \/ MainSpuriousWakeup \/ MainTake \/ MainUnplugged \/
         MainNoPlugEvent \/ MainEdid \/ MainNotify \/ MainDispatch \/ MainPop
         \/ MainRefuse \/ MainHandle \/ MainSubscribe \/ MainWakeup \/
         MainFinish \/ KOpen \/ KRead \/ KReadFails \/ KPoll \/ KClear
    BY <2>7 DEF MainWait, MainSpuriousWakeup, MainTake, MainUnplugged,
           MainNoPlugEvent, MainEdid, MainNotify, MainDispatch, MainPop,
           MainRefuse, MainHandle, NextCmd, MainSubscribe,
           EnablePlugDetection, PlugReported, Accumulated, PlugBits,
           MainWakeup, WakeupWritten, MainFinish, WakeupUnderWay, KOpen,
           KRead, KReadFails, KPoll, KClear
  <2>8. ASSUME NEW c \in Clients, ClientStep(c) \/ UserStep(c)
        PROVE  FbAccounted'
    BY <2>8 DEF ClientStep, UserStep, CmdAdd, CmdSignal, HdmiEvent, Queued,
       Connect, Disconnect, Receive
  <2>9. CASE DriverStep
    BY <2>9 DEF DriverStep, PlugIn, PlugOut, SetCable, ChipEvent,
       PlugReported, Accumulated, PlugBits
  <2>10. CASE UNCHANGED vars BY <2>10 DEF vars
  <2> QED
    BY <2>1, <2>2, <2>3, <2>4, <2>5, <2>6, <2>7, <2>8, <2>9, <2>10
       DEF Next, MainStep, KeventStep
<1> QED BY <1>1, <1>2, HandlerInvariant, PTL DEF Spec

\* See NoticeInv.
LEMMA NoticeInvariant == Spec => []NoticeInv
<1>1. Init => NoticeInv
  BY DEF Init, DriverInit, NoticeInv, HandlerInv
<1>2. HandlerInv /\ NoticeInv /\ [Next]_vars => NoticeInv'
  <2> SUFFICES ASSUME HandlerInv, NoticeInv, [Next]_vars PROVE NoticeInv'
    OBVIOUS
  <2> USE DEF NoticeInv, HandlerInv, driverVars, sharedVars, plugVars,
              mainVars, keventVars, clientVars, Fail, LastingFaults
  <2>1. CASE MainPlugged BY <2>1 DEF MainPlugged, AlreadyPlugged, FbOpened
  <2>2. CASE MainUnplugged BY <2>2 DEF MainUnplugged
  <2>3. CASE MainEdid BY <2>3 DEF MainEdid
  <2>4. CASE MainFb BY <2>4 DEF MainFb
  <2>5. CASE MainNotify BY <2>5 DEF MainNotify
  <2>6. CASE KSignal BY <2>6 DEF KSignal, HdmiEvent, AfterSignal
  <2>7. CASE MainWait \/ MainSpuriousWakeup \/ MainTake \/ MainNoPlugEvent \/
         MainDispatch \/ MainPop \/ MainRefuse \/ MainHandle \/ MainDisable \/
         MainRelease \/ MainSubscribe \/ MainExit \/ MainWakeup \/ MainFinish
         \/ KOpen \/ KRead \/ KReadFails \/ KPoll \/ KClear
    BY <2>7 DEF MainWait, MainSpuriousWakeup, MainTake, MainNoPlugEvent,
           MainDispatch, MainPop, MainRefuse, MainHandle, NextCmd,
           MainDisable, FbClose, MainRelease, MainSubscribe,
           EnablePlugDetection, PlugReported, Accumulated, PlugBits, MainExit,
           MainWakeup, WakeupWritten, MainFinish, WakeupUnderWay, KOpen,
           KRead, KReadFails, KPoll, KClear
  <2>8. ASSUME NEW c \in Clients, ClientStep(c) \/ UserStep(c)
        PROVE  NoticeInv'
    BY <2>8 DEF ClientStep, UserStep, CmdAdd, CmdSignal, HdmiEvent, Queued,
       Connect, Disconnect, Receive
  <2>9. CASE DriverStep
    BY <2>9 DEF DriverStep, PlugIn, PlugOut, SetCable, ChipEvent,
       PlugReported, Accumulated, PlugBits
  <2>10. CASE UNCHANGED vars BY <2>10 DEF vars
  <2> QED
    BY <2>1, <2>2, <2>3, <2>4, <2>5, <2>6, <2>7, <2>8, <2>9, <2>10
       DEF Next, MainStep, KeventStep
<1> QED BY <1>1, <1>2, HandlerInvariant, PTL DEF Spec

\* The client is never told "plugged" twice in a row (plugevent_send).
THEOREM PluggedOnceCorrect == Spec => []PluggedOnce
<1>1. NoticeInv => PluggedOnce
  BY DEF NoticeInv, PluggedOnce
<1> QED BY <1>1, NoticeInvariant, PTL

\* See WakeupInv.
LEMMA WakeupInvariant == Spec => []WakeupInv
<1>1. Init => WakeupInv
  BY DEF Init, DriverInit, WakeupInv
<1>2. TypeOK /\ WakeupInv /\ [Next]_vars => WakeupInv'
  <2> SUFFICES ASSUME TypeOK, WakeupInv, [Next]_vars PROVE WakeupInv'
    OBVIOUS
  <2> USE DEF WakeupInv, driverVars, sharedVars, plugVars, mainVars,
              keventVars, clientVars, Fail, LastingFaults
  <2>1. CASE MainDisable BY <2>1 DEF MainDisable, NextCmd, FbClose
  <2>2. CASE MainRelease BY <2>2 DEF MainRelease, FbClose
  <2>3. CASE MainSubscribe BY <2>3 DEF MainSubscribe, NextCmd,
         EnablePlugDetection, PlugReported, Accumulated, PlugBits
  <2>4. CASE MainExit BY <2>4 DEF MainExit, FbClose
  <2>5. CASE MainWakeup BY <2>5 DEF MainWakeup, WakeupWritten, Accumulated
  <2>6. CASE KOpen BY <2>6 DEF KOpen
  <2>7. CASE KRead BY <2>7 DEF KRead
  <2>8. CASE KReadFails BY <2>8 DEF KReadFails
  <2>9. CASE KSignal BY <2>9 DEF KSignal, HdmiEvent, AfterSignal
  <2>10. CASE KPoll BY <2>10 DEF KPoll
  <2>11. CASE KClear BY <2>11 DEF KClear
  <2>12. CASE MainWait \/ MainSpuriousWakeup \/ MainTake \/ MainPlugged \/
         MainUnplugged \/ MainNoPlugEvent \/ MainEdid \/ MainFb \/ MainNotify
         \/ MainDispatch \/ MainPop \/ MainRefuse \/ MainHandle \/ MainFinish
    BY <2>12 DEF MainWait, MainSpuriousWakeup, MainTake, MainPlugged,
           AlreadyPlugged, FbOpened, MainUnplugged, MainNoPlugEvent, MainEdid,
           MainFb, MainNotify, MainDispatch, MainPop, MainRefuse, MainHandle,
           NextCmd, MainFinish, WakeupUnderWay
  <2>13. ASSUME NEW c \in Clients, ClientStep(c) \/ UserStep(c)
        PROVE  WakeupInv'
    BY <2>13 DEF ClientStep, UserStep, CmdAdd, CmdSignal, HdmiEvent, Queued,
       Connect, Disconnect, Receive
  <2>14. CASE DriverStep
    BY <2>14 DEF DriverStep, PlugIn, PlugOut, SetCable, ChipEvent,
       PlugReported, Accumulated, PlugBits
  <2>15. CASE UNCHANGED vars BY <2>15 DEF vars
  <2> QED
    BY <2>1, <2>2, <2>3, <2>4, <2>5, <2>6, <2>7, <2>8, <2>9, <2>10, <2>11,
       <2>12, <2>13, <2>14, <2>15
       DEF Next, MainStep, KeventStep
<1> QED BY <1>1, <1>2, TypeCorrect, PTL DEF Spec

\* The kevent thread is gone before the mutexes it locks are destroyed, for
\* as long as the timing assumption WakeupUnderWay holds (usleep(2000000)).
THEOREM KeventGoneCorrect == Spec => []KeventGone
<1>1. Init => KeventGone
  BY DEF Init, DriverInit, KeventGone, WakeupInv
<1>2. WakeupInv /\ KeventGone /\ [Next]_vars => KeventGone'
  <2> SUFFICES ASSUME WakeupInv, KeventGone, [Next]_vars PROVE KeventGone'
    OBVIOUS
  <2> USE DEF KeventGone, WakeupInv, driverVars, sharedVars, plugVars,
              mainVars, keventVars, clientVars, Fail, LastingFaults
  <2>1. CASE MainFinish BY <2>1 DEF MainFinish, WakeupUnderWay
  <2>2. CASE MainWakeup BY <2>2 DEF MainWakeup, WakeupWritten, Accumulated
  <2>3. CASE KOpen BY <2>3 DEF KOpen
  <2>4. CASE KRead BY <2>4 DEF KRead
  <2>5. CASE KReadFails BY <2>5 DEF KReadFails
  <2>6. CASE KSignal BY <2>6 DEF KSignal, HdmiEvent, AfterSignal
  <2>7. CASE KPoll BY <2>7 DEF KPoll
  <2>8. CASE KClear BY <2>8 DEF KClear
  <2>9. CASE MainWait \/ MainSpuriousWakeup \/ MainTake \/ MainPlugged \/
         MainUnplugged \/ MainNoPlugEvent \/ MainEdid \/ MainFb \/ MainNotify
         \/ MainDispatch \/ MainPop \/ MainRefuse \/ MainHandle \/ MainDisable
         \/ MainRelease \/ MainSubscribe \/ MainExit
    BY <2>9 DEF MainWait, MainSpuriousWakeup, MainTake, MainPlugged,
           AlreadyPlugged, FbOpened, MainUnplugged, MainNoPlugEvent, MainEdid,
           MainFb, MainNotify, MainDispatch, MainPop, MainRefuse, MainHandle,
           NextCmd, MainDisable, FbClose, MainRelease, MainSubscribe,
           EnablePlugDetection, PlugReported, Accumulated, PlugBits, MainExit
  <2>10. ASSUME NEW c \in Clients, ClientStep(c) \/ UserStep(c)
        PROVE  KeventGone'
    BY <2>10 DEF ClientStep, UserStep, CmdAdd, CmdSignal, HdmiEvent, Queued,
       Connect, Disconnect, Receive
  <2>11. CASE DriverStep
    BY <2>11 DEF DriverStep, PlugIn, PlugOut, SetCable, ChipEvent,
       PlugReported, Accumulated, PlugBits
  <2>12. CASE UNCHANGED vars BY <2>12 DEF vars
  <2> QED
    BY <2>1, <2>2, <2>3, <2>4, <2>5, <2>6, <2>7, <2>8, <2>9, <2>10, <2>11,
       <2>12
       DEF Next, MainStep, KeventStep
<1> QED BY <1>1, <1>2, WakeupInvariant, PTL DEF Spec

\* Only an illegal-state reply leaves queued commands unattended.
THEOREM StalledOnlyByRefusalCorrect == Spec => StalledOnlyByRefusal
<1>1. TypeOK /\ EventsInv /\ [Next]_vars
        => [~Stalled /\ Stalled' => MainRefuse]_vars
  <2> SUFFICES ASSUME TypeOK, EventsInv, [Next]_vars, ~Stalled, Stalled',
                      ~MainRefuse
               PROVE  FALSE
    OBVIOUS
  <2> USE DEF TypeOK, ClientTypeOK, EventsInv, Stalled, CmdWork, Running,
              driverVars, sharedVars, plugVars, mainVars, keventVars, clientVars
  <2>1. CASE MainTake BY <2>1 DEF MainTake
  <2>2. CASE MainDispatch BY <2>2 DEF MainDispatch
  <2>3. CASE MainPop BY <2>3 DEF MainPop
  <2>4. CASE MainHandle BY <2>4 DEF MainHandle, NextCmd
  <2>5. CASE MainDisable BY <2>5 DEF MainDisable, NextCmd, FbClose
  <2>6. CASE MainRelease BY <2>6 DEF MainRelease, FbClose
  <2>7. CASE MainSubscribe BY <2>7 DEF MainSubscribe, NextCmd,
         EnablePlugDetection, PlugReported, Accumulated, PlugBits
  <2>8. CASE MainExit BY <2>8 DEF MainExit, FbClose
  <2>9. CASE KSignal BY <2>9 DEF KSignal, HdmiEvent, AfterSignal
  <2>10. CASE MainWait \/ MainSpuriousWakeup \/ MainPlugged \/ MainUnplugged
         \/ MainNoPlugEvent \/ MainEdid \/ MainFb \/ MainNotify \/ MainWakeup
         \/ MainFinish \/ KOpen \/ KRead \/ KReadFails \/ KPoll \/ KClear
    BY <2>10 DEF MainWait, MainSpuriousWakeup, MainPlugged, AlreadyPlugged,
           FbOpened, MainUnplugged, MainNoPlugEvent, MainEdid, MainFb,
           MainNotify, MainWakeup, WakeupWritten, Accumulated, MainFinish,
           WakeupUnderWay, KOpen, KRead, KReadFails, KPoll, KClear
  <2>11. ASSUME NEW c \in Clients, ClientStep(c) \/ UserStep(c)
        PROVE  FALSE
    BY <2>11 DEF ClientStep, UserStep, CmdAdd, CmdSignal, HdmiEvent, Queued,
       Connect, Disconnect, Receive
  <2>12. CASE DriverStep
    BY <2>12 DEF DriverStep, PlugIn, PlugOut, SetCable, ChipEvent,
       PlugReported, Accumulated, PlugBits
  <2>13. CASE UNCHANGED vars BY <2>13 DEF vars
  <2> QED
    BY <2>1, <2>2, <2>3, <2>4, <2>5, <2>6, <2>7, <2>8, <2>9, <2>10, <2>11,
       <2>12, <2>13
       DEF Next, MainStep, KeventStep
<1> QED BY <1>1, TypeCorrect, EventsInvariant, PTL DEF Spec, StalledOnlyByRefusal

\* While a sink counts as plugged, nothing but an unplug lets a frame buffer
\* that was closed come back.
THEOREM ClosedUntilUnplugCorrect == Spec => ClosedUntilUnplug
<1>1. HandlerInv /\ [Next]_vars
        => [hdmi_plug_state = "PLUGGED" /\ hdmi_fb_state = "CLOSED" =>
              hdmi_fb_state' = "CLOSED" /\ (fb' => fb)]_vars
  <2> SUFFICES ASSUME HandlerInv, [Next]_vars,
                      hdmi_plug_state = "PLUGGED", hdmi_fb_state = "CLOSED"
               PROVE  hdmi_fb_state' = "CLOSED" /\ (fb' => fb)
    OBVIOUS
  <2> USE DEF HandlerInv, driverVars, sharedVars, plugVars, mainVars,
              keventVars, clientVars, Fail
  <2>1. CASE MainPlugged BY <2>1 DEF MainPlugged, AlreadyPlugged, FbOpened
  <2>2. CASE MainFb BY <2>2 DEF MainFb
  <2>3. CASE MainDisable BY <2>3 DEF MainDisable, NextCmd, FbClose
  <2>4. CASE MainRelease BY <2>4 DEF MainRelease, FbClose
  <2>5. CASE MainExit BY <2>5 DEF MainExit, FbClose
  <2>6. CASE KSignal BY <2>6 DEF KSignal, HdmiEvent, AfterSignal
  <2>7. CASE MainWait \/ MainSpuriousWakeup \/ MainTake \/ MainUnplugged \/
         MainNoPlugEvent \/ MainEdid \/ MainNotify \/ MainDispatch \/ MainPop
         \/ MainRefuse \/ MainHandle \/ MainSubscribe \/ MainWakeup \/
         MainFinish \/ KOpen \/ KRead \/ KReadFails \/ KPoll \/ KClear
    BY <2>7 DEF MainWait, MainSpuriousWakeup, MainTake, MainUnplugged,
           MainNoPlugEvent, MainEdid, MainNotify, MainDispatch, MainPop,
           MainRefuse, MainHandle, NextCmd, MainSubscribe,
           EnablePlugDetection, PlugReported, Accumulated, PlugBits,
           MainWakeup, WakeupWritten, MainFinish, WakeupUnderWay, KOpen,
           KRead, KReadFails, KPoll, KClear
  <2>8. ASSUME NEW c \in Clients, ClientStep(c) \/ UserStep(c)
        PROVE  hdmi_fb_state' = "CLOSED" /\ (fb' => fb)
    BY <2>8 DEF ClientStep, UserStep, CmdAdd, CmdSignal, HdmiEvent, Queued,
       Connect, Disconnect, Receive
  <2>9. CASE DriverStep
    BY <2>9 DEF DriverStep, PlugIn, PlugOut, SetCable, ChipEvent,
       PlugReported, Accumulated, PlugBits
  <2>10. CASE UNCHANGED vars BY <2>10 DEF vars
  <2> QED
    BY <2>1, <2>2, <2>3, <2>4, <2>5, <2>6, <2>7, <2>8, <2>9, <2>10
       DEF Next, MainStep, KeventStep
<1> QED BY <1>1, HandlerInvariant, PTL DEF Spec, ClosedUntilUnplug

==============================================================================
