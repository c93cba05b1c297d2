---------------------------- MODULE HdmiService ----------------------------
(***************************************************************************)
(* The threads of hdmiservice and the two structures they share.            *)
(*                                                                         *)
(*   main thread      thread_main_fn, hdmi_eventcmd and the plug handlers   *)
(*                    (src/src/hdmi_service.c)                              *)
(*   kevent thread    thread_kevent_fn (src/src/kevent.c)                   *)
(*   client threads   thread_sockclient_fn (src/src/socket.c), one for each *)
(*                    accepted connection; only what it does once a command *)
(*                    has been received                                     *)
(*                                                                         *)
(* The kevent and client threads set bits of hdmi_events under event_mutex  *)
(* and signal event_cond; client threads append to the list cmd_data under  *)
(* cmd_mutex.  A section between lock and unlock is one action.             *)
(***************************************************************************)
EXTENDS Driver, Sequences, Naturals

CONSTANTS
  Clients,      \* the processes that may connect to the service's socket
  Commands,     \* the commands the clients send
  ChipEvents,   \* the bits the chip raises by itself
  Fallible,     \* the calls that may fail, any number of times
  QueueBound    \* bound: no command is received while cmd_data is this long

\* Commands that hdmi_eventcmd refuses unless power is on and a sink plugged.
PoweredCmds == {"EDIDREQ", "FB_RES_SET", "HDCP_INIT", "INFOFR"}

CmdKinds == PoweredCmds \union
  {"ENABLE", "DISABLE", "CECSEND", "FB_RELEASE", "VESACEAPRIO_SET", "EXIT"}

\* The calls whose failure changes what the service does next.
FaultSites == {"evopen", "evread", "evwakeup", "evclr", "edid", "fbcreate",
               "fbclose", "plugdeten", "malloc"}

\* The failures that leave something behind for good.
LastingFaults == {"evwakeup", "fbclose"}

ASSUME CommandsAssumption == Commands \subseteq CmdKinds
ASSUME ChipEventsAssumption == ChipEvents \subseteq ChipBits
ASSUME FallibleAssumption == Fallible \subseteq FaultSites
ASSUME QueueBoundAssumption == QueueBound \in Nat

NoCmd == "none"                       \* a NULL cmd_obj
EventBits == KernelBits \union {"CMD"}
PowerStates == {"ON", "OFF", "UNDEF"}

VARIABLES
  hdmi_events,      \* event bits for the main thread
  cmd_data,         \* the command list
  freed,            \* TRUE if cmd_data still points to freed nodes
  hdmi_plug_state,
  hdmi_fb_state,
  mpc, events, cmd_obj,   \* main thread: place, and the locals of that name
  notice,           \* history: the last plug message sent to the client
  kpc, kev, kfd,    \* kevent thread: place, bits just read, file is open
  cpc, ccmd,        \* client threads: place, and the command received
  failed            \* history: the lasting failures so far

sharedVars == <<hdmi_events, cmd_data, freed>>
plugVars   == <<hdmi_plug_state, hdmi_fb_state, notice>>
mainVars   == <<mpc, events, cmd_obj>>
keventVars == <<kpc, kev, kfd>>
clientVars == <<cpc, ccmd>>
vars == <<driverVars, sharedVars, plugVars, mainVars, keventVars, clientVars,
          failed>>

MainPlaces == {"check", "blocked", "woken", "plug", "edid", "fb", "notify",
               "dispatch", "pop", "handle", "subscribe", "wakeup", "sleep",
               "exited"}
KeventPlaces == {"open", "read", "reopen", "signal", "poll", "clear", "done"}
ClientPlaces == {"closed", "read", "add", "signal"}

SharedTypeOK ==
  /\ hdmi_events \in SUBSET EventBits
  /\ cmd_data \in Seq(Commands)
  /\ freed \in BOOLEAN

PlugTypeOK ==
  /\ hdmi_plug_state \in {"PLUGUNDEF", "UNPLUGGED", "PLUGGED"}
  /\ hdmi_fb_state \in {"CLOSED", "OPENED"}
  /\ notice \in {"none", "PLUGGED_EV", "UNPLUGGED_EV"}

MainTypeOK ==
  /\ mpc \in MainPlaces
  /\ events \in SUBSET EventBits
  /\ cmd_obj \in Commands \union {NoCmd}
  /\ (mpc \in {"handle", "subscribe"}) <=> (cmd_obj # NoCmd)

KeventTypeOK ==
  /\ kpc \in KeventPlaces
  /\ kev \in SUBSET KernelBits
  /\ kfd \in BOOLEAN

ClientTypeOK ==
  /\ cpc \in [Clients -> ClientPlaces]
  /\ ccmd \in [Clients -> Commands \union {NoCmd}]
  /\ \A c \in Clients : cpc[c] = "add" => ccmd[c] \in Commands

TypeOK ==
  /\ DriverTypeOK
  /\ SharedTypeOK
  /\ PlugTypeOK
  /\ MainTypeOK
  /\ KeventTypeOK
  /\ ClientTypeOK
  /\ failed \in SUBSET LastingFaults

Init ==
  /\ DriverInit
  /\ hdmi_events = {}
  /\ cmd_data = <<>>
  /\ freed = FALSE
  /\ hdmi_plug_state = "PLUGUNDEF"
  /\ hdmi_fb_state = "CLOSED"
  /\ notice = "none"
  /\ mpc = "check"
  /\ events = {}
  /\ cmd_obj = NoCmd
  /\ kpc = "open"
  /\ kev = {}
  /\ kfd = FALSE
  /\ cpc = [c \in Clients |-> "closed"]
  /\ ccmd = [c \in Clients |-> NoCmd]
  /\ failed = {}

-----------------------------------------------------------------------------
(* Shared steps.                                                            *)

\* The call fails, as the environment allows.
Fail(site) ==
  /\ site \in Fallible
  /\ failed' = failed \union ({site} \intersect LastingFaults)

\* Mutants: the bits set without a signal; "=" for "|=".
HdmiEvent_NoSignal(S) ==
  /\ hdmi_events' = hdmi_events \union S
  /\ UNCHANGED mpc

HdmiEvent_Overwrites(S) ==
  /\ hdmi_events' = S
  /\ mpc' = IF mpc = "blocked" /\ hdmi_events' # {} THEN "woken" ELSE mpc

\* hdmi_event: set bits and, if any bit is set, wake the waiting main thread.
HdmiEvent(S) ==
  /\ hdmi_events' = hdmi_events \union S
  /\ mpc' = IF mpc = "blocked" /\ hdmi_events' # {} THEN "woken" ELSE mpc

\* hdmievclr(EVENTMASK_ALL); nobody looks at its result.
ClearEvents ==
  \/ kevents' = {}
  \/ "evclr" \in Fallible /\ UNCHANGED kevents

\* hdmi_fb_close: destroy the frame buffer and drop the pending kernel
\* events.  The state is CLOSED whether or not the driver obeyed.
FbClose ==
  IF hdmi_fb_state = "CLOSED"
  THEN UNCHANGED <<hdmi_fb_state, fb, kevents, failed>>
  ELSE /\ hdmi_fb_state' = "CLOSED"
       /\ ClearEvents
       /\ \/ fb' = FALSE /\ UNCHANGED failed
          \/ Fail("fbclose") /\ UNCHANGED fb

-----------------------------------------------------------------------------
(* Main thread: waiting for events and handling of plug events.             *)

MainWait ==
  /\ mpc = "check"
  /\ hdmi_events = {}
  /\ mpc' = "blocked"
  /\ UNCHANGED <<driverVars, sharedVars, plugVars, events, cmd_obj,
                 keventVars, clientVars, failed>>

\* pthread_cond_wait may return without a signal.
MainSpuriousWakeup ==
  /\ mpc = "blocked"
  /\ mpc' = "woken"
  /\ UNCHANGED <<driverVars, sharedVars, plugVars, events, cmd_obj,
                 keventVars, clientVars, failed>>

\* Take all pending events.  The condition is not tested again after the wait.
MainTake ==
  /\ \/ mpc = "check" /\ hdmi_events # {}
     \/ mpc = "woken"
  /\ events' = hdmi_events
  /\ hdmi_events' = {}
  /\ mpc' = "plug"
  /\ UNCHANGED <<driverVars, cmd_data, freed, plugVars, cmd_obj, keventVars,
                 clientVars, failed>>

\* Mutant: a repeated report is handled again.
AlreadyPlugged_Never == FALSE

AlreadyPlugged == hdmi_plug_state = "PLUGGED"

\* Mutant: hdmi_fb_state is not set before the work begins.
FbOpened_Not == UNCHANGED hdmi_fb_state

FbOpened == hdmi_fb_state' = "OPENED"

\* PLUGGED excludes UNPLUGGED: of the two bits only the first is looked at.
MainPlugged ==
  /\ mpc = "plug"
  /\ "PLUGGED" \in events
  /\ IF AlreadyPlugged
     THEN mpc' = "dispatch" /\ UNCHANGED plugVars
     ELSE /\ hdmi_plug_state' = "PLUGGED"
          /\ FbOpened
          /\ mpc' = "edid"
          /\ UNCHANGED notice
  /\ UNCHANGED <<driverVars, sharedVars, events, cmd_obj, keventVars,
                 clientVars, failed>>

MainUnplugged ==
  /\ mpc = "plug"
  /\ "PLUGGED" \notin events
  /\ "UNPLUGGED" \in events
  /\ IF hdmi_plug_state = "UNPLUGGED"
     THEN mpc' = "dispatch" /\ UNCHANGED hdmi_plug_state
     ELSE mpc' = "notify" /\ hdmi_plug_state' = "UNPLUGGED"
  /\ UNCHANGED <<driverVars, sharedVars, hdmi_fb_state, notice, events,
                 cmd_obj, keventVars, clientVars, failed>>

MainNoPlugEvent ==
  /\ mpc = "plug"
  /\ events \intersect PlugBits = {}
  /\ mpc' = "dispatch"
  /\ UNCHANGED <<driverVars, sharedVars, plugVars, events, cmd_obj,
                 keventVars, clientVars, failed>>

\* The EDID blocks are read and parsed, three attempts each; without an
\* answer the handler gives up and leaves both states as it set them.
MainEdid ==
  /\ mpc = "edid"
  /\ \/ cable /\ mpc' = "fb" /\ UNCHANGED failed
     \/ ~cable /\ mpc' = "dispatch" /\ UNCHANGED failed
     \/ cable /\ Fail("edid") /\ mpc' = "dispatch"
  /\ UNCHANGED <<driverVars, sharedVars, plugVars, events, cmd_obj,
                 keventVars, clientVars>>

\* Create the frame buffer unless there is one.  After a failed read back
\* (-5) the buffer exists and the handler reports failure all the same.
MainFb ==
  /\ mpc = "fb"
  /\ \/ fb' = TRUE /\ mpc' = "notify" /\ UNCHANGED failed
     \/ fb' \in {fb, TRUE} /\ Fail("fbcreate") /\ mpc' = "dispatch"
  /\ UNCHANGED <<cable, kevents, subscribed, sharedVars, plugVars, events,
                 cmd_obj, keventVars, clientVars>>

\* plugevent_send: HDMI_PLUGGED_EV or HDMI_UNPLUGGED_EV to the client.
MainNotify ==
  /\ mpc = "notify"
  /\ notice' = IF hdmi_plug_state = "PLUGGED" THEN "PLUGGED_EV"
                                              ELSE "UNPLUGGED_EV"
  /\ mpc' = "dispatch"
  /\ UNCHANGED <<driverVars, sharedVars, hdmi_plug_state, hdmi_fb_state,
                 events, cmd_obj, keventVars, clientVars, failed>>

\* After the CEC, HDCP and CECTXERR handlers, the command list, if a
\* client has signalled.
MainDispatch ==
  /\ mpc = "dispatch"
  /\ mpc' = IF "CMD" \in events THEN "pop" ELSE "check"
  /\ events' = {}
  /\ UNCHANGED <<driverVars, sharedVars, plugVars, cmd_obj, keventVars,
                 clientVars, failed>>

-----------------------------------------------------------------------------
(* Main thread: hdmi_eventcmd.                                              *)

MainPop ==
  /\ mpc = "pop"
  /\ IF cmd_data = <<>>
     THEN mpc' = "check" /\ UNCHANGED <<cmd_data, cmd_obj>>
     ELSE /\ cmd_obj' = Head(cmd_data)
          /\ cmd_data' = Tail(cmd_data)
          /\ mpc' = "handle"
  /\ UNCHANGED <<driverVars, hdmi_events, freed, plugVars, events, keventVars,
                 clientVars, failed>>

\* The check of power and plug state that precedes every command.
Allowed(cmd, power) ==
  LET up == power = "ON" /\ hdmi_plug_state = "PLUGGED"
  IN  /\ cmd \in PoweredCmds => up
      /\ cmd = "FB_RELEASE" => ~up

MayHandle == \E power \in PowerStates : Allowed(cmd_obj, power)

\* An illegal-state reply ends the handling of the whole list.
MainRefuse ==
  /\ mpc = "handle"
  /\ \E power \in PowerStates : ~Allowed(cmd_obj, power)
  /\ cmd_obj' = NoCmd
  /\ mpc' = "check"
  /\ UNCHANGED <<driverVars, sharedVars, plugVars, events, keventVars,
                 clientVars, failed>>

\* Mutants: cmd_obj is kept; back to the main loop after one command.
NextCmd_KeepsCmd == mpc' = "pop" /\ UNCHANGED cmd_obj

NextCmd_OneOnly == mpc' = "check" /\ cmd_obj' = NoCmd

\* The command has been handled: on to the next one of the list.
NextCmd == mpc' = "pop" /\ cmd_obj' = NoCmd

\* Commands that leave the state modelled here alone.
MainHandle ==
  /\ mpc = "handle"
  /\ cmd_obj \in CmdKinds \ {"ENABLE", "DISABLE", "FB_RELEASE", "EXIT"}
  /\ MayHandle
  /\ NextCmd
  /\ UNCHANGED <<driverVars, sharedVars, plugVars, events, keventVars,
                 clientVars, failed>>

MainDisable ==
  /\ mpc = "handle"
  /\ cmd_obj = "DISABLE"
  /\ FbClose
  /\ NextCmd
  /\ UNCHANGED <<cable, subscribed, sharedVars, hdmi_plug_state, notice,
                 events, keventVars, clientVars>>

MainRelease ==
  /\ mpc = "handle"
  /\ cmd_obj = "FB_RELEASE"
  /\ MayHandle
  /\ FbClose
  /\ mpc' = "subscribe"
  /\ UNCHANGED <<cable, subscribed, sharedVars, hdmi_plug_state, notice,
                 events, cmd_obj, keventVars, clientVars>>

\* hdmiplug_subscribe, for HDMI_ENABLE and at the end of HDMI_FB_RELEASE.
MainSubscribe ==
  /\ \/ mpc = "handle" /\ cmd_obj = "ENABLE"
     \/ mpc = "subscribe"
  /\ \/ EnablePlugDetection /\ UNCHANGED failed
     \/ Fail("plugdeten") /\ UNCHANGED <<kevents, subscribed>>
  /\ NextCmd
  /\ UNCHANGED <<cable, fb, sharedVars, plugVars, events, keventVars,
                 clientVars>>

\* HDMI_EXIT closes the frame buffer and frees the list (cmd_del_all), but
\* leaves cmd_data pointing to what it freed.
MainExit ==
  /\ mpc = "handle"
  /\ cmd_obj = "EXIT"
  /\ FbClose
  /\ freed' = (cmd_data # <<>>)
  /\ cmd_obj' = NoCmd
  /\ mpc' = "wakeup"
  /\ UNCHANGED <<cable, subscribed, hdmi_events, cmd_data, hdmi_plug_state,
                 notice, events, keventVars, clientVars>>

\* Mutant: the pending events are cleared after the wakeup instead of before.
WakeupWritten_Cleared == kevents' = {}

WakeupWritten == kevents' = Accumulated("WAKEUP")

\* hdmievwakeupfile_wr; its result is ignored.
MainWakeup ==
  /\ mpc = "wakeup"
  /\ \/ WakeupWritten /\ UNCHANGED failed
     \/ Fail("evwakeup") /\ UNCHANGED kevents
  /\ mpc' = "sleep"
  /\ UNCHANGED <<cable, subscribed, fb, sharedVars, plugVars, events, cmd_obj,
                 keventVars, clientVars>>

\* Timing assumption: two seconds (usleep(2000000)) are enough for the kevent
\* thread to end once the wakeup is pending, unless it waits without a file.
WakeupUnderWay ==
  \/ kpc = "clear"
  \/ "WAKEUP" \in kev
  \/ "WAKEUP" \in kevents /\ kpc # "done" /\ (kpc = "poll" => kfd)

\* The end of thread_main_fn: events dropped, mutexes destroyed.
MainFinish ==
  /\ mpc = "sleep"
  /\ ~WakeupUnderWay
  /\ hdmi_events' = {}
  /\ mpc' = "exited"
  /\ UNCHANGED <<driverVars, cmd_data, freed, plugVars, events, cmd_obj,
                 keventVars, clientVars, failed>>

-----------------------------------------------------------------------------
(* Kevent thread.                                                           *)

\* hdmieventfile_open, at the start and again after a failed read.
KOpen ==
  /\ kpc \in {"open", "reopen"}
  /\ \/ kfd' = TRUE /\ UNCHANGED failed
     \/ kfd' = FALSE /\ Fail("evopen")
  /\ kpc' = IF kpc = "open" THEN "read" ELSE "poll"
  /\ UNCHANGED <<driverVars, sharedVars, plugVars, mainVars, kev, clientVars>>

\* A read of one byte returns the pending bits.
KRead ==
  /\ kpc = "read"
  /\ kfd
  /\ kev' = kevents
  /\ kevents' = {}
  /\ kpc' = "signal"
  /\ UNCHANGED <<cable, subscribed, fb, sharedVars, plugVars, mainVars, kfd,
                 clientVars, failed>>

\* HDMIEVENT_POLLSIZEFAIL: wait, close and open the file again.
KReadFails ==
  /\ kpc = "read"
  /\ \/ ~kfd /\ UNCHANGED failed
     \/ kfd /\ Fail("evread")
  /\ kpc' = "reopen"
  /\ UNCHANGED <<driverVars, sharedVars, plugVars, mainVars, kev, kfd,
                 clientVars>>

\* Mutant: the loop is not left at a wakeup.
AfterSignal_Polls == "poll"

AfterSignal == IF "WAKEUP" \in kev THEN "clear" ELSE "poll"

KSignal ==
  /\ kpc = "signal"
  /\ HdmiEvent(kev)
  /\ kpc' = AfterSignal
  /\ kev' = {}
  /\ UNCHANGED <<driverVars, cmd_data, freed, plugVars, events, cmd_obj, kfd,
                 clientVars, failed>>

\* poll returns when the driver reports something, or early (its result is
\* ignored); on a descriptor of -1 it never returns.
KPoll ==
  /\ kpc = "poll"
  /\ kfd
  /\ kpc' = "read"
  /\ UNCHANGED <<driverVars, sharedVars, plugVars, mainVars, kev, kfd,
                 clientVars, failed>>

KClear ==
  /\ kpc = "clear"
  /\ ClearEvents
  /\ kfd' = FALSE
  /\ kpc' = "done"
  /\ UNCHANGED <<cable, subscribed, fb, sharedVars, plugVars, mainVars, kev,
                 clientVars, failed>>

-----------------------------------------------------------------------------
(* Client threads.                                                          *)

\* A connection is accepted as long as the listen socket is open.
Connect(c) ==
  /\ cpc[c] = "closed"
  /\ mpc # "exited"
  /\ cpc' = [cpc EXCEPT ![c] = "read"]
  /\ UNCHANGED <<driverVars, sharedVars, plugVars, mainVars, keventVars, ccmd,
                 failed>>

\* The client closes its end.
Disconnect(c) ==
  /\ cpc[c] = "read"
  /\ cpc' = [cpc EXCEPT ![c] = "closed"]
  /\ UNCHANGED <<driverVars, sharedVars, plugVars, mainVars, keventVars, ccmd,
                 failed>>

\* A whole command has been read from the socket.
Receive(c, k) ==
  /\ cpc[c] = "read"
  /\ Len(cmd_data) < QueueBound
  /\ cpc' = [cpc EXCEPT ![c] = "add"]
  /\ ccmd' = [ccmd EXCEPT ![c] = k]
  /\ UNCHANGED <<driverVars, sharedVars, plugVars, mainVars, keventVars,
                 failed>>

\* Mutant: the command is put in front of the list.
Queued_First(c) == <<ccmd[c]>> \o cmd_data

Queued(c) == Append(cmd_data, ccmd[c])

\* cmd_add; the caller ignores that it failed.
CmdAdd(c) ==
  /\ cpc[c] = "add"
  /\ \/ cmd_data' = Queued(c) /\ UNCHANGED failed
     \/ Fail("malloc") /\ UNCHANGED cmd_data
  /\ cpc' = [cpc EXCEPT ![c] = "signal"]
  /\ UNCHANGED <<driverVars, hdmi_events, freed, plugVars, mainVars,
                 keventVars, ccmd>>

\* hdmi_event(HDMIEVENT_CMD); HDMI_EXIT is the last command of a connection.
CmdSignal(c) ==
  /\ cpc[c] = "signal"
  /\ HdmiEvent({"CMD"})
  /\ cpc' = [cpc EXCEPT ![c] = IF ccmd[c] = "EXIT" THEN "closed" ELSE "read"]
  /\ ccmd' = [ccmd EXCEPT ![c] = NoCmd]
  /\ UNCHANGED <<driverVars, cmd_data, freed, plugVars, events, cmd_obj,
                 keventVars, failed>>

-----------------------------------------------------------------------------
MainStep ==
  \/ MainWait \/ MainTake
  \/ MainPlugged \/ MainUnplugged \/ MainNoPlugEvent
  \/ MainEdid \/ MainFb \/ MainNotify \/ MainDispatch
  \/ MainPop \/ MainRefuse \/ MainHandle
  \/ MainDisable \/ MainRelease \/ MainSubscribe \/ MainExit
  \/ MainWakeup \/ MainFinish

KeventStep == KOpen \/ KRead \/ KReadFails \/ KSignal \/ KPoll \/ KClear

ClientStep(c) == CmdAdd(c) \/ CmdSignal(c)

UserStep(c) == Connect(c) \/ Disconnect(c) \/ (\E k \in Commands : Receive(c, k))

\* The driver acts by itself: nothing of the service changes.
DriverStep ==
  /\ PlugIn \/ PlugOut \/ (\E e \in ChipEvents : ChipEvent(e))
  /\ UNCHANGED <<sharedVars, plugVars, mainVars, keventVars, clientVars, failed>>

Next ==
  \/ MainStep
  \/ MainSpuriousWakeup
  \/ KeventStep
  \/ \E c \in Clients : ClientStep(c) \/ UserStep(c)
  \/ DriverStep

\* The scheduler runs every thread that can run.  A poll is sure to return
\* only when an event is pending; reads of the event file do not fail for
\* ever.  Nothing obliges clients, cable or chip to do anything.
Fairness ==
  /\ WF_vars(MainStep)
  /\ WF_vars(KOpen \/ KReadFails \/ KSignal \/ KClear)
  /\ WF_vars(KPoll /\ kevents # {})
  /\ SF_vars(KRead)
  /\ \A c \in Clients : WF_vars(ClientStep(c))

Spec == Init /\ [][Next]_vars
FairSpec == Spec /\ Fairness

-----------------------------------------------------------------------------
(* Properties.                                                              *)

\* An event is never left behind: while a bit of hdmi_events is set the main
\* thread is not waiting on event_cond (the test before pthread_cond_wait in
\* thread_main_fn against the "or" and the signal of hdmi_event).
NoLostWakeup == hdmi_events # {} => mpc # "blocked"

Running == mpc \notin {"wakeup", "sleep", "exited"}

\* Somebody is about to look at the command list, or the main thread is
\* working on it.
CmdWork ==
  \/ "CMD" \in hdmi_events
  \/ "CMD" \in events
  \/ mpc \in {"pop", "handle", "subscribe"}
  \/ \E c \in Clients : cpc[c] = "signal"

\* Commands are queued and nothing will make the main thread take them.
Stalled == Running /\ cmd_data # <<>> /\ ~CmdWork

\* Only an illegal-state reply, which ends hdmi_eventcmd in the middle of the
\* list, can leave queued commands unattended; no interleaving of cmd_add,
\* hdmi_event and the main loop does.
StalledOnlyByRefusal == [][~Stalled /\ Stalled' => MainRefuse]_vars

\* "Handle all mesages in list" (hdmi_service.c:681).  Refuted: see Stalled.
AllMessagesHandled == ~Stalled

\* As long as the driver obeys, a frame buffer that exists is one that
\* hdmi_fb_close will destroy: hdmi_fb_state is OPENED before the buffer is
\* created and CLOSED only once it is gone.
FbAccounted == "fbclose" \notin failed /\ fb => hdmi_fb_state = "OPENED"

\* A frame buffer that a client has closed while the sink was plugged (DISABLE)
\* does not come back before an unplug has been handled: the plug report that a
\* later ENABLE provokes is taken for a repetition.
ClosedUntilUnplug ==
  [][hdmi_plug_state = "PLUGGED" /\ hdmi_fb_state = "CLOSED" =>
       hdmi_fb_state' = "CLOSED" /\ (fb' => fb)]_vars

\* The client is never told HDMI_PLUGGED_EV twice without HDMI_UNPLUGGED_EV
\* in between, however plug reports repeat, merge or get lost.
PluggedOnce ==
  mpc = "notify" /\ hdmi_plug_state = "PLUGGED" => notice # "PLUGGED_EV"

\* When the main thread destroys the mutexes, the kevent thread, which locks
\* them, has ended ("Wait for kevent thread to exit", hdmi_service.c:909),
\* unless the wakeup could not be written or the thread waits for ever
\* because it failed to open the event file again.
KeventGone ==
  mpc = "exited" /\ "evwakeup" \notin failed
    => kpc = "done" \/ (kpc = "poll" /\ ~kfd)

\* "Service exit, threads destruction" (hdmi_service_api.h:50).  Refuted: the
\* threads of other connections live on and use the destroyed mutexes.
ThreadsDestroyed == mpc = "exited" => \A c \in Clients : cpc[c] = "closed"

\* The command side implements CommandService: the queue is the command in
\* hand followed by the list.
CommandQueue ==
  IF Running THEN (IF cmd_obj = NoCmd THEN <<>> ELSE <<cmd_obj>>) \o cmd_data
             ELSE <<>>

CS == INSTANCE CommandService
        WITH queue <- CommandQueue, stalled <- Stalled, open <- Running

ImplementsCommandService == CS!Spec

\* The service runs and no client is between a receive and its signal.
\* (While clients keep the list filled, hdmi_eventcmd does not return and
\* the main thread looks at no other event.)
Quiet == Running /\ \A c \in Clients : cpc[c] \in {"closed", "read"}

\* Once the clients are quiet, a sink that stays connected is noticed: its
\* report is not lost between driver, kevent thread and main thread.
\* (Commands must not contain DISABLE, whose hdmievclr drops reports.)
PlugTracksCable ==
  <>[](cable /\ subscribed /\ Quiet) => <>[](hdmi_plug_state = "PLUGGED")

\* HDMI_EXIT comes to an end: the main thread finishes, and the kevent thread
\* has been woken and has finished before.
ExitCompletes == mpc = "wakeup" ~> (mpc = "exited" /\ kpc = "done")

\* "Return value: socket number where events will be notified"
\* (hdmi_service_api.c:42): a sink that stays away is noticed.  Refuted.
UnplugTracksCable ==
  <>[](~cable /\ subscribed /\ Quiet) => <>[](hdmi_plug_state # "PLUGGED")

\* The same for a sink that stays connected: the client has been told.  Refuted.
PluggedNotified ==
  <>[](cable /\ subscribed /\ Quiet) => <>[](notice = "PLUGGED_EV")

=============================================================================
