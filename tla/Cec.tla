-------------------------------- MODULE Cec ---------------------------------
(***************************************************************************)
(* CEC traffic (src/src/cec.c) on its way between driver, kevent thread,    *)
(* main thread and client.  A transmission goes on after cecsend has handed *)
(* it to the driver; its failure comes back as one event bit that carries   *)
(* no identifier, behind whatever the main thread is doing by then, unless  *)
(* hdmi_fb_close clears the bit first or the kevent thread loses its file.  *)
(*                                                                         *)
(* A command is known here by its place in the order in which the commands *)
(* were queued; its cmd_id is what the client wrote, cut to a byte.         *)
(***************************************************************************)
EXTENDS Naturals, Sequences, FiniteSets

CONSTANTS
  Ids,          \* the identifiers the client writes; hdmi_service_cec_send: {0}
  MaxCommands,  \* bound: commands of the client
  MaxReceived   \* bound: messages received from the bus

ASSUME IdsAssumption == Ids \subseteq Nat
ASSUME BoundsAssumption == MaxCommands \in Nat /\ MaxReceived \in Nat

Places == 1 .. MaxCommands
Bytes  == 0 .. 255

\* HDMI_CECSEND; HDMI_DISABLE and HDMI_FB_RELEASE, which close the frame
\* buffer; HDMI_EXIT, which does and ends the main thread.
Kinds == {"CECSEND", "CLOSE", "EXIT"}

VARIABLES
  log,           \* history: the commands queued so far, in order
  cmd_data,      \* the command list: places in log
  tx,            \* what became of the transmission at each place
  received,      \* messages received from the bus
  kevents,       \* event bits in the driver
  kpc, kev,      \* kevent thread: place, and the bits just read
  hdmi_events,   \* event bits for the main thread
  mpc, events,   \* main thread: place, and the local of that name
  cectx_cmd_id,
  last,          \* history: the HDMI_CECSEND handled last (0: none)
  overlapped,    \* history: one was begun before the last was settled
  cleared,       \* history: the bits hdmi_fb_close is just clearing
  dropped,       \* history: those that had failed when it cleared CECTXERR
  errors,        \* the HDMI_CECSENDERRs sent to the client: the cmd_id and,
                 \* as history, the command it was that of
  cmd_id_ind     \* identifiers used for indications to the client

clientVars == <<log, cmd_data>>
busVars    == <<tx, received>>
keventVars == <<kpc, kev>>
eventVars  == <<kevents, keventVars, hdmi_events>>
sendVars   == <<cectx_cmd_id, last, overlapped>>
closeVars  == <<cleared, dropped>>
replyVars  == <<errors, cmd_id_ind>>
vars == <<clientVars, busVars, eventVars, mpc, events, sendVars, closeVars, replyVars>>

DriverBits == {"CEC", "CECTXERR"}

TypeOK ==
  /\ log \in Seq([cmd : Kinds, cmd_id : Bytes]) /\ Len(log) <= MaxCommands
  /\ cmd_data \in Seq(Places)
  /\ tx \in [Places -> {"none", "sending", "done", "failed", "refused"}]
  /\ received \in 0 .. MaxReceived
  /\ kevents \in SUBSET DriverBits
  /\ kpc \in {"read", "reopen", "signal", "poll", "lost"}
  /\ kev \in SUBSET DriverBits
  /\ hdmi_events \in SUBSET (DriverBits \union {"CMD"})
  /\ mpc \in {"wait", "cec", "txerr", "list", "closed", "ended"}
  /\ events \in SUBSET (DriverBits \union {"CMD"})
  /\ cectx_cmd_id \in Bytes
  /\ last \in Places \union {0}
  /\ overlapped \in BOOLEAN
  /\ cleared \in SUBSET DriverBits
  /\ dropped \in SUBSET Places
  /\ errors \in Seq([cmd_id : Bytes, of : Places \union {0}])
  /\ cmd_id_ind \in Nat

\* The open of EVENT_FILE may fail; then so does the first read.
Init ==
  /\ log = <<>>
  /\ cmd_data = <<>>
  /\ tx = [n \in Places |-> "none"]
  /\ received = 0
  /\ kevents = {}
  /\ kpc \in {"read", "reopen"}
  /\ kev = {}
  /\ hdmi_events = {}
  /\ mpc = "wait"
  /\ events = {}
  /\ cectx_cmd_id = 0
  /\ last = 0
  /\ overlapped = FALSE
  /\ cleared = {}
  /\ dropped = {}
  /\ errors = <<>>
  /\ cmd_id_ind = 0

-----------------------------------------------------------------------------
(* Client and bus.                                                          *)

\* Mutant: the whole identifier is kept.
Kept_Whole(id) == id

\* The client's thread reads the identifier from one byte of the message.
Kept(id) == id % 256

\* The client's thread queues a command and signals, in one step (what may
\* happen between cmd_add and hdmi_event, and that cmd_add may fail, which
\* is as if the client had not sent it, is in HdmiService).
ClientSend(kind, id) ==
  /\ Len(log) < MaxCommands
  /\ log' = Append(log, [cmd |-> kind, cmd_id |-> Kept(id)])
  /\ cmd_data' = Append(cmd_data, Len(log) + 1)
  /\ hdmi_events' = hdmi_events \union {"CMD"}
  /\ UNCHANGED <<busVars, kevents, keventVars, mpc, events, sendVars, closeVars,
                 replyVars>>

Raise(bit) ==
  /\ kevents' = kevents \union {bit}
  /\ UNCHANGED <<keventVars, hdmi_events>>

TxDone(n) ==
  /\ tx[n] = "sending"
  /\ tx' = [tx EXCEPT ![n] = "done"]
  /\ UNCHANGED <<clientVars, received, eventVars, mpc, events, sendVars, closeVars,
                 replyVars>>

TxFailed(n) ==
  /\ tx[n] = "sending"
  /\ tx' = [tx EXCEPT ![n] = "failed"]
  /\ Raise("CECTXERR")
  /\ UNCHANGED <<clientVars, received, mpc, events, sendVars, closeVars, replyVars>>

Receive ==
  /\ received < MaxReceived
  /\ received' = received + 1
  /\ Raise("CEC")
  /\ UNCHANGED <<clientVars, tx, mpc, events, sendVars, closeVars, replyVars>>

-----------------------------------------------------------------------------
(* Kevent thread.  (That HDMI_EXIT makes it end is in HdmiService.)         *)

KRead ==
  /\ kpc = "read"
  /\ kev' = kevents
  /\ kevents' = {}
  /\ kpc' = "signal"
  /\ UNCHANGED <<clientVars, busVars, hdmi_events, mpc, events, sendVars, closeVars,
                 replyVars>>

KReadFails ==
  /\ kpc = "read"
  /\ kpc' = "reopen"
  /\ UNCHANGED <<clientVars, busVars, kevents, kev, hdmi_events, mpc, events,
                 sendVars, closeVars, replyVars>>

\* The file is opened again; if that fails the poll that follows never returns.
KReopen ==
  /\ kpc = "reopen"
  /\ kpc' \in {"poll", "lost"}
  /\ UNCHANGED <<clientVars, busVars, kevents, kev, hdmi_events, mpc, events,
                 sendVars, closeVars, replyVars>>

\* Mutant: the bits read replace those the main thread has not taken.
Forwarded_Only == kev

Forwarded == hdmi_events \union kev

KSignal ==
  /\ kpc = "signal"
  /\ hdmi_events' = Forwarded
  /\ kev' = {}
  /\ kpc' = "poll"
  /\ UNCHANGED <<clientVars, busVars, kevents, mpc, events, sendVars, closeVars,
                 replyVars>>

KPoll ==
  /\ kpc = "poll"
  /\ kpc' = "read"
  /\ UNCHANGED <<clientVars, busVars, kevents, kev, hdmi_events, mpc, events,
                 sendVars, closeVars, replyVars>>

KeventStep == KRead \/ KReadFails \/ KReopen \/ KSignal \/ KPoll

-----------------------------------------------------------------------------
(* Main thread.                                                             *)

\* Mutant: the bits are not cleared.
Taken_Kept == hdmi_events

\* What remains in hdmi_events of the bits taken.
Taken == {}

MainTake ==
  /\ mpc = "wait"
  /\ hdmi_events # {}
  /\ events' = hdmi_events
  /\ hdmi_events' = Taken
  /\ mpc' = "cec"
  /\ UNCHANGED <<clientVars, busVars, kevents, keventVars, sendVars, closeVars,
                 replyVars>>

\* cecrx: the identifier is used up even if nothing can be read.
MainCec ==
  /\ mpc = "cec"
  /\ cmd_id_ind' = IF "CEC" \in events THEN cmd_id_ind + 1 ELSE cmd_id_ind
  /\ mpc' = "txerr"
  /\ UNCHANGED <<clientVars, busVars, eventVars, events, sendVars, closeVars, errors>>

\* cecsenderr: a message with the identifier of the command handled last.
ErrorOf(n, id) == Append(errors, [cmd_id |-> id, of |-> n])

MainTxErr ==
  /\ mpc = "txerr"
  /\ errors' = IF "CECTXERR" \in events THEN ErrorOf(last, cectx_cmd_id) ELSE errors
  /\ mpc' = IF "CMD" \in events THEN "list" ELSE "wait"
  /\ events' = {}
  /\ UNCHANGED <<clientVars, busVars, eventVars, sendVars, closeVars, cmd_id_ind>>

Failed == {n \in Places : tx[n] \in {"failed", "refused"}}

\* The bit of a failed transmission waits somewhere on its way.
Pending == "CECTXERR" \in kevents \union kev \union hdmi_events \union events

\* A command can still fail, or has failed and the client was not told.
Unsettled == Pending \/ \E n \in Places : tx[n] = "sending"

\* Mutant: the identifier is kept only once the driver has the message.
Send_Late(n) ==
  /\ last' = n
  /\ \/ /\ tx' = [tx EXCEPT ![n] = "sending"] /\ UNCHANGED errors
        /\ cectx_cmd_id' = log[n].cmd_id
     \/ /\ tx' = [tx EXCEPT ![n] = "refused"] /\ errors' = ErrorOf(n, cectx_cmd_id)
        /\ UNCHANGED cectx_cmd_id

\* cecsend: the driver takes the message, or the failure is reported at once.
Send(n) ==
  /\ last' = n
  /\ cectx_cmd_id' = log[n].cmd_id
  /\ \/ tx' = [tx EXCEPT ![n] = "sending"] /\ UNCHANGED errors
     \/ tx' = [tx EXCEPT ![n] = "refused"] /\ errors' = ErrorOf(n, log[n].cmd_id)

\* The command at the head of the list is of this kind.
AtHead(kind) ==
  /\ mpc = "list"
  /\ cmd_data # <<>>
  /\ log[Head(cmd_data)].cmd = kind

\* hdmi_eventcmd with an HDMI_CECSEND.
MainSend ==
  /\ AtHead("CECSEND")
  /\ Send(Head(cmd_data))
  /\ cmd_data' = Tail(cmd_data)
  /\ overlapped' = (overlapped \/ Unsettled)
  /\ UNCHANGED <<log, received, eventVars, mpc, events, closeVars, cmd_id_ind>>

\* hdmi_fb_close clears what is pending in the driver, unless the frame buffer
\* is closed already or hdmievclr fails.
FbClose ==
  /\ \/ /\ kevents' = {}
        /\ cleared' = kevents
        /\ dropped' = IF "CECTXERR" \in kevents THEN dropped \union Failed ELSE dropped
     \/ cleared' = {} /\ UNCHANGED <<kevents, dropped>>
  /\ UNCHANGED <<keventVars, hdmi_events>>

MainClose ==
  /\ AtHead("CLOSE")
  /\ FbClose
  /\ cmd_data' = Tail(cmd_data)
  /\ mpc' = "closed"
  /\ UNCHANGED <<log, busVars, events, sendVars, replyVars>>

\* On to the next command of the list.
MainClosed ==
  /\ mpc = "closed"
  /\ mpc' = "list"
  /\ cleared' = {}
  /\ UNCHANGED <<clientVars, busVars, eventVars, events, sendVars, dropped, replyVars>>

\* HDMI_FB_RELEASE with power on and a sink plugged: hdmi_eventcmd is left.
MainRefuse ==
  /\ AtHead("CLOSE")
  /\ cmd_data' = Tail(cmd_data)
  /\ mpc' = "wait"
  /\ UNCHANGED <<log, busVars, eventVars, events, sendVars, closeVars, replyVars>>

\* HDMI_EXIT: the list is freed and nothing is handled any more.
MainExit ==
  /\ AtHead("EXIT")
  /\ FbClose
  /\ cmd_data' = <<>>
  /\ mpc' = "ended"
  /\ UNCHANGED <<log, busVars, events, sendVars, replyVars>>

MainListEnd ==
  /\ mpc = "list"
  /\ cmd_data = <<>>
  /\ mpc' = "wait"
  /\ UNCHANGED <<clientVars, busVars, eventVars, events, sendVars, closeVars, replyVars>>

MainStep ==
  \/ MainTake \/ MainCec \/ MainTxErr
  \/ MainSend \/ MainClose \/ MainClosed \/ MainRefuse \/ MainExit \/ MainListEnd

Next ==
  \/ \E id \in Ids : ClientSend("CECSEND", id)
  \/ \E kind \in Kinds \ {"CECSEND"} : ClientSend(kind, 0)  \* no id is looked at
  \/ \E n \in Places : TxDone(n) \/ TxFailed(n)
  \/ Receive
  \/ KeventStep
  \/ MainStep

\* Both threads run.  A poll is sure to return only when an event is pending,
\* and reads of the event file do not fail for ever.  Nothing obliges the
\* client, the bus or the driver.
Fairness ==
  /\ WF_vars(MainStep)
  /\ WF_vars(KReadFails \/ KReopen \/ KSignal)
  /\ WF_vars(KPoll /\ kevents # {})
  /\ SF_vars(KRead)

Spec == Init /\ [][Next]_vars
FairSpec == Spec /\ Fairness

-----------------------------------------------------------------------------
(* Properties.                                                              *)

\* HDMI_CECSENDERR carries the byte kept of the identifier of the command that
\* failed if each was settled before the next was handled; otherwise it may be
\* that of a later command (cectx_cmd_id has been overwritten by then), but
\* never that of an earlier one.  Whether the client can tell commands by it
\* depends on the identifiers it writes: those of the API are all 0.
ErrorsAttributed ==
  \A k \in 1 .. Len(errors) :
    /\ errors[k].of \in 1 .. Len(log)
    /\ errors[k].cmd_id = log[errors[k].of].cmd_id
    /\ \E m \in Failed : m <= errors[k].of /\ (~overlapped => m = errors[k].of)

\* There are not more messages than there is something to tell: failures that
\* merge into one bit are reported once, and none is reported twice.
NoneInvented == Len(errors) <= Cardinality(Failed) /\ cmd_id_ind <= received

\* A failure is forgotten in one way only, hdmi_fb_close's hdmievclr between
\* the failure and the next read of the event file.  For every other there is an
\* HDMI_CECSENDERR of that command or a later one, or the bit that will cause
\* one is on its way: merging of bits and commands handled in between lose none.
FailuresTold ==
  \/ Pending
  \/ \A n \in Failed \ dropped : \E k \in 1 .. Len(errors) : n <= errors[k].of

\* What the driver has raised gets to the handler that tells the client, however
\* bits merge and whatever is in the command list, unless hdmi_fb_close clears
\* it, the kevent thread has lost its file or HDMI_EXIT comes first.
PassedOn ==
  \A bit \in DriverBits :
    bit \in kevents ~>
      \/ bit \in events /\ mpc = (IF bit = "CEC" THEN "cec" ELSE "txerr")
      \/ bit \in cleared /\ mpc = "closed"
      \/ kpc = "lost"
      \/ mpc = "ended"

=============================================================================
