----------------------------- MODULE CecProofs ------------------------------
(***************************************************************************)
(* Type correctness of Cec, that errors are attributed and counted as they  *)
(* should, and that only hdmi_fb_close makes the service forget a failure,  *)
(* for all identifiers and any number of commands and received messages.   *)
(***************************************************************************)
EXTENDS Cec, FiniteSetTheorems, SequenceTheorems, TLAPS

-----------------------------------------------------------------------------
(* Types.                                                                   *)

Command == [cmd : Kinds, cmd_id : Bytes]
Error   == [cmd_id : Bytes, of : Places \union {0}]

LEMMA KeptType == ASSUME NEW id \in Nat PROVE Kept(id) \in Bytes
BY DEF Kept, Bytes

LEMMA InitType == Init => TypeOK
<1> SUFFICES ASSUME Init PROVE TypeOK
  OBVIOUS
<1>1. /\ cmd_data \in Seq(Places) /\ errors \in Seq(Error)
      /\ log \in Seq(Command) /\ Len(log) <= MaxCommands
  BY BoundsAssumption DEF Init
<1>2. tx \in [Places -> {"none", "sending", "done", "failed", "refused"}]
  BY DEF Init
<1>3. received \in 0 .. MaxReceived /\ cectx_cmd_id \in Bytes /\ cmd_id_ind \in Nat
  BY BoundsAssumption DEF Init, Bytes
<1> QED
  BY <1>1, <1>2, <1>3 DEF TypeOK, Init, Command, Error

\* The command at the head of the list is one of the log.
LEMMA HeadType ==
  ASSUME TypeOK, cmd_data # <<>>
  PROVE  Head(cmd_data) \in Places /\ Tail(cmd_data) \in Seq(Places)
BY HeadTailProperties DEF TypeOK

\* What is sent of an error has the right type.
LEMMA ErrorType ==
  ASSUME TypeOK, NEW n \in Places \union {0}, NEW id \in Bytes
  PROVE  ErrorOf(n, id) \in Seq(Error)
<1>1. [cmd_id |-> id, of |-> n] \in Error
  BY DEF Error
<1>2. errors \in Seq(Error)
  BY DEF TypeOK, Error
<1> QED
  BY <1>1, <1>2, AppendProperties DEF ErrorOf

\* The kevent thread and the bus only move bits.
LEMMA BitsType ==
  ASSUME TypeOK,
         Receive \/ KeventStep \/ (\E n \in Places : TxDone(n) \/ TxFailed(n))
  PROVE  TypeOK'
<1> USE DEF TypeOK, DriverBits, clientVars, busVars, keventVars, eventVars, sendVars,
            closeVars, replyVars
<1>1. CASE Receive
  BY <1>1, BoundsAssumption DEF Receive, Raise
<1>2. ASSUME NEW n \in Places, TxDone(n) PROVE TypeOK'
  BY <1>2 DEF TxDone
<1>3. ASSUME NEW n \in Places, TxFailed(n) PROVE TypeOK'
  BY <1>3 DEF TxFailed, Raise
<1>4. CASE KRead
  BY <1>4 DEF KRead
<1>5. CASE KReadFails \/ KReopen \/ KPoll
  BY <1>5 DEF KReadFails, KReopen, KPoll
<1>6. CASE KSignal
  BY <1>6 DEF KSignal, Forwarded
<1> QED
  BY <1>1, <1>2, <1>3, <1>4, <1>5, <1>6 DEF KeventStep

\* hdmi_fb_close.
LEMMA CloseType ==
  ASSUME TypeOK, FbClose
  PROVE  /\ kevents' \in SUBSET DriverBits
         /\ cleared' \in SUBSET DriverBits
         /\ dropped' \in SUBSET Places
         /\ UNCHANGED <<kpc, kev, hdmi_events>>
BY DEF TypeOK, FbClose, Failed, keventVars

LEMMA SendType ==
  ASSUME TypeOK, MainSend, Head(cmd_data) \in 1 .. Len(log)
  PROVE  TypeOK'
<1>1. PICK n \in Places : n = Head(cmd_data) /\ n \in 1 .. Len(log)
  BY HeadType DEF MainSend, AtHead
<1>2. PICK id \in Bytes : id = log[n].cmd_id
  <2>1. log \in Seq(Command)
    BY DEF TypeOK, Command
  <2>2. log[n] \in Command
    BY <1>1, <2>1, ElementOfSeq
  <2> QED
    BY <2>2 DEF Command
<1>3. last' = n /\ cectx_cmd_id' = id
  BY <1>1, <1>2 DEF MainSend, Send
<1>4. /\ tx' \in [Places -> {"none", "sending", "done", "failed", "refused"}]
      /\ errors' \in Seq(Error)
  <2>1. ErrorOf(n, id) \in Seq(Error)
    BY ErrorType
  <2>2. \/ tx' = [tx EXCEPT ![n] = "sending"] /\ errors' = errors
        \/ tx' = [tx EXCEPT ![n] = "refused"] /\ errors' = ErrorOf(n, id)
    BY <1>1, <1>2 DEF MainSend, Send
  <2> QED
    BY <2>1, <2>2 DEF TypeOK, Error
<1>5. cmd_data' \in Seq(Places) /\ overlapped' \in BOOLEAN
  BY HeadType DEF MainSend, AtHead, TypeOK, Unsettled, Pending
<1>6. UNCHANGED <<log, received, kevents, kpc, kev, hdmi_events, mpc, events, cleared,
                  dropped, cmd_id_ind>>
  BY DEF MainSend, eventVars, keventVars, closeVars
<1> QED
  BY <1>3, <1>4, <1>5, <1>6 DEF TypeOK, Error

\* The places in the command list are those of commands.
ListInv == \A i \in 1 .. Len(cmd_data) : cmd_data[i] \in 1 .. Len(log)

LEMMA ListHead ==
  ASSUME TypeOK, ListInv, cmd_data # <<>>
  PROVE  Head(cmd_data) \in 1 .. Len(log)
<1>1. Len(cmd_data) \in Nat /\ Len(cmd_data) # 0 /\ Head(cmd_data) = cmd_data[1]
  BY LenProperties, EmptySeq DEF TypeOK
<1> QED
  BY <1>1 DEF ListInv

LEMMA NextType == TypeOK /\ ListInv /\ [Next]_vars => TypeOK'
<1> SUFFICES ASSUME TypeOK, ListInv, [Next]_vars PROVE TypeOK'
  OBVIOUS
<1> USE DEF clientVars, busVars, keventVars, eventVars, sendVars, closeVars, replyVars
<1>1. ASSUME NEW kind \in Kinds, NEW id \in Nat, ClientSend(kind, id) PROVE TypeOK'
  <2>1. PICK c \in Command : c = [cmd |-> kind, cmd_id |-> Kept(id)]
    BY KeptType DEF Command
  <2>2. log' = Append(log, c) /\ cmd_data' = Append(cmd_data, Len(log) + 1)
    BY <1>1, <2>1 DEF ClientSend
  <2>3. log \in Seq(Command) /\ Len(log) \in Nat /\ Len(log) < MaxCommands
    BY <1>1, LenProperties DEF TypeOK, ClientSend, Command
  <2>4. log' \in Seq(Command) /\ Len(log') = Len(log) + 1
    BY <2>2, <2>3, AppendProperties
  <2>5. Len(log) + 1 \in Places /\ Len(log') <= MaxCommands
    BY <2>3, <2>4, BoundsAssumption DEF Places
  <2>6. cmd_data' \in Seq(Places)
    BY <2>2, <2>5, AppendProperties DEF TypeOK
  <2>7. /\ hdmi_events' = hdmi_events \union {"CMD"}
        /\ UNCHANGED <<tx, received, kevents, kpc, kev, mpc, events, cectx_cmd_id, last,
                       overlapped, cleared, dropped, errors, cmd_id_ind>>
    BY <1>1 DEF ClientSend
  <2> QED
    BY <2>4, <2>5, <2>6, <2>7 DEF TypeOK, Command
<1>2. CASE Receive \/ KeventStep \/ (\E n \in Places : TxDone(n) \/ TxFailed(n))
  BY <1>2, BitsType
<1>3. CASE MainTake
  BY <1>3 DEF MainTake, Taken, TypeOK
<1>4. CASE MainCec
  BY <1>4 DEF MainCec, TypeOK
<1>5. CASE MainTxErr
  <2>1. errors' \in Seq(Error)
    BY <1>5, ErrorType DEF MainTxErr, TypeOK, Error
  <2>2. mpc' \in {"list", "wait"} /\ events' = {}
    BY <1>5 DEF MainTxErr
  <2> QED
    BY <1>5, <2>1, <2>2 DEF MainTxErr, TypeOK, Error
<1>6. CASE MainSend
  BY <1>6, ListHead, SendType DEF MainSend, AtHead
<1>7. CASE MainClose
  <2>1. cmd_data' \in Seq(Places) /\ mpc' = "closed"
    BY <1>7, HeadType DEF MainClose, AtHead
  <2> QED
    BY <1>7, <2>1, CloseType DEF MainClose, TypeOK
<1>8. CASE MainClosed
  BY <1>8 DEF MainClosed, TypeOK
<1>9. CASE MainRefuse
  <2>1. cmd_data' \in Seq(Places) /\ mpc' = "wait"
    BY <1>9, HeadType DEF MainRefuse, AtHead
  <2> QED
    BY <1>9, <2>1 DEF MainRefuse, TypeOK
<1>10. CASE MainExit
  <2>1. cmd_data' \in Seq(Places) /\ mpc' = "ended"
    BY <1>10 DEF MainExit
  <2> QED
    BY <1>10, <2>1, CloseType DEF MainExit, TypeOK
<1>11. CASE MainListEnd
  BY <1>11 DEF MainListEnd, TypeOK
<1>12. CASE UNCHANGED vars
  BY <1>12 DEF vars, TypeOK
<1>13. \A id \in Ids : id \in Nat
  BY IdsAssumption
<1> QED
  BY <1>1, <1>2, <1>3, <1>4, <1>5, <1>6, <1>7, <1>8, <1>9, <1>10, <1>11, <1>12, <1>13
     DEF Next, MainStep, Kinds

-----------------------------------------------------------------------------
(* The command list.                                                        *)

\* The places in the list are those of commands after the HDMI_CECSEND handled
\* last, in order, and no command after it has been transmitted.
QueueInv ==
  /\ ListInv
  /\ \A i \in 1 .. Len(cmd_data) : cmd_data[i] > last
  /\ \A i, j \in 1 .. Len(cmd_data) : i < j => cmd_data[i] < cmd_data[j]
  /\ last <= Len(log)
  /\ \A n \in Places : n > last => tx[n] = "none"

LEMMA InitQueue == Init => QueueInv
<1> SUFFICES ASSUME Init PROVE QueueInv
  OBVIOUS
<1>1. cmd_data = <<>> /\ Len(cmd_data) = 0 /\ Len(log) = 0 /\ last = 0
  BY DEF Init
<1>2. \A n \in Places : tx[n] = "none"
  BY DEF Init
<1> QED
  BY <1>1, <1>2 DEF QueueInv, ListInv

\* One more command is behind the others, in the log and in the list.
LEMMA SendAppends ==
  ASSUME TypeOK, NEW kind, NEW id, ClientSend(kind, id)
  PROVE  /\ Len(log) \in Nat /\ Len(log') = Len(log) + 1
         /\ \A i \in 1 .. Len(log) : log'[i] = log[i]
         /\ Len(cmd_data) \in Nat /\ Len(cmd_data') = Len(cmd_data) + 1
         /\ \A i \in 1 .. Len(cmd_data) : cmd_data'[i] = cmd_data[i]
         /\ cmd_data'[Len(cmd_data) + 1] = Len(log) + 1
<1>1. log \in Seq(Command) /\ cmd_data \in Seq(Places)
  BY DEF TypeOK, Command
<1>2. PICK c : log' = Append(log, c)
  BY DEF ClientSend
<1>3. cmd_data' = Append(cmd_data, Len(log) + 1)
  BY DEF ClientSend
<1>4. /\ Len(log) \in Nat /\ Len(log') = Len(log) + 1
      /\ \A i \in 1 .. Len(log) : log'[i] = log[i]
  BY <1>1, <1>2, LenProperties
<1>5. /\ Len(cmd_data) \in Nat /\ Len(cmd_data') = Len(cmd_data) + 1
      /\ \A i \in 1 .. Len(cmd_data) : cmd_data'[i] = cmd_data[i]
      /\ cmd_data'[Len(cmd_data) + 1] = Len(log) + 1
  BY <1>1, <1>3, LenProperties
<1> QED
  BY <1>4, <1>5

\* Taking the command at the head of the list: it has not been transmitted, and
\* the others are behind it.
LEMMA QueueHead ==
  ASSUME TypeOK, QueueInv, cmd_data # <<>>, NEW n, n = Head(cmd_data)
  PROVE  /\ n \in Places /\ n \in 1 .. Len(log) /\ n > last /\ tx[n] = "none"
         /\ \A i \in 1 .. Len(Tail(cmd_data)) :
              Tail(cmd_data)[i] > n /\ Tail(cmd_data)[i] \in 1 .. Len(log)
         /\ \A i, j \in 1 .. Len(Tail(cmd_data)) :
              i < j => Tail(cmd_data)[i] < Tail(cmd_data)[j]
<1>1. cmd_data \in Seq(Places) /\ n \in Places
  BY HeadType DEF TypeOK
<1>2. PICK k \in Nat : k = Len(cmd_data)
  BY <1>1, LenProperties
<1>3. /\ k # 0 /\ n = cmd_data[1]
      /\ Len(Tail(cmd_data)) = k - 1
      /\ \A i \in 1 .. k - 1 : Tail(cmd_data)[i] = cmd_data[i + 1]
  BY <1>1, <1>2, EmptySeq, HeadTailProperties
<1>4. /\ n \in 1 .. Len(log) /\ n > last /\ tx[n] = "none"
  BY <1>1, <1>2, <1>3 DEF QueueInv, ListInv
<1>5. ASSUME NEW i \in 1 .. k - 1
      PROVE  cmd_data[i + 1] > n /\ cmd_data[i + 1] \in 1 .. Len(log)
  <2>1. 1 \in 1 .. k /\ i + 1 \in 1 .. k /\ 1 < i + 1
    BY <1>2, <1>5
  <2>2. cmd_data[1] < cmd_data[i + 1] /\ cmd_data[i + 1] \in 1 .. Len(log)
    BY <1>2, <2>1 DEF QueueInv, ListInv
  <2> QED
    BY <1>1, <1>3, <2>2 DEF Places
<1>6. ASSUME NEW i \in 1 .. k - 1, NEW j \in 1 .. k - 1, i < j
      PROVE  cmd_data[i + 1] < cmd_data[j + 1]
  <2>1. i + 1 \in 1 .. k /\ j + 1 \in 1 .. k /\ i + 1 < j + 1
    BY <1>2, <1>6
  <2> QED
    BY <1>2, <2>1 DEF QueueInv
<1> QED
  BY <1>1, <1>3, <1>4, <1>5, <1>6

LEMMA NextQueue == TypeOK /\ QueueInv /\ [Next]_vars => QueueInv'
<1> SUFFICES ASSUME TypeOK, QueueInv, [Next]_vars PROVE QueueInv'
  OBVIOUS
<1> USE DEF clientVars, busVars, keventVars, eventVars, sendVars, closeVars, replyVars
<1>1. CASE UNCHANGED <<log, cmd_data, last, tx>>
  BY <1>1 DEF QueueInv, ListInv
<1>2. ASSUME NEW kind, NEW id, ClientSend(kind, id) PROVE QueueInv'
  <2>1. PICK k \in Nat, m \in Nat : k = Len(log) /\ m = Len(cmd_data)
    BY <1>2, SendAppends
  <2>2. /\ Len(log') = k + 1 /\ Len(cmd_data') = m + 1
        /\ \A i \in 1 .. m : cmd_data'[i] = cmd_data[i]
        /\ cmd_data'[m + 1] = k + 1
    BY <1>2, <2>1, SendAppends
  <2>3. last' = last /\ tx' = tx
    BY <1>2 DEF ClientSend
  <2>4. last \in Nat /\ last <= k
    BY <2>1 DEF TypeOK, Places, QueueInv
  <2>5. \A i \in 1 .. m : cmd_data[i] \in 1 .. k /\ cmd_data[i] > last
    BY <2>1 DEF QueueInv, ListInv
  <2>6. ListInv'
    BY <2>2, <2>5 DEF ListInv
  <2>7. \A i \in 1 .. m + 1 : cmd_data'[i] > last
    BY <2>2, <2>4, <2>5
  <2>8. ASSUME NEW i \in 1 .. m + 1, NEW j \in 1 .. m + 1, i < j
        PROVE  cmd_data'[i] < cmd_data'[j]
    <3>1. CASE j = m + 1
      BY <2>2, <2>5, <2>8, <3>1
    <3>2. CASE j # m + 1
      <4>1. i \in 1 .. m /\ j \in 1 .. m
        BY <2>8, <3>2
      <4> QED
        BY <2>1, <2>2, <2>8, <4>1 DEF QueueInv
    <3> QED
      BY <3>1, <3>2
  <2> QED
    BY <2>2, <2>3, <2>4, <2>6, <2>7, <2>8 DEF QueueInv
<1>3. ASSUME NEW n \in Places, TxDone(n) \/ TxFailed(n) PROVE QueueInv'
  <2>1. UNCHANGED <<log, cmd_data, last>> /\ tx[n] = "sending"
    BY <1>3 DEF TxDone, TxFailed
  <2>2. \A k \in Places : k # n => tx'[k] = tx[k]
    BY <1>3 DEF TxDone, TxFailed, TypeOK
  <2>3. \A k \in Places : k > last => tx'[k] = "none"
    BY <2>1, <2>2 DEF QueueInv
  <2> QED
    BY <2>1, <2>3 DEF QueueInv, ListInv
<1>4. CASE MainSend
  <2>1. PICK n : n = Head(cmd_data)
    OBVIOUS
  <2>2. n \in Places /\ n \in 1 .. Len(log) /\ n > last
    BY <1>4, <2>1, QueueHead DEF MainSend, AtHead
  <2>3. last' = n /\ cmd_data' = Tail(cmd_data) /\ log' = log
    BY <1>4, <2>1 DEF MainSend, Send
  <2>4. \A m \in Places : m > n => tx'[m] = "none"
    <3> SUFFICES ASSUME NEW m \in Places, m > n PROVE tx'[m] = "none"
      OBVIOUS
    <3>1. m > last /\ m # n
      BY <2>2 DEF Places, TypeOK
    <3>2. tx'[m] = tx[m]
      BY <1>4, <2>1, <2>2, <3>1 DEF MainSend, Send, TypeOK
    <3> QED
      BY <3>1, <3>2 DEF QueueInv
  <2> QED
    BY <1>4, <2>1, <2>2, <2>3, <2>4, QueueHead DEF MainSend, AtHead, QueueInv, ListInv
<1>5. CASE MainClose \/ MainRefuse
  <2>1. PICK n : n = Head(cmd_data)
    OBVIOUS
  <2>2. cmd_data # <<>> /\ cmd_data' = Tail(cmd_data) /\ UNCHANGED <<log, last, tx>>
    BY <1>5 DEF MainClose, MainRefuse, AtHead
  <2>3. n \in Nat /\ n > last /\ last \in Nat
    BY <2>1, <2>2, QueueHead DEF Places, TypeOK
  <2>4. \A i \in 1 .. Len(cmd_data') : cmd_data'[i] > n /\ cmd_data'[i] \in 1 .. Len(log)
    BY <2>1, <2>2, QueueHead
  <2>5. \A i \in 1 .. Len(cmd_data') : cmd_data'[i] > last
    BY <2>3, <2>4
  <2>6. \A i, j \in 1 .. Len(cmd_data') : i < j => cmd_data'[i] < cmd_data'[j]
    BY <2>1, <2>2, QueueHead
  <2> QED
    BY <2>2, <2>4, <2>5, <2>6 DEF QueueInv, ListInv
<1>6. CASE MainExit
  <2>1. cmd_data' = <<>> /\ UNCHANGED <<log, last, tx>>
    BY <1>6 DEF MainExit
  <2>2. Len(cmd_data') = 0
    BY <2>1
  <2> QED
    BY <2>1, <2>2 DEF QueueInv, ListInv
<1>7. \/ UNCHANGED <<log, cmd_data, last, tx>>
      \/ \E kind, id : ClientSend(kind, id)
      \/ \E n \in Places : TxDone(n) \/ TxFailed(n)
      \/ MainSend \/ MainClose \/ MainRefuse \/ MainExit
  BY DEF Next, MainStep, KeventStep, Receive, KRead, KReadFails, KReopen, KSignal, KPoll,
         MainTake, MainCec, MainTxErr, MainClosed, MainListEnd, vars
<1> QED
  BY <1>1, <1>2, <1>3, <1>4, <1>5, <1>6, <1>7

LEMMA TypeAndQueue == Spec => [](TypeOK /\ QueueInv)
<1>1. TypeOK /\ QueueInv /\ [Next]_vars => TypeOK' /\ QueueInv'
  BY NextType, NextQueue DEF QueueInv
<1> QED
  BY <1>1, InitType, InitQueue, PTL DEF Spec

\* Every variable keeps its type, whatever identifiers the client writes and
\* however many commands and messages there are: above all, the identifier of
\* an error is a byte, and the command is one that was in the list.
THEOREM TypeCorrect == Spec => []TypeOK
<1> QED
  BY TypeAndQueue, PTL

-----------------------------------------------------------------------------
(* Numbers of messages.                                                     *)

One(b) == IF b THEN 1 ELSE 0

\* The places where the bit waits to be handled.
Waiting(bit, before) ==
  One(bit \in kevents) + One(bit \in kev) + One(bit \in hdmi_events)
    + One(bit \in events /\ mpc \in before)

\* Every bit that waits stands for a message or a failure not told yet.
IndInv == cmd_id_ind + Waiting("CEC", {"cec"}) <= received
ErrInv == Len(errors) + Waiting("CECTXERR", {"cec", "txerr"}) <= Cardinality(Failed)

\* Bits just read, and the local events, are used up in their places.
EventsInv ==
  /\ kpc # "signal" => kev = {}
  /\ mpc \in {"wait", "list", "closed", "ended"} => events = {}

LEMMA InitEvents == Init => EventsInv
BY DEF Init, EventsInv

LEMMA NextEvents == EventsInv /\ [Next]_vars => EventsInv'
<1> SUFFICES ASSUME EventsInv, [Next]_vars PROVE EventsInv'
  OBVIOUS
<1> USE DEF EventsInv, clientVars, busVars, keventVars, eventVars
<1>1. CASE UNCHANGED <<kpc, kev, mpc, events>>
  BY <1>1
<1>2. CASE KRead \/ KReadFails \/ KReopen \/ KSignal \/ KPoll
  BY <1>2 DEF KRead, KReadFails, KReopen, KSignal, KPoll
<1>3. CASE MainTake \/ MainCec \/ MainTxErr
  BY <1>3 DEF MainTake, MainCec, MainTxErr
<1>4. CASE MainClose \/ MainClosed \/ MainRefuse \/ MainExit \/ MainListEnd
  BY <1>4 DEF MainClose, MainClosed, MainRefuse, MainExit, MainListEnd, FbClose, AtHead
<1>5. \/ UNCHANGED <<kpc, kev, mpc, events>>
      \/ KRead \/ KReadFails \/ KReopen \/ KSignal \/ KPoll
      \/ MainTake \/ MainCec \/ MainTxErr
      \/ MainClose \/ MainClosed \/ MainRefuse \/ MainExit \/ MainListEnd
  BY DEF Next, MainStep, KeventStep, ClientSend, Receive, Raise, TxDone, TxFailed,
         MainSend, vars
<1> QED
  BY <1>1, <1>2, <1>3, <1>4, <1>5

\* The commands that failed are finitely many.
LEMMA FailedFinite ==
  ASSUME NEW T \in SUBSET Places
  PROVE  IsFiniteSet(T) /\ Cardinality(T) \in Nat
<1>1. IsFiniteSet(Places)
  BY FS_Interval, BoundsAssumption DEF Places
<1> QED
  BY <1>1, FS_Subset, FS_CardinalityType

\* A step that moves a bit from one place to a later one, or clears it.
LEMMA NextInd == TypeOK /\ EventsInv /\ IndInv /\ [Next]_vars => IndInv'
<1> SUFFICES ASSUME TypeOK, EventsInv, IndInv, [Next]_vars PROVE IndInv'
  OBVIOUS
<1> USE DEF IndInv, Waiting, One, clientVars, busVars, keventVars, eventVars, replyVars
<1>0. cmd_id_ind \in Nat /\ received \in Nat
  BY BoundsAssumption DEF TypeOK
<1>1. CASE UNCHANGED <<cmd_id_ind, received, kevents, kev, hdmi_events, events, mpc>>
  BY <1>1
<1>2. CASE \E kind, id : ClientSend(kind, id)
  BY <1>2 DEF ClientSend
<1>3. CASE Receive
  BY <1>0, <1>3 DEF Receive, Raise
<1>4. CASE \E n \in Places : TxFailed(n)
  BY <1>4 DEF TxFailed, Raise
<1>5. CASE KRead
  BY <1>0, <1>5 DEF KRead, EventsInv
<1>6. CASE KSignal
  BY <1>0, <1>6 DEF KSignal, Forwarded
<1>7. CASE MainTake
  BY <1>0, <1>7 DEF MainTake, Taken, EventsInv
<1>8. CASE MainCec
  BY <1>0, <1>8 DEF MainCec
<1>9. CASE MainTxErr
  BY <1>0, <1>9 DEF MainTxErr
<1>10. CASE MainClose \/ MainExit
  BY <1>0, <1>10 DEF MainClose, MainExit, AtHead, FbClose
<1>11. CASE MainClosed \/ MainRefuse \/ MainListEnd
  BY <1>0, <1>11 DEF MainClosed, MainRefuse, MainListEnd, AtHead
<1>12. \/ UNCHANGED <<cmd_id_ind, received, kevents, kev, hdmi_events, events, mpc>>
       \/ (\E kind, id : ClientSend(kind, id)) \/ Receive \/ (\E n \in Places : TxFailed(n))
       \/ KRead \/ KSignal \/ MainTake \/ MainCec \/ MainTxErr \/ MainClose \/ MainExit
       \/ MainClosed \/ MainRefuse \/ MainListEnd
  BY DEF Next, MainStep, KeventStep, KReadFails, KReopen, KPoll, MainSend, TxDone, vars
<1> QED
  BY <1>1, <1>2, <1>3, <1>4, <1>5, <1>6, <1>7, <1>8, <1>9, <1>10, <1>11, <1>12

\* Commands that fail are those that were in transmission or just begun.
LEMMA FailedGrows ==
  ASSUME TypeOK, QueueInv, [Next]_vars
  PROVE  /\ Failed \subseteq Failed'
         /\ Failed' # Failed => \/ \E n \in Places : TxFailed(n)
                                \/ MainSend
<1> USE DEF clientVars, busVars, Failed
<1>1. CASE UNCHANGED tx
  BY <1>1
<1>2. ASSUME NEW n \in Places, TxDone(n) PROVE Failed' = Failed
  BY <1>2 DEF TxDone, TypeOK
<1>3. ASSUME NEW n \in Places, TxFailed(n) PROVE Failed \subseteq Failed'
  BY <1>3 DEF TxFailed, TypeOK
<1>4. CASE MainSend
  <2>1. PICK n : n = Head(cmd_data)
    OBVIOUS
  <2>2. n \in Places /\ tx[n] = "none"
    BY <1>4, <2>1, QueueHead DEF MainSend, AtHead
  <2>3. \A m \in Places : m # n => tx'[m] = tx[m]
    BY <1>4, <2>1, <2>2 DEF MainSend, Send, TypeOK
  <2> QED
    BY <1>4, <2>2, <2>3
<1>5. \/ UNCHANGED tx \/ (\E n \in Places : TxDone(n) \/ TxFailed(n)) \/ MainSend
  BY DEF Next, MainStep, KeventStep, ClientSend, Receive, KRead, KReadFails, KReopen,
         KSignal, KPoll, MainTake, MainCec, MainTxErr, MainClose, MainClosed, MainRefuse,
         MainExit, MainListEnd, vars
<1> QED
  BY <1>1, <1>2, <1>3, <1>4, <1>5

\* An HDMI_CECSEND refused at once is one more failure and one more error.
LEMMA SendCases ==
  ASSUME TypeOK, QueueInv, MainSend, NEW n, n = Head(cmd_data)
  PROVE  /\ last' = n /\ cectx_cmd_id' = log[n].cmd_id
         /\ log' = log /\ dropped' = dropped
         /\ UNCHANGED <<kevents, kev, hdmi_events, events, mpc>>
         /\ \/ Failed' = Failed /\ errors' = errors
            \/ /\ Failed' = Failed \union {n} /\ n \notin Failed
               /\ errors' = ErrorOf(n, log[n].cmd_id)
<1>1. n \in Places /\ tx[n] = "none"
  BY QueueHead DEF MainSend, AtHead
<1>2. /\ last' = n /\ cectx_cmd_id' = log[n].cmd_id
      /\ log' = log /\ dropped' = dropped
      /\ UNCHANGED <<kevents, kev, hdmi_events, events, mpc>>
  BY DEF MainSend, Send, eventVars, keventVars, closeVars
<1>3. \/ tx' = [tx EXCEPT ![n] = "sending"] /\ errors' = errors
      \/ tx' = [tx EXCEPT ![n] = "refused"] /\ errors' = ErrorOf(n, log[n].cmd_id)
  BY DEF MainSend, Send
<1>4. ASSUME tx' = [tx EXCEPT ![n] = "sending"] PROVE Failed' = Failed
  BY <1>1, <1>4 DEF Failed, TypeOK
<1>5. ASSUME tx' = [tx EXCEPT ![n] = "refused"]
      PROVE  Failed' = Failed \union {n} /\ n \notin Failed
  BY <1>1, <1>5 DEF Failed, TypeOK
<1> QED
  BY <1>2, <1>3, <1>4, <1>5

\* One more error.
LEMMA ErrorAppends ==
  ASSUME TypeOK, NEW n, NEW id, errors' = ErrorOf(n, id)
  PROVE  /\ Len(errors) \in Nat /\ Len(errors') = Len(errors) + 1
         /\ \A k \in 1 .. Len(errors) : errors'[k] = errors[k]
         /\ errors'[Len(errors) + 1].of = n
         /\ errors'[Len(errors) + 1].cmd_id = id
<1>1. PICK e : e = [cmd_id |-> id, of |-> n]
  OBVIOUS
<1>2. errors \in Seq(Error) /\ errors' = Append(errors, e)
  BY <1>1 DEF TypeOK, Error, ErrorOf
<1>3. /\ Len(errors) \in Nat /\ Len(errors') = Len(errors) + 1
      /\ \A k \in 1 .. Len(errors) : errors'[k] = errors[k]
      /\ errors'[Len(errors) + 1] = e
  BY <1>2, LenProperties
<1> QED
  BY <1>1, <1>3

LEMMA NextErr == TypeOK /\ QueueInv /\ EventsInv /\ ErrInv /\ [Next]_vars => ErrInv'
<1> SUFFICES ASSUME TypeOK, QueueInv, EventsInv, ErrInv, [Next]_vars PROVE ErrInv'
  OBVIOUS
<1> USE DEF ErrInv, Waiting, One, clientVars, busVars, keventVars, eventVars, replyVars
<1>0. Len(errors) \in Nat /\ IsFiniteSet(Failed) /\ Cardinality(Failed) \in Nat
  <2>1. Failed \in SUBSET Places
    BY DEF Failed
  <2> QED
    BY <2>1, FailedFinite, LenProperties DEF TypeOK
<1>1. CASE Failed' = Failed /\ UNCHANGED <<errors, kevents, kev, hdmi_events, events, mpc>>
  BY <1>1
<1>2. ASSUME NEW n \in Places, TxFailed(n) PROVE ErrInv'
  <2>1. Failed' = Failed \union {n} /\ n \notin Failed
    BY <1>2 DEF TxFailed, Failed, TypeOK
  <2>2. Cardinality(Failed') = Cardinality(Failed) + 1
    BY <1>0, <2>1, FS_AddElement
  <2> QED
    BY <1>0, <1>2, <2>2 DEF TxFailed, Raise
<1>3. CASE MainSend
  <2>1. PICK n : n = Head(cmd_data)
    OBVIOUS
  <2>2. CASE Failed' = Failed /\ errors' = errors
    BY <1>3, <2>1, <2>2, SendCases
  <2>3. CASE /\ Failed' = Failed \union {n} /\ n \notin Failed
             /\ errors' = ErrorOf(n, log[n].cmd_id)
    <3>1. Cardinality(Failed') = Cardinality(Failed) + 1
      BY <1>0, <2>3, FS_AddElement
    <3>2. Len(errors') = Len(errors) + 1
      BY <2>3, ErrorAppends
    <3>3. UNCHANGED <<kevents, kev, hdmi_events, events, mpc>>
      BY <1>3, <2>1, SendCases
    <3> QED
      BY <1>0, <3>1, <3>2, <3>3
  <2> QED
    BY <1>3, <2>1, <2>2, <2>3, SendCases
<1>4. ASSUME Failed' = Failed, MainTxErr PROVE ErrInv'
  <2>1. mpc = "txerr" /\ events' = {} /\ UNCHANGED <<kevents, kev, hdmi_events>>
    BY <1>4 DEF MainTxErr
  <2>2. CASE "CECTXERR" \in events
    <3>1. errors' = ErrorOf(last, cectx_cmd_id)
      BY <1>4, <2>2 DEF MainTxErr
    <3>2. Len(errors') = Len(errors) + 1
      BY <3>1, ErrorAppends
    <3> QED
      BY <1>0, <1>4, <2>1, <2>2, <3>2
  <2>3. CASE "CECTXERR" \notin events
    <3>1. errors' = errors
      BY <1>4, <2>3 DEF MainTxErr
    <3> QED
      BY <1>0, <1>4, <2>1, <2>3, <3>1
  <2> QED
    BY <2>2, <2>3
<1>5. ASSUME Failed' = Failed,
             \/ (\E kind, id : ClientSend(kind, id)) \/ Receive
             \/ KRead \/ KSignal \/ MainTake \/ MainCec
      PROVE  ErrInv'
  <2>1. CASE \E kind, id : ClientSend(kind, id)
    BY <1>5, <2>1 DEF ClientSend
  <2>2. CASE Receive
    BY <1>5, <2>2 DEF Receive, Raise
  <2>3. CASE KRead
    BY <1>0, <1>5, <2>3 DEF KRead, EventsInv
  <2>4. CASE KSignal
    BY <1>0, <1>5, <2>4 DEF KSignal, Forwarded
  <2>5. CASE MainTake
    BY <1>0, <1>5, <2>5 DEF MainTake, Taken, EventsInv
  <2>6. CASE MainCec
    BY <1>0, <1>5, <2>6 DEF MainCec
  <2> QED
    BY <1>5, <2>1, <2>2, <2>3, <2>4, <2>5, <2>6
<1>6. ASSUME Failed' = Failed,
             MainClose \/ MainExit \/ MainClosed \/ MainRefuse \/ MainListEnd
      PROVE  ErrInv'
  <2>1. CASE MainClose \/ MainExit
    BY <1>0, <1>6, <2>1 DEF MainClose, MainExit, AtHead, FbClose
  <2>2. CASE MainClosed \/ MainRefuse \/ MainListEnd
    BY <1>0, <1>6, <2>2 DEF MainClosed, MainRefuse, MainListEnd, AtHead
  <2> QED
    BY <1>6, <2>1, <2>2
<1>7. \/ UNCHANGED <<errors, kevents, kev, hdmi_events, events, mpc>>
      \/ (\E n \in Places : TxFailed(n)) \/ MainSend \/ MainTxErr
      \/ (\E kind, id : ClientSend(kind, id)) \/ Receive \/ KRead \/ KSignal
      \/ MainTake \/ MainCec
      \/ MainClose \/ MainExit \/ MainClosed \/ MainRefuse \/ MainListEnd
  BY DEF Next, MainStep, KeventStep, KReadFails, KReopen, KPoll, TxDone, vars
<1>8. \/ Failed' = Failed \/ (\E n \in Places : TxFailed(n)) \/ MainSend
  BY FailedGrows
<1> QED
  BY <1>1, <1>2, <1>3, <1>4, <1>5, <1>6, <1>7, <1>8

\* No message to the client is invented: failures that merge are told once, and
\* none is told twice, for any number of commands and of received messages.
THEOREM NoneInventedCorrect == Spec => []NoneInvented
<1> DEFINE CountInv == TypeOK /\ QueueInv /\ EventsInv /\ IndInv /\ ErrInv
<1>1. Init => CountInv
  <2> SUFFICES ASSUME Init PROVE CountInv
    OBVIOUS
  <2>1. Failed = {}
    BY DEF Init, Failed
  <2>2. Len(errors) = 0 /\ Cardinality(Failed) = 0
    BY <2>1, FS_EmptySet DEF Init
  <2>3. IndInv /\ ErrInv
    BY <2>2 DEF Init, IndInv, ErrInv, Waiting, One
  <2> QED
    BY <2>3, InitType, InitQueue, InitEvents
<1>2. CountInv /\ [Next]_vars => CountInv'
  BY NextType, NextQueue, NextEvents, NextInd, NextErr DEF QueueInv
<1>3. CountInv => NoneInvented
  <2> SUFFICES ASSUME CountInv PROVE NoneInvented
    OBVIOUS
  <2>1. Len(errors) \in Nat /\ cmd_id_ind \in Nat /\ received \in Nat
    BY BoundsAssumption, LenProperties DEF TypeOK
  <2>2. Cardinality(Failed) \in Nat
    BY FailedFinite DEF Failed
  <2> QED
    BY <2>1, <2>2 DEF IndInv, ErrInv, Waiting, One, NoneInvented
<1> QED
  BY <1>1, <1>2, <1>3, PTL DEF Spec

-----------------------------------------------------------------------------
(* Attribution.                                                             *)

\* The identifier kept for cecsenderr is that of the command handled last.
IdInv == last # 0 => cectx_cmd_id = log[last].cmd_id

\* An error of command n is attributed as it should be.
Attributed(n) ==
  n \in 1 .. Len(log) /\ \E m \in Failed : m <= n /\ (~overlapped => m = n)

\* A transmission on its way is that of the command handled last, or an
\* earlier one if commands overlap.
SendingInv ==
  \A n \in Places : tx[n] = "sending" =>
     n <= last /\ (~overlapped => n = last)

\* A failure that waits, wherever its bit is, would be attributed to the
\* command handled last.
PendingInv == Pending => Attributed(last)

AttributionInv == IdInv /\ SendingInv /\ PendingInv /\ ErrorsAttributed

\* What no step takes back.
NothingUndone ==
  /\ Failed \subseteq Failed'
  /\ overlapped => overlapped'
  /\ 1 .. Len(log) \subseteq 1 .. Len(log')
  /\ \A i \in 1 .. Len(log) : log'[i] = log[i]

LEMMA NextKept == ASSUME TypeOK, QueueInv, [Next]_vars PROVE NothingUndone
<1> USE DEF clientVars, sendVars
<1>1. Failed \subseteq Failed'
  BY FailedGrows
<1>2. overlapped => overlapped'
  BY DEF Next, MainStep, KeventStep, ClientSend, Receive, TxDone, TxFailed, KRead,
         KReadFails, KReopen, KSignal, KPoll, MainTake, MainCec, MainTxErr, MainSend,
         MainClose, MainClosed, MainRefuse, MainExit, MainListEnd, vars
<1>3. CASE log' = log
  BY <1>1, <1>2, <1>3 DEF NothingUndone
<1>4. CASE \E kind, id : ClientSend(kind, id)
  <2>1. PICK kind, id : ClientSend(kind, id)
    BY <1>4
  <2>2. PICK k \in Nat : k = Len(log)
    BY <2>1, SendAppends
  <2>3. Len(log') = k + 1 /\ \A i \in 1 .. Len(log) : log'[i] = log[i]
    BY <2>1, <2>2, SendAppends
  <2>4. 1 .. k \subseteq 1 .. k + 1
    OBVIOUS
  <2> QED
    BY <1>1, <1>2, <2>2, <2>3, <2>4 DEF NothingUndone
<1>5. log' = log \/ \E kind, id : ClientSend(kind, id)
  BY DEF Next, MainStep, KeventStep, Receive, TxDone, TxFailed, KRead,
         KReadFails, KReopen, KSignal, KPoll, MainTake, MainCec, MainTxErr, MainSend,
         MainClose, MainClosed, MainRefuse, MainExit, MainListEnd, vars
<1> QED
  BY <1>3, <1>4, <1>5

LEMMA AttributedStays ==
  ASSUME NothingUndone, NEW n, Attributed(n)
  PROVE  n \in 1 .. Len(log') /\ \E m \in Failed' : m <= n /\ (~overlapped' => m = n)
<1>1. PICK m \in Failed : m <= n /\ (~overlapped => m = n)
  BY DEF Attributed
<1> QED
  BY <1>1 DEF Attributed, NothingUndone

\* Errors stay rightly attributed.
LEMMA ErrorsStay ==
  ASSUME NothingUndone, errors' = errors, ErrorsAttributed
  PROVE  ErrorsAttributed'
<1> SUFFICES ASSUME NEW k \in 1 .. Len(errors)
             PROVE  /\ errors[k].of \in 1 .. Len(log')
                    /\ errors[k].cmd_id = log'[errors[k].of].cmd_id
                    /\ \E m \in Failed' : /\ m <= errors[k].of
                                          /\ ~overlapped' => m = errors[k].of
  BY DEF ErrorsAttributed
<1>1. Attributed(errors[k].of) /\ errors[k].cmd_id = log[errors[k].of].cmd_id
  BY DEF ErrorsAttributed, Attributed
<1>2. errors[k].of \in 1 .. Len(log)
  BY <1>1 DEF Attributed
<1>3. log'[errors[k].of] = log[errors[k].of]
  BY <1>2 DEF NothingUndone
<1> QED
  BY <1>1, <1>3, AttributedStays

\* One more error, rightly attributed.
LEMMA ErrorsGrow ==
  ASSUME TypeOK, NothingUndone, NEW n, NEW id, errors' = ErrorOf(n, id),
         n \in 1 .. Len(log'), id = log'[n].cmd_id,
         \E m \in Failed' : m <= n /\ (~overlapped' => m = n),
         ErrorsAttributed
  PROVE  ErrorsAttributed'
<1>1. PICK l \in Nat : l = Len(errors)
  BY ErrorAppends
<1>2. /\ Len(errors') = l + 1
      /\ \A k \in 1 .. l : errors'[k] = errors[k]
      /\ errors'[l + 1].of = n /\ errors'[l + 1].cmd_id = id
  BY <1>1, ErrorAppends
<1> SUFFICES ASSUME NEW k \in 1 .. l + 1
             PROVE  /\ errors'[k].of \in 1 .. Len(log')
                    /\ errors'[k].cmd_id = log'[errors'[k].of].cmd_id
                    /\ \E m \in Failed' : /\ m <= errors'[k].of
                                          /\ ~overlapped' => m = errors'[k].of
  BY <1>2 DEF ErrorsAttributed
<1>3. CASE k = l + 1
  BY <1>2, <1>3
<1>4. CASE k \in 1 .. l
  <2>1. errors'[k] = errors[k]
    BY <1>2, <1>4
  <2>2. Attributed(errors[k].of) /\ errors[k].cmd_id = log[errors[k].of].cmd_id
    BY <1>1, <1>4 DEF ErrorsAttributed, Attributed
  <2>3. errors[k].of \in 1 .. Len(log)
    BY <2>2 DEF Attributed
  <2>4. log'[errors[k].of] = log[errors[k].of]
    BY <2>3 DEF NothingUndone
  <2> QED
    BY <2>1, <2>2, <2>4, AttributedStays
<1> QED
  BY <1>3, <1>4

\* A step that sends no error and raises no bit leaves attribution as it is.
LEMMA AttributionStays ==
  ASSUME NothingUndone, QueueInv, TypeOK, AttributionInv, Pending' => Pending,
         \A n \in Places : tx'[n] = "sending" => tx[n] = "sending",
         UNCHANGED <<cectx_cmd_id, last, overlapped, errors>>
  PROVE  AttributionInv'
<1>1. IdInv'
  <2> SUFFICES ASSUME last # 0 PROVE cectx_cmd_id = log'[last].cmd_id
    BY DEF IdInv
  <2>1. last \in 1 .. Len(log)
    <3>1. PICK k : k = Len(log)
      OBVIOUS
    <3>2. k \in Nat
      BY <3>1, LenProperties DEF TypeOK
    <3> QED
      BY <3>1, <3>2 DEF QueueInv, TypeOK, Places
  <2> QED
    BY <2>1 DEF AttributionInv, IdInv, NothingUndone
<1>2. SendingInv'
  BY DEF AttributionInv, SendingInv
<1>3. PendingInv'
  <2> SUFFICES ASSUME Pending
               PROVE  /\ last \in 1 .. Len(log')
                      /\ \E m \in Failed' : m <= last /\ (~overlapped' => m = last)
    BY DEF PendingInv, Attributed
  <2> QED
    BY AttributedStays DEF AttributionInv, PendingInv
<1>4. ErrorsAttributed'
  BY ErrorsStay DEF AttributionInv
<1> QED
  BY <1>1, <1>2, <1>3, <1>4 DEF AttributionInv

LEMMA SendAttribution ==
  ASSUME TypeOK, QueueInv, AttributionInv, MainSend, NothingUndone
  PROVE  AttributionInv'
<1> USE DEF AttributionInv
<1>1. PICK n : n = Head(cmd_data)
  OBVIOUS
<1>2. n \in Places /\ n \in 1 .. Len(log) /\ n > last /\ n \in Nat
  BY <1>1, QueueHead DEF MainSend, AtHead, Places
<1>3. PICK l \in Nat : l = last
  BY DEF TypeOK, Places
<1>4. /\ last' = n /\ cectx_cmd_id' = log[n].cmd_id /\ log' = log
      /\ UNCHANGED <<kevents, kev, hdmi_events, events>>
  BY <1>1, SendCases
<1>5. overlapped' = (overlapped \/ Unsettled)
  BY DEF MainSend
<1>6. IdInv'
  BY <1>4 DEF IdInv
<1>7. SendingInv'
  <2> SUFFICES ASSUME NEW m \in Places, tx'[m] = "sending"
               PROVE  m <= n /\ (~overlapped' => m = n)
    BY <1>4 DEF SendingInv
  <2>1. CASE m = n
    BY <1>2, <2>1
  <2>2. CASE m # n
    <3>1. tx[m] = "sending"
      BY <1>1, <1>2, <2>2 DEF MainSend, Send, TypeOK
    <3>2. m <= l /\ m \in Nat /\ l < n
      BY <1>2, <1>3, <3>1 DEF SendingInv, Places
    <3>3. overlapped'
      BY <1>5, <3>1 DEF Unsettled
    <3> QED
      BY <1>2, <3>2, <3>3
  <2> QED
    BY <2>1, <2>2
<1>8. PendingInv'
  <2> SUFFICES ASSUME Pending
               PROVE  \E m \in Failed' : m <= n /\ (~overlapped' => m = n)
    BY <1>2, <1>4 DEF PendingInv, Pending, Attributed
  <2>1. PICK m \in Failed : m <= l
    BY <1>3 DEF PendingInv, Attributed
  <2>2. m \in Failed' /\ m \in Nat
    BY <2>1 DEF Failed, NothingUndone, Places
  <2>3. overlapped'
    BY <1>5 DEF Unsettled
  <2> QED
    BY <1>2, <1>3, <2>1, <2>2, <2>3
<1>9. ErrorsAttributed'
  <2>1. CASE errors' = errors
    BY <2>1, ErrorsStay
  <2>2. CASE Failed' = Failed \union {n} /\ errors' = ErrorOf(n, log[n].cmd_id)
    <3>1. \E m \in Failed' : m <= n /\ (~overlapped' => m = n)
      BY <1>2, <2>2
    <3>2. n \in 1 .. Len(log') /\ log[n].cmd_id = log'[n].cmd_id
      BY <1>2, <1>4
    <3> QED
      BY <2>2, <3>1, <3>2, ErrorsGrow
  <2> QED
    BY <1>1, <2>1, <2>2, SendCases
<1> QED
  BY <1>6, <1>7, <1>8, <1>9

LEMMA NextAttribution ==
  TypeOK /\ QueueInv /\ EventsInv /\ AttributionInv /\ [Next]_vars => AttributionInv'
<1> SUFFICES ASSUME TypeOK, QueueInv, EventsInv, AttributionInv, [Next]_vars
             PROVE  AttributionInv'
  OBVIOUS
<1> USE DEF clientVars, busVars, keventVars, eventVars, sendVars, closeVars, replyVars
<1>0. NothingUndone
  BY NextKept
<1>1. ASSUME NEW n \in Places, TxDone(n) PROVE AttributionInv'
  <2>1. \A m \in Places : tx'[m] = "sending" => tx[m] = "sending"
    BY <1>1 DEF TxDone, TypeOK
  <2>2. UNCHANGED <<cectx_cmd_id, last, overlapped, errors>> /\ (Pending' => Pending)
    BY <1>1 DEF TxDone, Pending
  <2> QED
    BY <1>0, <2>1, <2>2, AttributionStays
<1>2. ASSUME NEW n \in Places, TxFailed(n) PROVE AttributionInv'
  <2>1. \A m \in Places : tx'[m] = "sending" => tx[m] = "sending"
    BY <1>2 DEF TxFailed, TypeOK
  <2>2. UNCHANGED <<log, cectx_cmd_id, last, overlapped, errors>> /\ n \in Failed'
    BY <1>2 DEF TxFailed, Failed, TypeOK
  <2>3. n <= last /\ (~overlapped => n = last)
    BY <1>2 DEF TxFailed, AttributionInv, SendingInv
  <2>4. last \in 1 .. Len(log)
    <3>1. PICK k : k = Len(log)
      OBVIOUS
    <3>2. k \in Nat
      BY <3>1, LenProperties DEF TypeOK
    <3> QED
      BY <2>3, <3>1, <3>2 DEF QueueInv, TypeOK, Places
  <2>5. PendingInv'
    BY <2>2, <2>3, <2>4 DEF PendingInv, Attributed
  <2>6. ErrorsAttributed'
    BY <1>0, <2>2, ErrorsStay DEF AttributionInv
  <2> QED
    BY <2>1, <2>2, <2>5, <2>6 DEF AttributionInv, SendingInv, IdInv
<1>3. CASE MainTxErr
  <2>1. UNCHANGED <<log, tx, cectx_cmd_id, last, overlapped>> /\ (Pending' => Pending)
    BY <1>3 DEF MainTxErr, Pending
  <2>2. CASE "CECTXERR" \notin events
    <3>1. errors' = errors
      BY <1>3, <2>2 DEF MainTxErr
    <3> QED
      BY <1>0, <2>1, <3>1, AttributionStays
  <2>3. CASE "CECTXERR" \in events
    <3>1. errors' = ErrorOf(last, cectx_cmd_id)
      BY <1>3, <2>3 DEF MainTxErr
    <3>2. Attributed(last)
      BY <2>3 DEF AttributionInv, PendingInv, Pending
    <3>3. last \in 1 .. Len(log') /\ cectx_cmd_id = log'[last].cmd_id
      BY <2>1, <3>2 DEF Attributed, AttributionInv, IdInv
    <3>4. /\ last \in 1 .. Len(log')
          /\ \E m \in Failed' : m <= last /\ (~overlapped' => m = last)
      BY <1>0, <3>2, AttributedStays
    <3>5. ErrorsAttributed'
      BY <1>0, <3>1, <3>3, <3>4, ErrorsGrow DEF AttributionInv
    <3>6. PendingInv'
      BY <2>1, <3>4 DEF PendingInv, Attributed
    <3> QED
      BY <2>1, <3>5, <3>6 DEF AttributionInv, SendingInv, IdInv
  <2> QED
    BY <2>2, <2>3
<1>4. CASE MainSend
  BY <1>0, <1>4, SendAttribution
<1>5. ASSUME UNCHANGED <<tx, cectx_cmd_id, last, overlapped, errors>>, Pending' => Pending
      PROVE  AttributionInv'
  BY <1>0, <1>5, AttributionStays
<1>6. CASE (\E kind, id : ClientSend(kind, id)) \/ Receive
  <2>1. UNCHANGED <<tx, cectx_cmd_id, last, overlapped, errors>>
    BY <1>6 DEF ClientSend, Receive
  <2>2. /\ kev' = kev /\ events' = events
        /\ kevents' \subseteq kevents \union {"CEC"}
        /\ hdmi_events' \subseteq hdmi_events \union {"CMD"}
    BY <1>6 DEF ClientSend, Receive, Raise
  <2>3. Pending' => Pending
    BY <2>2 DEF Pending
  <2> QED
    BY <1>5, <2>1, <2>3
<1>7. CASE KRead \/ KReadFails \/ KReopen \/ KSignal \/ KPoll
  BY <1>5, <1>7 DEF KRead, KReadFails, KReopen, KSignal, Forwarded, KPoll, Pending
<1>8. CASE MainTake \/ MainCec \/ MainListEnd \/ UNCHANGED vars
  BY <1>5, <1>8 DEF MainTake, Taken, MainCec, MainListEnd, vars, Pending
<1>9. CASE MainClose \/ MainClosed \/ MainRefuse \/ MainExit
  BY <1>5, <1>9 DEF MainClose, MainClosed, MainRefuse, MainExit, FbClose, Pending
<1> QED
  BY <1>1, <1>2, <1>3, <1>4, <1>6, <1>7, <1>8, <1>9 DEF Next, MainStep, KeventStep

\* HDMI_CECSENDERR carries the kept byte of the identifier of the command that
\* failed, unless commands overlapped; then it may be that of a later one, but
\* never that of an earlier one.  Nothing is assumed of the identifiers.
THEOREM ErrorsAttributedCorrect == Spec => []ErrorsAttributed
<1> DEFINE IInv == TypeOK /\ QueueInv /\ EventsInv /\ AttributionInv
<1>1. Init => IInv
  <2> SUFFICES ASSUME Init PROVE IInv
    OBVIOUS
  <2>1. Len(errors) = 0 /\ \A n \in Places : tx[n] = "none"
    BY DEF Init
  <2>2. AttributionInv
    BY <2>1 DEF Init, AttributionInv, IdInv, SendingInv, PendingInv, Pending,
                ErrorsAttributed
  <2> QED
    BY <2>2, InitType, InitQueue, InitEvents
<1>2. IInv /\ [Next]_vars => IInv'
  BY NextType, NextQueue, NextEvents, NextAttribution DEF QueueInv
<1>3. IInv => ErrorsAttributed
  BY DEF AttributionInv
<1> QED
  BY <1>1, <1>2, <1>3, PTL DEF Spec

-----------------------------------------------------------------------------
(* What is forgotten.                                                       *)

\* Each command that has failed is one handled already.
LEMMA FailedWasHandled ==
  ASSUME TypeOK, QueueInv, NEW n \in Failed
  PROVE  n \in Nat /\ last \in Nat /\ n <= last
<1>1. n \in Nat /\ last \in Nat /\ n \in Places /\ tx[n] # "none"
  BY DEF TypeOK, Failed, Places
<1> QED
  BY <1>1 DEF QueueInv

Told(n) == \E k \in 1 .. Len(errors) : n <= errors[k].of

\* Sending one more error forgets none.
LEMMA ToldGrows ==
  ASSUME TypeOK, NEW e, NEW id, errors' = ErrorOf(e, id)
  PROVE  /\ \A n : Told(n) => \E k \in 1 .. Len(errors') : n <= errors'[k].of
         /\ \A n \in Nat : n <= e => \E k \in 1 .. Len(errors') : n <= errors'[k].of
<1>1. PICK l \in Nat : l = Len(errors)
  BY ErrorAppends
<1>2. /\ Len(errors') = l + 1
      /\ \A k \in 1 .. l : errors'[k] = errors[k]
      /\ errors'[l + 1].of = e
  BY <1>1, ErrorAppends
<1>3. l + 1 \in 1 .. Len(errors') /\ \A k \in 1 .. l : k \in 1 .. Len(errors')
  BY <1>2
<1> QED
  BY <1>1, <1>2, <1>3 DEF Told

LEMMA NextTold ==
  TypeOK /\ QueueInv /\ EventsInv /\ FailuresTold /\ [Next]_vars => FailuresTold'
<1> SUFFICES ASSUME TypeOK, QueueInv, EventsInv, FailuresTold, [Next]_vars
             PROVE  FailuresTold'
  OBVIOUS
<1> USE DEF clientVars, busVars, keventVars, eventVars, sendVars, closeVars, replyVars
<1>1. ASSUME Failed' = Failed, UNCHANGED <<errors, dropped>>, Pending => Pending'
      PROVE  FailuresTold'
  BY <1>1 DEF FailuresTold
<1>2. ASSUME NEW n \in Places, TxFailed(n) PROVE FailuresTold'
  BY <1>2 DEF TxFailed, Raise, FailuresTold, Pending
<1>3. ASSUME Failed' = Failed, MainTxErr PROVE FailuresTold'
  <2>1. dropped' = dropped
    BY <1>3 DEF MainTxErr
  <2>2. CASE "CECTXERR" \in events
    <3>1. errors' = ErrorOf(last, cectx_cmd_id)
      BY <1>3, <2>2 DEF MainTxErr
    <3>2. \A n \in Failed : n \in Nat /\ n <= last
      BY FailedWasHandled
    <3> QED
      BY <1>3, <2>1, <3>1, <3>2, ToldGrows DEF FailuresTold
  <2>3. CASE "CECTXERR" \notin events
    <3>1. errors' = errors /\ (Pending => Pending')
      BY <1>3, <2>3 DEF MainTxErr, Pending
    <3> QED
      BY <1>1, <1>3, <2>1, <3>1
  <2> QED
    BY <2>2, <2>3
<1>4. CASE MainSend
  <2>1. PICK n : n = Head(cmd_data)
    OBVIOUS
  <2>2. n \in Nat
    BY <1>4, <2>1, QueueHead DEF MainSend, AtHead, Places
  <2>3. dropped' = dropped /\ (Pending => Pending')
    BY <1>4, <2>1, SendCases DEF Pending
  <2>4. CASE Failed' = Failed /\ errors' = errors
    BY <1>1, <2>3, <2>4
  <2>5. CASE Failed' = Failed \union {n} /\ errors' = ErrorOf(n, log[n].cmd_id)
    <3>1. \A m \in Failed' : m = n \/ m \in Failed
      BY <2>5
    <3>2. n <= n
      BY <2>2
    <3> QED
      BY <2>2, <2>3, <2>5, <3>1, <3>2, ToldGrows DEF FailuresTold, Told
  <2> QED
    BY <1>4, <2>1, <2>4, <2>5, SendCases
<1>5. ASSUME Failed' = Failed, MainClose \/ MainExit PROVE FailuresTold'
  <2>1. errors' = errors /\ UNCHANGED <<kev, hdmi_events, events>>
    BY <1>5 DEF MainClose, MainExit, FbClose
  <2>2. \/ kevents' = kevents /\ dropped' = dropped
        \/ /\ kevents' = {}
           /\ dropped' = IF "CECTXERR" \in kevents THEN dropped \union Failed ELSE dropped
    BY <1>5 DEF MainClose, MainExit, FbClose
  <2>3. CASE "CECTXERR" \in kevents /\ dropped' = dropped \union Failed
    BY <1>5, <2>3 DEF FailuresTold
  <2>4. CASE dropped' = dropped /\ (Pending => Pending')
    BY <1>1, <1>5, <2>1, <2>4
  <2> QED
    BY <2>1, <2>2, <2>3, <2>4 DEF Pending
<1>6. ASSUME Failed' = Failed,
             \/ (\E kind, id : ClientSend(kind, id)) \/ Receive
             \/ KRead \/ KReadFails \/ KReopen \/ KSignal \/ KPoll
             \/ (\E n \in Places : TxDone(n))
      PROVE  FailuresTold'
  <2>1. UNCHANGED <<errors, dropped>>
    BY <1>6 DEF ClientSend, Receive, TxDone, KRead, KReadFails, KReopen, KSignal, KPoll
  <2>2. Pending => Pending'
    BY <1>6 DEF ClientSend, Receive, Raise, TxDone, KRead, KReadFails, KReopen, KSignal,
                Forwarded, KPoll, Pending, EventsInv
  <2> QED
    BY <1>1, <1>6, <2>1, <2>2
<1>7. ASSUME Failed' = Failed,
             \/ MainTake \/ MainCec \/ MainClosed \/ MainRefuse \/ MainListEnd
             \/ UNCHANGED vars
      PROVE  FailuresTold'
  <2>1. UNCHANGED <<errors, dropped>>
    BY <1>7 DEF MainTake, MainCec, MainClosed, MainRefuse, MainListEnd, vars
  <2>2. Pending => Pending'
    BY <1>7 DEF MainTake, Taken, MainCec, MainClosed, MainRefuse, MainListEnd, vars,
                Pending, EventsInv
  <2> QED
    BY <1>1, <1>7, <2>1, <2>2
<1>8. Failed' = Failed \/ (\E n \in Places : TxFailed(n)) \/ MainSend
  BY FailedGrows
<1> QED
  BY <1>2, <1>3, <1>4, <1>5, <1>6, <1>7, <1>8 DEF Next, MainStep, KeventStep

\* A failure is forgotten only if hdmi_fb_close clears its bit in the driver: for
\* every other there is, or is under way, an HDMI_CECSENDERR of that command
\* or a later one.
THEOREM FailuresToldCorrect == Spec => []FailuresTold
<1>1. Init => FailuresTold
  BY DEF Init, FailuresTold, Failed
<1>2. LET IInv == TypeOK /\ QueueInv /\ EventsInv /\ FailuresTold
      IN  IInv /\ [Next]_vars => IInv'
  BY NextType, NextQueue, NextEvents, NextTold DEF QueueInv
<1> QED
  BY <1>1, <1>2, InitType, InitQueue, InitEvents, PTL DEF Spec

=============================================================================
