------------------------- MODULE VideoFormatsProofs -------------------------
(***************************************************************************)
(* Type correctness of VideoFormats, and the format that is chosen and      *)
(* shown, for every table of formats, every sink and every priority list.   *)
(***************************************************************************)
EXTENDS VideoFormats, TLAPS

\* The priority table holds formats, whatever list is entered.
LEMMA PrioTableType ==
  ASSUME NEW l \in PrioLists \union {DefaultPrio},
         vesaceaprio \in [Prios -> Format]
  PROVE  PrioTable(l) \in [Prios -> Format]
<1>1. l \in Seq(Format)
  BY PrioAssumption
<1>2. ASSUME NEW i \in Prios, i < Len(l) PROVE l[i + 1] \in Format
  BY <1>1, <1>2, SizesAssumption DEF Prios
<1>3. NoFormat \in Format
  BY DEF NoFormat, Format
<1> QED
  BY <1>2, <1>3 DEF PrioTable

\* The priorities entered for the formats are positions of the table.
LEMMA PrioritisedType ==
  ASSUME prio \in [Index -> 0 .. PrioDefault]
  PROVE  Prioritised \in [Index -> 0 .. PrioDefault]
<1>1. ASSUME NEW f, LastMention(f) # {} PROVE PrioOf(f) \in 0 .. PrioDefault
  <2>1. (CHOOSE i \in LastMention(f) : TRUE) \in Prios
    BY <1>1 DEF LastMention, Listed
  <2> QED
    BY <2>1, SizesAssumption DEF PrioOf, Prios, PrioDefault
<1> QED
  BY <1>1 DEF Prioritised

\* What the file of formats leaves in the table.
LEMMA HwReadType ==
  ASSUME hw \in HwLists, HwRead
  PROVE  /\ formats' \in [Index -> Format]
         /\ sink_support' \in SUBSET Index
         /\ prio' \in [Index -> 0 .. PrioDefault]
         /\ video_formats_nr' \in 0 .. FormatsMax
<1>1. hw \in Seq(Format)
  BY HwAssumption
<1>2. NoFormat \in Format
  BY DEF NoFormat, Format
<1> QED
  BY <1>1, <1>2, SizesAssumption DEF HwRead, Index, PrioDefault

LEMMA InitType == Init => TypeOK
<1> SUFFICES ASSUME Init PROVE TypeOK
  OBVIOUS
<1> USE DEF Init
<1>1. NoFormat \in Format /\ Default \in Format
  BY DEF NoFormat, Default, Format
<1>2. DefaultPrio \in Seq(Format)
  BY PrioAssumption
<1>3. ASSUME NEW i \in Prios, i < Len(DefaultPrio)
      PROVE  DefaultPrio[i + 1] \in Format
  BY <1>2, <1>3, SizesAssumption DEF Prios
<1>4. TableTypeOK
  BY <1>1, <1>3, SizesAssumption DEF TableTypeOK, PrioDefault, Index
<1>5. HandlerTypeOK
  <2>1. audio \in BOOLEAN
    OBVIOUS
  <2>2. cnt \in 0 .. Attempts - 1 /\ index \in 0 .. FormatsMax
    BY SizesAssumption DEF Attempts
  <2>3. best_prio \in 0 .. PrioDefault + 1
    BY DEF PrioDefault
  <2>4. best_ceanr \in 0 .. 127 /\ best_vesanr \in 0 .. 127
    OBVIOUS
  <2>5. chosen \in Format
    BY <1>1
  <2>6. place \in {"idle", "block0", "block1", "prio", "choose", "fb", "show"}
    OBVIOUS
  <2> HIDE DEF Init
  <2> QED
    BY <2>1, <2>2, <2>3, <2>4, <2>5, <2>6, Zenon DEF HandlerTypeOK
<1>6. OutsideTypeOK
  BY <1>1 DEF OutsideTypeOK, NoFb, NoMessage
<1>7. HistoryTypeOK
  <2>1. faults \in 0 .. cnt
    OBVIOUS
  <2> QED
    BY <2>1, Zenon DEF HistoryTypeOK
<1> QED
  BY <1>4, <1>5, <1>6, <1>7 DEF TypeOK

\* An attempt that has failed.
LEMMA AgainType ==
  ASSUME NEW fault \in {0, 1}, HandlerTypeOK, HistoryTypeOK, Again(fault)
  PROVE  /\ cnt' \in 0 .. Attempts - 1
         /\ faults' \in 0 .. cnt'
         /\ place' \in {place, "idle"}
         /\ outcome' \in {outcome, "no EDID"}
<1>1. cnt \in 0 .. Attempts - 1 /\ faults \in 0 .. cnt
  BY DEF HandlerTypeOK, HistoryTypeOK
<1>2. CASE cnt = Attempts - 1
  <2>1. cnt' = 0 /\ faults' = 0
    BY <1>2 DEF Again
  <2>2. cnt' \in 0 .. Attempts - 1 /\ faults' \in 0 .. cnt'
    BY <2>1 DEF Attempts
  <2>3. place' \in {place, "idle"} /\ outcome' \in {outcome, "no EDID"}
    BY <1>2 DEF Again
  <2> QED
    BY <2>2, <2>3
<1>3. CASE cnt # Attempts - 1
  <2>1. cnt' = cnt + 1 /\ faults' = faults + fault /\ place' = place /\ outcome' = outcome
    BY <1>3 DEF Again
  <2> QED
    <3>1. cnt' \in 0 .. Attempts - 1 /\ faults' \in 0 .. cnt'
      BY <1>1, <1>3, <2>1 DEF Attempts
    <3> QED
      BY <2>1, <3>1, Zenon
<1> QED
  BY <1>2, <1>3

\* A set of entries is a part of the table.
LEMMA MarkedType ==
  ASSUME NEW S, TableTypeOK, Marked(S)
  PROVE  sink_support' \in SUBSET Index
<1>1. video_formats_nr \in 0 .. FormatsMax /\ sink_support \in SUBSET Index
  BY DEF TableTypeOK
<1>2. Entries(S) \subseteq 0 .. video_formats_nr - 1
  BY DEF Entries
<1>3. 0 .. video_formats_nr - 1 \subseteq Index
  BY <1>1, SizesAssumption DEF Index
<1> QED
  BY <1>1, <1>2, <1>3 DEF Marked

\* The table of formats changes when a sink is plugged, when its EDID marks
\* entries and when priorities are set or entered.
LEMMA TableType == TypeOK /\ Next => TableTypeOK'
<1> SUFFICES ASSUME TypeOK, Next PROVE TableTypeOK'
  OBVIOUS
<1>0. TableTypeOK
  BY DEF TypeOK
<1> DEFINE same == UNCHANGED <<hw, tableVars, vesaceaprio>>
<1>1. ASSUME same PROVE TableTypeOK'
  BY <1>0, <1>1 DEF TableTypeOK, tableVars
<1>2. ASSUME NEW S, Marked(S),
             UNCHANGED <<hw, formats, prio, video_formats_nr, vesaceaprio>>
      PROVE  TableTypeOK'
  BY <1>0, <1>2, MarkedType DEF TableTypeOK
<1>3. ASSUME NEW l \in PrioLists \union {DefaultPrio}, vesaceaprio' = PrioTable(l),
             UNCHANGED <<hw, tableVars>>
      PROVE  TableTypeOK'
  BY <1>0, <1>3, PrioTableType DEF TableTypeOK, tableVars
<1>4. CASE PlugStart
  <2>1. hw' = hw /\ vesaceaprio' = vesaceaprio
    BY <1>4 DEF PlugStart, clientVars
  <2>2. CASE UNCHANGED tableVars
    BY <1>1, <2>1, <2>2
  <2>3. CASE HwRead
    BY <1>0, <2>1, <2>3, HwReadType DEF TableTypeOK
  <2>4. CASE Cleared
    <3>1. NoFormat \in Format /\ 0 \in 0 .. PrioDefault
      BY DEF NoFormat, Format, PrioDefault
    <3> QED
      BY <1>0, <2>1, <2>4, <3>1 DEF TableTypeOK, Cleared
  <2> QED
    BY <1>4, <2>2, <2>3, <2>4 DEF PlugStart
<1>5. CASE ReadBlock0
  BY <1>2, <1>5 DEF ReadBlock0, sinkVars, clientVars
<1>6. CASE ReadBlock1
  BY <1>2, <1>6 DEF ReadBlock1, sinkVars, clientVars
<1>7. CASE Prioritise
  <2>1. prio' \in [Index -> 0 .. PrioDefault]
    BY <1>0, <1>7, PrioritisedType DEF TableTypeOK, Prioritise
  <2> QED
    BY <1>0, <1>7, <2>1 DEF TableTypeOK, Prioritise, sinkVars, clientVars
<1>8. CASE \E l \in PrioLists : SetPriorities(l)
  BY <1>3, <1>8 DEF SetPriorities, sinkVars
<1>9. CASE Restart
  BY <1>3, <1>9 DEF Restart
<1>10. CASE Unplug \/ Remove \/ \E s \in Sinks : Connect(s)
  BY <1>1, <1>10 DEF Unplug, Remove, Connect, clientVars
<1>11. CASE ReadFails \/ OtherExtension \/ ChooseNext \/ ChooseEnd \/ PlugFb \/ PlugShow
  BY <1>1, <1>11
    DEF ReadFails, OtherExtension, ChooseNext, ChooseEnd, PlugFb, PlugShow, sinkVars, clientVars
<1>12. CASE (\E f \in Resolutions : SetResolution(f)) \/ Close \/ Subscribe
  BY <1>1, <1>12 DEF SetResolution, Close, Subscribe, sinkVars, clientVars
<1> QED
  BY <1>4, <1>5, <1>6, <1>7, <1>8, <1>9, <1>10, <1>11, <1>12 DEF Next, Handle, Command

\* Sink, reports, states, frame buffer and message.
LEMMA OutsideType == TypeOK /\ Next => OutsideTypeOK'
<1> SUFFICES ASSUME TypeOK, Next PROVE OutsideTypeOK'
  OBVIOUS
<1>0. OutsideTypeOK /\ TableTypeOK /\ HandlerTypeOK
  BY DEF TypeOK
<1> USE <1>0 DEF OutsideTypeOK, sinkVars, stateVars, shownVars, clientVars
<1>1. CASE PlugStart
  BY <1>1 DEF PlugStart
<1>2. CASE Unplug
  BY <1>2 DEF Unplug, NoMessage
<1>3. CASE Remove \/ \E s \in Sinks : Connect(s)
  BY <1>3 DEF Remove, Connect
<1>4. CASE ReadFails \/ ReadBlock0 \/ OtherExtension \/ ReadBlock1
  BY <1>4 DEF ReadFails, ReadBlock0, OtherExtension, ReadBlock1
<1>5. CASE Prioritise \/ ChooseNext \/ ChooseEnd
  BY <1>5 DEF Prioritise, ChooseNext, ChooseEnd
<1>6. chosen \in Format
  BY DEF HandlerTypeOK
<1>7. CASE PlugFb
  BY <1>6, <1>7 DEF PlugFb
<1>8. CASE PlugShow
  <2>1. fb' \in Format
    BY <1>6, <1>8 DEF PlugShow, Shown
  <2>2. Supported \in SUBSET Format
    BY DEF Supported, TableTypeOK
  <2>3. audio \in BOOLEAN
    BY DEF HandlerTypeOK
  <2>4. message' \in [kind : {"none", "PLUGGED_EV", "UNPLUGGED_EV"},
                      audio : BOOLEAN, formats : SUBSET Format]
    BY <1>8, <2>2, <2>3 DEF PlugShow
  <2> QED
    BY <1>8, <2>1, <2>4 DEF PlugShow
<1>9. CASE \E l \in PrioLists : SetPriorities(l)
  BY <1>9 DEF SetPriorities
<1>10. CASE \E f \in Resolutions : SetResolution(f)
  BY <1>10, ModesAssumption DEF SetResolution
<1>11. ASSUME FbClose
       PROVE  /\ hdmi_fb_state' \in {"CLOSED", "OPENED"}
              /\ reports' \in SUBSET {"PLUGGED", "UNPLUGGED"}
              /\ fb' \in Format
  <2>1. NoFb \in Format
    BY DEF NoFb, NoFormat, Format
  <2>2. CASE hdmi_fb_state = "CLOSED"
    BY <1>11, <2>2 DEF FbClose
  <2>3. CASE hdmi_fb_state # "CLOSED"
    BY <1>11, <2>1, <2>3 DEF FbClose
  <2> QED
    BY <2>2, <2>3
<1>12. CASE Close
  BY <1>11, <1>12 DEF Close
<1>13. CASE Restart
  BY <1>11, <1>13 DEF Restart, NoMessage
<1>14. CASE Subscribe
  BY <1>14 DEF Subscribe
<1> QED
  BY <1>1, <1>2, <1>3, <1>4, <1>5, <1>7, <1>8, <1>9, <1>10, <1>12, <1>13, <1>14
    DEF Next, Handle, Command

\* The place of the handler, the attempts and the choice.
LEMMA HandlerType == TypeOK /\ Next => HandlerTypeOK'
<1> SUFFICES ASSUME TypeOK, Next PROVE HandlerTypeOK'
  OBVIOUS
<1>0. HandlerTypeOK /\ TableTypeOK /\ OutsideTypeOK /\ HistoryTypeOK
  BY DEF TypeOK
<1> DEFINE Places == {"idle", "block0", "block1", "prio", "choose", "fb", "show"}
<1>1. place \in Places /\ cnt \in 0 .. Attempts - 1 /\ audio \in BOOLEAN
  BY <1>0 DEF HandlerTypeOK
<1>2. ASSUME place' \in Places, cnt' \in 0 .. Attempts - 1, audio' \in BOOLEAN,
             UNCHANGED choiceVars
      PROVE  HandlerTypeOK'
  BY <1>0, <1>2 DEF HandlerTypeOK, choiceVars
<1>3. 0 \in 0 .. Attempts - 1
  BY DEF Attempts
<1>4. CASE PlugStart
  BY <1>1, <1>2, <1>3, <1>4 DEF PlugStart, edidVars
<1>5. CASE Unplug \/ Remove \/ \E s \in Sinks : Connect(s)
  BY <1>1, <1>2, <1>5 DEF Unplug, Remove, Connect, edidVars
<1>6. ASSUME NEW fault \in {0, 1}, Again(fault)
      PROVE  place' \in Places /\ cnt' \in 0 .. Attempts - 1
  BY <1>0, <1>1, <1>6, AgainType
<1>7. CASE ReadFails \/ OtherExtension
  BY <1>1, <1>2, <1>6, <1>7 DEF ReadFails, OtherExtension
<1>8. CASE ReadBlock0
  BY <1>1, <1>2, <1>3, <1>8 DEF ReadBlock0
<1>9. CASE ReadBlock1
  <2>1. sink \in Sink
    BY <1>0, <1>9, SinksAssumption DEF ReadBlock1, OutsideTypeOK
  <2>2. audio' \in BOOLEAN
    BY <1>1, <1>9, <2>1 DEF ReadBlock1, Sink
  <2>3. place' \in Places /\ cnt' \in 0 .. Attempts - 1
    BY <1>3, <1>6, <1>9 DEF ReadBlock1
  <2> QED
    BY <1>2, <1>9, <2>2, <2>3 DEF ReadBlock1
<1>10. CASE Prioritise
  <2>1. Default \in Format /\ 0 \in 0 .. FormatsMax /\ 0 \in 0 .. 127
        /\ PrioDefault + 1 \in 0 .. PrioDefault + 1
    BY SizesAssumption DEF Default, Format, PrioDefault
  <2> QED
    BY <1>1, <1>10, <2>1 DEF Prioritise, HandlerTypeOK, edidVars
<1>11. CASE ChooseNext
  <2>1. index \in Index /\ index + 1 \in 0 .. FormatsMax
    BY <1>0, <1>11, SizesAssumption DEF ChooseNext, HandlerTypeOK, TableTypeOK, Index
  <2>2. formats[index] \in Format /\ prio[index] \in 0 .. PrioDefault + 1
    BY <1>0, <2>1 DEF TableTypeOK, PrioDefault
  <2>3. formats[index].nr \in 0 .. 127
    BY <2>2 DEF Format
  <2> QED
    BY <1>0, <1>11, <2>1, <2>2, <2>3 DEF ChooseNext, HandlerTypeOK, edidVars
<1>12. CASE ChooseEnd \/ PlugFb \/ PlugShow
  BY <1>1, <1>2, <1>12 DEF ChooseEnd, PlugFb, PlugShow, edidVars
<1>13. CASE Command
  BY <1>1, <1>2, <1>13
    DEF Command, SetPriorities, SetResolution, Close, Subscribe, Restart, edidVars
<1> QED
  BY <1>4, <1>5, <1>7, <1>8, <1>9, <1>10, <1>11, <1>12, <1>13 DEF Next, Handle

\* The histories.
LEMMA HistoryType == TypeOK /\ Next => HistoryTypeOK'
<1> SUFFICES ASSUME TypeOK, Next PROVE HistoryTypeOK'
  OBVIOUS
<1>0. HandlerTypeOK /\ OutsideTypeOK /\ HistoryTypeOK
  BY DEF TypeOK
<1> DEFINE Outcomes == {"none", "reported", "no EDID", "no frame buffer"}
<1>1. wanted \in PrioLists \union {DefaultPrio} /\ seen \in SUBSET Sinks
      /\ faults \in 0 .. cnt /\ outcome \in Outcomes
  BY <1>0 DEF HistoryTypeOK
<1>2. tableRead \in BOOLEAN /\ altered \in BOOLEAN
  BY <1>0 DEF HistoryTypeOK
<1>3. sink # NoSink => sink \in Sinks
  BY <1>0 DEF OutsideTypeOK
<1>4. ASSUME seen' \in SUBSET Sinks, faults' \in 0 .. cnt', outcome' \in Outcomes,
             tableRead' \in BOOLEAN, altered' \in BOOLEAN,
             wanted' \in PrioLists \union {DefaultPrio}
      PROVE  HistoryTypeOK'
  BY <1>4 DEF HistoryTypeOK
<1>5. 0 \in 0 .. 0
  OBVIOUS
<1>6. CASE PlugStart
  BY <1>1, <1>2, <1>4, <1>5, <1>6 DEF PlugStart, shownVars, clientVars, edidVars
<1>7. CASE Unplug \/ Remove \/ \E s \in Sinks : Connect(s)
  BY <1>1, <1>2, <1>4, <1>7 DEF Unplug, Remove, Connect, shownVars, clientVars, edidVars
<1>8. ASSUME NEW fault \in {0, 1}, Again(fault)
      PROVE  faults' \in 0 .. cnt' /\ outcome' \in Outcomes
  BY <1>0, <1>1, <1>8, AgainType
<1>9. CASE ReadFails \/ OtherExtension
  BY <1>1, <1>2, <1>4, <1>8, <1>9 DEF ReadFails, OtherExtension, shownVars, clientVars
<1>10. CASE ReadBlock0 \/ ReadBlock1
  <2>1. seen' \in SUBSET Sinks
    BY <1>1, <1>3, <1>10 DEF ReadBlock0, ReadBlock1
  <2>2. faults' \in 0 .. cnt' /\ outcome' \in Outcomes
    BY <1>1, <1>5, <1>8, <1>10 DEF ReadBlock0, ReadBlock1
  <2> QED
    BY <1>1, <1>2, <1>4, <1>10, <2>1, <2>2
      DEF ReadBlock0, ReadBlock1, shownVars, clientVars
<1>11. CASE Prioritise \/ ChooseNext \/ ChooseEnd
  BY <1>1, <1>2, <1>4, <1>11
    DEF Prioritise, ChooseNext, ChooseEnd, shownVars, clientVars, edidVars
<1>12. CASE PlugFb \/ PlugShow
  BY <1>1, <1>2, <1>4, <1>12
    DEF PlugFb, PlugShow, Shown, clientVars, edidVars
<1>13. CASE Command
  BY <1>1, <1>2, <1>4, <1>13
    DEF Command, SetPriorities, SetResolution, Close, Subscribe, Restart,
        shownVars, clientVars, edidVars
<1> QED
  BY <1>6, <1>7, <1>9, <1>10, <1>11, <1>12, <1>13 DEF Next, Handle

LEMMA NextType == TypeOK /\ [Next]_vars => TypeOK'
<1> SUFFICES ASSUME TypeOK, [Next]_vars PROVE TypeOK'
  OBVIOUS
<1>1. CASE Next
  BY <1>1, TableType, OutsideType, HandlerType, HistoryType DEF TypeOK
<1>2. CASE UNCHANGED vars
  <2> USE DEF TypeOK, vars, sinkVars, tableVars, stateVars, shownVars, edidVars,
              choiceVars, clientVars
  <2>1. TableTypeOK'
    BY <1>2 DEF TableTypeOK
  <2>2. HandlerTypeOK'
    BY <1>2 DEF HandlerTypeOK
  <2>3. OutsideTypeOK'
    BY <1>2 DEF OutsideTypeOK
  <2>4. HistoryTypeOK'
    BY <1>2 DEF HistoryTypeOK
  <2> QED
    BY <2>1, <2>2, <2>3, <2>4
<1> QED
  BY <1>1, <1>2

\* Every variable keeps its type: the table keeps its size, priorities are
\* positions of the priority table, a block is attempted three times at most.
THEOREM TypeCorrect == Spec => []TypeOK
BY InitType, NextType, PTL DEF Spec

-----------------------------------------------------------------------------
(* What is shown.                                                           *)

\* The handler works only while the state is PLUGGED, and the message of a
\* plugged sink is the last thing it does before the sink is unplugged.
ShownInv ==
  /\ place # "idle" => hdmi_plug_state = "PLUGGED"
  /\ message.kind = "PLUGGED_EV" /\ place = "idle" => hdmi_plug_state = "PLUGGED"
  /\ place # "idle" => message.kind # "PLUGGED_EV"
  /\ ShownChosen

LEMMA NextShown == ShownInv /\ [Next]_vars => ShownInv'
<1> SUFFICES ASSUME ShownInv, [Next]_vars PROVE ShownInv'
  OBVIOUS
<1> USE DEF ShownInv, ShownChosen, sinkVars, stateVars, shownVars, choiceVars, clientVars
<1>1. CASE PlugStart
  BY <1>1 DEF PlugStart
<1>2. CASE Unplug
  BY <1>2 DEF Unplug, NoMessage
<1>3. CASE Remove \/ \E s \in Sinks : Connect(s)
  BY <1>3 DEF Remove, Connect
<1>4. ASSUME NEW fault, Again(fault) PROVE place' \in {place, "idle"}
  BY <1>4 DEF Again
<1>5. CASE ReadFails \/ OtherExtension \/ ReadBlock0 \/ ReadBlock1
  BY <1>4, <1>5 DEF ReadFails, OtherExtension, ReadBlock0, ReadBlock1
<1>6. CASE Prioritise \/ ChooseNext \/ ChooseEnd \/ PlugFb
  BY <1>6 DEF Prioritise, ChooseNext, ChooseEnd, PlugFb
<1>7. CASE PlugShow
  BY <1>7 DEF PlugShow, Shown
<1>8. CASE (\E l \in PrioLists : SetPriorities(l)) \/ (\E f \in Resolutions : SetResolution(f))
  BY <1>8 DEF SetPriorities, SetResolution
<1>9. CASE Close \/ Subscribe
  BY <1>9 DEF Close, Subscribe, FbClose
<1>10. CASE Restart
  BY <1>10 DEF Restart, NoMessage
<1>11. CASE UNCHANGED vars
  BY <1>11 DEF vars
<1> QED
  BY <1>1, <1>2, <1>3, <1>5, <1>6, <1>7, <1>8, <1>9, <1>10, <1>11
    DEF Next, Handle, Command

\* After HDMI_PLUGGED_EV the frame buffer, also one that was kept from an
\* earlier sink, has the format chosen for this sink, for every set of sinks
\* and every table, unless hdmi_fb_chres failed or the client changed it.
THEOREM ShownChosenCorrect == Spec => []ShownChosen
<1>1. Init => ShownInv
  BY DEF Init, ShownInv, ShownChosen, NoMessage
<1>2. ShownInv => ShownChosen
  BY DEF ShownInv
<1> QED
  BY <1>1, <1>2, NextShown, PTL DEF Spec

-----------------------------------------------------------------------------
(* What is chosen.                                                          *)

\* An entry of the table either is free or has a number, and no free entry is
\* supported by a sink.
TableInv ==
  /\ \A i \in Index : formats[i] # NoFormat => formats[i].nr # 0
  /\ \A i \in sink_support : i \in Index /\ formats[i] # NoFormat

\* Nothing has been offered: the choice is as it was at the start.
Untouched ==
  /\ chosen = Default /\ best_prio = PrioDefault + 1
  /\ best_ceanr = 0 /\ best_vesanr = 0

\* best_prio is the best priority among the first n entries, and if it is that
\* of an entry of the list, the entry is chosen.
PrioKept(n) ==
  /\ best_prio <= PrioDefault
  /\ \A i \in Offered(n) : best_prio <= prio[i]
  /\ best_prio < PrioDefault =>
       \E i \in Offered(n) : chosen = formats[i] /\ prio[i] = best_prio

\* While nothing of the list is offered, the numbers are the highest of the
\* entries after the first offered one, those of VESA as long as there is none
\* of CEA, and the entry they belong to is chosen.
NumbersKept(n) ==
  /\ \A i \in CeaOthers(n) : formats[i].nr <= best_ceanr
  /\ best_ceanr # 0 =>
       \E i \in CeaOthers(n) : chosen = formats[i] /\ formats[i].nr = best_ceanr
  /\ best_ceanr = 0 => \A i \in Others(n) : formats[i].nr <= best_vesanr
  /\ best_ceanr = 0 /\ best_vesanr # 0 =>
       \E i \in Others(n) : chosen = formats[i] /\ formats[i].nr = best_vesanr
  /\ best_ceanr = 0 /\ best_vesanr = 0 => \E i \in Offered(n) : chosen = formats[i]

\* get_best_videoformat after n entries.
ChoiceInv(n) ==
  /\ Offered(n) = {} => Untouched
  /\ Offered(n) # {} => PrioKept(n)
  /\ Offered(n) # {} /\ best_prio = PrioDefault => NumbersKept(n)

ChoosingInv ==
  /\ place = "choose" => ChoiceInv(index)
  /\ place \in {"fb", "show"} => ChoiceInv(video_formats_nr)

\* Once the loop has ended, what it has kept is the choice that is wanted.
LEMMA ChoiceIsBest ==
  ASSUME TypeOK, TableInv, NEW n \in Nat, ChoiceInv(n)
  PROVE  BestOf(n)
<1>0. TableTypeOK /\ HandlerTypeOK
  BY DEF TypeOK
<1>1. \A i \in Offered(n) : /\ prio[i] \in 0 .. PrioDefault
                           /\ formats[i] \in Format /\ formats[i].nr \in 1 .. 127
  BY <1>0 DEF Offered, TableTypeOK, TableInv, Format
<1>2. /\ best_prio \in 0 .. PrioDefault + 1
      /\ best_ceanr \in 0 .. 127 /\ best_vesanr \in 0 .. 127
  BY <1>0 DEF HandlerTypeOK
<1>3. CASE Offered(n) = {}
  BY <1>3 DEF BestOf, ChoiceInv, Untouched, Preferred, CeaOthers, Others
<1>4. CASE Preferred(n) # {}
  <2>1. PICK p \in Offered(n) : prio[p] < PrioDefault
    BY <1>4 DEF Preferred
  <2>2. PrioKept(n)
    BY <2>1 DEF ChoiceInv
  <2>3. best_prio < PrioDefault
    BY <1>1, <1>2, <2>1, <2>2 DEF PrioKept, PrioDefault
  <2>4. PICK i \in Offered(n) : chosen = formats[i] /\ prio[i] = best_prio
    BY <2>2, <2>3 DEF PrioKept
  <2>5. i \in Preferred(n) /\ \A j \in Preferred(n) : prio[i] <= prio[j]
    BY <2>2, <2>3, <2>4 DEF Preferred, PrioKept
  <2> QED
    BY <1>4, <2>4, <2>5 DEF BestOf
<1>5. CASE Offered(n) # {} /\ Preferred(n) = {}
  <2>1. PrioKept(n)
    BY <1>5 DEF ChoiceInv
  <2>2. best_prio = PrioDefault
    BY <1>2, <1>5, <2>1 DEF PrioKept, Preferred, PrioDefault
  <2>3. NumbersKept(n)
    BY <1>5, <2>2 DEF ChoiceInv
  <2>4. CASE CeaOthers(n) # {}
    <3>1. best_ceanr # 0
      BY <1>1, <1>2, <2>3, <2>4 DEF NumbersKept, CeaOthers, Others
    <3>2. HighestOf(CeaOthers(n))
      BY <2>3, <3>1 DEF NumbersKept, HighestOf
    <3> QED
      BY <1>5, <2>4, <3>2 DEF BestOf
  <2>5. CASE CeaOthers(n) = {} /\ Others(n) # {}
    <3>1. best_ceanr = 0
      BY <2>3, <2>5 DEF NumbersKept
    <3>2. best_vesanr # 0
      BY <1>1, <1>2, <2>3, <2>5, <3>1 DEF NumbersKept, Others
    <3>3. HighestOf(Others(n))
      BY <2>3, <3>1, <3>2 DEF NumbersKept, HighestOf
    <3> QED
      BY <1>5, <2>5, <3>3 DEF BestOf
  <2>6. CASE CeaOthers(n) = {} /\ Others(n) = {}
    <3>1. best_ceanr = 0 /\ best_vesanr = 0
      BY <2>3, <2>6 DEF NumbersKept
    <3> QED
      BY <1>5, <2>3, <2>6, <3>1 DEF BestOf, NumbersKept
  <2> QED
    BY <2>4, <2>5, <2>6
<1> QED
  BY <1>3, <1>4, <1>5

\* One pass of the loop over an entry that is not offered.
LEMMA SkipKeeps ==
  ASSUME NEW n \in Nat, n \notin sink_support, sink_support \subseteq Nat, ChoiceInv(n),
         UNCHANGED <<chosen, best_prio, best_ceanr, best_vesanr, tableVars>>
  PROVE  ChoiceInv(n + 1)'
<1>1. Offered(n + 1)' = Offered(n)
  <2>1. \A i \in sink_support : i < n + 1 <=> i < n
    <3> TAKE i \in sink_support
    <3>1. i \in Nat /\ i # n
      OBVIOUS
    <3> QED
      BY <3>1
  <2>2. Offered(n + 1)' = {i \in sink_support : i < n + 1}
    BY DEF Offered, tableVars
  <2> QED
    BY <2>1, <2>2 DEF Offered
<1>2. Others(n + 1)' = Others(n) /\ CeaOthers(n + 1)' = CeaOthers(n)
  BY <1>1 DEF Others, CeaOthers, tableVars
<1>3. Untouched => Untouched'
  BY DEF Untouched
<1>4. PrioKept(n) => PrioKept(n + 1)'
  BY <1>1 DEF PrioKept, tableVars
<1>5. NumbersKept(n) => NumbersKept(n + 1)'
  BY <1>1, <1>2 DEF NumbersKept, tableVars
<1> QED
  BY <1>1, <1>3, <1>4, <1>5 DEF ChoiceInv

LEMMA LeqLess ==
  ASSUME NEW a \in Int, NEW b \in Int, NEW c \in Int, a <= b, b < c
  PROVE  a <= c
OBVIOUS

LEMMA LessLeq ==
  ASSUME NEW a \in Int, NEW b \in Int, NEW c \in Int, a < b, b <= c
  PROVE  a <= c
OBVIOUS

LEMMA NotGreater ==
  ASSUME NEW a \in Int, NEW b \in Int, ~(a > b)
  PROVE  a <= b
OBVIOUS

\* One pass of the loop over an entry that is offered.
LEMMA OfferKeeps ==
  ASSUME TypeOK, TableInv, index \in sink_support, ChoiceInv(index), ChooseNext,
         NEW n \in Nat, n = index
  PROVE  ChoiceInv(n + 1)'
<1>0. TableTypeOK /\ HandlerTypeOK
  BY DEF TypeOK
<1>1. /\ best_prio \in 0 .. PrioDefault + 1
      /\ best_ceanr \in 0 .. 127 /\ best_vesanr \in 0 .. 127
  BY <1>0 DEF HandlerTypeOK
<1>2. /\ sink_support \subseteq Nat
      /\ \A i \in sink_support : prio[i] \in 0 .. PrioDefault /\ formats[i].nr \in 1 .. 127
  BY <1>0 DEF TableTypeOK, TableInv, Format, Index
<1>3. UNCHANGED <<formats, sink_support, prio>>
  BY DEF ChooseNext, tableVars
<1>4. Offered(n + 1)' = Offered(n) \union {n} /\ n \notin Offered(n)
  <2>1. \A i \in sink_support : i < n + 1 <=> i < n \/ i = n
    <3> TAKE i \in sink_support
    <3>1. i \in Nat
      BY <1>2
    <3> QED
      BY <3>1
  <2>2. Offered(n + 1)' = {i \in sink_support : i < n + 1}
    BY <1>3 DEF Offered
  <2>3. n \in sink_support /\ n < n + 1 /\ ~(n < n)
    OBVIOUS
  <2> QED
    BY <2>1, <2>2, <2>3 DEF Offered
<1>5. ASSUME Better
      PROVE  /\ chosen' = formats[n] /\ best_prio' = prio[n]
             /\ UNCHANGED <<best_ceanr, best_vesanr>>
  BY <1>5 DEF ChooseNext
<1>6. prio[n] \in 0 .. PrioDefault /\ formats[n].nr \in 1 .. 127
  BY <1>2
<1>7. CASE Offered(n) = {}
  <2>1. Untouched
    BY <1>7 DEF ChoiceInv
  <2>2. Better
    BY <1>6, <2>1 DEF Better, Untouched, PrioDefault
  <2>3. best_prio' = prio[n] /\ chosen' = formats[n] /\ best_ceanr' = 0 /\ best_vesanr' = 0
    BY <1>5, <2>1, <2>2 DEF Untouched
  <2>4. PrioKept(n + 1)'
    BY <1>3, <1>4, <1>6, <1>7, <2>3 DEF PrioKept
  <2>5. Others(n + 1)' = {} /\ CeaOthers(n + 1)' = {}
    BY <1>4, <1>7 DEF Others, CeaOthers
  <2>6. NumbersKept(n + 1)'
    BY <1>3, <1>4, <2>3, <2>5 DEF NumbersKept
  <2> QED
    BY <1>4, <2>4, <2>6 DEF ChoiceInv
<1>8. CASE Offered(n) # {} /\ Better
  <2>1. PrioKept(n)
    BY <1>8 DEF ChoiceInv
  <2>2. best_prio' = prio[n] /\ prio[n] < best_prio /\ chosen' = formats[n]
    BY <1>5, <1>8 DEF Better
  <2>3. prio[n] < PrioDefault
    BY <1>1, <1>6, <2>1, <2>2 DEF PrioKept, PrioDefault
  <2>4. ASSUME NEW i \in Offered(n) PROVE prio[n] <= prio[i]
    <3>1. best_prio <= prio[i]
      BY <2>1 DEF PrioKept
    <3>2. prio[i] \in 0 .. PrioDefault
      BY <1>2 DEF Offered
    <3>3. prio[n] \in Int /\ prio[i] \in Int /\ best_prio \in Int
      BY <1>1, <1>6, <3>2 DEF PrioDefault
    <3> QED
      BY <2>2, <3>1, <3>3, LessLeq
  <2>5. PrioKept(n + 1)'
    BY <1>3, <1>4, <1>6, <2>2, <2>3, <2>4 DEF PrioKept, PrioDefault
  <2> QED
    BY <1>4, <1>6, <2>2, <2>3, <2>5 DEF ChoiceInv, PrioDefault
<1>9. CASE Offered(n) # {} /\ ~Better
  <2>1. PrioKept(n)
    BY <1>9 DEF ChoiceInv
  <2>2. best_prio <= prio[n]
    BY <1>1, <1>6, <1>9 DEF Better, PrioDefault
  <2>3. UNCHANGED best_prio
    BY <1>9 DEF ChooseNext
  <2>4. CASE best_prio # PrioDefault
    <3>1. best_prio < PrioDefault
      BY <1>1, <2>1, <2>2, <2>3, <2>4 DEF PrioKept, PrioDefault
    <3>2. UNCHANGED chosen
      BY <1>1, <1>9, <3>1 DEF ChooseNext, Unlisted, PrioDefault
    <3>3. PrioKept(n + 1)'
      BY <1>3, <1>4, <2>1, <2>2, <2>3, <3>1, <3>2 DEF PrioKept
    <3> QED
      BY <1>4, <2>1, <2>2, <2>3, <2>4, <3>3 DEF ChoiceInv
  <2>5. CASE best_prio = PrioDefault
    <3>1. PrioKept(n + 1)'
      BY <1>3, <1>4, <2>1, <2>2, <2>3, <2>5 DEF PrioKept, PrioDefault
    <3>2. NumbersKept(n)
      BY <1>9, <2>5 DEF ChoiceInv
    <3>3. Others(n + 1)' = Others(n) \union {n}
      <4>1. \A i \in Offered(n) : ~(n < i)
        BY <1>2 DEF Offered
      <4>2. \E j \in Offered(n) : j < n
        BY <1>9 DEF Offered
      <4> QED
        BY <1>4, <4>1, <4>2 DEF Others
    <3>4. CeaOthers(n + 1)' = CeaOthers(n) \union {i \in {n} : formats[i].cea = 1}
      BY <1>3, <3>3 DEF CeaOthers
    <3>5. ~Better /\ UNCHANGED formats /\ best_prio >= PrioDefault
      BY <1>3, <1>9, <2>5 DEF PrioDefault
    <3>6. \A i \in Others(n) : i \in sink_support /\ formats[i].nr \in 1 .. 127
      BY <1>2 DEF Others, Offered
    <3> DEFINE cn == best_ceanr  vn == best_vesanr  f == formats[n]
    <3>7. ASSUME Unlisted /\ f.cea = 1 PROVE NumbersKept(n + 1)'
      <4>1. chosen' = f /\ best_ceanr' = f.nr
        BY <3>5, <3>7 DEF ChooseNext
      <4>2. cn < f.nr
        BY <3>7 DEF Unlisted
      <4>3. n \in CeaOthers(n + 1)'
        BY <3>4, <3>7
      <4>4. ASSUME NEW i \in CeaOthers(n) PROVE formats[i].nr <= f.nr
        <5>1. formats[i].nr <= cn /\ formats[i].nr \in 1 .. 127
          BY <3>2, <3>6 DEF NumbersKept, CeaOthers
        <5>2. formats[i].nr \in Int /\ cn \in Int /\ f.nr \in Int
          BY <1>1, <1>6, <5>1
        <5> QED
          BY <4>2, <5>1, <5>2, LeqLess
      <4>5. \A i \in CeaOthers(n + 1)' : formats[i].nr <= f.nr
        BY <1>6, <3>4, <4>4
      <4>6. best_ceanr' # 0
        BY <1>6, <4>1
      <4> QED
        BY <3>5, <4>1, <4>3, <4>5, <4>6 DEF NumbersKept
    <3>8. ASSUME Unlisted /\ f.cea # 1 PROVE NumbersKept(n + 1)'
      <4>1. cn = 0 /\ vn < f.nr
        BY <3>8 DEF Unlisted
      <4>2. chosen' = f /\ best_vesanr' = f.nr /\ best_ceanr' = 0
        BY <3>5, <3>8, <4>1 DEF ChooseNext, Unlisted
      <4>3. CeaOthers(n + 1)' = CeaOthers(n)
        BY <3>4, <3>8
      <4>4. ASSUME NEW i \in Others(n) PROVE formats[i].nr <= f.nr
        <5>1. formats[i].nr <= vn /\ formats[i].nr \in 1 .. 127
          BY <3>2, <3>6, <4>1 DEF NumbersKept
        <5>2. formats[i].nr \in Int /\ vn \in Int /\ f.nr \in Int
          BY <1>1, <1>6, <5>1
        <5> QED
          BY <4>1, <5>1, <5>2, LeqLess
      <4>5. \A i \in Others(n + 1)' : formats[i].nr <= f.nr
        BY <1>6, <3>3, <4>4
      <4>6. best_vesanr' # 0 /\ n \in Others(n + 1)'
        BY <1>6, <3>3, <4>2
      <4>7. \A i \in CeaOthers(n) : formats[i].nr <= 0
        BY <3>2, <4>1 DEF NumbersKept
      <4> QED
        BY <3>5, <4>2, <4>3, <4>5, <4>6, <4>7 DEF NumbersKept
    <3>9. ASSUME ~Unlisted PROVE NumbersKept(n + 1)'
      <4>1. UNCHANGED <<chosen, best_ceanr, best_vesanr>>
        BY <3>5, <3>9 DEF ChooseNext
      <4>2. f.cea \in {0, 1}
        BY <1>0, <1>2 DEF TableTypeOK, Format, Index
      <4>types. f.nr \in Int /\ cn \in Int /\ vn \in Int
        BY <1>1, <1>6
      <4>3. ASSUME f.cea = 1 PROVE f.nr <= cn
        <5>1. ~(f.nr > cn)
          BY <3>5, <3>9, <4>3 DEF Unlisted
        <5> QED
          BY <4>types, <5>1, NotGreater
      <4>4. ASSUME f.cea = 0 /\ cn = 0 PROVE f.nr <= vn
        <5>1. ~(f.nr > vn)
          BY <3>5, <3>9, <4>4 DEF Unlisted
        <5> QED
          BY <4>types, <5>1, NotGreater
      <4>5. \A i \in CeaOthers(n + 1)' : formats[i].nr <= cn
        BY <3>2, <3>4, <4>3 DEF NumbersKept
      <4>6. cn = 0 => f.cea = 0
        BY <1>1, <1>6, <4>2, <4>3
      <4>7. cn = 0 => \A i \in Others(n + 1)' : formats[i].nr <= vn
        BY <3>2, <3>3, <4>4, <4>6 DEF NumbersKept
      <4>8. cn # 0 => \E i \in CeaOthers(n + 1)' : chosen = formats[i] /\ formats[i].nr = cn
        BY <3>2, <3>4 DEF NumbersKept
      <4>9. cn = 0 /\ vn # 0 => \E i \in Others(n + 1)' : chosen = formats[i] /\ formats[i].nr = vn
        BY <3>2, <3>3 DEF NumbersKept
      <4>10. cn = 0 /\ vn = 0 => \E i \in Offered(n + 1)' : chosen = formats[i]
        BY <1>4, <3>2 DEF NumbersKept
      <4> QED
        BY <3>5, <4>1, <4>5, <4>7, <4>8, <4>9, <4>10 DEF NumbersKept
    <3>10. NumbersKept(n + 1)'
      BY <3>7, <3>8, <3>9
    <3> QED
      BY <1>4, <3>1, <3>10 DEF ChoiceInv
  <2> QED
    BY <2>4, <2>5
<1> QED
  BY <1>7, <1>8, <1>9

\* The marks and the table: only what HwRead has entered is ever supported.
LEMMA NextTable == TypeOK /\ TableInv /\ [Next]_vars => TableInv'
<1> SUFFICES ASSUME TypeOK, TableInv, [Next]_vars PROVE TableInv'
  OBVIOUS
<1>0. TableTypeOK /\ OutsideTypeOK
  BY DEF TypeOK
<1>1. ASSUME UNCHANGED <<formats, sink_support>> PROVE TableInv'
  BY <1>1 DEF TableInv
<1>2. ASSUME NEW S, S \subseteq Offer, Marked(S), UNCHANGED formats PROVE TableInv'
  <2>1. \A i \in Entries(S) : i \in 0 .. video_formats_nr - 1 /\ formats[i] # NoFormat
    BY <1>2 DEF Entries, Offer
  <2>2. 0 .. video_formats_nr - 1 \subseteq Index
    BY <1>0, SizesAssumption DEF TableTypeOK, Index
  <2> QED
    BY <1>2, <2>1, <2>2 DEF TableInv, Marked
<1>3. CASE PlugStart
  <2>1. CASE UNCHANGED tableVars
    BY <1>1, <2>1 DEF tableVars
  <2>2. CASE Cleared
    BY <2>2 DEF Cleared, TableInv
  <2>3. CASE HwRead
    <3>1. hw \in Seq(Format) /\ \A i \in 1 .. Len(hw) : hw[i].nr # 0
      BY <1>0, HwAssumption DEF TableTypeOK
    <3>2. ASSUME NEW i \in Index PROVE formats'[i] = NoFormat \/ formats'[i].nr # 0
      BY <2>3, <3>1, SizesAssumption DEF HwRead, Index
    <3>3. sink_support' = {}
      BY <2>3 DEF HwRead
    <3> QED
      BY <3>2, <3>3 DEF TableInv
  <2> QED
    BY <1>3, <2>1, <2>2, <2>3 DEF PlugStart
<1>4. sink # NoSink => sink \in Sink
  BY <1>0, SinksAssumption DEF OutsideTypeOK
<1>5. CASE ReadBlock0
  BY <1>2, <1>4, <1>5 DEF ReadBlock0, Sink
<1>6. CASE ReadBlock1
  <2>1. DataBlocks(sink) \subseteq Offer /\ sink.est3 \subseteq Offer
    BY <1>4, <1>6 DEF ReadBlock1, Sink, DataBlocks
  <2>2. \A t \in StdTimings(sink) : t \subseteq Offer
    BY <1>4, <1>6, ModesAssumption DEF ReadBlock1, Sink, StdTimings
  <2>3. PICK S \in SUBSET Offer : Marked(S)
    BY <1>6, <2>1, <2>2 DEF ReadBlock1
  <2> QED
    BY <1>2, <1>6, <2>3 DEF ReadBlock1
<1>7. CASE Unplug \/ Remove \/ \E s \in Sinks : Connect(s)
  BY <1>1, <1>7 DEF Unplug, Remove, Connect, tableVars
<1>8. CASE ReadFails \/ OtherExtension \/ Prioritise \/ ChooseNext \/ ChooseEnd
  BY <1>1, <1>8
    DEF ReadFails, OtherExtension, Prioritise, ChooseNext, ChooseEnd, tableVars
<1>9. CASE PlugFb \/ PlugShow
  BY <1>1, <1>9 DEF PlugFb, PlugShow, tableVars
<1>10. CASE Command
  BY <1>1, <1>10
    DEF Command, SetPriorities, SetResolution, Close, Subscribe, Restart, tableVars
<1>11. CASE UNCHANGED vars
  BY <1>1, <1>11 DEF vars, tableVars
<1> QED
  BY <1>3, <1>5, <1>6, <1>7, <1>8, <1>9, <1>10, <1>11 DEF Next, Handle

LEMMA NextChoosing == TypeOK /\ TableInv /\ ChoosingInv /\ [Next]_vars => ChoosingInv'
<1> SUFFICES ASSUME TypeOK, TableInv, ChoosingInv, [Next]_vars PROVE ChoosingInv'
  OBVIOUS
<1>0. TableTypeOK /\ HandlerTypeOK
  BY DEF TypeOK
<1>kept. ASSUME NEW n, ChoiceInv(n), UNCHANGED <<choiceVars, tableVars>>
       PROVE  ChoiceInv(n)'
  <2>1. Offered(n)' = Offered(n) /\ Others(n)' = Others(n)
    BY <1>kept DEF Offered, Others, tableVars
  <2>2. CeaOthers(n)' = CeaOthers(n)
    BY <1>kept, <2>1 DEF CeaOthers, tableVars
  <2> QED
    BY <1>kept, <2>1, <2>2
      DEF ChoiceInv, Untouched, PrioKept, NumbersKept, tableVars, choiceVars
<1>1. ASSUME place' \in {place, "idle"}, UNCHANGED <<choiceVars, tableVars>>
      PROVE  ChoosingInv'
  BY <1>1, <1>kept DEF ChoosingInv, tableVars, choiceVars
<1>2. ASSUME place' \in {"idle", "block0", "block1", "prio"} PROVE ChoosingInv'
  BY <1>2 DEF ChoosingInv
<1>3. ASSUME NEW fault, Again(fault) PROVE place' \in {place, "idle"}
  BY <1>3 DEF Again
<1>4. CASE PlugStart
  <2>1. place' \in {"idle", "block0"}
    BY <1>4 DEF PlugStart
  <2> QED
    BY <1>2, <2>1
<1>5. CASE ReadFails \/ OtherExtension \/ ReadBlock0 \/ ReadBlock1
  <2>1. place' \in {"idle", "block0", "block1", "prio"}
    BY <1>3, <1>5 DEF ReadFails, OtherExtension, ReadBlock0, ReadBlock1
  <2> QED
    BY <1>2, <2>1
<1>6. CASE Prioritise
  <2>1. place' = "choose" /\ index' = 0 /\ Untouched'
    BY <1>6 DEF Prioritise, Untouched
  <2>2. sink_support' \subseteq Nat
    BY <1>0, <1>6 DEF Prioritise, TableTypeOK, Index
  <2>3. Offered(0)' = {}
    <3>1. ASSUME NEW i \in sink_support' PROVE ~(i < 0)
      <4>1. i \in Nat
        BY <2>2
      <4> QED
        BY <4>1
    <3> QED
      BY <3>1 DEF Offered
  <2> QED
    BY <2>1, <2>3 DEF ChoosingInv, ChoiceInv
<1>7. CASE ChooseNext
  <2>1. PICK n \in Nat : n = index
    BY <1>0, SizesAssumption DEF HandlerTypeOK
  <2>2. ChoiceInv(index) /\ place' = "choose" /\ index' = n + 1
    BY <1>7, <2>1 DEF ChoosingInv, ChooseNext
  <2>3. sink_support \subseteq Nat
    BY <1>0 DEF TableTypeOK, Index
  <2>4. ChoiceInv(n + 1)'
    <3>1. CASE index \in sink_support
      BY <1>7, <2>1, <2>2, <3>1, OfferKeeps
    <3>2. CASE index \notin sink_support
      <4>1. UNCHANGED <<chosen, best_prio, best_ceanr, best_vesanr, tableVars>>
        BY <1>7, <3>2 DEF ChooseNext
      <4> QED
        BY <2>1, <2>2, <2>3, <3>2, <4>1, SkipKeeps
    <3> QED
      BY <3>1, <3>2
  <2> QED
    BY <2>2, <2>4 DEF ChoosingInv
<1>8. CASE ChooseEnd
  <2>1. place' = "fb" /\ ChoiceInv(video_formats_nr)
    BY <1>8 DEF ChooseEnd, ChoosingInv
  <2>2. UNCHANGED <<choiceVars, tableVars>>
    BY <1>8 DEF ChooseEnd
  <2> QED
    BY <1>kept, <2>1, <2>2 DEF ChoosingInv, tableVars
<1>9. CASE PlugFb
  <2>1. place' \in {"idle", "show"} /\ ChoiceInv(video_formats_nr)
    BY <1>9 DEF PlugFb, ChoosingInv
  <2>2. UNCHANGED <<choiceVars, tableVars>>
    BY <1>9 DEF PlugFb
  <2> QED
    BY <1>kept, <2>1, <2>2 DEF ChoosingInv, tableVars
<1>10. CASE PlugShow
  BY <1>2, <1>10 DEF PlugShow
<1>11. CASE Unplug \/ Command
  <2>1. place' = "idle"
    BY <1>11 DEF Unplug, Command, SetPriorities, SetResolution, Close, Subscribe, Restart
  <2> QED
    BY <1>2, <2>1
<1>12. CASE Remove \/ \E s \in Sinks : Connect(s)
  BY <1>1, <1>12 DEF Remove, Connect
<1>13. CASE UNCHANGED vars
  BY <1>1, <1>13 DEF vars
<1> QED
  BY <1>4, <1>5, <1>6, <1>7, <1>8, <1>9, <1>10, <1>11, <1>12, <1>13 DEF Next, Handle

\* get_best_videoformat, for every table, every set of supported formats and
\* every priorities: the best priority, else the highest number of CEA, else
\* of VESA, of all supported formats but the first, else the first.
THEOREM BestChosenCorrect == Spec => []BestChosen
<1>1. Init => TableInv /\ ChoosingInv
  BY DEF Init, TableInv, ChoosingInv
<1>2. TypeOK /\ TableInv /\ ChoosingInv => BestChosen
  <2> SUFFICES ASSUME TypeOK, TableInv, ChoosingInv, place \in {"fb", "show"}
               PROVE  BestOf(video_formats_nr)
    BY DEF BestChosen
  <2>1. video_formats_nr \in Nat
    BY SizesAssumption DEF TypeOK, TableTypeOK
  <2> QED
    BY <2>1, ChoiceIsBest DEF ChoosingInv
<1> QED
  BY <1>1, <1>2, InitType, NextType, NextTable, NextChoosing, PTL DEF Spec

=============================================================================
