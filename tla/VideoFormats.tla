---------------------------- MODULE VideoFormats ----------------------------
(***************************************************************************)
(* Which video formats a sink supports, which of them is shown, and what    *)
(* the client is told: hdmiplugged_handle (src/src/hdmi_service.c) with the *)
(* EDID parser (src/src/edid.c) and the format tables (src/src/setres.c).   *)
(*                                                                         *)
(* The main thread does all of this by itself.  What may change under its   *)
(* hands is the sink, which can be exchanged between two reads of its EDID, *)
(* and every read of a file may fail.                                      *)
(***************************************************************************)
EXTENDS Integers, Sequences, FiniteSets

CONSTANTS
  HwLists,       \* possible contents of VESACEAFORMATS_FILE
  Sinks,         \* the sinks that may be connected, as their EDID describes them
  NoSink,        \* no sink
  StdModes,      \* what get_vesanr_from_std_timing finds in arbitrary bytes
  PrioLists,     \* priority lists the client may set
  DefaultPrio,   \* the list of vesacea_prio_default
  Resolutions,   \* formats the client may ask for with HDMI_FB_RES_SET
  FormatsMax,    \* FORMATS_MAX
  PrioMax        \* CEAPRIO_MAX_SIZE

\* A format: the table it belongs to (0 VESA, 1 CEA) and its number there.
Format   == [cea : {0, 1}, nr : 0 .. 127]
NoFormat == [cea |-> 0, nr |-> 0]
Default  == [cea |-> 1, nr |-> 1]        \* VIDEO_FORMAT_DEFAULT

\* What an EDID can mention: a VESA format has a number.
Offer == Format \ {NoFormat}

\* A sink: block 0 (established and standard timings), then the extension:
\* its tag, audio bit, data blocks with their CEA numbers, the
\* first data block that fails the length check (0 if none), established
\* timings III and standard timings 9 to 16.
Sink == [base : SUBSET Offer, extension : {"none", "cea", "other"},
         audio : BOOLEAN, blocks : Seq(SUBSET Offer), tooLong : Nat,
         est3 : SUBSET Offer, std9 : Seq(Offer)]

Index    == 0 .. FormatsMax - 1
Prios    == 0 .. PrioMax - 1
PrioDefault == 254                        \* VESACEAPRIO_DEFAULT
Attempts == 3                             \* reads of a block at most
NoFb     == NoFormat                      \* DISPONOFF_FILE is empty

ASSUME SizesAssumption == FormatsMax \in Nat \ {0} /\ PrioMax \in 1 .. PrioDefault - 1
ASSUME HwAssumption ==
  \A hw \in HwLists : hw \in Seq(Format) /\ \A i \in 1 .. Len(hw) : hw[i].nr # 0
ASSUME SinksAssumption == Sinks \subseteq Sink /\ NoSink \notin Sinks
ASSUME ModesAssumption == StdModes \subseteq Offer /\ Resolutions \subseteq Format
ASSUME PrioAssumption == PrioLists \union {DefaultPrio} \subseteq Seq(Format)

VARIABLES
  sink, reports,            \* the connected sink, plug bits not yet taken
  hw,                       \* what VESACEAFORMATS_FILE contains
  formats, sink_support, prio,   \* video_formats: cea and nr, flag, priority
  video_formats_nr,
  vesaceaprio,              \* the priority table
  hdmi_plug_state, hdmi_fb_state,
  fb,                       \* driver: the format of the frame buffer
  place, cnt,               \* the handler: place, attempts at this block
  audio,                    \* local basic_audio_support
  index, chosen, best_prio, best_ceanr, best_vesanr,   \* get_best_videoformat
  message,                  \* the last plug message to the client
  wanted, seen, faults, tableRead, outcome, altered    \* histories, see below

(* wanted     the priority list that was set last                           *)
(* seen       sinks some of whose EDID this handler has used                *)
(* faults     failed reads of this block, other than for want of a sink     *)
(* tableRead  this handler could read VESACEAFORMATS_FILE                   *)
(* outcome    how the last handler ended                                    *)
(* altered    the frame buffer may have another format than the chosen one: *)
(*            the client has set it, or hdmi_fb_chres has failed            *)

sinkVars   == <<sink, reports, hw>>
tableVars  == <<formats, sink_support, prio, video_formats_nr>>
stateVars  == <<hdmi_plug_state, hdmi_fb_state>>
shownVars  == <<fb, altered>>
edidVars   == <<cnt, audio, seen, faults, tableRead>>
choiceVars == <<index, chosen, best_prio, best_ceanr, best_vesanr>>
clientVars == <<message, vesaceaprio, wanted>>
vars == <<sinkVars, tableVars, stateVars, shownVars, edidVars, choiceVars,
          clientVars, place, outcome>>

NoMessage == [kind |-> "none", audio |-> FALSE, formats |-> {}]

TableTypeOK ==
  /\ hw \in HwLists
  /\ formats \in [Index -> Format]
  /\ sink_support \in SUBSET Index
  /\ prio \in [Index -> 0 .. PrioDefault]
  /\ video_formats_nr \in 0 .. FormatsMax
  /\ vesaceaprio \in [Prios -> Format]

HandlerTypeOK ==
  /\ place \in {"idle", "block0", "block1", "prio", "choose", "fb", "show"}
  /\ cnt \in 0 .. Attempts - 1
  /\ audio \in BOOLEAN
  /\ index \in 0 .. FormatsMax
  /\ chosen \in Format
  /\ best_prio \in 0 .. PrioDefault + 1
  /\ best_ceanr \in 0 .. 127 /\ best_vesanr \in 0 .. 127

OutsideTypeOK ==
  /\ sink \in Sinks \union {NoSink}
  /\ reports \in SUBSET {"PLUGGED", "UNPLUGGED"}
  /\ hdmi_plug_state \in {"PLUGUNDEF", "UNPLUGGED", "PLUGGED"}
  /\ hdmi_fb_state \in {"CLOSED", "OPENED"}
  /\ fb \in Format
  /\ message \in [kind : {"none", "PLUGGED_EV", "UNPLUGGED_EV"},
                  audio : BOOLEAN, formats : SUBSET Format]

HistoryTypeOK ==
  /\ wanted \in PrioLists \union {DefaultPrio}
  /\ seen \in SUBSET Sinks
  /\ faults \in 0 .. cnt
  /\ tableRead \in BOOLEAN /\ altered \in BOOLEAN
  /\ outcome \in {"none", "reported", "no EDID", "no frame buffer"}

TypeOK == TableTypeOK /\ HandlerTypeOK /\ OutsideTypeOK /\ HistoryTypeOK

-----------------------------------------------------------------------------
(* The priority table.                                                      *)

\* Mutant: the list is not terminated.
PrioTable_Unterminated(l) ==
  [i \in Prios |-> IF i < Len(l) THEN l[i + 1] ELSE vesaceaprio[i]]

\* vesaceaprio_set, vesacea_prio_default: as many entries as the table has room
\* for, then a terminator if there is room; what was there behind it stays.
PrioTable(l) ==
  [i \in Prios |-> IF i < Len(l) THEN l[i + 1]
                   ELSE IF i = Len(l) THEN NoFormat ELSE vesaceaprio[i]]

Init ==
  /\ sink = NoSink
  /\ reports = {}
  /\ hw \in HwLists
  /\ formats = [i \in Index |-> NoFormat]
  /\ sink_support = {}
  /\ prio = [i \in Index |-> 0]
  /\ video_formats_nr = 0
  /\ wanted = DefaultPrio
  /\ vesaceaprio = [i \in Prios |->
                      IF i < Len(DefaultPrio) THEN DefaultPrio[i + 1] ELSE NoFormat]
  /\ hdmi_plug_state = "PLUGUNDEF"
  /\ hdmi_fb_state = "CLOSED"
  /\ fb = NoFb
  /\ place = "idle"
  /\ cnt = 0
  /\ audio = FALSE
  /\ index = 0
  /\ chosen = Default
  /\ best_prio = 0
  /\ best_ceanr = 0
  /\ best_vesanr = 0
  /\ message = NoMessage
  /\ seen = {}
  /\ faults = 0
  /\ tableRead = FALSE
  /\ outcome = "none"
  /\ altered = FALSE

-----------------------------------------------------------------------------
(* The sink is connected and removed; the driver reports each, and reports  *)
(* of both kinds may be pending together.                                   *)

Connect(s) ==
  /\ sink = NoSink
  /\ sink' = s
  /\ reports' = reports \union {"PLUGGED"}
  /\ UNCHANGED <<hw, tableVars, stateVars, shownVars, edidVars, choiceVars,
                 clientVars, place, outcome>>

Remove ==
  /\ sink # NoSink
  /\ sink' = NoSink
  /\ reports' = reports \union {"UNPLUGGED"}
  /\ UNCHANGED <<hw, tableVars, stateVars, shownVars, edidVars, choiceVars,
                 clientVars, place, outcome>>

-----------------------------------------------------------------------------
(* hdmiplugged_handle: the table of formats.                                *)

\* Mutant: video_formats_clear is left out.
Cleared_Not == UNCHANGED <<formats, sink_support, prio, video_formats_nr>>

\* video_formats_clear; the number of formats is not part of what it clears.
Cleared ==
  /\ formats' = [i \in Index |-> NoFormat]
  /\ sink_support' = {}
  /\ prio' = [i \in Index |-> 0]
  /\ UNCHANGED video_formats_nr

\* video_formats_supported_hw after video_formats_clear: as many formats as
\* there are and fit, and one entry behind them.
HwRead ==
  LET n == IF Len(hw) < FormatsMax THEN Len(hw) ELSE FormatsMax
  IN  /\ formats' = [i \in Index |-> IF i < n THEN hw[i + 1] ELSE NoFormat]
      /\ sink_support' = {}
      /\ prio' = [i \in Index |-> IF i <= n THEN PrioDefault ELSE 0]
      /\ video_formats_nr' = n

\* A plug report, and with it all other pending reports, is taken; it is
\* ignored if the state is PLUGGED already.
PlugStart ==
  /\ place = "idle"
  /\ "PLUGGED" \in reports
  /\ reports' = {}
  /\ IF hdmi_plug_state = "PLUGGED"
     THEN UNCHANGED <<tableVars, stateVars, edidVars, place, outcome>>
     ELSE /\ hdmi_plug_state' = "PLUGGED"
          /\ hdmi_fb_state' = "OPENED"
          /\ \/ HwRead /\ tableRead' = TRUE
             \/ Cleared /\ tableRead' = FALSE
          /\ place' = "block0"
          /\ cnt' = 0
          /\ audio' = FALSE
          /\ seen' = {}
          /\ faults' = 0
          /\ outcome' = "none"
  /\ UNCHANGED <<sink, hw, shownVars, choiceVars, clientVars>>

Unplug ==
  /\ place = "idle"
  /\ reports = {"UNPLUGGED"}
  /\ reports' = {}
  /\ IF hdmi_plug_state = "UNPLUGGED"
     THEN UNCHANGED <<hdmi_plug_state, message>>
     ELSE /\ hdmi_plug_state' = "UNPLUGGED"
          /\ message' = [NoMessage EXCEPT !.kind = "UNPLUGGED_EV"]
  /\ UNCHANGED <<sink, hw, tableVars, hdmi_fb_state, shownVars, edidVars,
                 choiceVars, vesaceaprio, wanted, place, outcome>>

-----------------------------------------------------------------------------
(* hdmiplugged_handle: the EDID.                                            *)

\* The entries for the formats of S: of equal ones the first.
Entries(S) ==
  {i \in 0 .. video_formats_nr - 1 :
     formats[i] \in S /\ \A j \in 0 .. i - 1 : formats[j] # formats[i]}

Marked(S) == sink_support' = sink_support \union Entries(S)

\* Mutants: one attempt less, and one more.
Again_Once(fault) ==
  IF cnt >= 1
  THEN cnt' = 0 /\ faults' = 0 /\ place' = "idle" /\ outcome' = "no EDID"
  ELSE cnt' = cnt + 1 /\ faults' = faults + fault /\ UNCHANGED <<place, outcome>>

Again_OneMore(fault) ==
  IF cnt = Attempts
  THEN cnt' = 0 /\ faults' = 0 /\ place' = "idle" /\ outcome' = "no EDID"
  ELSE cnt' = cnt + 1 /\ faults' = faults + fault /\ UNCHANGED <<place, outcome>>

\* An attempt has failed: another one, or the handler gives up.
Again(fault) ==
  IF cnt = Attempts - 1
  THEN cnt' = 0 /\ faults' = 0 /\ place' = "idle" /\ outcome' = "no EDID"
  ELSE cnt' = cnt + 1 /\ faults' = faults + fault /\ UNCHANGED <<place, outcome>>

\* edid_read fails, or the block does not begin as it should.
ReadFails ==
  /\ place \in {"block0", "block1"}
  /\ Again(IF sink = NoSink THEN 0 ELSE 1)
  /\ UNCHANGED <<sinkVars, tableVars, stateVars, shownVars, audio, seen, tableRead,
                 choiceVars, clientVars>>

\* edid_parse0.
ReadBlock0 ==
  /\ place = "block0"
  /\ sink # NoSink
  /\ Marked(sink.base)
  /\ place' = IF sink.extension = "none" THEN "prio" ELSE "block1"
  /\ cnt' = 0
  /\ seen' = seen \union {sink}
  /\ faults' = 0
  /\ UNCHANGED <<sinkVars, formats, prio, video_formats_nr, stateVars, shownVars,
                 audio, tableRead, choiceVars, clientVars, outcome>>

\* An extension other than CEA's: EDID_BL1_TAG_REV_ERR, like a failed read.
OtherExtension ==
  /\ place = "block1"
  /\ sink # NoSink
  /\ sink.extension = "other"
  /\ Again(0)
  /\ UNCHANGED <<sinkVars, tableVars, stateVars, shownVars, audio, seen, tableRead,
                 choiceVars, clientVars>>

\* The CEA formats of the data blocks before the one that fails the check
\* (offset + length) >= EDIDREAD_SIZE.
DataBlocks(s) ==
  UNION {s.blocks[i] : i \in {j \in 1 .. Len(s.blocks) : s.tooLong = 0 \/ j < s.tooLong}}

\* Standard timings 9 to 16: the first is read where it is, the others where
\* something else is, or beyond the block.
StdTimings(s) ==
  IF s.std9 = <<>> THEN {{}} ELSE {{Head(s.std9)} \union junk : junk \in SUBSET StdModes}

\* edid_parse1.  A data block that fails the length check fails the attempt;
\* what the blocks before it have set remains.
ReadBlock1 ==
  /\ place = "block1"
  /\ sink # NoSink
  /\ sink.extension = "cea"
  /\ audio' = (audio \/ sink.audio)
  /\ seen' = seen \union {sink}
  /\ IF sink.tooLong # 0
     THEN Marked(DataBlocks(sink)) /\ Again(0)
     ELSE /\ \E timings \in StdTimings(sink) :
               Marked(DataBlocks(sink) \union sink.est3 \union timings)
          /\ place' = "prio"
          /\ cnt' = 0
          /\ faults' = 0
          /\ UNCHANGED outcome
  /\ UNCHANGED <<sinkVars, formats, prio, video_formats_nr, stateVars, shownVars,
                 tableRead, choiceVars, clientVars>>

-----------------------------------------------------------------------------
(* hdmiplugged_handle: the choice of a format.                              *)

\* The positions of the table up to the first entry with number 0.
Listed == {i \in Prios : \A j \in 0 .. i : vesaceaprio[j].nr # 0}

\* Where the table mentions a format last.
LastMention(f) ==
  {i \in Listed : vesaceaprio[i] = f /\ \A j \in Listed : vesaceaprio[j] = f => j <= i}

PrioOf(f) == (CHOOSE i \in LastMention(f) : TRUE) + 1

\* set_vesacea_prio_all: of equal entries the first gets the priority, and of
\* several mentions the last counts.
Prioritised ==
  [k \in Index |->
     IF LastMention(formats[k]) # {} /\ \A j \in 0 .. k - 1 : formats[j] # formats[k]
     THEN PrioOf(formats[k]) ELSE prio[k]]

\* The priorities are entered and get_best_videoformat begins.
Prioritise ==
  /\ place = "prio"
  /\ prio' = Prioritised
  /\ chosen' = Default
  /\ index' = 0
  /\ best_prio' = PrioDefault + 1
  /\ best_ceanr' = 0
  /\ best_vesanr' = 0
  /\ place' = "choose"
  /\ UNCHANGED <<sinkVars, formats, sink_support, video_formats_nr, stateVars,
                 shownVars, edidVars, clientVars, outcome>>

\* Mutant: an equal priority is better.
Better_OrEqual == prio[index] <= best_prio

Better == prio[index] < best_prio

\* No priority so far: the highest CEA number, and the highest VESA number
\* until a CEA format has been chosen by its number.
Unlisted ==
  /\ best_prio >= PrioDefault
  /\ \/ formats[index].cea = 1 /\ formats[index].nr > best_ceanr
     \/ formats[index].cea = 0 /\ best_ceanr = 0 /\ formats[index].nr > best_vesanr

\* One pass of the loop of get_best_videoformat.
ChooseNext ==
  /\ place = "choose"
  /\ index < video_formats_nr
  /\ index' = index + 1
  /\ IF index \in sink_support /\ (Better \/ Unlisted)
     THEN /\ chosen' = formats[index]
          /\ best_prio' = IF Better THEN prio[index] ELSE best_prio
          /\ best_ceanr' = IF ~Better /\ formats[index].cea = 1
                           THEN formats[index].nr ELSE best_ceanr
          /\ best_vesanr' = IF ~Better /\ formats[index].cea = 0
                            THEN formats[index].nr ELSE best_vesanr
     ELSE UNCHANGED <<chosen, best_prio, best_ceanr, best_vesanr>>
  /\ UNCHANGED <<sinkVars, tableVars, stateVars, shownVars, edidVars, clientVars,
                 place, outcome>>

ChooseEnd ==
  /\ place = "choose"
  /\ index = video_formats_nr
  /\ place' = "fb"
  /\ UNCHANGED <<sinkVars, tableVars, stateVars, shownVars, edidVars, choiceVars,
                 clientVars, outcome>>

-----------------------------------------------------------------------------
(* hdmiplugged_handle: the frame buffer and the message.                    *)

\* A frame buffer that exists is kept; otherwise one is created.  After a
\* failed read back it exists, and the handler fails all the same.
PlugFb ==
  /\ place = "fb"
  /\ \/ place' = "show" /\ fb' = (IF fb = NoFb THEN chosen ELSE fb) /\ UNCHANGED outcome
     \/ place' = "idle" /\ fb' = fb /\ outcome' = "no frame buffer"
     \/ place' = "idle" /\ fb = NoFb /\ fb' = chosen /\ outcome' = "no frame buffer"
  /\ UNCHANGED <<sinkVars, tableVars, stateVars, altered, edidVars,
                 choiceVars, clientVars>>

\* Mutant: a frame buffer that exists keeps its format.
Shown_Kept(f) == fb' = fb /\ altered' = FALSE

\* hdmi_fb_chres: its failures, and those of vesaceanrtovar, are ignored.
Shown(f) ==
  \/ fb' = f /\ altered' = FALSE
  \/ fb' = fb /\ altered' = TRUE

Supported == {formats[i] : i \in sink_support}

\* The end of the handler, vesacea_supported and plugevent_send.
PlugShow ==
  /\ place = "show"
  /\ Shown(chosen)
  /\ message' = [kind |-> "PLUGGED_EV", audio |-> audio, formats |-> Supported]
  /\ place' = "idle"
  /\ outcome' = "reported"
  /\ UNCHANGED <<sinkVars, tableVars, stateVars, edidVars, choiceVars,
                 vesaceaprio, wanted>>

-----------------------------------------------------------------------------
(* Commands of the client, and a new start.                                 *)

\* HDMI_VESACEAPRIO_SET.
SetPriorities(l) ==
  /\ place = "idle"
  /\ vesaceaprio' = PrioTable(l)
  /\ wanted' = l
  /\ UNCHANGED <<sinkVars, tableVars, stateVars, shownVars, edidVars, choiceVars,
                 message, place, outcome>>

\* HDMI_FB_RES_SET.
SetResolution(f) ==
  /\ place = "idle"
  /\ hdmi_plug_state = "PLUGGED"
  /\ fb # NoFb
  /\ fb' = f
  /\ altered' = TRUE
  /\ UNCHANGED <<sinkVars, tableVars, stateVars, edidVars, choiceVars,
                 clientVars, place, outcome>>

\* hdmi_fb_close, with hdmievclr: plug bits that are in hdmi_events already stay,
\* and so do all of them if the file cannot be written.
FbClose ==
  IF hdmi_fb_state = "CLOSED"
  THEN UNCHANGED <<hdmi_fb_state, fb, reports>>
  ELSE hdmi_fb_state' = "CLOSED" /\ reports' \in SUBSET reports /\ fb' \in {fb, NoFb}

\* HDMI_DISABLE, and HDMI_FB_RELEASE, which then subscribes again: a sink
\* that is there is reported once more.
Close ==
  /\ place = "idle"
  /\ FbClose
  /\ UNCHANGED <<sink, hw, tableVars, hdmi_plug_state, altered,
                 edidVars, choiceVars, clientVars, place, outcome>>

\* hdmiplug_subscribe, for HDMI_ENABLE and HDMI_FB_RELEASE.
Subscribe ==
  /\ place = "idle"
  /\ sink # NoSink
  /\ reports' = reports \union {"PLUGGED"}
  /\ UNCHANGED <<sink, hw, tableVars, stateVars, shownVars, edidVars, choiceVars,
                 clientVars, place, outcome>>

\* HDMI_EXIT and another hdmi_service_init: the default priorities are set
\* again, plug state and format table are not.
Restart ==
  /\ place = "idle"
  /\ FbClose
  /\ vesaceaprio' = PrioTable(DefaultPrio)
  /\ wanted' = DefaultPrio
  /\ message' = NoMessage
  /\ UNCHANGED <<sink, hw, tableVars, hdmi_plug_state, altered,
                 edidVars, choiceVars, place, outcome>>

-----------------------------------------------------------------------------
Handle ==
  \/ ReadFails \/ ReadBlock0 \/ OtherExtension \/ ReadBlock1
  \/ Prioritise \/ ChooseNext \/ ChooseEnd \/ PlugFb \/ PlugShow

Command ==
  \/ \E l \in PrioLists : SetPriorities(l)
  \/ \E f \in Resolutions : SetResolution(f)
  \/ Close \/ Subscribe \/ Restart

Next ==
  \/ PlugStart \/ Unplug \/ Handle \/ Command
  \/ Remove \/ \E s \in Sinks : Connect(s)

Spec == Init /\ [][Next]_vars

-----------------------------------------------------------------------------
(* Properties.                                                              *)

\* What the EDID of a sink promises.
Promised(s) ==
  s.base \union
  (IF s.extension = "cea"
   THEN (UNION {s.blocks[i] : i \in 1 .. Len(s.blocks)}) \union s.est3
        \union {s.std9[i] : i \in 1 .. Len(s.std9)}
   ELSE {})

HwFormats == {hw[i] : i \in 1 .. Len(hw)}
Usable(s) == Promised(s) \intersect HwFormats

HasAudio(s) == s.extension = "cea" /\ s.audio

\* What HDMI_PLUGGED_EV tells the client comes from the sinks whose EDID the
\* handler has read, whatever an earlier sink or a failed attempt has left in
\* the tables; if it was one sink, the message has all of it.  (Except where
\* there are standard timings 9 to 16; all of it only if the file of formats
\* could be read and was not longer than the table.)
ReportExact ==
  message.kind = "PLUGGED_EV" =>
    /\ message.formats \subseteq
         (UNION {Usable(s) : s \in seen}) \union
         (IF \E s \in seen : s.std9 # <<>> THEN StdModes ELSE {})
    /\ message.audio => \E s \in seen : HasAudio(s)
    /\ \A s \in seen : seen = {s} =>
         /\ message.audio = HasAudio(s)
         /\ tableRead /\ Len(hw) <= FormatsMax /\ s.std9 = <<>>
              => message.formats = Usable(s)

\* The position of a format in the client's list: its last mention before the
\* first entry with number 0, among the entries the table has room for.
Wanted ==
  {i \in 1 .. Len(wanted) : i <= PrioMax /\ \A j \in 1 .. i : wanted[j].nr # 0}
Rank(f) == {i \in Wanted : wanted[i] = f /\ \A j \in Wanted : wanted[j] = f => j <= i}

\* The priorities the client has set last decide, and not what is left of an
\* earlier list: of the supported formats that it lists, the format chosen is
\* the one with the best rank, and those it does not list have no priority.
\* (Of a list that is longer than the table, the first PrioMax entries count.)
PreferenceKept ==
  place \in {"fb", "show"} =>
    /\ \A f \in Supported : \A i \in Rank(f) : \E j \in Rank(chosen) : j <= i
    /\ \A i \in sink_support : Rank(formats[i]) = {} => prio[i] = PrioDefault

\* The supported formats among the first n entries of the table, those with a
\* priority, those after the first, and of these the CEA formats.
Offered(n)   == {i \in sink_support : i < n}
Preferred(n) == {i \in Offered(n) : prio[i] < PrioDefault}
Others(n)    == {i \in Offered(n) : \E j \in Offered(n) : j < i}
CeaOthers(n) == {i \in Others(n) : formats[i].cea = 1}

\* The format chosen is that of an entry of S and has the highest number in S.
HighestOf(S) ==
  \E i \in S : chosen = formats[i] /\ \A j \in S : formats[j].nr <= formats[i].nr

\* What get_best_videoformat has chosen from the first n entries: the best
\* priority; without any, of all offers but the first the CEA format with the
\* highest number, else the VESA format with the highest number, else the
\* first; the default if nothing is offered.  (This is what the loop does.  It is
\* not "the first format in this list with sink_support set", as the comment at
\* setres.c:49-50 has it, and leaves a CEA format out if that comes first.)
BestOf(n) ==
  IF Preferred(n) # {}
  THEN \E i \in Preferred(n) :
         chosen = formats[i] /\ \A j \in Preferred(n) : prio[i] <= prio[j]
  ELSE IF CeaOthers(n) # {} THEN HighestOf(CeaOthers(n))
  ELSE IF Others(n) # {} THEN HighestOf(Others(n))
  ELSE IF Offered(n) # {} THEN \E i \in Offered(n) : chosen = formats[i]
  ELSE chosen = Default

\* The choice of the loop, with its three running values, is that one.
BestChosen == place \in {"fb", "show"} => BestOf(video_formats_nr)

\* After HDMI_PLUGGED_EV the frame buffer, new or left by another sink, has the
\* format that was chosen for this sink, unless hdmi_fb_chres has failed or the
\* client has changed it.
ShownChosen ==
  message.kind = "PLUGGED_EV" /\ fb # NoFb /\ ~altered => fb = chosen

\* Two failed reads of a block are tolerated: without an EDID the handler gives
\* up only if three have failed, a sink was connected or removed meanwhile, or
\* the extension is one that the parser does not take.
EdidRecovers ==
  [][outcome # "no EDID" /\ outcome' = "no EDID" =>
       \/ faults = Attempts - 1
       \/ sink = NoSink \/ reports # {}
       \/ sink.extension = "other" \/ sink.tooLong # 0]_vars

=============================================================================
