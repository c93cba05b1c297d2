------------------------- MODULE VideoReportProofs -------------------------
(***************************************************************************)
(* What the client is told of a sink, that its priorities decide, and that  *)
(* two failed reads of an EDID are tolerated: theorems of VideoFormats, for *)
(* every table, every set of sinks and every priority list.                 *)
(***************************************************************************)
EXTENDS VideoFormatsProofs, WellFoundedInduction

\* A set of numbers that is not empty has a least one.
LEMMA LeastNumber ==
  ASSUME NEW S \in SUBSET Nat, S # {}
  PROVE  \E m \in S : \A k \in S : m <= k
<1> DEFINE below == {ss \in Nat \X Nat : ss[1] < ss[2]}
<1>1. IsWellFoundedOn(below, Nat)
  BY NatLessThanWellFounded, Zenon DEF OpToRel
<1>2. PICK m \in S : \A k \in S : ~(<<k, m>> \in below)
  BY <1>1, WFMin, Zenon
<1>3. ASSUME NEW k \in S PROVE m <= k
  <2>1. k \in Nat /\ m \in Nat
    OBVIOUS
  <2>2. ~(k < m)
    BY <1>2, <2>1
  <2> QED
    BY <2>1, <2>2
<1> QED
  BY <1>3

-----------------------------------------------------------------------------
(* The rows of the table.                                                   *)

\* What is in the table comes from the file; a marked entry is the first of its
\* format and within the number of formats; and if the file could be read and
\* fits, all of it is there.
RowsInv ==
  /\ \A i \in Index : formats[i] # NoFormat => formats[i] \in HwFormats
  /\ \A i \in sink_support :
       /\ i \in 0 .. video_formats_nr - 1 /\ formats[i] # NoFormat
       /\ \A j \in 0 .. i - 1 : formats[j] # formats[i]
  /\ place # "idle" /\ tableRead /\ Len(hw) <= FormatsMax =>
       /\ video_formats_nr = Len(hw)
       /\ \A i \in 0 .. Len(hw) - 1 : formats[i] = hw[i + 1]

\* Reading the file fills the table with it.
LEMMA HwReadRows ==
  ASSUME hw \in HwLists, HwRead, hw' = hw
  PROVE  RowsInv'
<1> DEFINE n == IF Len(hw) < FormatsMax THEN Len(hw) ELSE FormatsMax
<1>1. Len(hw) \in Nat /\ FormatsMax \in Nat
  BY HwAssumption, SizesAssumption
<1>2. n \in Nat /\ n <= Len(hw) /\ n <= FormatsMax
      /\ (Len(hw) <= FormatsMax => n = Len(hw))
  BY <1>1
<1>3. /\ formats' = [i \in Index |-> IF i < n THEN hw[i + 1] ELSE NoFormat]
      /\ sink_support' = {}
      /\ video_formats_nr' = n
  BY DEF HwRead
<1> HIDE DEF n
<1>4. ASSUME NEW i \in Index, formats'[i] # NoFormat PROVE formats'[i] \in HwFormats
  <2>1. i < n /\ formats'[i] = hw[i + 1]
    BY <1>3, <1>4
  <2>2. i + 1 \in 1 .. Len(hw)
    BY <1>1, <1>2, <2>1 DEF Index
  <2> QED
    BY <2>1, <2>2 DEF HwFormats
<1>5. HwFormats' = HwFormats
  BY DEF HwFormats
<1>6. ASSUME Len(hw) <= FormatsMax, NEW i \in 0 .. Len(hw) - 1
      PROVE  formats'[i] = hw[i + 1]
  <2>1. i \in Index /\ i < n
    BY <1>1, <1>2, <1>6 DEF Index
  <2> QED
    BY <1>3, <2>1
<1>7. Len(hw) <= FormatsMax => video_formats_nr' = Len(hw)
  BY <1>2, <1>3
<1> QED
  BY <1>3, <1>4, <1>5, <1>6, <1>7 DEF RowsInv

\* The formats of an EDID are marked: each once, at its first entry.
LEMMA MarkedRows ==
  ASSUME RowsInv, NEW S \in SUBSET Offer, Marked(S), place # "idle",
         UNCHANGED <<hw, formats, video_formats_nr, tableRead>>
  PROVE  RowsInv'
<1>1. ASSUME NEW i \in sink_support'
      PROVE  /\ i \in 0 .. video_formats_nr - 1 /\ formats[i] # NoFormat
             /\ \A j \in 0 .. i - 1 : formats[j] # formats[i]
  <2>1. CASE i \in sink_support
    BY <2>1 DEF RowsInv
  <2>2. CASE i \in Entries(S)
    BY <2>2 DEF Entries, Offer
  <2> QED
    BY <1>1, <2>1, <2>2 DEF Marked
<1>2. HwFormats' = HwFormats
  BY DEF HwFormats
<1> QED
  BY <1>1, <1>2 DEF RowsInv

LEMMA NextRows == TypeOK /\ RowsInv /\ [Next]_vars => RowsInv'
<1> SUFFICES ASSUME TypeOK, RowsInv, [Next]_vars PROVE RowsInv'
  OBVIOUS
<1>0. TableTypeOK /\ OutsideTypeOK
  BY DEF TypeOK
<1>1. ASSUME UNCHANGED <<hw, formats, sink_support, video_formats_nr, tableRead>>,
             place = "idle" => place' = "idle"
      PROVE  RowsInv'
  <2>1. HwFormats' = HwFormats
    BY <1>1 DEF HwFormats
  <2> QED
    BY <1>1, <2>1 DEF RowsInv
<1>2. CASE PlugStart
  <2>1. hw' = hw
    BY <1>2 DEF PlugStart
  <2>2. CASE UNCHANGED <<tableVars, edidVars, place>>
    BY <1>1, <2>1, <2>2 DEF tableVars, edidVars
  <2>3. CASE HwRead
    BY <1>0, <2>1, <2>3, HwReadRows DEF TableTypeOK
  <2>4. CASE Cleared /\ tableRead' = FALSE
    BY <2>4 DEF Cleared, RowsInv
  <2> QED
    BY <1>2, <2>2, <2>3, <2>4 DEF PlugStart
<1>3. sink # NoSink => sink \in Sink
  BY <1>0, SinksAssumption DEF OutsideTypeOK
<1>4. CASE ReadBlock0
  <2>1. sink.base \in SUBSET Offer
    BY <1>3, <1>4 DEF ReadBlock0, Sink
  <2> QED
    BY <1>4, <2>1, MarkedRows DEF ReadBlock0, sinkVars
<1>5. CASE ReadBlock1
  <2>1. DataBlocks(sink) \subseteq Offer /\ sink.est3 \subseteq Offer
    BY <1>3, <1>5 DEF ReadBlock1, Sink, DataBlocks
  <2>2. \A t \in StdTimings(sink) : t \subseteq Offer
    BY <1>3, <1>5, ModesAssumption DEF ReadBlock1, Sink, StdTimings
  <2>3. PICK S \in SUBSET Offer : Marked(S)
    BY <1>5, <2>1, <2>2 DEF ReadBlock1
  <2> QED
    BY <1>5, <2>3, MarkedRows DEF ReadBlock1, sinkVars
<1>6. ASSUME NEW fault, Again(fault) PROVE place' \in {place, "idle"}
  BY <1>6 DEF Again
<1>7. CASE ReadFails \/ OtherExtension
  BY <1>1, <1>6, <1>7 DEF ReadFails, OtherExtension, sinkVars, tableVars
<1>8. CASE Prioritise \/ ChooseNext \/ ChooseEnd \/ PlugFb \/ PlugShow
  BY <1>1, <1>8
    DEF Prioritise, ChooseNext, ChooseEnd, PlugFb, PlugShow, sinkVars, tableVars, edidVars
<1>9. CASE Unplug \/ Remove \/ \E s \in Sinks : Connect(s)
  BY <1>1, <1>9 DEF Unplug, Remove, Connect, tableVars, edidVars
<1>10. CASE Command
  BY <1>1, <1>10
    DEF Command, SetPriorities, SetResolution, Close, Subscribe, Restart,
        sinkVars, tableVars, edidVars
<1>11. CASE UNCHANGED vars
  BY <1>1, <1>11 DEF vars, sinkVars, tableVars, edidVars
<1> QED
  BY <1>2, <1>4, <1>5, <1>7, <1>8, <1>9, <1>10, <1>11 DEF Next, Handle

-----------------------------------------------------------------------------
(* What the client is told.                                                 *)

\* Nothing keeps the handler from marking all that the EDID of s promises.
Readable(s) == tableRead /\ Len(hw) <= FormatsMax /\ s.std9 = <<>>

\* What the sinks seen account for.
Told ==
  (UNION {Usable(s) : s \in seen}) \union
  (IF \E s \in seen : s.std9 # <<>> THEN StdModes ELSE {})

\* While the handler works, all that is marked comes from the sinks it has seen.
Sound ==
  place # "idle" =>
    /\ Supported \subseteq Told
    /\ audio => \E s \in seen : HasAudio(s)

\* Behind block 0 its formats are marked, and behind the last block all
\* formats, if all that was read is the EDID of one sink.
Complete ==
  /\ place = "block1" =>
       /\ seen # {}
       /\ \A s \in seen : seen = {s} /\ Readable(s) =>
            s.base \intersect HwFormats \subseteq Supported
  /\ place \in {"prio", "choose", "fb", "show"} =>
       \A s \in seen : seen = {s} =>
         /\ HasAudio(s) => audio
         /\ Readable(s) => Usable(s) \subseteq Supported

ToldInv == Sound /\ Complete

\* Marking the formats of S adds those of S that are in the file, and nothing.
LEMMA MarkedSound ==
  ASSUME TypeOK, RowsInv, NEW S \in SUBSET Offer, Marked(S), UNCHANGED formats
  PROVE  /\ Supported \subseteq Supported'
         /\ Supported' \subseteq Supported \union (S \intersect HwFormats)
<1>1. sink_support' = sink_support \union Entries(S)
  BY DEF Marked
<1>2. ASSUME NEW i \in Entries(S) PROVE formats[i] \in S \intersect HwFormats
  <2>1. i \in 0 .. video_formats_nr - 1 /\ formats[i] \in S /\ formats[i] # NoFormat
    BY DEF Entries, Offer
  <2>2. i \in Index
    BY <2>1, SizesAssumption DEF TypeOK, TableTypeOK, Index
  <2> QED
    BY <2>1, <2>2 DEF RowsInv
<1> QED
  BY <1>1, <1>2 DEF Supported

\* It adds all of them, if the file could be read and fits: each is marked at
\* the first entry that holds it.
LEMMA MarkedComplete ==
  ASSUME TypeOK, RowsInv, NEW S \in SUBSET Offer, Marked(S), UNCHANGED formats,
         place # "idle", tableRead, Len(hw) <= FormatsMax
  PROVE  S \intersect HwFormats \subseteq Supported'
<1> SUFFICES ASSUME NEW f \in S, f \in HwFormats PROVE f \in Supported'
  OBVIOUS
<1>1. Len(hw) \in Nat
  BY HwAssumption DEF TypeOK, TableTypeOK
<1>2. /\ video_formats_nr = Len(hw)
      /\ \A i \in 0 .. Len(hw) - 1 : formats[i] = hw[i + 1]
  BY DEF RowsInv
<1> DEFINE rows == {i \in 0 .. Len(hw) - 1 : formats[i] = f}
<1>3. rows # {}
  <2>1. PICK n \in 1 .. Len(hw) : hw[n] = f
    BY DEF HwFormats
  <2>2. n - 1 \in 0 .. Len(hw) - 1 /\ (n - 1) + 1 = n
    BY <1>1
  <2>3. formats[n - 1] = f
    BY <1>2, <2>1, <2>2
  <2> QED
    BY <2>2, <2>3
<1>4. PICK m \in rows : \A k \in rows : m <= k
  <2>1. rows \in SUBSET Nat
    BY <1>1
  <2> HIDE DEF rows
  <2> QED
    BY <1>3, <2>1, LeastNumber
<1>5. ASSUME NEW j \in 0 .. m - 1 PROVE formats[j] # formats[m]
  <2>1. j \in 0 .. Len(hw) - 1 /\ ~(m <= j)
    BY <1>1
  <2> QED
    BY <1>4, <2>1
<1>6. m \in Entries(S)
  BY <1>2, <1>4, <1>5 DEF Entries
<1> QED
  BY <1>4, <1>6 DEF Marked, Supported

\* A sink that has been seen accounts for what its EDID promises.
LEMMA ToldGrows ==
  ASSUME NEW s, seen' = seen \union {s}, UNCHANGED hw
  PROVE  /\ Told \subseteq Told'
         /\ HwFormats' = HwFormats
         /\ Promised(s) \intersect HwFormats \subseteq Told'
         /\ s.std9 # <<>> => StdModes \subseteq Told'
<1>1. HwFormats' = HwFormats
  BY DEF HwFormats
<1>2. \A t : Usable(t)' = Usable(t)
  BY <1>1 DEF Usable
<1>3. Told' = (UNION {Usable(t) : t \in seen'}) \union
              (IF \E t \in seen' : t.std9 # <<>> THEN StdModes ELSE {})
  BY <1>2 DEF Told
<1>4. Told \subseteq Told'
  BY <1>3 DEF Told
<1>5. Usable(s) \subseteq Told' /\ (s.std9 # <<>> => StdModes \subseteq Told')
  BY <1>3
<1> QED
  BY <1>1, <1>4, <1>5 DEF Usable

\* Block 0.
LEMMA Block0Told ==
  ASSUME TypeOK, RowsInv, ToldInv, ReadBlock0
  PROVE  ToldInv'
<1>1. /\ place = "block0" /\ Marked(sink.base) /\ seen' = seen \union {sink}
      /\ place' = IF sink.extension = "none" THEN "prio" ELSE "block1"
      /\ UNCHANGED <<hw, formats, tableRead, audio>>
  BY DEF ReadBlock0, sinkVars
<1>2. sink \in Sink
  BY SinksAssumption DEF ReadBlock0, TypeOK, OutsideTypeOK
<1>3. sink.base \in SUBSET Offer
  BY <1>2 DEF Sink
<1>4. sink.base \intersect HwFormats \subseteq Promised(sink) \intersect HwFormats
  BY DEF Promised
<1>5. Sound'
  <2>1. Supported \subseteq Told /\ (audio => \E s \in seen : HasAudio(s))
    BY <1>1 DEF ToldInv, Sound
  <2>2. Supported' \subseteq Told'
    BY <1>1, <1>3, <1>4, <2>1, MarkedSound, ToldGrows
  <2> QED
    BY <1>1, <2>1, <2>2 DEF Sound, HasAudio
<1>6. PICK t \in Sink : t = sink
  BY <1>2
<1>7. ASSUME NEW s \in seen', seen' = {s} PROVE s = t
  BY <1>1, <1>6, <1>7
<1>8. HwFormats' = HwFormats
  BY <1>1 DEF HwFormats
<1>9. ASSUME Readable(t)' PROVE t.base \intersect HwFormats' \subseteq Supported'
  <2>1. tableRead /\ Len(hw) <= FormatsMax
    BY <1>1, <1>9 DEF Readable
  <2> QED
    BY <1>1, <1>3, <1>6, <1>8, <2>1, MarkedComplete
<1>10. CASE t.extension = "none"
  <2>1. place' = "prio"
    BY <1>1, <1>6, <1>10
  <2>2. Promised(t) = t.base /\ ~HasAudio(t)
    BY <1>10 DEF Promised, HasAudio
  <2>3. Usable(t)' = t.base \intersect HwFormats'
    BY <2>2 DEF Usable
  <2>4. Complete'
    BY <1>7, <1>9, <2>1, <2>2, <2>3 DEF Complete
  <2> QED
    BY <1>5, <2>4 DEF ToldInv
<1>11. CASE t.extension # "none"
  <2>1. place' = "block1" /\ seen' # {}
    BY <1>1, <1>6, <1>11
  <2>2. Complete'
    BY <1>7, <1>9, <2>1 DEF Complete
  <2> QED
    BY <1>5, <2>2 DEF ToldInv
<1> QED
  BY <1>10, <1>11

\* Block 1, also an attempt at it that fails at a data block.
LEMMA Block1Told ==
  ASSUME TypeOK, RowsInv, ToldInv, ReadBlock1
  PROVE  ToldInv'
<1>1. /\ place = "block1" /\ seen' = seen \union {sink} /\ audio' = (audio \/ sink.audio)
      /\ sink.extension = "cea"
      /\ UNCHANGED <<hw, formats, tableRead>>
  BY DEF ReadBlock1, sinkVars
<1>2. PICK t \in Sink : t = sink
  BY SinksAssumption DEF ReadBlock1, TypeOK, OutsideTypeOK
<1>3. /\ t.blocks \in Seq(SUBSET Offer) /\ t.est3 \in SUBSET Offer
      /\ t.std9 \in Seq(Offer) /\ t.audio \in BOOLEAN
  BY <1>2 DEF Sink
<1> DEFINE cea == UNION {t.blocks[i] : i \in 1 .. Len(t.blocks)}
<1>4. Promised(t) = t.base \union (cea \union t.est3
                                   \union {t.std9[i] : i \in 1 .. Len(t.std9)})
  BY <1>1, <1>2 DEF Promised
<1>5. DataBlocks(t) \in SUBSET Offer /\ DataBlocks(t) \subseteq cea
  BY <1>3 DEF DataBlocks
<1>6. t.tooLong = 0 => DataBlocks(t) = cea
  BY DEF DataBlocks
<1>7. ASSUME NEW T \in StdTimings(t)
      PROVE  /\ T \in SUBSET Offer
             /\ T \subseteq {t.std9[i] : i \in 1 .. Len(t.std9)} \union StdModes
             /\ t.std9 = <<>> => T = {}
  <2>1. CASE t.std9 = <<>>
    BY <1>7, <2>1 DEF StdTimings
  <2>2. CASE t.std9 # <<>>
    <3>1. PICK junk \in SUBSET StdModes : T = {Head(t.std9)} \union junk
      BY <1>7, <2>2 DEF StdTimings
    <3>2. Head(t.std9) \in Offer /\ Head(t.std9) = t.std9[1] /\ 1 \in 1 .. Len(t.std9)
      BY <1>3, <2>2
    <3> QED
      BY <2>2, <3>1, <3>2, ModesAssumption
  <2> QED
    BY <2>1, <2>2
<1>8. Supported \subseteq Told /\ (audio => \E s \in seen : HasAudio(s))
  BY <1>1 DEF ToldInv, Sound
<1>9. /\ Told \subseteq Told' /\ HwFormats' = HwFormats
      /\ Promised(t) \intersect HwFormats \subseteq Told'
      /\ t.std9 # <<>> => StdModes \subseteq Told'
  BY <1>1, <1>2, ToldGrows
<1>10. audio' => \E s \in seen' : HasAudio(s)
  <2>1. CASE audio
    BY <1>1, <1>8, <2>1
  <2>2. CASE sink.audio
    BY <1>1, <1>2, <2>2 DEF HasAudio
  <2> QED
    BY <1>1, <2>1, <2>2
<1>11. seen # {} /\ \A s \in seen : seen = {s} /\ Readable(s) =>
                       s.base \intersect HwFormats \subseteq Supported
  BY <1>1 DEF ToldInv, Complete
<1>12. ASSUME NEW s \in seen', seen' = {s} PROVE s = t /\ t \in seen /\ seen = {t}
  BY <1>1, <1>2, <1>11, <1>12
<1>13. CASE t.tooLong # 0
  <2>1. Marked(DataBlocks(t)) /\ Again(0)
    BY <1>2, <1>13 DEF ReadBlock1
  <2>2. place' \in {"block1", "idle"}
    BY <1>1, <2>1 DEF Again
  <2>3. /\ Supported \subseteq Supported'
        /\ Supported' \subseteq Supported \union (DataBlocks(t) \intersect HwFormats)
    BY <1>1, <1>5, <2>1, MarkedSound
  <2>4. DataBlocks(t) \intersect HwFormats \subseteq Told'
    BY <1>4, <1>5, <1>9
  <2>5. Sound'
    BY <1>8, <1>9, <1>10, <2>3, <2>4 DEF Sound, HasAudio
  <2>6. ASSUME NEW s \in seen', seen' = {s}, Readable(s)'
        PROVE  s.base \intersect HwFormats' \subseteq Supported'
    <3>1. Readable(s) /\ s \in seen /\ seen = {s}
      BY <1>1, <1>12, <2>6 DEF Readable
    <3> QED
      BY <1>9, <1>11, <2>3, <3>1
  <2>7. Complete'
    BY <1>1, <2>2, <2>6 DEF Complete
  <2> QED
    BY <2>5, <2>7 DEF ToldInv
<1>14. CASE t.tooLong = 0
  <2>1. place' = "prio"
    BY <1>2, <1>14 DEF ReadBlock1
  <2>2. PICK T \in StdTimings(t) : Marked(DataBlocks(t) \union t.est3 \union T)
    BY <1>2, <1>14 DEF ReadBlock1
  <2> DEFINE S == DataBlocks(t) \union t.est3 \union T
  <2>3. S \in SUBSET Offer
    BY <1>3, <1>5, <1>7
  <2>4. S \subseteq Promised(t) \union StdModes /\ (t.std9 = <<>> => S \subseteq Promised(t))
    BY <1>4, <1>5, <1>7
  <2>5. t.std9 = <<>> => Promised(t) \subseteq t.base \union S
    BY <1>4, <1>6, <1>14
  <2>6. Marked(S)
    BY <2>2
  <2> HIDE DEF S
  <2>7. /\ Supported \subseteq Supported'
        /\ Supported' \subseteq Supported \union (S \intersect HwFormats)
    BY <1>1, <2>3, <2>6, MarkedSound
  <2>8. S \intersect HwFormats \subseteq Told'
    BY <1>9, <2>4
  <2>9. Sound'
    BY <1>8, <1>9, <1>10, <2>7, <2>8 DEF Sound, HasAudio
  <2>10. ASSUME NEW s \in seen', seen' = {s}
         PROVE  /\ HasAudio(s) => audio'
                /\ Readable(s)' => Usable(s)' \subseteq Supported'
    <3>1. s = t /\ t \in seen /\ seen = {t}
      BY <1>12, <2>10
    <3>2. HasAudio(s) => audio'
      BY <1>1, <1>2, <3>1 DEF HasAudio
    <3>3. ASSUME Readable(s)' PROVE Usable(s)' \subseteq Supported'
      <4>1. tableRead /\ Len(hw) <= FormatsMax /\ t.std9 = <<>>
        BY <1>1, <3>1, <3>3 DEF Readable
      <4>2. S \intersect HwFormats \subseteq Supported'
        BY <1>1, <2>3, <2>6, <4>1, MarkedComplete
      <4>3. t.base \intersect HwFormats \subseteq Supported'
        BY <1>11, <2>7, <3>1, <4>1 DEF Readable
      <4>4. Usable(t)' = Promised(t) \intersect HwFormats
        BY <1>9 DEF Usable
      <4> QED
        BY <2>5, <3>1, <4>1, <4>2, <4>3, <4>4
    <3> QED
      BY <3>2, <3>3
  <2>11. Complete'
    BY <2>1, <2>10 DEF Complete
  <2> QED
    BY <2>9, <2>11 DEF ToldInv
<1> QED
  BY <1>13, <1>14

LEMMA NextTold == TypeOK /\ RowsInv /\ ToldInv /\ [Next]_vars => ToldInv'
<1> SUFFICES ASSUME TypeOK, RowsInv, ToldInv, [Next]_vars PROVE ToldInv'
  OBVIOUS
<1> DEFINE ends == {"prio", "choose", "fb", "show"}
<1>1. ASSUME UNCHANGED <<hw, formats, sink_support, tableRead, seen, audio>>,
             place' \in {place, "idle"} \/ (place \in ends /\ place' \in ends)
      PROVE  ToldInv'
  <2>1. HwFormats' = HwFormats /\ Supported' = Supported
    BY <1>1 DEF HwFormats, Supported
  <2>2. \A s : Usable(s)' = Usable(s) /\ Readable(s)' = Readable(s)
    BY <1>1, <2>1 DEF Usable, Readable
  <2>3. Told' = Told
    BY <1>1, <2>2 DEF Told
  <2>4. Sound'
    BY <1>1, <2>1, <2>3 DEF ToldInv, Sound
  <2>5. Complete'
    BY <1>1, <2>1, <2>2 DEF ToldInv, Complete
  <2> QED
    BY <2>4, <2>5 DEF ToldInv
<1>2. CASE PlugStart
  <2>1. CASE UNCHANGED <<tableVars, edidVars, place>>
    BY <1>1, <1>2, <2>1 DEF PlugStart, tableVars, edidVars
  <2>2. CASE HwRead \/ Cleared
    <3>1. sink_support' = {}
      BY <2>2 DEF HwRead, Cleared
    <3>2. Supported' = {}
      BY <3>1 DEF Supported
    <3>3. CASE place' = "block0" /\ audio' = FALSE
      BY <3>2, <3>3 DEF ToldInv, Sound, Complete
    <3> QED
      BY <1>2, <2>1, <3>3 DEF PlugStart
  <2> QED
    BY <1>2, <2>1, <2>2 DEF PlugStart
<1>3. ASSUME NEW fault, Again(fault) PROVE place' \in {place, "idle"}
  BY <1>3 DEF Again
<1>4. CASE ReadFails \/ OtherExtension
  BY <1>1, <1>3, <1>4 DEF ReadFails, OtherExtension, sinkVars, tableVars
<1>5. CASE ReadBlock0 \/ ReadBlock1
  BY <1>5, Block0Told, Block1Told
<1>6. CASE Prioritise \/ ChooseNext \/ ChooseEnd \/ PlugFb \/ PlugShow
  BY <1>1, <1>6
    DEF Prioritise, ChooseNext, ChooseEnd, PlugFb, PlugShow, sinkVars, tableVars, edidVars
<1>7. CASE Unplug \/ Remove \/ \E s \in Sinks : Connect(s)
  BY <1>1, <1>7 DEF Unplug, Remove, Connect, tableVars, edidVars
<1>8. CASE Command
  BY <1>1, <1>8
    DEF Command, SetPriorities, SetResolution, Close, Subscribe, Restart,
        sinkVars, tableVars, edidVars
<1>9. CASE UNCHANGED vars
  BY <1>1, <1>9 DEF vars, sinkVars, tableVars, edidVars
<1> QED
  BY <1>2, <1>4, <1>5, <1>6, <1>7, <1>8, <1>9 DEF Next, Handle

\* The message stays true until the handler works again.
LEMMA NextReport ==
  TypeOK /\ ToldInv /\ ShownInv /\ ReportExact /\ [Next]_vars => ReportExact'
<1> SUFFICES ASSUME TypeOK, ToldInv, ShownInv, ReportExact, [Next]_vars
             PROVE  ReportExact'
  OBVIOUS
<1>1. ASSUME UNCHANGED <<message, hw, seen, tableRead>> PROVE ReportExact'
  <2>1. HwFormats' = HwFormats
    BY <1>1 DEF HwFormats
  <2>2. \A s : Usable(s)' = Usable(s)
    BY <2>1 DEF Usable
  <2> QED
    BY <1>1, <2>2 DEF ReportExact
<1>2. ASSUME message'.kind # "PLUGGED_EV" PROVE ReportExact'
  BY <1>2 DEF ReportExact
<1>3. CASE PlugShow
  <2>1. place = "show" /\ UNCHANGED <<hw, formats, sink_support, audio, seen, tableRead>>
        /\ message' = [kind |-> "PLUGGED_EV", audio |-> audio, formats |-> Supported]
    BY <1>3 DEF PlugShow, sinkVars, tableVars, edidVars
  <2>2. HwFormats' = HwFormats
    BY <2>1 DEF HwFormats
  <2>3. \A s : Usable(s)' = Usable(s)
    BY <2>2 DEF Usable
  <2>4. Supported \subseteq Told /\ (audio => \E s \in seen : HasAudio(s))
    BY <2>1 DEF ToldInv, Sound
  <2>5. \A s \in seen : seen = {s} =>
          (HasAudio(s) => audio) /\ (Readable(s) => Usable(s) \subseteq Supported)
    BY <2>1 DEF ToldInv, Complete
  <2>6. audio \in BOOLEAN
    BY DEF TypeOK, HandlerTypeOK
  <2>7. ASSUME NEW s \in seen, seen = {s} PROVE audio = HasAudio(s)
    <3>1. HasAudio(s) => audio
      BY <2>5, <2>7
    <3>2. audio => HasAudio(s)
      BY <2>4, <2>7
    <3>3. HasAudio(s) \in BOOLEAN
      BY DEF HasAudio
    <3> QED
      BY <2>6, <3>1, <3>2, <3>3
  <2>8. ASSUME NEW s \in seen, seen = {s}, Readable(s) PROVE Supported = Usable(s)
    <3>1. Told = Usable(s)
      BY <2>8 DEF Told, Readable
    <3> QED
      BY <2>4, <2>5, <2>8, <3>1
  <2>9. /\ message'.kind = "PLUGGED_EV" /\ message'.audio = audio
        /\ message'.formats = Supported
    BY <2>1
  <2>10. Told = (UNION {Usable(s)' : s \in seen'}) \union
                (IF \E s \in seen' : s.std9 # <<>> THEN StdModes ELSE {})
    BY <2>1, <2>3 DEF Told
  <2> QED
    BY <2>1, <2>3, <2>4, <2>7, <2>8, <2>9, <2>10 DEF ReportExact, Readable
<1>4. CASE PlugStart
  <2>1. hdmi_plug_state = "PLUGGED" => UNCHANGED edidVars
    BY <1>4 DEF PlugStart
  <2>2. message.kind = "PLUGGED_EV" => hdmi_plug_state = "PLUGGED"
    BY DEF ShownInv
  <2>3. UNCHANGED <<message, hw>>
    BY <1>4 DEF PlugStart, clientVars
  <2> QED
    BY <1>1, <1>2, <2>1, <2>2, <2>3 DEF edidVars
<1>5. CASE Unplug
  <2>1. UNCHANGED <<message, hw, seen, tableRead>> \/ message'.kind # "PLUGGED_EV"
    BY <1>5 DEF Unplug, edidVars, NoMessage
  <2> QED
    BY <1>1, <1>2, <2>1, <1>5 DEF Unplug, edidVars
<1>6. CASE ReadFails \/ OtherExtension \/ ReadBlock0 \/ ReadBlock1
  <2>1. place # "idle" /\ UNCHANGED message
    BY <1>6 DEF ReadFails, OtherExtension, ReadBlock0, ReadBlock1, clientVars
  <2> QED
    BY <1>2, <2>1 DEF ShownInv
<1>7. CASE Prioritise \/ ChooseNext \/ ChooseEnd \/ PlugFb
  BY <1>1, <1>7
    DEF Prioritise, ChooseNext, ChooseEnd, PlugFb, sinkVars, edidVars, clientVars
<1>8. CASE Remove \/ \E s \in Sinks : Connect(s)
  BY <1>1, <1>8 DEF Remove, Connect, edidVars, clientVars
<1>9. CASE (\E l \in PrioLists : SetPriorities(l)) \/ (\E f \in Resolutions : SetResolution(f))
           \/ Close \/ Subscribe
  BY <1>1, <1>9
    DEF SetPriorities, SetResolution, Close, Subscribe, sinkVars, edidVars, clientVars
<1>10. CASE Restart
  BY <1>2, <1>10 DEF Restart, NoMessage
<1>11. CASE UNCHANGED vars
  BY <1>1, <1>11 DEF vars, sinkVars, edidVars, clientVars
<1> QED
  BY <1>3, <1>4, <1>5, <1>6, <1>7, <1>8, <1>9, <1>10, <1>11 DEF Next, Handle, Command

LEMMA RowsInvariant == Spec => [](TypeOK /\ RowsInv /\ ToldInv)
<1>1. Init => RowsInv /\ ToldInv
  BY DEF Init, RowsInv, ToldInv, Sound, Complete
<1> QED
  BY <1>1, InitType, NextType, NextRows, NextTold, PTL DEF Spec

\* HDMI_PLUGGED_EV tells of the sinks whose EDID was read and of nothing else,
\* and all that the sink offers if it was one, whatever earlier sinks and failed
\* attempts have left in the tables, for every table and every set of sinks.
THEOREM ReportExactCorrect == Spec => []ReportExact
<1>1. Init => ShownInv /\ ReportExact
  BY DEF Init, ShownInv, ShownChosen, ReportExact, NoMessage
<1> QED
  BY <1>1, RowsInvariant, NextShown, NextReport, PTL DEF Spec

-----------------------------------------------------------------------------
(* The priorities of the client.                                            *)

\* The priority table holds the list that was set last, and ends where it ends;
\* what an earlier list has left lies behind the terminator.
PrioTableInv ==
  /\ \A i \in Prios : i < Len(wanted) => vesaceaprio[i] = wanted[i + 1]
  /\ Len(wanted) < PrioMax => vesaceaprio[Len(wanted)] = NoFormat

\* Until the priorities are entered no format has one; then every supported
\* format has its rank in the client's list, or none.
RankInv ==
  /\ place \in {"block0", "block1", "prio"} =>
       \A i \in Index : formats[i] # NoFormat => prio[i] = PrioDefault
  /\ place \in {"choose", "fb", "show"} =>
       \A i \in sink_support :
         /\ Rank(formats[i]) = {} => prio[i] = PrioDefault
         /\ Rank(formats[i]) # {} => prio[i] \in Rank(formats[i])

WantedInv == PrioTableInv /\ RankInv

\* What was wanted last is a list of formats, of any length.
LEMMA WantedType ==
  ASSUME TypeOK
  PROVE  wanted \in Seq(Format) /\ Len(wanted) \in Nat
<1>1. wanted \in PrioLists \union {DefaultPrio}
  BY Zenon DEF TypeOK, HistoryTypeOK
<1>2. wanted \in Seq(Format)
  BY <1>1, PrioAssumption, Zenon
<1>3. Len(wanted) \in Nat
  BY <1>2
<1> QED
  BY <1>2, <1>3

\* Entering a list makes the table hold it.
LEMMA PrioTableHolds ==
  ASSUME NEW l \in PrioLists \union {DefaultPrio},
         vesaceaprio' = PrioTable(l), wanted' = l
  PROVE  PrioTableInv'
<1>1. Len(l) \in Nat
  BY PrioAssumption
<1>2. PrioMax \in Nat
  BY SizesAssumption DEF PrioDefault
<1>3. ASSUME NEW i \in Prios, i < Len(l) PROVE vesaceaprio'[i] = l[i + 1]
  BY <1>3 DEF PrioTable
<1>4. ASSUME Len(l) < PrioMax PROVE vesaceaprio'[Len(l)] = NoFormat
  <2>1. Len(l) \in Prios /\ ~(Len(l) < Len(l))
    BY <1>1, <1>2, <1>4 DEF Prios
  <2> QED
    BY <2>1 DEF PrioTable
<1> QED
  BY <1>3, <1>4 DEF PrioTableInv

\* The table mentions a format where the list does, one position lower.
LEMMA ListedIsWanted ==
  ASSUME TypeOK, PrioTableInv, NEW i \in Prios
  PROVE  /\ i \in Listed <=> i + 1 \in Wanted
         /\ i \in Listed => vesaceaprio[i] = wanted[i + 1]
<1>1. wanted \in Seq(Format) /\ Len(wanted) \in Nat
  BY WantedType
<1>2. PrioMax \in Nat /\ i \in Nat /\ i < PrioMax
  BY SizesAssumption DEF Prios, PrioDefault
<1>3. NoFormat.nr = 0
  BY DEF NoFormat
<1>4. ASSUME NEW j \in 0 .. i, j < Len(wanted) PROVE vesaceaprio[j] = wanted[j + 1]
  <2>1. j \in Prios
    BY <1>2 DEF Prios
  <2> QED
    BY <1>4, <2>1 DEF PrioTableInv
<1>5. ASSUME i \in Listed PROVE i < Len(wanted)
  <2>1. SUFFICES ASSUME ~(i < Len(wanted)) PROVE FALSE
    OBVIOUS
  <2>2. Len(wanted) \in 0 .. i /\ Len(wanted) < PrioMax
    BY <1>1, <1>2, <2>1
  <2>3. vesaceaprio[Len(wanted)].nr = 0
    BY <1>3, <2>2 DEF PrioTableInv
  <2> QED
    BY <1>5, <2>2, <2>3 DEF Listed
<1>6. ASSUME i \in Listed PROVE i + 1 \in Wanted
  <2>1. ASSUME NEW j \in 1 .. i + 1 PROVE wanted[j].nr # 0
    <3>1. j - 1 \in 0 .. i /\ j - 1 < Len(wanted) /\ (j - 1) + 1 = j
      BY <1>1, <1>2, <1>5, <1>6
    <3>2. vesaceaprio[j - 1] = wanted[j]
      BY <1>4, <3>1
    <3>3. vesaceaprio[j - 1].nr # 0
      BY <1>6, <3>1 DEF Listed
    <3> QED
      BY <3>2, <3>3
  <2>2. i + 1 \in 1 .. Len(wanted) /\ i + 1 <= PrioMax
    BY <1>1, <1>2, <1>5, <1>6
  <2> QED
    BY <2>1, <2>2 DEF Wanted
<1>7. ASSUME i + 1 \in Wanted PROVE i \in Listed
  <2>1. i + 1 \in 1 .. Len(wanted) /\ \A j \in 1 .. i + 1 : wanted[j].nr # 0
    BY <1>7 DEF Wanted
  <2>2. ASSUME NEW j \in 0 .. i PROVE vesaceaprio[j].nr # 0
    <3>1. j + 1 \in 1 .. i + 1 /\ j < Len(wanted)
      BY <1>1, <1>2, <2>1
    <3> QED
      BY <1>4, <2>1, <3>1
  <2> QED
    BY <2>2 DEF Listed
<1>8. i \in Listed => vesaceaprio[i] = wanted[i + 1]
  <2>1. i \in 0 .. i
    BY <1>2
  <2> QED
    BY <1>4, <1>5, <2>1
<1> QED
  BY <1>6, <1>7, <1>8

\* A format has one rank at most.
LEMMA OneRank ==
  ASSUME NEW f, NEW i \in Rank(f), NEW j \in Rank(f)
  PROVE  i = j
<1>1. i \in Wanted /\ j \in Wanted /\ i <= j /\ j <= i
  BY DEF Rank
<1>2. i \in Int /\ j \in Int
  BY <1>1 DEF Wanted
<1> QED
  BY <1>1, <1>2

\* The priority that is entered for a format is its rank in the list.
LEMMA PrioIsRank ==
  ASSUME TypeOK, PrioTableInv, NEW f
  PROVE  /\ LastMention(f) = {} => Rank(f) = {}
         /\ LastMention(f) # {} => PrioOf(f) \in Rank(f)
<1>1. PrioMax \in Nat
  BY SizesAssumption DEF PrioDefault
<1>2. ASSUME NEW i \in Wanted PROVE i - 1 \in Prios /\ (i - 1) + 1 = i
  <2>1. i \in 1 .. Len(wanted) /\ Len(wanted) \in Nat /\ i <= PrioMax
    BY WantedType DEF Wanted
  <2> QED
    BY <1>1, <2>1 DEF Prios
<1>3. \A i \in Wanted : i - 1 \in Listed /\ vesaceaprio[i - 1] = wanted[i]
  BY <1>2, ListedIsWanted
<1>4. \A i \in Listed : i \in Nat /\ i + 1 \in Wanted /\ vesaceaprio[i] = wanted[i + 1]
  BY ListedIsWanted DEF Listed, Prios
<1>5. ASSUME NEW i \in LastMention(f) PROVE i + 1 \in Rank(f)
  <2>1. i \in Listed /\ vesaceaprio[i] = f /\ \A j \in Listed : vesaceaprio[j] = f => j <= i
    BY DEF LastMention
  <2>2. ASSUME NEW j \in Wanted, wanted[j] = f PROVE j <= i + 1
    <3>1. j - 1 <= i
      BY <1>3, <2>1, <2>2
    <3>2. j \in Int /\ i \in Int
      BY <1>4, <2>1 DEF Wanted
    <3> QED
      BY <3>1, <3>2
  <2> QED
    BY <1>4, <2>1, <2>2 DEF Rank
<1>6. ASSUME NEW i \in Rank(f) PROVE i - 1 \in LastMention(f)
  <2>1. i \in Wanted /\ wanted[i] = f /\ \A j \in Wanted : wanted[j] = f => j <= i
    BY DEF Rank
  <2>2. ASSUME NEW j \in Listed, vesaceaprio[j] = f PROVE j <= i - 1
    <3>1. j + 1 <= i
      BY <1>4, <2>1, <2>2
    <3>2. j \in Int /\ i \in Int
      BY <1>4, <2>1 DEF Wanted
    <3> QED
      BY <3>1, <3>2
  <2> QED
    BY <1>3, <2>1, <2>2 DEF LastMention
<1>7. ASSUME LastMention(f) # {} PROVE PrioOf(f) \in Rank(f)
  <2>1. (CHOOSE i \in LastMention(f) : TRUE) \in LastMention(f)
    BY <1>7
  <2> QED
    BY <1>5, <2>1 DEF PrioOf
<1> QED
  BY <1>6, <1>7

\* The priorities are entered.
LEMMA PrioritiseRanks ==
  ASSUME TypeOK, RowsInv, WantedInv, Prioritise
  PROVE  RankInv'
<1>1. /\ place = "prio" /\ place' = "choose" /\ prio' = Prioritised
      /\ UNCHANGED <<formats, sink_support, wanted>>
  BY DEF Prioritise, tableVars, clientVars
<1>2. \A f : Rank(f)' = Rank(f)
  BY <1>1 DEF Rank, Wanted
<1>3. ASSUME NEW i \in sink_support
      PROVE  /\ Rank(formats[i]) = {} => prio'[i] = PrioDefault
             /\ Rank(formats[i]) # {} => prio'[i] \in Rank(formats[i])
  <2>1. i \in Index
    BY DEF TypeOK, TableTypeOK
  <2>2. formats[i] # NoFormat /\ \A j \in 0 .. i - 1 : formats[j] # formats[i]
    BY DEF RowsInv
  <2>3. prio[i] = PrioDefault
    BY <1>1, <2>1, <2>2 DEF WantedInv, RankInv
  <2>4. prio'[i] = IF LastMention(formats[i]) # {} THEN PrioOf(formats[i]) ELSE prio[i]
    BY <1>1, <2>1, <2>2 DEF Prioritised
  <2>5. /\ LastMention(formats[i]) = {} => Rank(formats[i]) = {}
        /\ LastMention(formats[i]) # {} => PrioOf(formats[i]) \in Rank(formats[i])
    BY PrioIsRank DEF WantedInv
  <2> QED
    BY <2>3, <2>4, <2>5
<1> QED
  BY <1>1, <1>2, <1>3 DEF RankInv

LEMMA NextWanted == TypeOK /\ RowsInv /\ WantedInv /\ [Next]_vars => WantedInv'
<1> SUFFICES ASSUME TypeOK, RowsInv, WantedInv, [Next]_vars PROVE WantedInv'
  OBVIOUS
<1> DEFINE early == {"block0", "block1", "prio"}
           late  == {"choose", "fb", "show"}
<1>0. TableTypeOK
  BY DEF TypeOK
<1>1. ASSUME UNCHANGED <<vesaceaprio, wanted>> PROVE PrioTableInv'
  BY <1>1 DEF WantedInv, PrioTableInv
<1>2. ASSUME place' = "idle" PROVE RankInv'
  BY <1>2 DEF RankInv
<1>3. ASSUME place \in early, place' \in early, UNCHANGED <<formats, prio>> PROVE RankInv'
  BY <1>3 DEF WantedInv, RankInv
<1>4. ASSUME place \in late, place' \in late, UNCHANGED <<formats, sink_support, prio, wanted>>
      PROVE  RankInv'
  <2>1. \A f : Rank(f)' = Rank(f)
    BY <1>4 DEF Rank, Wanted
  <2> QED
    BY <1>4, <2>1 DEF WantedInv, RankInv
<1>5. ASSUME NEW fault, Again(fault) PROVE place' \in {place, "idle"}
  BY <1>5 DEF Again
<1>6. CASE PlugStart
  <2>1. UNCHANGED <<vesaceaprio, wanted>>
    BY <1>6 DEF PlugStart, clientVars
  <2>2. ASSUME UNCHANGED place PROVE RankInv'
    BY <1>2, <1>6, <2>2 DEF PlugStart
  <2>3. ASSUME Cleared PROVE RankInv'
    <3>1. \A i \in Index : formats'[i] = NoFormat
      BY <2>3 DEF Cleared
    <3>2. place' \in {"idle", "block0"}
      BY <1>6 DEF PlugStart
    <3> QED
      BY <3>1, <3>2 DEF RankInv
  <2>4. ASSUME HwRead PROVE RankInv'
    <3> DEFINE n == IF Len(hw) < FormatsMax THEN Len(hw) ELSE FormatsMax
    <3>1. Len(hw) \in Nat /\ FormatsMax \in Nat
      BY <1>0, HwAssumption, SizesAssumption DEF TableTypeOK
    <3>2. n \in Nat
      BY <3>1
    <3>3. /\ formats' = [i \in Index |-> IF i < n THEN hw[i + 1] ELSE NoFormat]
          /\ prio' = [i \in Index |-> IF i <= n THEN PrioDefault ELSE 0]
      BY <2>4 DEF HwRead
    <3> HIDE DEF n
    <3>4. ASSUME NEW i \in Index, formats'[i] # NoFormat PROVE prio'[i] = PrioDefault
      <4>1. i < n /\ i \in Nat
        BY <3>3, <3>4 DEF Index
      <4>2. i <= n
        BY <3>2, <4>1
      <4> QED
        BY <3>3, <4>2
    <3>5. place' \in {"idle", "block0"}
      BY <1>6 DEF PlugStart
    <3> QED
      BY <3>4, <3>5 DEF RankInv
  <2>5. RankInv'
    BY <1>6, <2>2, <2>3, <2>4 DEF PlugStart
  <2> QED
    BY <1>1, <2>1, <2>5 DEF WantedInv
<1>7. CASE ReadFails \/ OtherExtension \/ ReadBlock0 \/ ReadBlock1
  <2>1. UNCHANGED <<vesaceaprio, wanted, formats, prio>> /\ place \in early
    BY <1>7
      DEF ReadFails, OtherExtension, ReadBlock0, ReadBlock1, tableVars, clientVars
  <2>2. place' \in early \union {"idle"}
    BY <1>5, <1>7 DEF ReadFails, OtherExtension, ReadBlock0, ReadBlock1
  <2> QED
    BY <1>1, <1>2, <1>3, <2>1, <2>2 DEF WantedInv
<1>8. CASE Prioritise
  <2>1. UNCHANGED <<vesaceaprio, wanted>>
    BY <1>8 DEF Prioritise, clientVars
  <2> QED
    BY <1>1, <1>8, <2>1, PrioritiseRanks DEF WantedInv
<1>9. CASE ChooseNext \/ ChooseEnd \/ PlugFb \/ PlugShow
  <2>1. UNCHANGED <<vesaceaprio, wanted, formats, sink_support, prio>> /\ place \in late
    BY <1>9 DEF ChooseNext, ChooseEnd, PlugFb, PlugShow, tableVars, clientVars
  <2>2. place' \in late \union {"idle"}
    BY <1>9 DEF ChooseNext, ChooseEnd, PlugFb, PlugShow
  <2> QED
    BY <1>1, <1>2, <1>4, <2>1, <2>2 DEF WantedInv
<1>10. ASSUME UNCHANGED <<vesaceaprio, tableVars, wanted, place>> PROVE WantedInv'
  <2>1. \A f : Rank(f)' = Rank(f)
    BY <1>10 DEF Rank, Wanted
  <2>2. RankInv'
    BY <1>10, <2>1 DEF WantedInv, RankInv, tableVars
  <2> QED
    BY <1>1, <1>10, <2>2 DEF WantedInv
<1>11. CASE Unplug \/ Remove \/ \E s \in Sinks : Connect(s)
  BY <1>10, <1>11 DEF Unplug, Remove, Connect, clientVars
<1>12. CASE (\E f \in Resolutions : SetResolution(f)) \/ Close \/ Subscribe
  BY <1>10, <1>12 DEF SetResolution, Close, Subscribe, clientVars
<1>13. ASSUME NEW l \in PrioLists \union {DefaultPrio}, vesaceaprio' = PrioTable(l),
              wanted' = l, place' = "idle"
       PROVE  WantedInv'
  BY <1>2, <1>13, PrioTableHolds DEF WantedInv
<1>14. CASE (\E l \in PrioLists : SetPriorities(l)) \/ Restart
  BY <1>13, <1>14 DEF SetPriorities, Restart
<1>15. CASE UNCHANGED vars
  BY <1>10, <1>15 DEF vars, clientVars
<1> QED
  BY <1>6, <1>7, <1>8, <1>9, <1>11, <1>12, <1>14, <1>15 DEF Next, Handle, Command

\* Of the formats that the client lists, the best choice is the one with the
\* best rank.
LEMMA ChoiceHasBestRank ==
  ASSUME TypeOK, RowsInv, WantedInv, BestChosen, place \in {"fb", "show"}
  PROVE  PreferenceKept
<1> DEFINE nr == video_formats_nr
<1>1. \A i \in sink_support :
        /\ Rank(formats[i]) = {} => prio[i] = PrioDefault
        /\ Rank(formats[i]) # {} => prio[i] \in Rank(formats[i])
  BY DEF WantedInv, RankInv
<1>2. nr \in Nat /\ \A i \in sink_support : i < nr /\ i \in Nat
  BY SizesAssumption DEF RowsInv, TypeOK, TableTypeOK
<1>3. ASSUME NEW f \in Supported, NEW i \in Rank(f)
      PROVE  \E j \in Rank(chosen) : j <= i
  <2>1. PICK k \in sink_support : formats[k] = f
    BY DEF Supported
  <2>2. prio[k] = i
    BY <1>1, <2>1, OneRank
  <2>3. i < PrioDefault
    <3>1. i \in 1 .. Len(wanted) /\ Len(wanted) \in Nat /\ i <= PrioMax
      BY WantedType DEF Rank, Wanted
    <3> QED
      BY <3>1, SizesAssumption DEF PrioDefault
  <2>4. k \in Preferred(nr)
    BY <1>2, <2>1, <2>2, <2>3 DEF Preferred, Offered
  <2>5. PICK b \in Preferred(nr) :
          chosen = formats[b] /\ \A j \in Preferred(nr) : prio[b] <= prio[j]
    BY <2>4 DEF BestChosen, BestOf
  <2>6. b \in sink_support /\ prio[b] < PrioDefault
    BY DEF Preferred, Offered
  <2>7. prio[b] # PrioDefault
    BY <2>6 DEF PrioDefault
  <2>8. prio[b] \in Rank(chosen)
    BY <1>1, <2>5, <2>6, <2>7
  <2> QED
    BY <2>2, <2>4, <2>5, <2>8
<1> QED
  BY <1>1, <1>3 DEF PreferenceKept

\* The client's priorities decide, for every list, also one that is longer than
\* the table and is cut off there, for every table and every set of sinks: of
\* the supported formats that the list mentions, the one with the best rank is
\* chosen; nothing that an earlier, longer list has left has a priority.
THEOREM PreferenceKeptCorrect == Spec => []PreferenceKept
<1>1. Init => WantedInv
  <2> SUFFICES ASSUME Init PROVE WantedInv
    OBVIOUS
  <2>1. Len(DefaultPrio) \in Nat
    BY PrioAssumption
  <2>2. wanted = DefaultPrio /\ place = "idle"
        /\ vesaceaprio = [i \in Prios |->
                            IF i < Len(DefaultPrio) THEN DefaultPrio[i + 1] ELSE NoFormat]
    BY DEF Init
  <2>3. Len(DefaultPrio) < PrioMax => Len(DefaultPrio) \in Prios
                                      /\ ~(Len(DefaultPrio) < Len(DefaultPrio))
    BY <2>1, SizesAssumption DEF Prios, PrioDefault
  <2> QED
    BY <2>2, <2>3 DEF WantedInv, PrioTableInv, RankInv
<1>2. TypeOK /\ RowsInv /\ WantedInv /\ BestChosen => PreferenceKept
  BY ChoiceHasBestRank DEF PreferenceKept
<1> QED
  BY <1>1, <1>2, RowsInvariant, NextWanted, BestChosenCorrect, PTL DEF Spec

-----------------------------------------------------------------------------
(* Failed reads of an EDID.                                                 *)

\* Something other than a failed read may have cost an attempt.
Excused ==
  \/ sink = NoSink \/ reports # {}
  \/ sink.extension = "other" \/ sink.tooLong # 0

\* While a block is read, every attempt at it has failed by a failed read, or
\* the sink explains it: it has gone or come, which is still to be handled
\* (the handler does not take reports), or the parser does not take its EDID.
BlameInv == place \in {"block0", "block1"} => faults = cnt \/ Excused

LEMMA NextBlame == TypeOK /\ BlameInv /\ [Next]_vars => BlameInv'
<1> SUFFICES ASSUME TypeOK, BlameInv, [Next]_vars PROVE BlameInv'
  OBVIOUS
<1>1. ASSUME place' \notin {"block0", "block1"} \/ faults' = cnt' PROVE BlameInv'
  BY <1>1 DEF BlameInv
<1>2. ASSUME place' \in {place, "idle"}, UNCHANGED sinkVars, Excused PROVE BlameInv'
  BY <1>2 DEF BlameInv, Excused, sinkVars
<1>3. ASSUME NEW fault, Again(fault) PROVE place' \in {place, "idle"}
  BY <1>3 DEF Again
<1>4. ASSUME UNCHANGED <<sinkVars, cnt, faults, place>> PROVE BlameInv'
  BY <1>4 DEF BlameInv, Excused, sinkVars
<1>5. CASE PlugStart
  <2>1. place' = "idle" \/ faults' = cnt'
    BY <1>5 DEF PlugStart
  <2> QED
    BY <1>1, <2>1
<1>6. CASE ReadFails
  <2>1. UNCHANGED sinkVars /\ place \in {"block0", "block1"}
        /\ Again(IF sink = NoSink THEN 0 ELSE 1)
    BY <1>6 DEF ReadFails
  <2>2. CASE Excused
    BY <1>2, <1>3, <2>1, <2>2
  <2>3. CASE ~Excused
    <3>1. Again(1) /\ faults = cnt
      BY <2>1, <2>3 DEF Excused, BlameInv
    <3>2. place' = "idle" \/ (cnt' = cnt + 1 /\ faults' = faults + 1)
      BY <3>1 DEF Again
    <3> QED
      BY <1>1, <3>1, <3>2
  <2> QED
    BY <2>2, <2>3
<1>7. CASE OtherExtension
  BY <1>2, <1>3, <1>7 DEF OtherExtension, Excused
<1>8. CASE ReadBlock0
  BY <1>1, <1>8 DEF ReadBlock0
<1>9. CASE ReadBlock1
  BY <1>1, <1>2, <1>3, <1>9 DEF ReadBlock1, Excused
<1>10. CASE Prioritise \/ ChooseNext \/ ChooseEnd \/ PlugFb \/ PlugShow
  <2>1. place' \notin {"block0", "block1"}
    BY <1>10 DEF Prioritise, ChooseNext, ChooseEnd, PlugFb, PlugShow
  <2> QED
    BY <1>1, <2>1
<1>11. CASE Unplug \/ Command
  <2>1. place' = "idle"
    BY <1>11 DEF Unplug, Command, SetPriorities, SetResolution, Close, Subscribe, Restart
  <2> QED
    BY <1>1, <2>1
<1>12. CASE Remove \/ \E s \in Sinks : Connect(s)
  <2>1. reports' # {}
    BY <1>12 DEF Remove, Connect
  <2> QED
    BY <2>1 DEF BlameInv, Excused
<1>13. CASE UNCHANGED vars
  BY <1>4, <1>13 DEF vars, edidVars
<1> QED
  BY <1>5, <1>6, <1>7, <1>8, <1>9, <1>10, <1>11, <1>12, <1>13 DEF Next, Handle

\* The handler gives up after three failed reads of a block, never earlier,
\* unless a sink was connected or removed meanwhile or has an extension that
\* the parser does not take.
THEOREM EdidRecoversCorrect == Spec => EdidRecovers
<1>1. Init => BlameInv
  BY DEF Init, BlameInv
<1>2. TypeOK /\ BlameInv /\ [Next]_vars =>
        [outcome # "no EDID" /\ outcome' = "no EDID" =>
           \/ faults = Attempts - 1
           \/ sink = NoSink \/ reports # {}
           \/ sink.extension = "other" \/ sink.tooLong # 0]_vars
  <2> SUFFICES ASSUME TypeOK, BlameInv, Next, outcome # "no EDID", outcome' = "no EDID"
               PROVE  faults = Attempts - 1 \/ Excused
    BY DEF Excused
  <2>1. ASSUME NEW fault, Again(fault) PROVE cnt = Attempts - 1
    BY <2>1 DEF Again
  <2>2. CASE ReadFails
    BY <2>1, <2>2 DEF ReadFails, BlameInv
  <2>3. CASE OtherExtension \/ ReadBlock1
    BY <2>3 DEF OtherExtension, ReadBlock1, Excused
  <2>4. CASE PlugStart \/ Unplug \/ Remove \/ \E s \in Sinks : Connect(s)
    BY <2>4 DEF PlugStart, Unplug, Remove, Connect
  <2>5. CASE ReadBlock0 \/ Prioritise \/ ChooseNext \/ ChooseEnd \/ PlugFb \/ PlugShow
    BY <2>5 DEF ReadBlock0, Prioritise, ChooseNext, ChooseEnd, PlugFb, PlugShow
  <2>6. CASE Command
    BY <2>6 DEF Command, SetPriorities, SetResolution, Close, Subscribe, Restart
  <2> QED
    BY <2>2, <2>3, <2>4, <2>5, <2>6 DEF Next, Handle
<1> QED
  BY <1>1, <1>2, InitType, NextType, NextBlame, PTL DEF Spec, EdidRecovers

=============================================================================
