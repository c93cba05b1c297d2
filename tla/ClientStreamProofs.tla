------------------------- MODULE ClientStreamProofs -------------------------
(***************************************************************************)
(* Type correctness of ClientStream, the bounds of its buffer indices, and  *)
(* the framing of its messages (the second part: FrameInv and               *)
(* FramedCorrect), for every size of the buffer, of a byte and of the       *)
(* messages.                                                                *)
(***************************************************************************)
EXTENDS ClientStream, SequenceTheorems, TLAPS

\* What an API function writes is a sequence of marked bytes.
LEMMA EncodedType ==
  ASSUME NEW m \in Messages
  PROVE  Encoded(m) \in Seq(MarkedByte)
<1> DEFINE size == Len(m.data)
           head == <<m.cmd, size % ByteRange, size \div ByteRange>>
           raw  == head \o m.data
<1>1. PICK k \in Cmds, n \in Sizes :
        m = [cmd |-> k, data |-> [i \in 1 .. n |-> Filler]]
  BY DEF Messages
<1>2. n \in Nat /\ n \div ByteRange \in Byte
  BY SizesAssumption
<1>3. m.data \in Seq(Byte) /\ size = n
  BY <1>1, <1>2, ByteAssumption
<1>4. n % ByteRange \in Byte
  BY <1>2, BufferAssumption DEF Byte, HeaderSize
<1>5. head \in Seq(Byte)
  BY <1>1, <1>2, <1>3, <1>4, ByteAssumption
<1>6. raw \in Seq(Byte)
  BY <1>3, <1>5, ConcatProperties
<1> HIDE DEF raw
<1>7. [i \in 1 .. Len(raw) |-> [val |-> raw[i], last |-> i = Len(raw)]]
        \in Seq(MarkedByte)
  BY <1>6 DEF MarkedByte
<1> QED
  BY <1>7 DEF Encoded, raw

\* The thread is at work, its indices are as InBounds says, and its buffer
\* and the bytes still to come hold bytes.
StreamInv ==
  /\ inflight \in Seq(MarkedByte)
  /\ buffer \in [Indices -> Byte]
  /\ end \in {"open", "eof", "reset"}
  /\ place \in {"read", "parse", "ended"}
  /\ bytes \in -1 .. BufferSize + HeaderSize - 1
  /\ buf_index \in 0 .. BufferSize - 1
  /\ place = "read" => bytes >= 0
  /\ InBounds

LEMMA InitStreamInv == Init => StreamInv
<1> SUFFICES ASSUME Init PROVE StreamInv
  OBVIOUS
<1> USE BufferAssumption, ByteAssumption DEF Init, StreamInv, HeaderSize
<1>1. PICK junk \in {0, Filler, Exit} : buffer = [i \in Indices |-> junk]
  OBVIOUS
<1>2. buffer \in [Indices -> Byte]
  BY <1>1 DEF Byte
<1>3. InBounds
  BY DEF InBounds
<1> QED
  BY <1>2, <1>3

\* A read keeps the invariant: there is room, and what it counts as received
\* ends less than a header behind the buffer.
LEMMA ReadStreamInv == StreamInv /\ Read => StreamInv'
<1> SUFFICES ASSUME StreamInv, Read PROVE StreamInv'
  OBVIOUS
<1> DEFINE n == IF Len(inflight) < Room THEN Len(inflight) ELSE Room
<1> USE BufferAssumption DEF HeaderSize
<1>1. Len(inflight) \in Nat /\ Len(inflight) > 0
  BY DEF StreamInv, Read
<1>2. buf_index < HeaderSize /\ bytes < HeaderSize
  BY DEF StreamInv, InBounds, Read
<1>3. n \in 1 .. BufferSize - buf_index /\ n <= Len(inflight)
  BY <1>1, <1>2 DEF Room, StreamInv
<1>4. /\ bytes' = bytes + n
      /\ inflight' = SubSeq(inflight, n + 1, Len(inflight))
      /\ place' = IF bytes' < HeaderSize THEN "read" ELSE "parse"
      /\ buffer' = [i \in Indices |-> IF i \in buf_index .. buf_index + n - 1
                                      THEN inflight[i - buf_index + 1].val
                                      ELSE buffer[i]]
      /\ UNCHANGED <<end, buf_index>>
  BY DEF Read
<1> HIDE DEF n
<1>5. inflight' \in Seq(MarkedByte)
  BY <1>1, <1>3, <1>4 DEF StreamInv
<1>6. ASSUME NEW i \in buf_index .. buf_index + n - 1
      PROVE  inflight[i - buf_index + 1].val \in Byte
  <2>1. i - buf_index + 1 \in 1 .. Len(inflight)
    BY <1>1, <1>3 DEF StreamInv
  <2>2. inflight[i - buf_index + 1] \in MarkedByte
    BY <2>1 DEF StreamInv
  <2> QED
    BY <2>2 DEF MarkedByte
<1>7. buffer' \in [Indices -> Byte]
  BY <1>4, <1>6 DEF StreamInv
<1>8. /\ bytes' \in -1 .. BufferSize + HeaderSize - 1
      /\ bytes' >= 0
      /\ buf_index' \in 0 .. BufferSize - 1
      /\ InBounds'
  <2>1. bytes >= 0
    BY DEF StreamInv, Read
  <2> QED
    BY <1>2, <1>3, <1>4, <2>1 DEF StreamInv, InBounds
<1> QED
  BY <1>4, <1>5, <1>7, <1>8 DEF StreamInv

\* So does the end of the stream.
LEMMA ReadEndStreamInv == StreamInv /\ ReadEnd => StreamInv'
<1> SUFFICES ASSUME StreamInv, ReadEnd PROVE StreamInv'
  OBVIOUS
<1> USE BufferAssumption DEF HeaderSize
<1>1. /\ UNCHANGED <<inflight, buffer, buf_index>>
      /\ end' = "eof"
      /\ place = "read"
      /\ bytes' = IF end = "reset" THEN bytes - 1 ELSE bytes
      /\ place' = IF bytes' <= 0 THEN "ended" ELSE "read"
  BY DEF ReadEnd, Closed
<1>2. bytes \in Int /\ bytes < HeaderSize /\ buf_index < HeaderSize
  BY <1>1 DEF StreamInv, InBounds
<1>3. bytes' \in -1 .. BufferSize + HeaderSize - 1
  BY <1>1, <1>2 DEF StreamInv
<1>4. InBounds'
  BY <1>1, <1>2, <1>3 DEF InBounds
<1> QED
  BY <1>1, <1>3, <1>4 DEF StreamInv

\* The parts of a command.
LEMMA CommandType ==
  ASSUME StreamInv, place = "parse"
  PROVE  /\ Cmd \in Byte
         /\ Size \in HeaderSize .. HeaderSize + ByteRange - 1
         /\ Data \in Seq(Byte)
         /\ Left \in 0 .. bytes
         /\ Left > 0 => Left = bytes - Size
<1> USE BufferAssumption DEF HeaderSize
<1>1. buf_index \in 0 .. BufferSize - 1 /\ bytes \in Nat /\ bytes >= HeaderSize
  BY DEF StreamInv, InBounds
<1>2. buf_index \in Indices /\ buf_index + 1 \in Indices
  BY <1>1 DEF Indices
<1>3. Cmd \in Byte /\ buffer[buf_index + 1] \in Byte
  BY <1>2 DEF StreamInv, Cmd
<1>4. Size \in HeaderSize .. HeaderSize + ByteRange - 1
  BY <1>3 DEF Size, Byte
<1> HIDE DEF HeaderSize
<1>5. ASSUME NEW i \in 1 .. Size - HeaderSize
      PROVE  buffer[buf_index + HeaderSize + i - 1] \in Byte
  <2>1. buf_index + HeaderSize + i - 1 \in Indices
    BY <1>1, <1>4 DEF Indices, HeaderSize
  <2> QED
    BY <2>1 DEF StreamInv
<1>6. Size - HeaderSize \in Nat
  BY <1>4 DEF HeaderSize
<1>7. Data \in Seq(Byte)
  BY <1>5, <1>6 DEF Data
<1>8. Left \in 0 .. bytes /\ (Left > 0 => Left = bytes - Size)
  BY <1>1, <1>4 DEF Left, HeaderSize
<1> QED
  BY <1>3, <1>4, <1>7, <1>8

\* Decoding a command keeps the invariant: either the rest fits at the start
\* of the buffer, or index and count move by the same amount.
LEMMA ParseStreamInv == StreamInv /\ Parse => StreamInv'
<1> SUFFICES ASSUME StreamInv, Parse PROVE StreamInv'
  OBVIOUS
<1> USE BufferAssumption
<1>1. place = "parse"
  BY DEF Parse
<1>2. /\ Size \in HeaderSize .. HeaderSize + ByteRange - 1
      /\ Left \in 0 .. bytes
      /\ Left > 0 => Left = bytes - Size
  BY <1>1, CommandType
<1>3. /\ bytes \in Nat /\ buf_index \in Nat
      /\ bytes >= HeaderSize
      /\ buf_index + bytes < BufferSize + HeaderSize
  BY <1>1 DEF StreamInv, InBounds, HeaderSize
<1>4. UNCHANGED <<inflight, end>> /\ bytes' = Left
  BY DEF Parse, clientEnd
<1>5. bytes' \in -1 .. BufferSize + HeaderSize - 1
  BY <1>2, <1>3, <1>4 DEF HeaderSize
<1>6. place' \in {"read", "parse", "ended"}
      /\ (place' = "read" => Left < HeaderSize)
      /\ (place' = "parse" => ~(Left < HeaderSize))
  BY DEF Parse
<1>7. CASE Left < HeaderSize
  <2>1. /\ buf_index' = Left
        /\ buffer' = [i \in Indices |-> IF i < Left THEN buffer[buf_index + Size + i]
                                                    ELSE buffer[i]]
    BY <1>7 DEF Parse
  <2>2. ASSUME NEW i \in Indices, i < Left
        PROVE  buffer[buf_index + Size + i] \in Byte
    <3>1. buf_index + Size + i \in Indices
      BY <1>2, <1>3, <2>2 DEF Indices, HeaderSize
    <3> QED
      BY <3>1 DEF StreamInv
  <2>3. buffer' \in [Indices -> Byte]
    BY <2>1, <2>2 DEF StreamInv
  <2>4. buf_index' \in 0 .. BufferSize - 1
    BY <1>2, <1>7, <2>1 DEF HeaderSize
  <2>5. InBounds' /\ bytes' >= 0
    BY <1>2, <1>4, <1>6, <1>7, <2>1 DEF InBounds, HeaderSize
  <2> QED
    BY <1>4, <1>5, <1>6, <2>3, <2>4, <2>5 DEF StreamInv
<1>8. CASE ~(Left < HeaderSize)
  <2>1. buf_index' = buf_index + Size /\ UNCHANGED buffer
    BY <1>8 DEF Parse
  <2>2. Left = bytes - Size
    BY <1>2, <1>8 DEF HeaderSize
  <2>3. buf_index' \in 0 .. BufferSize - 1
    BY <1>2, <1>3, <1>8, <2>1, <2>2 DEF HeaderSize
  <2>4. InBounds' /\ bytes' >= 0
    BY <1>2, <1>3, <1>4, <1>6, <1>8, <2>1, <2>2 DEF InBounds, HeaderSize
  <2> QED
    BY <1>4, <1>5, <1>6, <2>1, <2>3, <2>4 DEF StreamInv
<1> QED
  BY <1>7, <1>8

LEMMA StreamInvariant == Spec => []StreamInv
<1>1. StreamInv /\ [Next]_vars => StreamInv'
  <2> SUFFICES ASSUME StreamInv, [Next]_vars PROVE StreamInv'
    OBVIOUS
  <2>1. ASSUME NEW m \in Messages, Send(m) PROVE StreamInv'
    <3>1. inflight' \in Seq(MarkedByte)
      BY <2>1, EncodedType, ConcatProperties DEF Send, StreamInv
    <3> QED
      BY <2>1, <3>1 DEF Send, StreamInv, InBounds, threadVars
  <2>2. CASE Close
    BY <2>2 DEF Close, StreamInv, InBounds, threadVars
  <2>3. CASE UNCHANGED vars
    BY <2>3 DEF StreamInv, InBounds, vars, clientEnd, threadVars
  <2> QED
    BY <2>1, <2>2, <2>3, ReadStreamInv, ReadEndStreamInv, ParseStreamInv
    DEF Next, Thread
<1> QED
  BY <1>1, InitStreamInv, PTL DEF Spec

\* Wherever reads end, the thread has room to read, decodes only behind a
\* whole header and counts no further than a header behind its buffer.
THEOREM InBoundsCorrect == Spec => []InBounds
<1>1. StreamInv => InBounds
  BY DEF StreamInv
<1> QED
  BY <1>1, StreamInvariant, PTL

\* Every variable keeps its type; what is decoded are commands of bytes.
THEOREM StreamTypeCorrect == Spec => []TypeOK
<1> DEFINE HistoryInv == /\ sent \in Seq(Messages)
                         /\ decoded \in Seq([cmd : Byte, data : Seq(Byte)])
                         /\ cut \in BOOLEAN
<1>1. Init => HistoryInv
  <2>1. <<>> \in Seq(Messages) /\ <<>> \in Seq([cmd : Byte, data : Seq(Byte)])
    BY EmptySeq
  <2> QED
    BY <2>1 DEF Init
<1>2. StreamInv /\ HistoryInv /\ [Next]_vars => HistoryInv'
  <2> SUFFICES ASSUME StreamInv, HistoryInv, [Next]_vars PROVE HistoryInv'
    OBVIOUS
  <2>1. ASSUME NEW m \in Messages, Send(m) PROVE HistoryInv'
    BY <2>1, AppendProperties DEF Send
  <2>2. CASE Close
    BY <2>2 DEF Close
  <2>3. CASE Read
    <3>1. UNCHANGED <<sent, decoded>> /\ cut' \in BOOLEAN
      BY <2>3 DEF Read
    <3> QED
      BY <3>1
  <2>4. CASE ReadEnd
    BY <2>4 DEF ReadEnd
  <2>5. CASE Parse
    <3>1. [cmd |-> Cmd, data |-> Data] \in [cmd : Byte, data : Seq(Byte)]
      BY <2>5, CommandType DEF Parse
    <3> QED
      BY <2>5, <3>1, AppendProperties DEF Parse, clientEnd
  <2>6. CASE UNCHANGED vars
    BY <2>6 DEF vars, clientEnd
  <2> QED
    BY <2>1, <2>2, <2>3, <2>4, <2>5, <2>6 DEF Next, Thread
<1>3. StreamInv /\ HistoryInv => TypeOK
  BY DEF StreamInv, TypeOK
<1> QED
  BY <1>1, <1>2, <1>3, StreamInvariant, PTL DEF Spec

-----------------------------------------------------------------------------
(* The messages that are decoded.                                           *)

\* Bytes of a message.
Length(m) == HeaderSize + Len(m.data)

\* pos[i] is where the i-th message begins in the stream of all bytes, and each
\* byte of the stream is one of a message.
Offsets(pos) ==
  /\ pos \in [1 .. Len(sent) + 1 -> Nat]
  /\ \A i \in 1 .. Len(sent) : pos[i + 1] = pos[i] + Length(sent[i])
  /\ \A i, j \in 1 .. Len(sent) + 1 : i <= j => pos[i] <= pos[j]
  /\ \A q \in 0 .. pos[Len(sent) + 1] - 1 :
       \E i \in 1 .. Len(sent) : q \in pos[i] .. pos[i + 1] - 1

\* The messages behind the k-th are in the socket, and nothing else is.
InSocket(pos, k) ==
  /\ pos[Len(sent) + 1] = pos[k + 1] + Len(inflight)
  /\ \A i \in k + 1 .. Len(sent) : \A q \in pos[i] .. pos[i + 1] - 1 :
       inflight[q - pos[k + 1] + 1] = Encoded(sent[i])[q - pos[i] + 1]

\* Those before, as far as they are not decoded, are in the buffer.
InBuffer(pos, k) ==
  /\ pos[k + 1] = pos[Len(decoded) + 1] + bytes
  /\ \A i \in Len(decoded) + 1 .. k :
       /\ Length(sent[i]) <= BufferSize
       /\ \A q \in pos[i] .. pos[i + 1] - 1 :
            buffer[buf_index + (q - pos[Len(decoded) + 1])] =
              Encoded(sent[i])[q - pos[i] + 1].val

\* k messages have been read: whole ones, so that the buffer is empty before
\* the next read, and begins with a command while commands are decoded.
Layout(pos, k) ==
  /\ k \in Len(decoded) .. Len(sent)
  /\ place = "read" => k = Len(decoded) /\ buf_index = 0
  /\ place = "parse" => Len(decoded) < k
  /\ Offsets(pos) /\ InSocket(pos, k) /\ InBuffer(pos, k)

\* What has been decoded is what has been sent first.
Prefix ==
  /\ Len(decoded) <= Len(sent)
  /\ \A i \in 1 .. Len(decoded) : decoded[i] = sent[i]

FrameInv ==
  ~cut => /\ Prefix
          /\ place # "ended" => \E k \in Nat : \E pos : Layout(pos, k)

\* The bytes of a message.
LEMMA EncodedBytes ==
  ASSUME NEW m \in Messages
  PROVE  /\ Len(m.data) \in Nat /\ Length(m) \in Nat /\ Length(m) >= HeaderSize
         /\ m.data \in Seq(Byte) /\ m = [cmd |-> m.cmd, data |-> m.data]
         /\ Encoded(m) \in Seq(MarkedByte)
         /\ Len(Encoded(m)) = Length(m)
         /\ \A j \in 1 .. Length(m) : Encoded(m)[j].last <=> j = Length(m)
         /\ Encoded(m)[1].val = m.cmd
         /\ Encoded(m)[2].val = Len(m.data) % ByteRange
         /\ \A j \in 1 .. Len(m.data) : Encoded(m)[HeaderSize + j].val = m.data[j]
<1> DEFINE size == Len(m.data)
           head == <<m.cmd, size % ByteRange, size \div ByteRange>>
           raw  == head \o m.data
<1>1. PICK k \in Cmds, n \in Sizes :
        m = [cmd |-> k, data |-> [i \in 1 .. n |-> Filler]]
  BY DEF Messages
<1>2. n \in Nat /\ n \div ByteRange \in Byte
  BY SizesAssumption
<1>3. m.data \in Seq(Byte) /\ size = n /\ m = [cmd |-> m.cmd, data |-> m.data]
  BY <1>1, <1>2, ByteAssumption
<1>4. n % ByteRange \in Byte
  BY <1>2, BufferAssumption DEF Byte, HeaderSize
<1>5. head \in Seq(Byte) /\ Len(head) = 3
      /\ head[1] = m.cmd /\ head[2] = size % ByteRange
  BY <1>1, <1>2, <1>3, <1>4, ByteAssumption
<1> HIDE DEF head
<1>6. /\ raw \in Seq(Byte) /\ Len(raw) = 3 + size
      /\ \A j \in 1 .. Len(raw) : raw[j] = IF j <= 3 THEN head[j] ELSE m.data[j - 3]
  <2>1. /\ raw \in Seq(Byte) /\ Len(raw) = Len(head) + size
        /\ \A j \in 1 .. Len(head) + size :
             raw[j] = IF j <= Len(head) THEN head[j] ELSE m.data[j - Len(head)]
    BY <1>3, <1>5, ConcatProperties
  <2> HIDE DEF raw
  <2> QED
    BY <1>5, <2>1
<1>7. Encoded(m) = [i \in 1 .. Len(raw) |-> [val |-> raw[i], last |-> i = Len(raw)]]
  BY DEF Encoded, head
<1> HIDE DEF raw
<1>8. Length(m) = 3 + size /\ Len(raw) = Length(m) /\ Length(m) \in Nat /\ size \in Nat
  BY <1>2, <1>3, <1>6 DEF Length, HeaderSize
<1>9. Len(Encoded(m)) = Length(m)
  BY <1>7, <1>8
<1>10. ASSUME NEW j \in 1 .. Length(m)
       PROVE  Encoded(m)[j].val = raw[j] /\ (Encoded(m)[j].last <=> j = Length(m))
  <2>1. PICK b \in BOOLEAN : b = (j = Len(raw))
    OBVIOUS
  <2>2. Encoded(m)[j] = [val |-> raw[j], last |-> j = Len(raw)]
    BY <1>7, <1>8
  <2>3. Encoded(m)[j] = [val |-> raw[j], last |-> b]
    BY <2>1, <2>2, Zenon
  <2>4. Encoded(m)[j].val = raw[j] /\ Encoded(m)[j].last = b
    BY <2>3
  <2> QED
    BY <1>8, <2>1, <2>4
<1>11. raw[1] = m.cmd /\ raw[2] = size % ByteRange
  BY <1>5, <1>6, <1>8
<1>12. ASSUME NEW j \in 1 .. size PROVE Encoded(m)[HeaderSize + j].val = m.data[j]
  <2>1. HeaderSize + j \in 1 .. Length(m) /\ ~(HeaderSize + j <= 3)
        /\ (HeaderSize + j) - 3 = j
    BY <1>8 DEF HeaderSize
  <2> QED
    BY <1>6, <1>8, <1>10, <2>1
<1>13. 1 \in 1 .. Length(m) /\ 2 \in 1 .. Length(m)
  BY <1>8
<1> QED
  BY <1>3, <1>8, <1>9, <1>10, <1>11, <1>12, <1>13, EncodedType DEF HeaderSize

\* A message that is sent follows the bytes in the socket.
LEMMA SendFrame ==
  ASSUME TypeOK, NEW k \in Nat, NEW pos, Layout(pos, k), NEW m \in Messages, Send(m)
  PROVE  \E pos2 : Layout(pos2, k)'
<1>1. /\ sent \in Seq(Messages) /\ inflight \in Seq(MarkedByte)
      /\ Len(sent) \in Nat /\ Len(inflight) \in Nat /\ Len(decoded) \in Nat
  BY DEF TypeOK
<1>2. /\ Encoded(m) \in Seq(MarkedByte) /\ Len(Encoded(m)) = Length(m)
      /\ Length(m) \in Nat
  BY EncodedBytes
<1>3. PICK N \in Nat, L \in Nat, d \in Nat, len \in Nat :
        N = Len(sent) /\ L = Len(inflight) /\ d = Len(decoded) /\ len = Length(m)
  BY <1>1, <1>2
<1>4. /\ UNCHANGED <<place, buffer, bytes, buf_index, decoded>>
      /\ sent' = Append(sent, m) /\ inflight' = inflight \o Encoded(m)
  BY DEF Send, threadVars
<1>5. Len(sent') = N + 1 /\ (\A i \in 1 .. N : sent'[i] = sent[i]) /\ sent'[N + 1] = m
  BY <1>1, <1>3, <1>4, AppendProperties
<1>6. /\ Len(inflight') = L + len
      /\ \A p \in 1 .. L + len :
           inflight'[p] = IF p <= L THEN inflight[p] ELSE Encoded(m)[p - L]
  <2>1. /\ Len(inflight \o Encoded(m)) = Len(inflight) + Len(Encoded(m))
        /\ \A p \in 1 .. Len(inflight) + Len(Encoded(m)) :
             (inflight \o Encoded(m))[p] =
               IF p <= Len(inflight) THEN inflight[p] ELSE Encoded(m)[p - Len(inflight)]
    BY <1>1, <1>2, ConcatProperties
  <2>2. Len(inflight) = L /\ Len(Encoded(m)) = len /\ inflight' = inflight \o Encoded(m)
    BY <1>2, <1>3, <1>4
  <2> QED
    BY <2>1, <2>2
<1>7. /\ pos \in [1 .. N + 1 -> Nat]
      /\ \A i \in 1 .. N : pos[i + 1] = pos[i] + Length(sent[i])
      /\ \A i, j \in 1 .. N + 1 : i <= j => pos[i] <= pos[j]
      /\ \A q \in 0 .. pos[N + 1] - 1 : \E i \in 1 .. N : q \in pos[i] .. pos[i + 1] - 1
  BY <1>3 DEF Layout, Offsets
<1>8. /\ k \in d .. N
      /\ pos[N + 1] = pos[k + 1] + L
      /\ \A i \in k + 1 .. N : \A q \in pos[i] .. pos[i + 1] - 1 :
           inflight[q - pos[k + 1] + 1] = Encoded(sent[i])[q - pos[i] + 1]
  BY <1>3 DEF Layout, InSocket
<1>9. PICK e \in Nat, b \in Nat : e = pos[N + 1] /\ b = pos[k + 1] /\ e = b + L
  <2>1. N + 1 \in 1 .. N + 1 /\ k + 1 \in 1 .. N + 1
    BY <1>8
  <2> QED
    BY <1>7, <1>8, <2>1
<1> DEFINE pos2 == [i \in 1 .. N + 2 |-> IF i <= N + 1 THEN pos[i] ELSE e + len]
<1>10. pos2 \in [1 .. N + 2 -> Nat] /\ pos2[N + 2] = e + len
  BY <1>7
<1>11. \A i \in 1 .. N + 1 : pos2[i] = pos[i]
  OBVIOUS
<1> HIDE DEF pos2
<1>12. \A i \in 1 .. N : i \in 1 .. N + 1 /\ i + 1 \in 1 .. N + 1
                        /\ pos2[i] = pos[i] /\ pos2[i + 1] = pos[i + 1]
  BY <1>11
<1>13. N + 1 \in 1 .. N + 1 /\ pos2[N + 1] = e /\ (N + 1) + 1 = N + 2
  <2>1. N + 1 \in 1 .. N + 1 /\ (N + 1) + 1 = N + 2
    OBVIOUS
  <2> QED
    BY <1>9, <1>11, <2>1
<1>14. k + 1 \in 1 .. N + 1 /\ pos2[k + 1] = b
  BY <1>8, <1>9, <1>11
<1>15. Offsets(pos2)'
  <2>1. ASSUME NEW i \in 1 .. N + 1 PROVE pos2[i + 1] = pos2[i] + Length(sent'[i])
    <3>1. CASE i \in 1 .. N
      <4>1. sent'[i] = sent[i] /\ pos[i + 1] = pos[i] + Length(sent[i])
        BY <1>5, <1>7, <3>1
      <4> QED
        BY <1>12, <3>1, <4>1
    <3>2. CASE i = N + 1
      BY <1>3, <1>5, <1>10, <1>13, <3>2
    <3> QED
      BY <3>1, <3>2
  <2>2. ASSUME NEW i \in 1 .. N + 2, NEW j \in 1 .. N + 2, i <= j
        PROVE  pos2[i] <= pos2[j]
    <3>1. CASE j \in 1 .. N + 1
      <4>1. i \in 1 .. N + 1
        BY <2>2, <3>1
      <4> QED
        BY <1>7, <1>11, <2>2, <3>1, <4>1
    <3>2. CASE j = N + 2 /\ i \in 1 .. N + 1
      <4>1. pos[i] <= pos[N + 1] /\ pos[i] \in Nat
        BY <1>7, <1>13, <3>2
      <4> QED
        BY <1>9, <1>10, <1>11, <3>2, <4>1
    <3>3. CASE j = N + 2 /\ i = N + 2
      BY <1>10, <3>3
    <3> QED
      BY <3>1, <3>2, <3>3
  <2>3. ASSUME NEW q \in 0 .. pos2[N + 2] - 1
        PROVE  \E i \in 1 .. N + 1 : q \in pos2[i] .. pos2[i + 1] - 1
    <3>1. q \in 0 .. e + len - 1
      BY <1>10
    <3>2. CASE q < e
      <4>1. q \in 0 .. pos[N + 1] - 1
        BY <1>9, <3>1, <3>2
      <4>2. PICK i \in 1 .. N : q \in pos[i] .. pos[i + 1] - 1
        BY <1>7, <4>1
      <4> QED
        BY <1>12, <4>2
    <3>3. CASE ~(q < e)
      <4>1. q \in pos2[N + 1] .. pos2[(N + 1) + 1] - 1
        BY <1>10, <1>13, <3>1, <3>3
      <4> QED
        BY <1>13, <4>1
    <3> QED
      BY <3>2, <3>3
  <2>4. Len(sent') + 1 = N + 2
    BY <1>5
  <2> QED
    BY <1>5, <1>10, <2>1, <2>2, <2>3, <2>4 DEF Offsets, Length
<1>16. InSocket(pos2, k)'
  <2>1. pos2[N + 2] = pos2[k + 1] + Len(inflight')
    BY <1>6, <1>9, <1>10, <1>14
  <2>2. ASSUME NEW i \in k + 1 .. N + 1, NEW q \in pos2[i] .. pos2[i + 1] - 1
        PROVE  inflight'[q - pos2[k + 1] + 1] = Encoded(sent'[i])[q - pos2[i] + 1]
    <3>1. CASE i \in k + 1 .. N
      <4>1. i \in 1 .. N /\ k + 1 <= i /\ i + 1 <= N + 1
        BY <1>8, <3>1
      <4>2. q \in pos[i] .. pos[i + 1] - 1 /\ pos[i] \in Nat /\ pos[i + 1] \in Nat
        BY <1>7, <1>12, <4>1
      <4>3. pos[k + 1] <= pos[i] /\ pos[i + 1] <= pos[N + 1]
        BY <1>7, <1>12, <1>13, <1>14, <4>1
      <4>4. q - b + 1 \in 1 .. L
        BY <1>9, <4>2, <4>3
      <4>5. inflight'[q - b + 1] = inflight[q - b + 1]
        BY <1>6, <4>4
      <4>6. inflight[q - b + 1] = Encoded(sent[i])[q - pos[i] + 1]
        BY <1>8, <1>9, <3>1, <4>2
      <4> QED
        BY <1>5, <1>12, <1>14, <4>1, <4>5, <4>6
    <3>2. CASE i = N + 1
      <4>1. q \in e .. e + len - 1
        BY <1>10, <1>13, <3>2
      <4>2. q - b + 1 \in 1 .. L + len /\ ~(q - b + 1 <= L) /\ (q - b + 1) - L = q - e + 1
        BY <1>9, <4>1
      <4>3. inflight'[q - b + 1] = Encoded(m)[q - e + 1]
        BY <1>6, <4>2
      <4> QED
        BY <1>5, <1>13, <1>14, <3>2, <4>3
    <3> QED
      BY <1>8, <3>1, <3>2
  <2>3. Len(sent') = N + 1 /\ Len(sent') + 1 = N + 2
    BY <1>5
  <2> QED
    BY <2>1, <2>2, <2>3 DEF InSocket
<1>17. InBuffer(pos2, k)'
  <2>1. /\ pos[k + 1] = pos[d + 1] + bytes
        /\ \A i \in d + 1 .. k :
             /\ Length(sent[i]) <= BufferSize
             /\ \A q \in pos[i] .. pos[i + 1] - 1 :
                  buffer[buf_index + (q - pos[d + 1])] = Encoded(sent[i])[q - pos[i] + 1].val
    BY <1>3 DEF Layout, InBuffer
  <2>2. d + 1 \in 1 .. N + 1 /\ pos2[d + 1] = pos[d + 1] /\ Len(decoded') = d
    <3>1. d + 1 \in 1 .. N + 1
      BY <1>8
    <3> QED
      BY <1>3, <1>4, <1>11, <3>1
  <2>3. ASSUME NEW i \in d + 1 .. k
        PROVE  sent'[i] = sent[i] /\ pos2[i] = pos[i] /\ pos2[i + 1] = pos[i + 1]
    <3>1. i \in 1 .. N
      BY <1>8
    <3> QED
      BY <1>5, <1>12, <3>1
  <2>4. pos2[k + 1] = pos2[d + 1] + bytes'
    BY <1>4, <1>9, <1>14, <2>1, <2>2
  <2>5. ASSUME NEW i \in d + 1 .. k
        PROVE  /\ Length(sent'[i]) <= BufferSize
               /\ \A q \in pos2[i] .. pos2[i + 1] - 1 :
                    buffer'[buf_index' + (q - pos2[d + 1])] =
                      Encoded(sent'[i])[q - pos2[i] + 1].val
    <3>1. Length(sent'[i]) <= BufferSize
      BY <2>1, <2>3
    <3>2. ASSUME NEW q \in pos2[i] .. pos2[i + 1] - 1
          PROVE  buffer'[buf_index' + (q - pos2[d + 1])] =
                   Encoded(sent'[i])[q - pos2[i] + 1].val
      <4>1. q \in pos[i] .. pos[i + 1] - 1
        BY <2>3
      <4>2. buffer[buf_index + (q - pos[d + 1])] = Encoded(sent[i])[q - pos[i] + 1].val
        BY <2>1, <4>1
      <4> QED
        BY <1>4, <2>2, <2>3, <4>2
    <3> QED
      BY <3>1, <3>2
  <2> QED
    BY <2>2, <2>4, <2>5 DEF InBuffer, Length
<1>18. k \in Len(decoded') .. Len(sent')
  BY <1>3, <1>4, <1>5, <1>8
<1>19. /\ place' = "read" => k = Len(decoded') /\ buf_index' = 0
       /\ place' = "parse" => Len(decoded') < k
  BY <1>4 DEF Layout
<1> QED
  BY <1>15, <1>16, <1>17, <1>18, <1>19 DEF Layout

\* The facts that a layout gives, with the state's numbers named.
LEMMA LayoutNumbers ==
  ASSUME TypeOK, NEW k \in Nat, NEW pos, Layout(pos, k)
  PROVE  \E N \in Nat, L \in Nat, d \in Nat, b \in Nat :
           /\ N = Len(sent) /\ L = Len(inflight) /\ d = Len(decoded)
           /\ k \in d .. N /\ b = pos[k + 1] /\ pos[N + 1] = b + L
           /\ b = pos[d + 1] + bytes
<1>1. Len(sent) \in Nat /\ Len(inflight) \in Nat /\ Len(decoded) \in Nat
  BY DEF TypeOK
<1>2. k + 1 \in 1 .. Len(sent) + 1
  BY <1>1 DEF Layout
<1>3. pos[k + 1] \in Nat
  BY <1>2 DEF Layout, Offsets
<1> QED
  BY <1>1, <1>3 DEF Layout, InSocket, InBuffer

\* A read that ends at the end of a message brings whole messages.
LEMMA ReadFrame ==
  ASSUME TypeOK, NEW k \in Nat, NEW pos, Layout(pos, k), Read, ~cut'
  PROVE  \E k2 \in Nat : Layout(pos, k2)'
<1>1. PICK N \in Nat, L \in Nat, d \in Nat, b \in Nat :
        /\ N = Len(sent) /\ L = Len(inflight) /\ d = Len(decoded)
        /\ k \in d .. N /\ b = pos[k + 1] /\ pos[N + 1] = b + L
        /\ b = pos[d + 1] + bytes
  BY LayoutNumbers
<1>2. /\ pos \in [1 .. N + 1 -> Nat]
      /\ \A i \in 1 .. N : pos[i + 1] = pos[i] + Length(sent[i])
      /\ \A i, j \in 1 .. N + 1 : i <= j => pos[i] <= pos[j]
      /\ \A q \in 0 .. pos[N + 1] - 1 : \E i \in 1 .. N : q \in pos[i] .. pos[i + 1] - 1
  BY <1>1 DEF Layout, Offsets
<1>3. \A i \in k + 1 .. N : \A q \in pos[i] .. pos[i + 1] - 1 :
        inflight[q - b + 1] = Encoded(sent[i])[q - pos[i] + 1]
  BY <1>1 DEF Layout, InSocket
<1>4. \A i \in 1 .. N : i \in 1 .. N + 1 /\ i + 1 \in 1 .. N + 1 /\ sent[i] \in Messages
  BY <1>1 DEF TypeOK
<1>5. k = d /\ buf_index = 0 /\ bytes = 0 /\ pos[d + 1] = b
  <2>1. k = d /\ buf_index = 0
    BY <1>1 DEF Layout, Read
  <2>2. bytes \in Int
    BY BufferAssumption DEF TypeOK
  <2>3. pos[d + 1] = b
    BY <1>1, <2>1
  <2>4. b = b + bytes
    BY <1>1, <2>3
  <2>5. bytes = 0
    BY <2>2, <2>4
  <2> QED
    BY <2>1, <2>3, <2>5
<1>6. BufferSize \in Nat /\ HeaderSize < BufferSize /\ HeaderSize = 3
  BY BufferAssumption DEF HeaderSize
<1>7. PICK n \in 1 .. L : n = IF L < Room THEN L ELSE Room
  <2>1. L > 0
    BY <1>1 DEF Read, TypeOK
  <2> QED
    BY <1>5, <1>6, <2>1 DEF Room
<1>8. n <= BufferSize
  BY <1>5, <1>6, <1>7 DEF Room
<1>9. /\ buffer' = [i \in Indices |-> IF i \in buf_index .. buf_index + n - 1
                                      THEN inflight[i - buf_index + 1].val
                                      ELSE buffer[i]]
      /\ bytes' = bytes + n
      /\ inflight' = SubSeq(inflight, n + 1, Len(inflight))
      /\ place' = IF bytes' < HeaderSize THEN "read" ELSE "parse"
      /\ cut' = (cut \/ ~inflight[n].last)
      /\ UNCHANGED <<sent, buf_index, decoded>>
  BY <1>1, <1>7 DEF Read
<1>10. \A p \in 1 .. L : inflight[p] \in MarkedByte
  BY <1>1 DEF TypeOK
<1>11. PICK t \in 1 .. N : b + n - 1 \in pos[t] .. pos[t + 1] - 1
  <2>1. b + n - 1 \in 0 .. pos[N + 1] - 1
    BY <1>1
  <2> QED
    BY <1>2, <2>1
<1>12. pos[t] \in Nat /\ pos[t + 1] \in Nat /\ t \in Nat
  BY <1>2, <1>4
<1>13. t \in k + 1 .. N
  <2>1. SUFFICES ASSUME t <= k PROVE FALSE
    BY <1>12
  <2>2. t + 1 <= k + 1 /\ k + 1 \in 1 .. N + 1 /\ t + 1 \in 1 .. N + 1
    BY <1>1, <1>12, <2>1
  <2>3. pos[t + 1] <= b
    BY <1>1, <1>2, <2>2
  <2> QED
    BY <1>11, <1>12, <2>3
<1>14. pos[t + 1] = b + n
  <2>1. inflight[n].last
    BY <1>9, <1>10, <1>1 DEF MarkedByte, TypeOK
  <2>2. (b + n - 1) - b + 1 = n
    OBVIOUS
  <2>3. inflight[n] = Encoded(sent[t])[(b + n - 1) - pos[t] + 1]
    BY <1>3, <1>11, <1>13, <2>2
  <2>4. pos[t + 1] = pos[t] + Length(sent[t]) /\ Length(sent[t]) \in Nat
    BY <1>2, <1>4, EncodedBytes
  <2>5. (b + n - 1) - pos[t] + 1 \in 1 .. Length(sent[t])
    BY <1>11, <1>12, <2>4
  <2>6. (b + n - 1) - pos[t] + 1 = Length(sent[t])
    BY <1>4, <2>1, <2>3, <2>5, EncodedBytes
  <2> QED
    BY <1>12, <2>4, <2>6
<1>15. n >= HeaderSize
  <2>1. k + 1 \in 1 .. N + 1 /\ t \in 1 .. N + 1 /\ k + 1 <= t
    BY <1>1, <1>12, <1>13
  <2>2. b <= pos[t]
    BY <1>1, <1>2, <2>1
  <2>3. pos[t + 1] = pos[t] + Length(sent[t]) /\ Length(sent[t]) \in Nat
        /\ Length(sent[t]) >= HeaderSize
    BY <1>2, <1>4, EncodedBytes
  <2> QED
    BY <1>6, <1>12, <1>14, <2>2, <2>3
<1>16. Offsets(pos)'
  <2>1. Offsets(pos)
    BY DEF Layout
  <2> QED
    BY <1>9, <2>1 DEF Offsets, Length
<1>17. InSocket(pos, t)'
  <2>1. /\ Len(inflight') = L - n
        /\ \A p \in 1 .. L - n : inflight'[p] = inflight[n + p]
    <3>1. inflight \in Seq(MarkedByte) /\ n + 1 \in 1 .. L + 1 /\ L \in (n + 1) - 1 .. L
      BY <1>1 DEF TypeOK
    <3>2. /\ Len(inflight') = IF n + 1 <= L THEN L - (n + 1) + 1 ELSE 0
          /\ \A p \in 1 .. L - (n + 1) + 1 : inflight'[p] = inflight[(n + 1) + p - 1]
      BY <1>1, <1>9, <3>1, SubSeqProperties
    <3> QED
      BY <3>2
  <2>2. pos[N + 1] = pos[t + 1] + Len(inflight')
    BY <1>1, <1>14, <2>1
  <2>3. ASSUME NEW i \in t + 1 .. N, NEW q \in pos[i] .. pos[i + 1] - 1
        PROVE  inflight'[q - pos[t + 1] + 1] = Encoded(sent[i])[q - pos[i] + 1]
    <3>1. i \in 1 .. N /\ i \in k + 1 .. N /\ t + 1 <= i
      BY <1>12, <1>13
    <3>2. /\ i \in 1 .. N + 1 /\ i + 1 \in 1 .. N + 1
           /\ t + 1 \in 1 .. N + 1 /\ N + 1 \in 1 .. N + 1
      BY <1>12, <3>1
    <3>3. /\ pos[t + 1] <= pos[i] /\ pos[i + 1] <= pos[N + 1]
           /\ pos[i] \in Nat /\ pos[i + 1] \in Nat
      BY <1>2, <3>1, <3>2
    <3>4. q - (b + n) + 1 \in 1 .. L - n
      <4>bounds. b + n <= pos[i] /\ pos[i + 1] <= b + L
        BY <1>1, <1>14, <3>3
      <4>1. b + n <= q /\ q < b + L /\ q \in Nat
        BY <3>3, <4>bounds
      <4> QED
        BY <4>1
    <3>5. n + (q - (b + n) + 1) = q - b + 1
      BY <3>3
    <3>6. inflight'[q - (b + n) + 1] = inflight[q - b + 1]
      BY <2>1, <3>4, <3>5
    <3>7. inflight[q - b + 1] = Encoded(sent[i])[q - pos[i] + 1]
      BY <1>3, <3>1
    <3> QED
      BY <1>14, <3>6, <3>7
  <2> QED
    BY <1>1, <1>9, <2>2, <2>3 DEF InSocket
<1>18. InBuffer(pos, t)'
  <2>1. ASSUME NEW i \in d + 1 .. t
        PROVE  /\ i \in k + 1 .. N
               /\ b <= pos[i] /\ pos[i + 1] <= b + n
               /\ pos[i] \in Nat /\ pos[i + 1] \in Nat
    <3>1. i \in k + 1 .. N
      BY <1>5, <1>13
    <3>2. i \in 1 .. N + 1 /\ i + 1 \in 1 .. N + 1 /\ t + 1 \in 1 .. N + 1
          /\ k + 1 \in 1 .. N + 1 /\ k + 1 <= i /\ i + 1 <= t + 1
      BY <1>1, <1>12, <1>13, <3>1
    <3> QED
      BY <1>1, <1>2, <1>14, <3>1, <3>2
  <2>2. ASSUME NEW i \in d + 1 .. t PROVE Length(sent[i]) <= BufferSize
    <3>1. i \in 1 .. N
      BY <2>1
    <3>2. pos[i + 1] = pos[i] + Length(sent[i]) /\ Length(sent[i]) \in Nat
      BY <1>2, <1>4, <3>1, EncodedBytes
    <3> QED
      BY <1>6, <1>8, <2>1, <3>2
  <2>3. ASSUME NEW i \in d + 1 .. t, NEW q \in pos[i] .. pos[i + 1] - 1
        PROVE  buffer'[buf_index' + (q - pos[d + 1])] = Encoded(sent[i])[q - pos[i] + 1].val
    <3>1. q - b \in 0 .. n - 1
      BY <2>1
    <3>2. q - b \in Indices
      BY <1>6, <1>8, <3>1, BufferAssumption DEF Indices
    <3>3. buf_index' + (q - pos[d + 1]) = q - b
      <4>1. buf_index' = 0 /\ pos[d + 1] = b
        BY <1>5, <1>9
      <4>2. 0 + (q - b) = q - b
        BY <3>1
      <4> QED
        BY <4>1, <4>2
    <3>4. buffer'[q - b] = inflight[q - b + 1].val
      BY <1>5, <1>9, <3>1, <3>2
    <3> QED
      BY <1>3, <2>1, <3>3, <3>4
  <2>4. pos[t + 1] = pos[d + 1] + bytes'
    <3>1. bytes' = n /\ pos[d + 1] = b
      BY <1>5, <1>9
    <3> QED
      BY <1>14, <3>1
  <2> QED
    BY <1>1, <1>9, <2>2, <2>3, <2>4 DEF InBuffer, Length
<1>19. t \in Nat /\ t \in Len(decoded') .. Len(sent') /\ Len(decoded') < t
  BY <1>1, <1>9, <1>12, <1>13
<1>20. place' # "read"
  BY <1>5, <1>6, <1>9, <1>15
<1> QED
  BY <1>16, <1>17, <1>18, <1>19, <1>20 DEF Layout

LEMMA SmallRemainder ==
  ASSUME NEW n \in Nat, NEW r \in Nat, n < r
  PROVE  n % r = n
<1>1. n = r * 0 + n
  OBVIOUS
<1> QED
  BY <1>1

\* What is at the start of the buffer is decoded as the message it is.
LEMMA CommandIsMessage ==
  ASSUME StreamInv, place = "parse", NEW m \in Messages, Length(m) <= BufferSize,
         \A j \in 1 .. Length(m) : buffer[buf_index + (j - 1)] = Encoded(m)[j].val
  PROVE  Size = Length(m) /\ [cmd |-> Cmd, data |-> Data] = m
<1>1. /\ BufferSize \in Nat /\ ByteRange \in Nat /\ BufferSize <= ByteRange
      /\ HeaderSize = 3
  BY BufferAssumption DEF HeaderSize
<1>2. PICK s \in Nat : s = Len(m.data) /\ Length(m) = HeaderSize + s
  BY EncodedBytes DEF Length
<1>3. PICK x \in Nat : x = buf_index
  BY <1>1 DEF StreamInv
<1>4. s < ByteRange
  BY <1>1, <1>2
<1>5. s % ByteRange = s
  BY <1>1, <1>4, SmallRemainder
<1>6. 1 \in 1 .. Length(m) /\ 2 \in 1 .. Length(m) /\ x + (1 - 1) = x /\ x + (2 - 1) = x + 1
  BY <1>1, <1>2
<1>7. buffer[x] = m.cmd /\ buffer[x + 1] = s
  BY <1>2, <1>3, <1>5, <1>6, EncodedBytes
<1>8. Size = HeaderSize + s
  BY <1>3, <1>7 DEF Size
<1>9. Size - HeaderSize = s
  BY <1>1, <1>8
<1>10. ASSUME NEW i \in 1 .. s PROVE buffer[x + HeaderSize + i - 1] = m.data[i]
  <2>1. HeaderSize + i \in 1 .. Length(m)
        /\ x + ((HeaderSize + i) - 1) = x + HeaderSize + i - 1
    BY <1>1, <1>2
  <2>2. buffer[x + HeaderSize + i - 1] = Encoded(m)[HeaderSize + i].val
    BY <1>3, <2>1
  <2> QED
    BY <1>2, <2>2, EncodedBytes
<1>11. m.data \in Seq(Byte) /\ m = [cmd |-> m.cmd, data |-> m.data]
  BY EncodedBytes
<1>12. Data = [i \in 1 .. s |-> m.data[i]]
  BY <1>3, <1>9, <1>10 DEF Data
<1>13. m.data = [i \in 1 .. s |-> m.data[i]]
  BY <1>2, <1>11
<1>14. Cmd = m.cmd
  BY <1>3, <1>7 DEF Cmd
<1> QED
  BY <1>2, <1>8, <1>11, <1>12, <1>13, <1>14

\* Decoding takes the next message from the buffer; with no other message in
\* it, nothing is left.
LEMMA ParseFrame ==
  ASSUME TypeOK, StreamInv, Prefix, NEW k \in Nat, NEW pos, Layout(pos, k), Parse
  PROVE  Prefix' /\ (place' # "ended" => Layout(pos, k)')
<1>1. PICK N \in Nat, L \in Nat, d \in Nat, b \in Nat :
        /\ N = Len(sent) /\ L = Len(inflight) /\ d = Len(decoded)
        /\ k \in d .. N /\ b = pos[k + 1] /\ pos[N + 1] = b + L
        /\ b = pos[d + 1] + bytes
  BY LayoutNumbers
<1>2. /\ pos \in [1 .. N + 1 -> Nat]
      /\ \A i \in 1 .. N : pos[i + 1] = pos[i] + Length(sent[i])
      /\ \A i, j \in 1 .. N + 1 : i <= j => pos[i] <= pos[j]
  BY <1>1 DEF Layout, Offsets
<1>3. \A i \in d + 1 .. k :
        /\ Length(sent[i]) <= BufferSize
        /\ \A q \in pos[i] .. pos[i + 1] - 1 :
             buffer[buf_index + (q - pos[d + 1])] = Encoded(sent[i])[q - pos[i] + 1].val
  BY <1>1 DEF Layout, InBuffer
<1>4. place = "parse" /\ d < k
  BY <1>1 DEF Parse, Layout
<1>5. d + 1 \in 1 .. N /\ d + 1 \in d + 1 .. k /\ (d + 1) + 1 = d + 2
      /\ d + 1 \in 1 .. N + 1 /\ d + 2 \in 1 .. N + 1 /\ k + 1 \in 1 .. N + 1
  BY <1>1, <1>4
<1>6. PICK m \in Messages : m = sent[d + 1]
  BY <1>1, <1>5 DEF TypeOK
<1>7. PICK len \in Nat : len = Length(m) /\ len >= HeaderSize
  BY EncodedBytes
<1>8. PICK u \in Nat, v \in Nat : u = pos[d + 1] /\ v = pos[d + 2] /\ v = u + len
  BY <1>2, <1>5, <1>6, <1>7
<1>9. HeaderSize = 3
  BY DEF HeaderSize
<1>10. PICK x \in Nat : x = buf_index
  BY BufferAssumption DEF StreamInv
<1>11. PICK bs \in Nat : bs = bytes /\ b = u + bs
  <2>1. bytes \in Int /\ bytes >= HeaderSize
    BY <1>4, BufferAssumption DEF StreamInv, InBounds
  <2> QED
    BY <1>1, <1>8, <1>9, <2>1
<1>12. Size = len /\ [cmd |-> Cmd, data |-> Data] = m
  <2>1. ASSUME NEW j \in 1 .. Length(m)
        PROVE  buffer[buf_index + (j - 1)] = Encoded(m)[j].val
    <3>1. u + (j - 1) \in u .. v - 1 /\ (u + (j - 1)) - u = j - 1 /\ (j - 1) + 1 = j
      BY <1>7, <1>8
    <3>2. buffer[buf_index + ((u + (j - 1)) - u)] = Encoded(m)[((u + (j - 1)) - u) + 1].val
      BY <1>3, <1>5, <1>6, <1>8, <3>1
    <3> QED
      BY <3>1, <3>2
  <2>2. Length(m) <= BufferSize
    BY <1>3, <1>5, <1>6
  <2> QED
    BY <1>4, <1>7, <2>1, <2>2, CommandIsMessage
<1>13. /\ decoded' = Append(decoded, m)
       /\ bytes' = Left
       /\ UNCHANGED <<sent, inflight>>
       /\ Left < HeaderSize => buf_index' = Left
       /\ ~(Left < HeaderSize) => buf_index' = buf_index + Size /\ UNCHANGED buffer
  BY <1>12 DEF Parse, clientEnd
<1>14. Len(decoded') = d + 1 /\ (\A i \in 1 .. d : decoded'[i] = decoded[i])
       /\ decoded'[d + 1] = m
  <2>1. decoded \in Seq([cmd : Byte, data : Seq(Byte)])
    BY DEF TypeOK
  <2>2. m \in [cmd : Byte, data : Seq(Byte)]
    BY <1>4, <1>12, CommandType
  <2> QED
    BY <1>1, <1>13, <2>1, <2>2, AppendProperties
<1>15. Prefix'
  <2>1. \A i \in 1 .. d + 1 : decoded'[i] = sent[i]
    <3>1. \A i \in 1 .. d : decoded[i] = sent[i]
      BY <1>1 DEF Prefix
    <3> QED
      BY <1>6, <1>14, <3>1
  <2>2. d + 1 <= N
    BY <1>5
  <2> QED
    BY <1>1, <1>13, <1>14, <2>1, <2>2 DEF Prefix
<1>16. v <= b
  <2>1. d + 2 <= k + 1
    BY <1>1, <1>4
  <2>2. pos[d + 2] <= pos[k + 1]
    BY <1>2, <1>5, <2>1
  <2> QED
    BY <1>1, <1>8, <2>2
<1>17. Left = b - v
  <2>1. Left = IF bs > len THEN bs - len ELSE 0
    BY <1>11, <1>12 DEF Left
  <2> QED
    BY <1>8, <1>11, <1>16, <2>1
<1>18. Offsets(pos)' /\ InSocket(pos, k)'
  <2>1. Offsets(pos) /\ InSocket(pos, k)
    BY DEF Layout
  <2> QED
    BY <1>13, <2>1 DEF Offsets, InSocket, Length
<1>19. pos[k + 1] = pos[Len(decoded') + 1] + bytes'
  <2>1. pos[Len(decoded') + 1] = v /\ pos[k + 1] = b /\ bytes' = b - v
    BY <1>1, <1>5, <1>8, <1>13, <1>14, <1>17
  <2> QED
    BY <2>1
<1>20. k \in Len(decoded') .. Len(sent')
  BY <1>1, <1>4, <1>13, <1>14
<1>21. CASE k = d + 1
  <2>1. v = b /\ Left = 0
    <3>1. k + 1 = d + 2
      BY <1>21
    <3>2. v = b
      BY <1>1, <1>8, <3>1
    <3> QED
      BY <1>17, <3>2
  <2>2. buf_index' = 0 /\ place' # "parse"
    BY <1>9, <1>13, <2>1 DEF Parse
  <2>3. InBuffer(pos, k)'
    <3>1. \A i \in Len(decoded') + 1 .. k : FALSE
      BY <1>14, <1>21
    <3> QED
      BY <1>19, <3>1 DEF InBuffer
  <2> QED
    BY <1>14, <1>15, <1>18, <1>20, <1>21, <2>2, <2>3 DEF Layout
<1>22. CASE k # d + 1
  <2>1. d + 2 \in 1 .. N /\ d + 2 \in d + 1 .. k /\ (d + 2) + 1 = d + 3
        /\ d + 3 \in 1 .. N + 1 /\ d + 3 <= k + 1
    BY <1>1, <1>4, <1>22
  <2>2. Left >= HeaderSize
    <3>1. sent[d + 2] \in Messages
      BY <1>1, <2>1 DEF TypeOK
    <3>2. Length(sent[d + 2]) \in Nat /\ Length(sent[d + 2]) >= HeaderSize
      BY <3>1, EncodedBytes
    <3>3. pos[d + 3] = v + Length(sent[d + 2]) /\ pos[d + 3] <= b
      BY <1>1, <1>2, <1>5, <1>8, <2>1
    <3> QED
      BY <1>9, <1>17, <3>2, <3>3
  <2>3. Left \in Int /\ ~(Left < HeaderSize)
    BY <1>9, <1>17, <2>2
  <2>4. buf_index' = x + len /\ UNCHANGED buffer /\ place' # "read"
    BY <1>10, <1>12, <1>13, <2>3 DEF Parse
  <2>5. ASSUME NEW i \in d + 2 .. k
        PROVE  /\ Length(sent[i]) <= BufferSize
               /\ \A q \in pos[i] .. pos[i + 1] - 1 :
                    buffer'[buf_index' + (q - v)] = Encoded(sent[i])[q - pos[i] + 1].val
    <3>1. i \in d + 1 .. k /\ i \in 1 .. N /\ i \in 1 .. N + 1
      BY <1>1
    <3>2. ASSUME NEW q \in pos[i] .. pos[i + 1] - 1
          PROVE  buffer'[buf_index' + (q - v)] = Encoded(sent[i])[q - pos[i] + 1].val
      <4>1. pos[i] \in Nat /\ q \in Int
        BY <1>2, <3>1
      <4>2. (x + len) + (q - v) = x + (q - u)
        BY <1>8, <4>1
      <4>3. buffer[x + (q - u)] = Encoded(sent[i])[q - pos[i] + 1].val
        BY <1>3, <1>8, <1>10, <3>1
      <4> QED
        BY <2>4, <4>2, <4>3
    <3> QED
      BY <1>3, <3>1, <3>2
  <2>6. InBuffer(pos, k)'
    <3>1. Len(decoded') + 1 = d + 2 /\ pos[d + 2] = v
      BY <1>8, <1>14
    <3> QED
      BY <1>13, <1>19, <2>5, <3>1 DEF InBuffer, Length
  <2>7. Len(decoded') < k
    BY <1>1, <1>4, <1>14, <1>22
  <2> QED
    BY <1>15, <1>18, <1>20, <2>4, <2>6, <2>7 DEF Layout
<1> QED
  BY <1>21, <1>22

\* While no read has ended inside a message, every step keeps whole messages
\* in the buffer and in the socket.
LEMMA NextFrame == TypeOK /\ StreamInv /\ FrameInv /\ [Next]_vars => FrameInv'
<1> SUFFICES ASSUME TypeOK, StreamInv, FrameInv, [Next]_vars, ~cut'
             PROVE  /\ Prefix'
                    /\ place' # "ended" => \E k \in Nat : \E pos : Layout(pos, k)'
  BY DEF FrameInv
<1>1. ~cut
  <2>1. \/ cut' = cut
        \/ cut' = (cut \/ ~inflight[IF Len(inflight) < Room
                                   THEN Len(inflight) ELSE Room].last)
    BY DEF Next, Close, Send, Thread, Read, ReadEnd, Parse, vars
  <2> QED
    BY <2>1
<1>2. Prefix /\ (place # "ended" => \E k \in Nat : \E pos : Layout(pos, k))
  BY <1>1 DEF FrameInv
<1>3. ASSUME UNCHANGED <<sent, inflight, threadVars, decoded>>
      PROVE  /\ Prefix'
             /\ place' # "ended" => \E k \in Nat : \E pos : Layout(pos, k)'
  <2>1. Prefix'
    BY <1>2, <1>3 DEF Prefix
  <2>2. ASSUME NEW k \in Nat, NEW pos, Layout(pos, k) PROVE Layout(pos, k)'
    BY <1>3, <2>2 DEF Layout, Offsets, InSocket, InBuffer, Length, threadVars
  <2> QED
    BY <1>2, <1>3, <2>1, <2>2 DEF threadVars
<1>4. CASE \E m \in Messages : Send(m)
  <2>1. PICK m \in Messages : Send(m)
    BY <1>4
  <2>2. place # "ended" /\ decoded' = decoded /\ sent' = Append(sent, m)
    BY <2>1 DEF Send
  <2>3. sent \in Seq(Messages) /\ Len(sent) \in Nat /\ Len(decoded) \in Nat
    BY DEF TypeOK
  <2>4. Len(sent') = Len(sent) + 1 /\ \A i \in 1 .. Len(sent) : sent'[i] = sent[i]
    BY <2>2, <2>3, AppendProperties
  <2>5. Prefix'
    <3>1. Len(decoded) <= Len(sent) /\ \A i \in 1 .. Len(decoded) : decoded[i] = sent[i]
      BY <1>2 DEF Prefix
    <3>2. \A i \in 1 .. Len(decoded) : i \in 1 .. Len(sent)
      BY <2>3, <3>1
    <3> QED
      BY <2>2, <2>3, <2>4, <3>1, <3>2 DEF Prefix
  <2>6. PICK k \in Nat : \E pos : Layout(pos, k)
    BY <1>2, <2>2
  <2>7. PICK pos : Layout(pos, k)
    BY <2>6
  <2>8. \E pos2 : Layout(pos2, k)'
    BY <2>1, <2>7, SendFrame
  <2> QED
    BY <2>5, <2>8
<1>5. CASE Close
  BY <1>3, <1>5 DEF Close
<1>6. CASE Read
  <2>1. PICK k \in Nat : \E pos : Layout(pos, k)
    BY <1>2, <1>6 DEF Read
  <2>2. PICK pos : Layout(pos, k)
    BY <2>1
  <2>3. \E k2 \in Nat : Layout(pos, k2)'
    BY <1>6, <2>2, ReadFrame
  <2>4. Prefix'
    BY <1>2, <1>6 DEF Prefix, Read
  <2> QED
    BY <2>3, <2>4
<1>7. CASE ReadEnd
  <2>1. place = "read" /\ UNCHANGED <<sent, decoded>>
        /\ bytes' = (IF end = "reset" THEN bytes - 1 ELSE bytes)
        /\ (place' # "ended" => ~(bytes' <= 0))
    BY <1>7 DEF ReadEnd, Closed
  <2>2. PICK k \in Nat : \E pos : Layout(pos, k)
    BY <1>2, <2>1
  <2>3. PICK pos : Layout(pos, k)
    BY <2>2
  <2>4. PICK N \in Nat, L \in Nat, d \in Nat, b \in Nat :
          /\ N = Len(sent) /\ L = Len(inflight) /\ d = Len(decoded)
          /\ k \in d .. N /\ b = pos[k + 1] /\ pos[N + 1] = b + L
          /\ b = pos[d + 1] + bytes
    BY <2>3, LayoutNumbers
  <2>5. k = d
    BY <2>1, <2>3, <2>4 DEF Layout
  <2>6. bytes \in Int
    BY BufferAssumption DEF StreamInv
  <2>7. bytes = 0
    <3>1. pos[d + 1] = b
      BY <2>4, <2>5
    <3>2. b = b + bytes
      BY <2>4, <3>1
    <3> QED
      BY <2>6, <3>2
  <2>8. place' = "ended"
    BY <2>1, <2>7
  <2>9. Prefix'
    BY <1>2, <2>1 DEF Prefix
  <2> QED
    BY <2>8, <2>9
<1>8. CASE Parse
  <2>1. PICK k \in Nat : \E pos : Layout(pos, k)
    BY <1>2, <1>8 DEF Parse
  <2>2. PICK pos : Layout(pos, k)
    BY <2>1
  <2>3. Prefix' /\ (place' # "ended" => Layout(pos, k)')
    BY <1>2, <1>8, <2>2, ParseFrame
  <2> QED
    BY <2>3
<1>9. CASE UNCHANGED vars
  BY <1>3, <1>9 DEF vars, clientEnd
<1> QED
  BY <1>4, <1>5, <1>6, <1>7, <1>8, <1>9 DEF Next, Thread

LEMMA FrameInvariant == Spec => []FrameInv
<1>1. Init => FrameInv
  <2> SUFFICES ASSUME Init PROVE FrameInv
    OBVIOUS
  <2>1. /\ sent = <<>> /\ inflight = <<>> /\ decoded = <<>> /\ place = "read"
        /\ bytes = 0 /\ buf_index = 0
    BY DEF Init
  <2>2. Len(sent) = 0 /\ Len(inflight) = 0 /\ Len(decoded) = 0
    BY <2>1
  <2>3. Prefix
    BY <2>2 DEF Prefix
  <2> DEFINE pos == [i \in 1 .. 1 |-> 0]
  <2>4. Layout(pos, 0)
    BY <2>1, <2>2 DEF Layout, Offsets, InSocket, InBuffer
  <2> HIDE DEF pos
  <2> QED
    BY <2>3, <2>4 DEF FrameInv
<1> QED
  BY <1>1, StreamTypeCorrect, StreamInvariant, NextFrame, PTL DEF Spec

\* As long as every read ends at the end of a message, every message is
\* decoded, once, in order and unchanged, for every size of the buffer, of a
\* byte and of the messages (socket.c:103-126); a message that is longer than
\* the buffer is always cut.
THEOREM FramedCorrect == Spec => []FramedUnlessCut
<1>1. TypeOK /\ FrameInv => FramedUnlessCut
  <2> SUFFICES ASSUME TypeOK, FrameInv, ~cut
               PROVE  /\ Len(decoded) <= Len(sent)
                      /\ decoded = SubSeq(sent, 1, Len(decoded))
    BY DEF FramedUnlessCut
  <2>1. Len(decoded) <= Len(sent) /\ \A i \in 1 .. Len(decoded) : decoded[i] = sent[i]
    BY DEF FrameInv, Prefix
  <2>2. /\ decoded \in Seq([cmd : Byte, data : Seq(Byte)])
        /\ sent \in Seq(Messages) /\ Len(decoded) \in Nat /\ Len(sent) \in Nat
    BY DEF TypeOK
  <2>3. PICK d \in Nat : d = Len(decoded)
    BY <2>2
  <2>4. \A i \in 1 .. d : sent[i] \in Messages
    BY <2>1, <2>2, <2>3
  <2>5. /\ SubSeq(sent, 1, d) \in Seq(Messages)
        /\ Len(SubSeq(sent, 1, d)) = IF 1 <= d THEN d - 1 + 1 ELSE 0
        /\ \A i \in 1 .. d - 1 + 1 : SubSeq(sent, 1, d)[i] = sent[1 + i - 1]
    BY <2>4, SubSeqProperties
  <2>6. Len(SubSeq(sent, 1, d)) = d /\ \A i \in 1 .. d : SubSeq(sent, 1, d)[i] = decoded[i]
    BY <2>1, <2>3, <2>5
  <2> QED
    BY <2>1, <2>2, <2>3, <2>5, <2>6, SeqEqual
<1> QED
  BY <1>1, StreamTypeCorrect, FrameInvariant, PTL

\* While the thread reads, bytes that are not decoded are in the socket.
AllDecoded == ~cut /\ place = "read" /\ inflight = <<>> => decoded = sent

\* As long as no read ends within a message, no message is left out: when the
\* socket is empty and the thread is back in read, all of them are decoded
\* (socket.c:94-126).  This is what Delivered says without the time it takes.
THEOREM NothingLeftOut == Spec => []AllDecoded
<1>1. TypeOK /\ FrameInv => AllDecoded
  <2> SUFFICES ASSUME TypeOK, FrameInv, ~cut, place = "read", inflight = <<>>
               PROVE  decoded = sent
    BY DEF AllDecoded
  <2>1. PICK k \in Nat : \E pos : Layout(pos, k)
    BY DEF FrameInv
  <2>2. PICK pos : Layout(pos, k)
    BY <2>1
  <2>3. PICK N \in Nat, L \in Nat, d \in Nat, b \in Nat :
          /\ N = Len(sent) /\ L = Len(inflight) /\ d = Len(decoded)
          /\ k \in d .. N /\ b = pos[k + 1] /\ pos[N + 1] = b + L
          /\ b = pos[d + 1] + bytes
    BY <2>2, LayoutNumbers
  <2>4. k = d /\ L = 0 /\ pos[N + 1] = b
    BY <2>2, <2>3 DEF Layout
  <2>5. d = N
    <3> SUFFICES ASSUME d < N PROVE FALSE
      BY <2>3, <2>4
    <3>1. k + 1 \in 1 .. N /\ k + 2 \in 1 .. N + 1 /\ N + 1 \in 1 .. N + 1
          /\ k + 2 <= N + 1 /\ (k + 1) + 1 = k + 2
      BY <2>3, <2>4
    <3>2. pos[k + 2] = pos[k + 1] + Length(sent[k + 1]) /\ pos[k + 2] <= pos[N + 1]
      BY <2>2, <2>3, <3>1 DEF Layout, Offsets
    <3>3. sent[k + 1] \in Messages
      BY <2>3, <3>1 DEF TypeOK
    <3>4. PICK len \in Nat : len = Length(sent[k + 1]) /\ len >= HeaderSize
      BY <3>3, EncodedBytes
    <3>5. b + len <= b
      BY <2>3, <2>4, <3>2, <3>4
    <3>6. len >= 3
      BY <3>4 DEF HeaderSize
    <3> QED
      BY <3>5, <3>6
  <2>6. sent \in Seq(Messages)
    BY DEF TypeOK
  <2>7. decoded \in Seq([cmd : Byte, data : Seq(Byte)])
    BY DEF TypeOK
  <2>8. \A i \in 1 .. N : decoded[i] = sent[i]
    BY <2>3, <2>5 DEF FrameInv, Prefix
  <2>9. Len(decoded) = Len(sent) /\ \A i \in 1 .. Len(decoded) : decoded[i] = sent[i]
    BY <2>3, <2>5, <2>8
  <2> QED
    BY <2>6, <2>7, <2>9
<1> QED
  BY <1>1, StreamTypeCorrect, FrameInvariant, PTL

=============================================================================
