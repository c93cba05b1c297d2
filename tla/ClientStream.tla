---------------------------- MODULE ClientStream ----------------------------
(***************************************************************************)
(* How a client thread (thread_sockclient_fn, src/src/socket.c) cuts the    *)
(* byte stream of its connection into commands.  What it hands to cmd_add   *)
(* is the sequence "decoded"; HdmiService takes over from there.            *)
(*                                                                         *)
(* The header is scaled down: of the twelve bytes cmd, cmd_id, size (u32    *)
(* each, little endian) it keeps the byte of cmd that the code reads, the   *)
(* byte of size that it reads and the one above it, which it does not.      *)
(***************************************************************************)
EXTENDS Integers, Sequences

CONSTANTS
  BufferSize,   \* SOCKET_DATA_MAX, 256
  ByteRange,    \* number of values of a byte, 256
  Cmds,         \* command codes the client sends
  Exit,         \* HDMI_EXIT
  Sizes,        \* sizes of the data that follows a header
  Filler,       \* the byte all data is made of
  MaxSent       \* bound: messages sent on the connection

Byte == 0 .. ByteRange - 1
HeaderSize == 3               \* CMDBUF_OFFSET, 12

ASSUME BufferAssumption ==
  /\ BufferSize \in Nat /\ HeaderSize < BufferSize
  /\ ByteRange \in Nat /\ BufferSize <= ByteRange
ASSUME ByteAssumption == Cmds \subseteq Byte /\ Exit \in Byte /\ Filler \in Byte
\* A size fits into the bytes of it that are kept.
ASSUME SizesAssumption ==
  Sizes \subseteq Nat /\ \A n \in Sizes : n \div ByteRange \in Byte
ASSUME MaxSentAssumption == MaxSent \in Nat

Messages ==
  {[cmd |-> k, data |-> [i \in 1 .. n |-> Filler]] : k \in Cmds, n \in Sizes}

\* The buffer and the stack behind it, as far as an index may reach.
Indices == 0 .. BufferSize + HeaderSize + ByteRange

MarkedByte == [val : Byte, last : BOOLEAN]

VARIABLES
  sent,         \* history: messages written by the client
  inflight,     \* bytes in the socket, each with a mark on the last of a message
  end,          \* the client's end: "open", "eof", or "reset" (error, then eof)
  place, buffer, bytes, buf_index,     \* the thread, its locals of that name
  decoded,      \* commands handed to cmd_add
  cut           \* history: a read has ended inside a message

clientEnd == <<sent, inflight, end>>
threadVars == <<place, buffer, bytes, buf_index>>
vars == <<clientEnd, threadVars, decoded, cut>>

TypeOK ==
  /\ sent \in Seq(Messages)
  /\ inflight \in Seq(MarkedByte)
  /\ end \in {"open", "eof", "reset"}
  /\ place \in {"read", "parse", "ended"}
  /\ buffer \in [Indices -> Byte]
  /\ bytes \in -1 .. BufferSize + HeaderSize - 1
  /\ buf_index \in 0 .. BufferSize - 1
  /\ decoded \in Seq([cmd : Byte, data : Seq(Byte)])
  /\ cut \in BOOLEAN

\* The stack is not initialised (bound: the same byte everywhere).
Init ==
  /\ sent = <<>>
  /\ inflight = <<>>
  /\ end = "open"
  /\ place = "read"
  /\ \E junk \in {0, Filler, Exit} : buffer = [i \in Indices |-> junk]
  /\ bytes = 0
  /\ buf_index = 0
  /\ decoded = <<>>
  /\ cut = FALSE

-----------------------------------------------------------------------------
(* The client.                                                              *)

\* The bytes of a message as the API functions lay them out.
Encoded(m) ==
  LET size == Len(m.data)
      raw  == <<m.cmd, size % ByteRange, size \div ByteRange>> \o m.data
  IN  [i \in 1 .. Len(raw) |-> [val |-> raw[i], last |-> i = Len(raw)]]

\* An API function writes a whole message at once (serversocket_write).
Send(m) ==
  /\ end = "open" /\ place # "ended"
  /\ Len(sent) < MaxSent
  /\ sent' = Append(sent, m)
  /\ inflight' = inflight \o Encoded(m)
  /\ UNCHANGED <<end, threadVars, decoded, cut>>

Close ==
  /\ end = "open"
  /\ end' \in {"eof", "reset"}
  /\ UNCHANGED <<sent, inflight, threadVars, decoded, cut>>

-----------------------------------------------------------------------------
(* The thread.                                                              *)

\* Mutant: a full buffer is always asked for, whatever is kept at its start.
Room_Whole == BufferSize

Room == BufferSize - buf_index

\* A read returns all the socket holds, up to the room in the buffer.  With
\* less than a header the thread reads again, to the same place.
Read ==
  LET n == IF Len(inflight) < Room THEN Len(inflight) ELSE Room
      filled == buf_index .. buf_index + n - 1
  IN  /\ place = "read"
      /\ inflight # <<>>
      /\ buffer' = [i \in Indices |-> IF i \in filled
                                      THEN inflight[i - buf_index + 1].val
                                      ELSE buffer[i]]
      /\ bytes' = bytes + n
      /\ inflight' = SubSeq(inflight, n + 1, Len(inflight))
      /\ place' = IF bytes' < HeaderSize THEN "read" ELSE "parse"
      /\ cut' = (cut \/ ~inflight[n].last)
      /\ UNCHANGED <<sent, end, buf_index, decoded>>

\* Mutant: only an error ends the thread.
Closed_OnError(b) == b < 0

Closed(b) == b <= 0

\* read returns 0, or -1 once after a reset; the sum with what is already in
\* the buffer decides whether the connection counts as closed.
ReadEnd ==
  /\ place = "read"
  /\ inflight = <<>>
  /\ end # "open"
  /\ bytes' = IF end = "reset" THEN bytes - 1 ELSE bytes
  /\ end' = "eof"
  /\ place' = IF Closed(bytes') THEN "ended" ELSE "read"
  /\ UNCHANGED <<sent, inflight, buffer, buf_index, decoded, cut>>

\* The command at buf_index.
Cmd  == buffer[buf_index]
Size == HeaderSize + buffer[buf_index + 1]
Data == [i \in 1 .. Size - HeaderSize |-> buffer[buf_index + HeaderSize + i - 1]]

\* Mutants: the header is not counted; what follows the command is dropped; a
\* command that is not complete leaves a negative count.
Left_NoHeader ==
  LET len == Size - HeaderSize IN IF bytes > len THEN bytes - len ELSE 0

Left_Nothing == 0

Left_Signed == bytes - Size

\* Bytes received behind the command.
Left == IF bytes > Size THEN bytes - Size ELSE 0

\* Decode a command; with less than a header left, move the rest to the start
\* of the buffer, but go on decoding behind it.
Parse ==
  /\ place = "parse"
  /\ decoded' = Append(decoded, [cmd |-> Cmd, data |-> Data])
  /\ bytes' = Left
  /\ IF Left < HeaderSize
     THEN /\ buffer' = [i \in Indices |-> IF i < Left THEN buffer[buf_index + Size + i]
                                                      ELSE buffer[i]]
          /\ buf_index' = Left
     ELSE /\ buf_index' = buf_index + Size
          /\ UNCHANGED buffer
  /\ place' = CASE Cmd = Exit -> "ended"
                [] Cmd # Exit /\ Left < HeaderSize -> "read"
                [] OTHER -> "parse"
  /\ UNCHANGED <<clientEnd, cut>>

-----------------------------------------------------------------------------
Thread == Read \/ ReadEnd \/ Parse

Next == Close \/ (\E m \in Messages : Send(m)) \/ Thread

Spec == Init /\ [][Next]_vars

\* The scheduler runs the thread whenever it does not wait in read.
FairSpec == Spec /\ WF_vars(Thread)

-----------------------------------------------------------------------------
(* Properties.                                                              *)

\* The thread always has room to read into (a read of length zero would be
\* taken for a closed connection), decodes only behind a whole header, and what
\* it counts as received ends less than a header behind the buffer, wherever
\* reads end (the arithmetic on bytes and buf_index, socket.c:94-97, 118-126).
InBounds ==
  /\ place = "read" => buf_index < HeaderSize /\ bytes < HeaderSize
  /\ place = "parse" => bytes >= HeaderSize /\ buf_index + bytes < BufferSize + HeaderSize

\* As long as every read ends at the end of a message, every message is
\* decoded, once, in order and unchanged, however many arrive in one read.
FramedUnlessCut ==
  ~cut => /\ Len(decoded) <= Len(sent)
          /\ decoded = SubSeq(sent, 1, Len(decoded))

\* "Message data format: u32 cmd, u32 cmd_id, u32 size, u8 data[size]"
\* (hdmi_service_local.h:326-331), wherever a read ends.  Refuted.
Framed == Len(decoded) <= Len(sent) /\ decoded = SubSeq(sent, 1, Len(decoded))

\* Under that condition nothing is left undecoded either: each message
\* is handed to cmd_add, unless the thread has ended before, at an Exit.
Delivered ==
  \A n \in 1 .. MaxSent :
    Len(sent) >= n ~> \/ Len(decoded) >= n
                      \/ \E i \in 1 .. Len(decoded) : decoded[i].cmd = Exit
                      \/ cut

\* A thread whose client has gone ends, so that its descriptor is closed
\* (socket.c:98-101).
EndsAfterClose == end # "open" ~> place = "ended" \/ cut

=============================================================================
