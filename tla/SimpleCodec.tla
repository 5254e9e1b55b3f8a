----------------------------- MODULE SimpleCodec -----------------------------
(***************************************************************************)
(* The length-prefix codec of the simple clients and servers, one sender   *)
(* and one receiver of a connection: SimpleCodec (gtcp/simpletcp and       *)
(* gudp/simpleudp), the ReplayDecoder under it (channel/replaydecoder.go)  *)
(* and the variable-length integers (utils/varint.go).                     *)
(*                                                                         *)
(* TCP cuts the stream anywhere; UDP keeps datagrams whole but loses,      *)
(* repeats and reorders them, and cuts off what the read buffer cannot     *)
(* hold.  Bytes are digits of an arbitrary base, 256 in the code, so that  *)
(* small messages already need every form of length.                       *)
(***************************************************************************)
EXTENDS Integers, FiniteSets, Sequences

CONSTANTS
  Base,         \* how many values a byte has: 256
  Messages,     \* the messages that may be written, sequences of bytes
  BufferSize,   \* bytes that one read of the connection can take
  MaxSent,      \* bound: messages written
  MaxRepeats    \* bound: datagrams delivered again

Bytes == 0..(Base - 1)

ASSUME BaseAssumption == Base \in Nat /\ Base >= 5
ASSUME BoundsAssumption ==
  BufferSize \in Nat \ {0} /\ MaxSent \in Nat /\ MaxRepeats \in Nat

VARIABLES
  transport,  \* "tcp" or "udp", fixed
  written,    \* the messages written
  net,        \* tcp: the bytes on their way; udp: the datagrams
  repeats,    \* how many datagrams have been delivered again
  truncated,  \* history: a datagram was longer than the read buffer
  stream,     \* history, tcp: all bytes written
  due,        \* history, tcp: the messages to be delivered, and where they end
  received,   \* history: how many bytes of the stream have been read
  in,         \* ReplayDecoder.in
  read,       \* its reader index: how many of its bytes have been consumed
  state,      \* ReplayDecoder.state
  flag,       \* SimpleCodec.flag
  length,     \* SimpleCodec.length
  out,        \* the queue of decoded messages
  reader,     \* where Read is: "idle", "decode", "fire"
  fired       \* the messages handed to the next handler

netVars == <<transport, written, net, repeats, truncated, stream, due, received>>
codecVars == <<netVars, in, read, state, flag, length, out, reader, fired>>

----------------------------------------------------------------------------
(* Variable-length integers, big-endian.                                   *)

Base2 == Base * Base
Base4 == Base2 * Base2
Base8 == Base4 * Base4

Digits2(n) == <<n \div Base, n % Base>>
Digits4(n) == Digits2(n \div Base2) \o Digits2(n % Base2)
Digits8(n) == Digits4(n \div Base4) \o Digits4(n % Base4)

Value2(ds) == ds[1] * Base + ds[2]
Value4(ds) == Value2(SubSeq(ds, 1, 2)) * Base2 + Value2(SubSeq(ds, 3, 4))
Value8(ds) == Value4(SubSeq(ds, 1, 4)) * Base4 + Value4(SubSeq(ds, 5, 8))

VarIntEncode(val) ==
  IF val < Base - 3 THEN <<val>>
  ELSE IF val < Base2 THEN <<Base - 3>> \o Digits2(val)
  ELSE IF val < Base4 THEN <<Base - 2>> \o Digits4(val)
  ELSE <<Base - 1>> \o Digits8(val)

\* How many bytes follow the flag, and the length they make.
Width(f) ==
  IF f = Base - 3 THEN 2 ELSE IF f = Base - 2 THEN 4 ELSE IF f = Base - 1 THEN 8 ELSE 0
VarIntDecode(f, bytes) ==
  IF f = Base - 3 THEN Value2(bytes)
  ELSE IF f = Base - 2 THEN Value4(bytes)
  ELSE IF f = Base - 1 THEN Value8(bytes) ELSE f

Frame(m) == VarIntEncode(Len(m)) \o m

\* The length of a slice fits in eight bytes.
ASSUME MessagesAssumption == \A m \in Messages : m \in Seq(Bytes) /\ Len(m) < Base8

----------------------------------------------------------------------------
CodecInit ==
  /\ transport \in {"tcp", "udp"}
  /\ written = <<>>
  /\ net = <<>>
  /\ repeats = 0
  /\ truncated = FALSE
  /\ stream = <<>> /\ due = <<>> /\ received = 0
  /\ in = <<>> /\ read = 0
  /\ state = "FLAG" /\ flag = 0 /\ length = 0
  /\ out = <<>>
  /\ reader = "idle"
  /\ fired = <<>>

\* A message, or the empty one that keeps the connection alive.
Write(m) ==
  /\ Len(written) < MaxSent
  /\ written' = Append(written, m)
  /\ IF transport = "tcp"
       THEN /\ net' = net \o Frame(m)
            /\ stream' = stream \o Frame(m)
            /\ due' = IF m = <<>> THEN due ELSE Append(due, [msg |-> m, end |-> Len(stream')])
       ELSE net' = Append(net, Frame(m)) /\ UNCHANGED <<stream, due>>
  /\ UNCHANGED <<transport, repeats, truncated, received>>
  /\ UNCHANGED <<in, read, state, flag, length, out, reader, fired>>

----------------------------------------------------------------------------
(* Reading the connection.                                                 *)

\* ReplayDecoder.Read appends what came and starts to decode.
Read(bytes) ==
  /\ in' = in \o bytes
  /\ reader' = "decode"
  /\ UNCHANGED <<read, state, flag, length, out, fired>>

ReadStream(n) ==
  /\ transport = "tcp" /\ reader = "idle"
  /\ n <= Len(net) /\ n <= BufferSize
  /\ net' = SubSeq(net, n + 1, Len(net))
  /\ received' = received + n
  /\ Read(SubSeq(net, 1, n))
  /\ UNCHANGED <<transport, written, repeats, truncated, stream, due>>

\* The datagrams without the i-th.
Without(ds, i) == SubSeq(ds, 1, i - 1) \o SubSeq(ds, i + 1, Len(ds))

\* Any datagram that is on its way, once more or for the last time.
ReadDatagram(i) ==
  /\ transport = "udp" /\ reader = "idle"
  /\ i <= Len(net)
  /\ \/ net' = Without(net, i) /\ UNCHANGED repeats
     \/ repeats < MaxRepeats /\ repeats' = repeats + 1 /\ UNCHANGED net
  /\ truncated' = (truncated \/ Len(net[i]) > BufferSize)
  /\ Read(SubSeq(net[i], 1, IF Len(net[i]) > BufferSize THEN BufferSize ELSE Len(net[i])))
  /\ UNCHANGED <<transport, written, stream, due, received>>

LoseDatagram(i) ==
  /\ transport = "udp"
  /\ i <= Len(net)
  /\ net' = Without(net, i)
  /\ UNCHANGED <<transport, written, repeats, truncated, stream, due, received>>
  /\ UNCHANGED <<in, read, state, flag, length, out, reader, fired>>

----------------------------------------------------------------------------
(* decode: one turn of its loop per step.                                  *)

Readable == Len(in) - read
Peek(n) == SubSeq(in, read + 1, read + n)

\* Mutant of Checkpoint: compacting drops the bytes that wait as well.
CheckpointDrops(s, n) ==
  /\ state' = s
  /\ \/ read' = read + n /\ UNCHANGED in
     \/ in' = <<>> /\ read' = 0

\* Consumes n bytes and sets the state.  The buffer may be compacted: when it
\* is depends on its capacity, which the library chooses.
Checkpoint(s, n) ==
  /\ state' = s
  /\ \/ read' = read + n /\ UNCHANGED in
     \/ in' = SubSeq(in, read + n + 1, Len(in)) /\ read' = 0

\* Skip, or a read of more bytes than there are, ends the loop; what was
\* decoded is then fired.
NeedsMore(n) ==
  /\ Readable < n
  /\ reader' = "fire"
  /\ UNCHANGED <<in, read, state, flag, length, out>>

\* Mutant of DecodeFlag: a keep-alive is taken for a message of no bytes.
DecodeFlagKeepsEmpty ==
  /\ reader = "decode" /\ state = "FLAG"
  /\ \/ NeedsMore(1)
     \/ /\ Readable >= 1
        /\ flag' = in[read + 1]
        /\ Checkpoint("LENGTH", 1)
        /\ UNCHANGED <<length, out, reader>>
  /\ UNCHANGED <<netVars, fired>>

\* A flag of 0 is skipped, without a checkpoint.
DecodeFlag ==
  /\ reader = "decode" /\ state = "FLAG"
  /\ \/ NeedsMore(1)
     \/ /\ Readable >= 1
        /\ flag' = in[read + 1]
        /\ IF flag' = 0
             THEN read' = read + 1 /\ UNCHANGED <<in, state>>
             ELSE Checkpoint("LENGTH", 1)
        /\ UNCHANGED <<length, out, reader>>
  /\ UNCHANGED <<netVars, fired>>

DecodeLength ==
  /\ reader = "decode" /\ state = "LENGTH"
  /\ \/ NeedsMore(Width(flag))
     \/ /\ Readable >= Width(flag)
        /\ length' = VarIntDecode(flag, Peek(Width(flag)))
        /\ Checkpoint("BODY", Width(flag))
        /\ UNCHANGED <<flag, out, reader>>
  /\ UNCHANGED <<netVars, fired>>

DecodeBody ==
  /\ reader = "decode" /\ state = "BODY"
  /\ \/ NeedsMore(length)
     \/ /\ Readable >= length
        /\ out' = Append(out, Peek(length))
        /\ Checkpoint("FLAG", length)
        /\ UNCHANGED <<flag, length, reader>>
  /\ UNCHANGED <<netVars, fired>>

FireOut ==
  /\ reader = "fire"
  /\ fired' = fired \o out
  /\ out' = <<>>
  /\ reader' = "idle"
  /\ UNCHANGED <<netVars, in, read, state, flag, length>>

----------------------------------------------------------------------------
\* All is written and read.
AllRead ==
  /\ Len(written) = MaxSent /\ net = <<>> /\ reader = "idle"
  /\ UNCHANGED codecVars

CodecNext ==
  \/ \E m \in Messages : Write(m)
  \/ \E n \in 1..BufferSize : ReadStream(n)
  \/ \E i \in 1..MaxSent : ReadDatagram(i) \/ LoseDatagram(i)
  \/ DecodeFlag \/ DecodeLength \/ DecodeBody \/ FireOut
  \/ AllRead

CodecSpec == CodecInit /\ [][CodecNext]_codecVars

----------------------------------------------------------------------------
(* Properties.                                                             *)

Count(ms, m) == Cardinality({i \in DOMAIN ms : ms[i] = m})

\* However the stream is cut, also within a length or between two messages,
\* the receiver's handlers get the messages that were written, keep-alives
\* and empty ones left out, in order, unchanged, once, and as soon as the last
\* byte is there: between two reads the decoder holds no message back.
StreamFaithful ==
  transport = "tcp" /\ reader = "idle" =>
    LET k == Cardinality({i \in DOMAIN due : due[i].end <= received})
    IN fired = [i \in 1..k |-> due[i].msg]

\* The decoder keeps its state from one datagram to the next.  Still, unless
\* one was cut off, lost and reordered datagrams do no harm to the others: what
\* is delivered was written, more often only as datagrams were repeated, and
\* each datagram starts a frame of its own.
DatagramsStandAlone ==
  transport = "udp" /\ ~truncated =>
    /\ \A i \in DOMAIN fired : fired[i] # <<>> /\ \E j \in DOMAIN written : written[j] = fired[i]
    /\ \A m \in Messages : Count(fired, m) <= Count(written, m) + repeats
    /\ reader = "idle" => state = "FLAG" /\ Readable = 0
==============================================================================
