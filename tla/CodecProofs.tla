----------------------------- MODULE CodecProofs -----------------------------
(***************************************************************************)
(* Proofs about SimpleCodec, for every base of the digits from 5 on, every *)
(* set of messages whose lengths fit in eight bytes, every size of the     *)
(* read buffer, and any number of messages and of repeated datagrams.      *)
(* The argument:                                                           *)
(*   - LengthsDecode: of each of the four forms of a length the decoder    *)
(*     gets that length back, and only the one of no bytes has a flag of   *)
(*     0.  Digits and values are halved, not folded, so that each form     *)
(*     follows from the one half as long (TwoDigits to EightDigits);       *)
(*   - FrameParts: so a frame is taken apart into flag, length, message;   *)
(*   - StreamInv: what is on its way and what waits in the buffer are the  *)
(*     rest of the stream; its frames lie one behind the other, with       *)
(*     keep-alives between them; the messages decoded are the first ones   *)
(*     to deliver, and the decoder stands in the frame of the next where   *)
(*     its state says;                                                     *)
(*   - DatagramInv: unless one was cut off, the buffer holds the rest of   *)
(*     one datagram at most, and every message is on its way, being        *)
(*     decoded or decoded no more often than it was written, and repeated; *)
(*   - Waits: a reader that does not decode has too little of the next     *)
(*     part.  That makes what is decoded complete (DecodedAreComplete).    *)
(***************************************************************************)
EXTENDS SimpleCodec, FiniteSetTheorems, SequenceTheorems, TLAPS

-----------------------------------------------------------------------------
(* Numbers as digits.                                                      *)

\* What a sequence that is two others in a row has where.
LEMMA JoinedAt ==
  ASSUME NEW s \in Seq(Bytes), NEW t \in Seq(Bytes), NEW u, u = s \o t
  PROVE  /\ u \in Seq(Bytes) /\ Len(u) = Len(s) + Len(t) /\ Len(s) \in Nat /\ Len(t) \in Nat
         /\ \A p \in 1..Len(s) : u[p] = s[p]
         /\ \A p \in 1..Len(t) : u[Len(s) + p] = t[p]
OBVIOUS

\* The two of them, taken apart.
LEMMA TakenApart ==
  ASSUME NEW s \in Seq(Bytes), NEW t \in Seq(Bytes), NEW u, u = s \o t
  PROVE  /\ u \in Seq(Bytes) /\ Len(u) = Len(s) + Len(t)
         /\ SubSeq(u, 1, Len(s)) = s /\ SubSeq(u, Len(s) + 1, Len(u)) = t
<1>1. u \in Seq(Bytes) /\ Len(u) = Len(s) + Len(t) /\ Len(s) \in Nat /\ Len(t) \in Nat
  OBVIOUS
<1>2. PICK v, w : v = SubSeq(u, 1, Len(s)) /\ w = SubSeq(u, Len(s) + 1, Len(u))
  OBVIOUS
<1>3. v \in Seq(Bytes) /\ Len(v) = Len(s) /\ \A i \in 1..Len(s) : v[i] = s[i]
  BY <1>1, <1>2
<1>4. w \in Seq(Bytes) /\ Len(w) = Len(t) /\ \A i \in 1..Len(t) : w[i] = t[i]
  BY <1>1, <1>2
<1>5. v = s /\ w = t
  BY <1>3, <1>4, SeqEqual, Zenon
<1> QED BY <1>1, <1>2, <1>5

\* A number is its quotient and its remainder.
LEMMA DivisionSplits ==
  ASSUME NEW a \in Nat, NEW b \in Nat, b > 0, NEW q, q = a \div b, NEW r, r = a % b
  PROVE  q \in Nat /\ r \in 0..(b - 1) /\ a = q * b + r /\ (a < b * b => q < b)
<1>1. q \in Nat /\ r \in 0..(b - 1)
  OBVIOUS
<1>2. a = q * b + r
  <2>1. a = (a \div b) * b + (a % b)
    BY SMTT(30)
  <2> QED BY <2>1
<1>3. ASSUME a < b * b PROVE q < b
  BY <1>1, <1>2, <1>3
<1> QED BY <1>1, <1>2, <1>3

\* The bases are numbers above 4.
LEMMA Bases ==
  /\ Base \in Nat /\ Base >= 5
  /\ Base2 \in Nat /\ Base2 >= Base
  /\ Base4 \in Nat /\ Base4 >= Base2
  /\ Base8 \in Nat /\ Base8 >= Base4
<1>1. Base \in Nat /\ Base >= 5
  BY BaseAssumption
<1>2. ASSUME NEW b \in Nat, b >= 5 PROVE b * b \in Nat /\ b * b >= b
  BY <1>2
<1>3. Base2 \in Nat /\ Base2 >= Base
  BY <1>1, <1>2 DEF Base2
<1>4. Base4 \in Nat /\ Base4 >= Base2
  BY <1>1, <1>2, <1>3 DEF Base4
<1>5. Base8 \in Nat /\ Base8 >= Base4
  BY <1>1, <1>2, <1>3, <1>4 DEF Base8
<1> QED BY <1>1, <1>3, <1>4, <1>5

\* Two digits are bytes, and make the number again ...
LEMMA TwoDigits ==
  ASSUME NEW n \in Nat, n < Base2, NEW ds, ds = Digits2(n)
  PROVE  ds \in Seq(Bytes) /\ Len(ds) = 2 /\ Value2(ds) = n
<1>1. PICK b, q, r : b = Base /\ q = n \div b /\ r = n % b
  OBVIOUS
<1>2. n \in Nat /\ b \in Nat /\ b > 0 /\ n < b * b /\ q = n \div b /\ r = n % b
  BY <1>1, Bases DEF Base2
<1>3. q \in Nat /\ r \in 0..(b - 1) /\ n = q * b + r /\ q < b
  BY ONLY <1>2, DivisionSplits
<1>4. ds = <<q, r>>
  BY <1>1 DEF Digits2
<1>5. q \in Bytes /\ r \in Bytes
  BY <1>1, <1>2, <1>3 DEF Bytes
<1>6. ds \in Seq(Bytes) /\ Len(ds) = 2 /\ ds[1] = q /\ ds[2] = r
  BY <1>4, <1>5
<1> QED BY <1>1, <1>3, <1>6 DEF Value2

\* ... so do four ...
LEMMA FourDigits ==
  ASSUME NEW n \in Nat, n < Base4, NEW ds, ds = Digits4(n)
  PROVE  ds \in Seq(Bytes) /\ Len(ds) = 4 /\ Value4(ds) = n
<1>1. PICK b, q, r, s, t : b = Base2 /\ q = n \div b /\ r = n % b /\ s = Digits2(q) /\ t = Digits2(r)
  OBVIOUS
<1>2. n \in Nat /\ b \in Nat /\ b > 0 /\ n < b * b /\ q = n \div b /\ r = n % b
  BY <1>1, Bases DEF Base4
<1>3. q \in Nat /\ r \in 0..(b - 1) /\ n = q * b + r /\ q < b
  BY ONLY <1>2, DivisionSplits
<1>4. /\ s \in Seq(Bytes) /\ Len(s) = 2 /\ Value2(s) = q
      /\ t \in Seq(Bytes) /\ Len(t) = 2 /\ Value2(t) = r
  BY <1>1, <1>2, <1>3, TwoDigits
<1>5. ds = s \o t
  BY <1>1 DEF Digits4
<1>6. ds \in Seq(Bytes) /\ Len(ds) = 4 /\ SubSeq(ds, 1, 2) = s /\ SubSeq(ds, 3, 4) = t
  <2>1. /\ ds \in Seq(Bytes) /\ Len(ds) = Len(s) + Len(t)
        /\ SubSeq(ds, 1, Len(s)) = s /\ SubSeq(ds, Len(s) + 1, Len(ds)) = t
    <3>1. s \in Seq(Bytes) /\ t \in Seq(Bytes) /\ ds = s \o t
      BY <1>4, <1>5
    <3> QED BY ONLY <3>1, TakenApart
  <2> QED BY <1>4, <2>1
<1> QED BY <1>1, <1>3, <1>4, <1>6, Zenon DEF Value4

\* ... and eight.
LEMMA EightDigits ==
  ASSUME NEW n \in Nat, n < Base8, NEW ds, ds = Digits8(n)
  PROVE  ds \in Seq(Bytes) /\ Len(ds) = 8 /\ Value8(ds) = n
<1>1. PICK b, q, r, s, t : b = Base4 /\ q = n \div b /\ r = n % b /\ s = Digits4(q) /\ t = Digits4(r)
  OBVIOUS
<1>2. n \in Nat /\ b \in Nat /\ b > 0 /\ n < b * b /\ q = n \div b /\ r = n % b
  BY <1>1, Bases DEF Base8
<1>3. q \in Nat /\ r \in 0..(b - 1) /\ n = q * b + r /\ q < b
  BY ONLY <1>2, DivisionSplits
<1>4. /\ s \in Seq(Bytes) /\ Len(s) = 4 /\ Value4(s) = q
      /\ t \in Seq(Bytes) /\ Len(t) = 4 /\ Value4(t) = r
  BY <1>1, <1>2, <1>3, FourDigits
<1>5. ds = s \o t
  BY <1>1 DEF Digits8
<1>6. ds \in Seq(Bytes) /\ Len(ds) = 8 /\ SubSeq(ds, 1, 4) = s /\ SubSeq(ds, 5, 8) = t
  <2>1. /\ ds \in Seq(Bytes) /\ Len(ds) = Len(s) + Len(t)
        /\ SubSeq(ds, 1, Len(s)) = s /\ SubSeq(ds, Len(s) + 1, Len(ds)) = t
    <3>1. s \in Seq(Bytes) /\ t \in Seq(Bytes) /\ ds = s \o t
      BY <1>4, <1>5
    <3> QED BY ONLY <3>1, TakenApart
  <2> QED BY <1>4, <2>1
<1> QED BY <1>1, <1>3, <1>4, <1>6, Zenon DEF Value8

\* A length is encoded as a flag and as many bytes as the flag says, from which it
\* is decoded again; only the flag of no bytes at all is 0.
THEOREM LengthsDecode ==
  ASSUME NEW n \in Nat, n < Base8
  PROVE  \E f \in Bytes, ds \in Seq(Bytes) :
           /\ VarIntEncode(n) = <<f>> \o ds
           /\ Len(ds) = Width(f) /\ VarIntDecode(f, ds) = n
           /\ f = 0 <=> n = 0
<1>0. Base \in Nat /\ Base >= 5 /\ n \in Nat
  BY Bases
<1>1. CASE n < Base - 3
  <2>1. VarIntEncode(n) = <<n>> /\ <<n>> = <<n>> \o <<>>
    BY <1>1 DEF VarIntEncode
  <2>2. n \in Bytes /\ <<>> \in Seq(Bytes) /\ Len(<<>>) = 0
    BY <1>0, <1>1 DEF Bytes
  <2>3. Width(n) = 0 /\ VarIntDecode(n, <<>>) = n
    BY <1>0, <1>1 DEF Width, VarIntDecode
  <2> QED BY <2>1, <2>2, <2>3, Zenon
<1>2. CASE ~(n < Base - 3) /\ n < Base2
  <2>1. PICK f, ds : f = Base - 3 /\ ds = Digits2(n)
    OBVIOUS
  <2>2. ds \in Seq(Bytes) /\ Len(ds) = 2 /\ Value2(ds) = n
    BY <1>2, <2>1, TwoDigits
  <2>3. VarIntEncode(n) = <<f>> \o ds
    BY <1>2, <2>1 DEF VarIntEncode
  <2>4. f \in Bytes /\ Width(f) = 2 /\ VarIntDecode(f, ds) = n /\ f # 0 /\ n # 0
    BY <1>0, <1>2, <2>1, <2>2 DEF Bytes, Width, VarIntDecode
  <2> QED BY <2>2, <2>3, <2>4, Zenon
<1>3. CASE ~(n < Base - 3) /\ ~(n < Base2) /\ n < Base4
  <2>1. PICK f, ds : f = Base - 2 /\ ds = Digits4(n)
    OBVIOUS
  <2>2. ds \in Seq(Bytes) /\ Len(ds) = 4 /\ Value4(ds) = n
    BY <1>3, <2>1, FourDigits
  <2>3. VarIntEncode(n) = <<f>> \o ds
    BY <1>3, <2>1 DEF VarIntEncode
  <2>4. f \in Bytes /\ Width(f) = 4 /\ VarIntDecode(f, ds) = n /\ f # 0 /\ n # 0
    BY <1>0, <1>3, <2>1, <2>2 DEF Bytes, Width, VarIntDecode
  <2> QED BY <2>2, <2>3, <2>4, Zenon
<1>4. CASE ~(n < Base - 3) /\ ~(n < Base2) /\ ~(n < Base4)
  <2>1. PICK f, ds : f = Base - 1 /\ ds = Digits8(n)
    OBVIOUS
  <2>2. ds \in Seq(Bytes) /\ Len(ds) = 8 /\ Value8(ds) = n
    BY <1>4, <2>1, EightDigits
  <2>3. VarIntEncode(n) = <<f>> \o ds
    BY <1>4, <2>1 DEF VarIntEncode
  <2>4. f \in Bytes /\ Width(f) = 8 /\ VarIntDecode(f, ds) = n /\ f # 0 /\ n # 0
    BY <1>0, <1>4, <2>1, <2>2 DEF Bytes, Width, VarIntDecode
  <2> QED BY <2>2, <2>3, <2>4, Zenon
<1> QED BY <1>1, <1>2, <1>3, <1>4, Zenon

-----------------------------------------------------------------------------
(* A frame, and the reader's buffer.                                       *)

FlagOf(m) == Frame(m)[1]
HeadSize(m) == 1 + Width(FlagOf(m))

\* A frame is a flag, the bytes of the length it announces, and the message.
LEMMA FrameParts ==
  ASSUME NEW m \in Messages
  PROVE  /\ Frame(m) \in Seq(Bytes) /\ FlagOf(m) \in Bytes /\ Frame(m)[1] = FlagOf(m)
         /\ m \in Seq(Bytes) /\ Len(m) \in Nat
         /\ Width(FlagOf(m)) \in Nat /\ HeadSize(m) = 1 + Width(FlagOf(m))
         /\ Len(Frame(m)) = HeadSize(m) + Len(m) /\ Len(Frame(m)) \in Nat
         /\ VarIntDecode(FlagOf(m), SubSeq(Frame(m), 2, HeadSize(m))) = Len(m)
         /\ SubSeq(Frame(m), HeadSize(m) + 1, Len(Frame(m))) = m
         /\ \A j \in 1..Len(m) : Frame(m)[HeadSize(m) + j] = m[j]
         /\ FlagOf(m) = 0 <=> m = <<>>
<1>0. PICK F, f : F = Frame(m) /\ f = FlagOf(m)
  OBVIOUS
<1>1. m \in Seq(Bytes) /\ Len(m) \in Nat /\ Len(m) < Base8 /\ (Len(m) = 0 <=> m = <<>>)
  <2>1. m \in Seq(Bytes) /\ Len(m) < Base8
    BY MessagesAssumption
  <2> QED BY <2>1
<1>2. PICK g \in Bytes, ds \in Seq(Bytes) :
         /\ VarIntEncode(Len(m)) = <<g>> \o ds
         /\ Len(ds) = Width(g) /\ VarIntDecode(g, ds) = Len(m)
         /\ g = 0 <=> Len(m) = 0
  BY <1>1, LengthsDecode, Zenon
<1>3. PICK one, h : one = <<g>> /\ h = one \o ds
  BY Zenon
<1>4. /\ h \in Seq(Bytes) /\ Len(h) = 1 + Len(ds) /\ h[1] = g /\ Len(ds) \in Nat
      /\ SubSeq(h, 2, Len(h)) = ds
  <2>1. one \in Seq(Bytes) /\ Len(one) = 1
    BY <1>3
  <2>2. SubSeq(h, Len(one) + 1, Len(h)) = ds
    BY <1>3, <2>1, TakenApart
  <2> QED BY <1>3, <2>1, <2>2
<1>5. F = h \o m
  BY <1>0, <1>2, <1>3 DEF Frame
<1>6. /\ F \in Seq(Bytes) /\ Len(F) = Len(h) + Len(m)
      /\ SubSeq(F, Len(h) + 1, Len(F)) = m /\ Len(F) \in Nat
      /\ \A j \in 1..Len(h) : F[j] = h[j]
      /\ \A j \in 1..Len(m) : F[Len(h) + j] = m[j]
  <2>1. h \in Seq(Bytes) /\ m \in Seq(Bytes) /\ F = h \o m
    BY <1>1, <1>4, <1>5
  <2>2. SubSeq(F, Len(h) + 1, Len(F)) = m /\ Len(F) \in Nat
    BY ONLY <2>1, TakenApart
  <2> QED BY ONLY <2>1, <2>2, JoinedAt
<1>7. F[1] = g /\ f = g
  BY <1>0, <1>1, <1>4, <1>5 DEF FlagOf
<1>8. Len(h) = HeadSize(m) /\ Width(f) \in Nat /\ HeadSize(m) = 1 + Width(f)
  BY <1>0, <1>2, <1>4, <1>7 DEF HeadSize
<1>9. SubSeq(F, 2, HeadSize(m)) = ds
  <2>1. PICK k, v : k = HeadSize(m) /\ v = SubSeq(F, 2, k)
    BY Zenon
  <2>2. Len(v) = Len(ds) /\ v \in Seq(Bytes) /\ \A i \in 1..Len(ds) : v[i] = ds[i]
    BY <1>1, <1>3, <1>4, <1>5, <1>6, <1>8, <2>1
  <2> QED BY <2>1, <2>2, SeqEqual, Zenon
<1> QED BY <1>0, <1>1, <1>2, <1>6, <1>7, <1>8, <1>9, Zenon

\* What the decoder has of its buffer.
BufferOK == in \in Seq(Bytes) /\ read \in 0..Len(in)

\* After a checkpoint the bytes behind those consumed are next, whether or not the
\* buffer was compacted.
LEMMA CheckpointMoves ==
  ASSUME BufferOK, NEW s, NEW n \in 0..Readable, Checkpoint(s, n)
  PROVE  /\ BufferOK' /\ state' = s
         /\ Readable' = Readable - n
         /\ \A i \in 1..(Readable - n) : in'[read' + i] = in[read + n + i]
<1>1. Readable \in Nat /\ Readable = Len(in) - read /\ Len(in) \in Nat /\ read \in Nat
  BY DEF BufferOK, Readable
<1>2. CASE read' = read + n /\ UNCHANGED in
  BY <1>1, <1>2 DEF BufferOK, Readable, Checkpoint
<1>3. CASE in' = SubSeq(in, read + n + 1, Len(in)) /\ read' = 0
  BY <1>1, <1>3 DEF BufferOK, Readable, Checkpoint
<1> QED BY <1>2, <1>3 DEF Checkpoint

\* More bytes come to the end of the buffer.
LEMMA ReadAppends ==
  ASSUME BufferOK, NEW bytes \in Seq(Bytes), Read(bytes)
  PROVE  /\ BufferOK'
         /\ Readable' = Readable + Len(bytes)
         /\ \A i \in 1..Readable : in'[read' + i] = in[read + i]
         /\ \A i \in 1..Len(bytes) : in'[read' + Readable + i] = bytes[i]
BY DEF BufferOK, Readable, Read

-----------------------------------------------------------------------------
(* The invariant of the codec.                                             *)

CodecTypeOK ==
  /\ transport \in {"tcp", "udp"} /\ (transport = "udp" => net \in Seq(Seq(Bytes)))
  /\ written \in Seq(Messages) /\ repeats \in Nat /\ truncated \in BOOLEAN
  /\ BufferOK
  /\ state \in {"FLAG", "LENGTH", "BODY"} /\ flag \in Bytes /\ length \in Nat
  /\ out \in Seq(Seq(Bytes)) /\ fired \in Seq(Seq(Bytes))
  /\ reader \in {"idle", "decode", "fire"}

\* The reader leaves decode only when the next part is not there in full.
Waits ==
  /\ reader # "decode" =>
       /\ state = "FLAG" => Readable = 0
       /\ state = "LENGTH" => Readable < Width(flag)
       /\ state = "BODY" => Readable < length
  /\ reader = "idle" => out = <<>>

\* All messages decoded so far.
Decoded == fired \o out

Msg(i) == due[i].msg
EndAt(i) == due[i].end
StartAt(i) == due[i].end - Len(Frame(due[i].msg))

\* Where in the stream the decoder is.
Taken == received - Readable

\* What is on its way is the rest of the stream, ...
OnItsWay ==
  /\ stream \in Seq(Bytes) /\ received \in 0..Len(stream)
  /\ net \in Seq(Bytes) /\ Len(net) = Len(stream) - received
  /\ \A i \in 1..Len(net) : net[i] = stream[received + i]

\* ... and what waits in the buffer is the part before it.
Buffered ==
  /\ Readable <= received
  /\ \A i \in 1..Readable : in[read + i] = stream[Taken + i]

\* The frame of the i-th message to deliver is where due says.
FrameAt(i) ==
  /\ Msg(i) \in Messages /\ Msg(i) # <<>>
  /\ EndAt(i) \in 0..Len(stream) /\ StartAt(i) \in Nat
  /\ \A j \in 1..Len(Frame(Msg(i))) : stream[StartAt(i) + j] = Frame(Msg(i))[j]

\* The stream is these frames one after the other, and keep-alives between them.
Framed ==
  /\ due \in Seq([msg : Messages, end : Nat])
  /\ \A i \in 1..Len(due) : FrameAt(i)
  /\ \A i, j \in 1..Len(due) : i < j => EndAt(i) <= StartAt(j)
  /\ \A p \in 1..Len(stream) :
       stream[p] = 0 \/ \E i \in 1..Len(due) : StartAt(i) < p /\ p <= EndAt(i)

\* The first d of them have been decoded, and of the next one what the decoder's
\* state says.
Progress(d) ==
  /\ d <= Len(due)
  /\ \A i \in 1..d : Decoded[i] = Msg(i) /\ EndAt(i) <= Taken
  /\ state = "FLAG" => \A i \in 1..Len(due) : d < i => Taken <= StartAt(i)
  /\ state = "LENGTH" => /\ d < Len(due)
                         /\ Taken = StartAt(d + 1) + 1
                         /\ flag = FlagOf(Msg(d + 1))
  /\ state = "BODY" => /\ d < Len(due)
                       /\ Taken = StartAt(d + 1) + HeadSize(Msg(d + 1))
                       /\ length = Len(Msg(d + 1))

StreamInv ==
  transport = "tcp" => OnItsWay /\ Buffered /\ Framed /\ Progress(Len(Decoded))

\* Every datagram is the frame of a message.
Sent(m) == \E j \in 1..Len(written) : written[j] = m
Datagrams ==
  /\ net \in Seq(Seq(Bytes))
  /\ \A i \in 1..Len(net) : \E m \in Messages : Sent(m) /\ net[i] = Frame(m)

\* All but the first k bytes of m's frame wait in the buffer.
RestFrom(m, k) ==
  /\ Readable = Len(Frame(m)) - k
  /\ \A i \in 1..Readable : in[read + i] = Frame(m)[k + i]

\* The decoder has read m's datagram, and none of its bytes too many.
Holding(m) ==
  /\ reader = "decode"
  /\ state = "FLAG" => RestFrom(m, 0)
  /\ state = "LENGTH" => m # <<>> /\ flag = FlagOf(m) /\ RestFrom(m, 1)
  /\ state = "BODY" => m # <<>> /\ length = Len(m) /\ RestFrom(m, HeadSize(m))

\* What is on its way, being decoded (if hs = {h}), or decoded, was written.
Balanced(hs) ==
  \A m \in Messages :
    Count(net, Frame(m)) + (IF m \in hs THEN 1 ELSE 0) + Count(Decoded, m)
      <= Count(written, m) + repeats

DatagramInv ==
  transport = "udp" /\ ~truncated =>
    /\ Datagrams
    /\ \A i \in 1..Len(Decoded) : Decoded[i] # <<>> /\ Sent(Decoded[i])
    /\ \/ state = "FLAG" /\ Readable = 0 /\ Balanced({})
       \/ \E h \in Messages : Sent(h) /\ Holding(h) /\ Balanced({h})

CodecInv == CodecTypeOK /\ Waits /\ StreamInv /\ DatagramInv

-----------------------------------------------------------------------------
(* The stream.                                                             *)

\* What a frame says about the stream.
LEMMA FrameLies ==
  ASSUME Framed, NEW i \in 1..Len(due)
  PROVE  /\ Msg(i) \in Messages /\ Msg(i) \in Seq(Bytes) /\ Len(Msg(i)) \in Nat \ {0}
         /\ FlagOf(Msg(i)) # 0 /\ Width(FlagOf(Msg(i))) \in Nat
         /\ HeadSize(Msg(i)) = 1 + Width(FlagOf(Msg(i)))
         /\ StartAt(i) \in Nat /\ EndAt(i) \in 0..Len(stream)
         /\ EndAt(i) = StartAt(i) + HeadSize(Msg(i)) + Len(Msg(i))
         /\ EndAt(i) \in Nat /\ StartAt(i) < EndAt(i)
         /\ stream[StartAt(i) + 1] = FlagOf(Msg(i))
         /\ \A j \in 1..Width(FlagOf(Msg(i))) : stream[StartAt(i) + 1 + j] = Frame(Msg(i))[1 + j]
         /\ \A j \in 1..Len(Msg(i)) : stream[StartAt(i) + HeadSize(Msg(i)) + j] = Msg(i)[j]
<1>1. PICK m, F, f, h, s, e : /\ m = Msg(i) /\ F = Frame(m) /\ f = FlagOf(m) /\ h = HeadSize(m)
                              /\ s = StartAt(i) /\ e = EndAt(i)
  OBVIOUS
<1>2. /\ m \in Messages /\ m # <<>> /\ e \in 0..Len(stream) /\ s \in Nat
      /\ \A j \in 1..Len(F) : stream[s + j] = F[j]
  BY <1>1, Zenon DEF Framed, FrameAt
<1>3. s = e - Len(F)
  BY <1>1 DEF StartAt, EndAt, Msg
<1>4. /\ F \in Seq(Bytes) /\ f \in Bytes /\ F[1] = f /\ m \in Seq(Bytes)
      /\ Width(f) \in Nat /\ Len(m) \in Nat /\ h = 1 + Width(f)
      /\ Len(F) = h + Len(m)
      /\ \A j \in 1..Len(m) : F[h + j] = m[j]
      /\ (f = 0 <=> m = <<>>)
  BY <1>1, <1>2, FrameParts, Zenon
<1>5. PICK w, k, L : w = Width(f) /\ k = Len(m) /\ L = Len(F)
  BY Zenon
<1>6. w \in Nat /\ k \in Nat /\ h = 1 + w /\ L = h + k
  BY <1>4, <1>5
<1>7. s = e - L /\ s \in Nat /\ e \in Nat
  BY <1>2, <1>3, <1>5
<1>8. k # 0 /\ f # 0
  BY <1>2, <1>4, <1>5
<1>9. e = s + h + k /\ h \in Nat /\ s < e
  BY ONLY <1>6, <1>7
<1>10. \A j \in 1..L : stream[s + j] = F[j]
  BY <1>2, <1>5, Zenon
<1>11. stream[s + 1] = F[1] /\ \A j \in 1..w : stream[s + 1 + j] = F[1 + j]
  <2>1. 1 \in 1..L /\ \A j \in 1..w : 1 + j \in 1..L /\ s + (1 + j) = s + 1 + j
    BY ONLY <1>6, <1>7
  <2> QED BY ONLY <1>10, <2>1
<1>12. \A j \in 1..k : stream[s + h + j] = m[j]
  <2>1. \A j \in 1..k : h + j \in 1..L /\ s + (h + j) = s + h + j
    BY ONLY <1>6, <1>7
  <2>2. \A j \in 1..k : F[h + j] = m[j]
    BY <1>4, <1>5
  <2> QED BY ONLY <1>10, <2>1, <2>2
<1> QED BY <1>1, <1>2, <1>4, <1>5, <1>6, <1>7, <1>8, <1>9, <1>11, <1>12

\* Frames stay where they are while nothing is written.
LEMMA HistoryStays ==
  ASSUME UNCHANGED <<stream, due>>
  PROVE  /\ \A i : Msg(i)' = Msg(i) /\ EndAt(i)' = EndAt(i) /\ StartAt(i)' = StartAt(i)
         /\ Framed => Framed'
BY DEF Msg, EndAt, StartAt, Framed, FrameAt

\* Consuming n bytes moves the decoder by n in the stream.
LEMMA TakenMoves ==
  ASSUME BufferOK, Buffered, received \in Nat, NEW n \in 0..Readable,
         UNCHANGED <<stream, received>>,
         Readable' = Readable - n, \A i \in 1..(Readable - n) : in'[read' + i] = in[read + n + i]
  PROVE  /\ Taken \in Nat /\ Taken + n <= received /\ Taken' = Taken + n /\ Buffered'
         /\ \A i \in 1..n : in[read + i] = stream[Taken + i]
<1>1. Readable \in Nat /\ Readable <= received /\ read \in Nat
  BY DEF BufferOK, Readable, Buffered
<1>2. PICK R, t, rd : R = Readable /\ t = Taken /\ rd = read
  OBVIOUS
<1>3. t \in Nat /\ t + n <= received /\ t = received - R
  BY <1>1, <1>2 DEF Taken
<1>4. Taken' = t + n
  BY <1>1, <1>2, <1>3 DEF Taken
<1>5. \A i \in 1..R : in[rd + i] = stream[t + i]
  BY <1>2 DEF Buffered
<1>6. ASSUME NEW i \in 1..(R - n) PROVE in'[read' + i] = stream'[t + n + i]
  <2>1. n + i \in 1..R /\ rd + (n + i) = rd + n + i /\ t + (n + i) = t + n + i
    BY <1>1, <1>2, <1>3
  <2>2. in[rd + n + i] = stream[t + n + i]
    BY <1>5, <2>1
  <2> QED BY <1>2, <2>2
<1>7. Buffered'
  BY <1>1, <1>2, <1>4, <1>6 DEF Buffered
<1>8. \A i \in 1..n : in[rd + i] = stream[t + i]
  BY <1>1, <1>2, <1>5
<1> QED BY <1>2, <1>3, <1>4, <1>7, <1>8, Zenon

\* Between two frames, a byte is a keep-alive or the flag of the next message.
LEMMA FlagMeans ==
  ASSUME Framed, NEW d \in Nat, Progress(d), state = "FLAG",
         NEW t \in Nat, t = Taken, t + 1 <= Len(stream), Len(stream) \in Nat
  PROVE  IF stream[t + 1] = 0 THEN \A i \in 1..Len(due) : d < i => t + 1 <= StartAt(i)
         ELSE d < Len(due) /\ t = StartAt(d + 1) /\ stream[t + 1] = FlagOf(Msg(d + 1))
<1>1. Len(due) \in Nat
  BY DEF Framed
<1>2. \A i \in 1..Len(due) : /\ StartAt(i) \in Nat /\ EndAt(i) \in Nat /\ StartAt(i) < EndAt(i)
                             /\ stream[StartAt(i) + 1] = FlagOf(Msg(i)) /\ FlagOf(Msg(i)) # 0
  BY FrameLies, Zenon
<1>3. \A i \in 1..d : EndAt(i) <= t
  BY DEF Progress
<1>4. \A i \in 1..Len(due) : d < i => t <= StartAt(i)
  BY DEF Progress
<1>5. \A i, j \in 1..Len(due) : i < j => EndAt(i) <= StartAt(j)
  BY DEF Framed
<1>6. CASE stream[t + 1] = 0
  <2>1. ASSUME NEW i \in 1..Len(due), d < i PROVE t + 1 <= StartAt(i)
    <3>1. StartAt(i) # t
      BY <1>2, <1>6
    <3> QED BY <1>2, <1>4, <2>1, <3>1
  <2> QED BY <1>6, <2>1
<1>7. CASE stream[t + 1] # 0
  <2>1. PICK i \in 1..Len(due) : StartAt(i) < t + 1 /\ t + 1 <= EndAt(i)
    <3>1. t + 1 \in 1..Len(stream)
      OBVIOUS
    <3> QED BY <1>7, <3>1 DEF Framed
  <2>2. d < i
    BY <1>1, <1>2, <1>3, <2>1
  <2>3. t = StartAt(i)
    BY <1>2, <1>4, <2>1, <2>2
  <2>4. i = d + 1
    <3>1. CASE d + 1 < i
      <4>1. d + 1 \in 1..Len(due)
        BY <1>1, <3>1
      <4>2. t <= StartAt(d + 1) /\ StartAt(d + 1) < EndAt(d + 1) /\ EndAt(d + 1) <= StartAt(i)
        BY <1>2, <1>4, <1>5, <3>1, <4>1
      <4> QED BY <1>2, <2>3, <4>1, <4>2
    <3> QED BY <1>1, <2>2, <3>1
  <2> QED BY <1>1, <1>2, <1>7, <2>1, <2>3, <2>4
<1> QED BY <1>6, <1>7

-----------------------------------------------------------------------------
(* A message is written to the stream.                                     *)

\* A frame stays when the stream grows.
LEMMA FrameStays ==
  ASSUME NEW i, FrameAt(i), Msg(i)' = Msg(i), EndAt(i)' = EndAt(i), StartAt(i)' = StartAt(i),
         Len(stream) \in Nat, Len(stream') \in Nat, Len(stream) <= Len(stream'),
         \A p \in 1..Len(stream) : stream'[p] = stream[p]
  PROVE  FrameAt(i)'
<1>1. PICK F, s, e, L, n : /\ F = Frame(Msg(i)) /\ s = StartAt(i) /\ e = EndAt(i)
                           /\ L = Len(F) /\ n = Len(stream)
  BY Zenon
<1>2. s = e - L
  BY <1>1 DEF StartAt, EndAt, Msg
<1>3. /\ s \in Nat /\ e \in 0..n /\ \A j \in 1..L : stream[s + j] = F[j]
  BY <1>1 DEF FrameAt
<1>4. Msg(i) \in Messages /\ L \in Nat
  <2>1. Msg(i) \in Messages
    BY DEF FrameAt
  <2>2. F \in Seq(Bytes)
    BY <1>1, <2>1, FrameParts
  <2> QED BY <1>1, <2>1, <2>2
<1>5. \A j \in 1..L : stream'[s + j] = F[j]
  <2>1. \A j \in 1..L : s + j \in 1..n
    <3>1. n \in Nat
      BY <1>1
    <3> QED BY ONLY <1>2, <1>3, <1>4, <3>1
  <2> QED BY <1>1, <1>3, <2>1
<1>6. e \in 0..Len(stream')
  BY <1>1, <1>3
<1> QED BY <1>1, <1>3, <1>5, <1>6 DEF FrameAt

\* The frame of a message more, or of a keep-alive.
LEMMA StreamGrows ==
  ASSUME Framed, stream \in Seq(Bytes), NEW m \in Messages,
         stream' = stream \o Frame(m),
         due' = IF m = <<>> THEN due ELSE Append(due, [msg |-> m, end |-> Len(stream')])
  PROVE  /\ Framed' /\ stream' \in Seq(Bytes)
         /\ Len(stream') = Len(stream) + Len(Frame(m))
         /\ \A p \in 1..Len(stream) : stream'[p] = stream[p]
         /\ \A p \in 1..Len(Frame(m)) : stream'[Len(stream) + p] = Frame(m)[p]
         /\ Len(due) <= Len(due') /\ Len(due') <= Len(due) + 1
         /\ \A i \in 1..Len(due) :
              Msg(i)' = Msg(i) /\ EndAt(i)' = EndAt(i) /\ StartAt(i)' = StartAt(i)
         /\ \A i \in 1..Len(due') : Len(due) < i => StartAt(i)' = Len(stream)
<1>0. PICK F : F = Frame(m)
  BY Zenon
<1>1. F \in Seq(Bytes) /\ Len(F) = HeadSize(m) + Len(m) /\ F[1] = FlagOf(m) /\ Len(F) \in Nat
      /\ HeadSize(m) = 1 + Width(FlagOf(m)) /\ Width(FlagOf(m)) \in Nat /\ m \in Seq(Bytes)
      /\ (FlagOf(m) = 0 <=> m = <<>>) /\ Len(m) \in Nat
  BY <1>0, FrameParts, Zenon
<1>2. PICK n, k, N, D : n = Len(stream) /\ k = Len(due) /\ N = Len(stream') /\ D = due'
  BY Zenon
<1>3. n \in Nat /\ k \in Nat /\ due \in Seq([msg : Messages, end : Nat])
  BY <1>2 DEF Framed
<1>4. /\ stream' \in Seq(Bytes) /\ N = n + Len(F) /\ N \in Nat
      /\ \A p \in 1..n : stream'[p] = stream[p]
      /\ \A p \in 1..Len(F) : stream'[n + p] = F[p]
  <2>1. PICK U : U = stream'
    BY Zenon
  <2>2. stream \in Seq(Bytes) /\ F \in Seq(Bytes) /\ U = stream \o F
    BY <1>0, <1>1, <2>1
  <2>3. /\ U \in Seq(Bytes) /\ Len(U) = Len(stream) + Len(F)
        /\ Len(stream) \in Nat /\ Len(F) \in Nat
        /\ \A p \in 1..Len(stream) : U[p] = stream[p]
        /\ \A p \in 1..Len(F) : U[Len(stream) + p] = F[p]
    BY ONLY <2>2, JoinedAt
  <2> QED BY <1>2, <2>1, <2>3
<1>5. \A i \in 1..k : due[i] \in [msg : Messages, end : Nat] /\ due'[i] = due[i]
  <2>1. \A i \in 1..k : due[i] \in [msg : Messages, end : Nat]
    BY <1>2, <1>3, ElementOfSeq, Zenon
  <2>2. PICK x : D = due \/ D = Append(due, x)
    BY <1>2
  <2>3. ASSUME D = Append(due, x), NEW i \in 1..k PROVE D[i] = due[i]
    BY <1>2, <1>3, <2>3
  <2> QED BY <1>2, <2>1, <2>2, <2>3
<1>6. \A i \in 1..k : Msg(i)' = Msg(i) /\ EndAt(i)' = EndAt(i) /\ StartAt(i)' = StartAt(i)
  BY <1>5, Zenon DEF Msg, EndAt, StartAt
<1>7. \A i \in 1..k : FrameAt(i) /\ FrameAt(i)'
  <2> SUFFICES ASSUME NEW i \in 1..k PROVE FrameAt(i) /\ FrameAt(i)'
    OBVIOUS
  <2>1. FrameAt(i)
    BY <1>2 DEF Framed
  <2>2. Msg(i)' = Msg(i) /\ EndAt(i)' = EndAt(i) /\ StartAt(i)' = StartAt(i)
    BY <1>6
  <2>3. /\ Len(stream) \in Nat /\ Len(stream') \in Nat /\ Len(stream) <= Len(stream')
        /\ \A p \in 1..Len(stream) : stream'[p] = stream[p]
    BY <1>1, <1>2, <1>3, <1>4
  <2>4. FrameAt(i)'
    BY ONLY <2>1, <2>2, <2>3, FrameStays
  <2> QED BY <2>1, <2>4
<1>8. \A i, j \in 1..k : i < j => EndAt(i)' <= StartAt(j)'
  BY <1>2, <1>6 DEF Framed
<1>9. \A p \in 1..n : stream'[p] = 0 \/ \E i \in 1..k : StartAt(i)' < p /\ p <= EndAt(i)'
  BY <1>2, <1>4, <1>6, Zenon DEF Framed
<1>10. CASE m = <<>>
  <2>1. due' = due
    BY <1>10
  <2>2. Len(F) = 1 /\ F[1] = 0
    <3>1. FlagOf(m) = 0 /\ Len(m) = 0
      BY <1>1, <1>10
    <3>2. Width(0) = 0
      BY Bases DEF Width
    <3> QED BY <1>1, <3>1, <3>2
  <2>3. \A p \in 1..N :
          stream'[p] = 0 \/ \E i \in 1..k : StartAt(i)' < p /\ p <= EndAt(i)'
    <3>1. \A p \in 1..N : p \in 1..n \/ p = n + 1
      BY <1>3, <1>4, <2>2
    <3>2. stream'[n + 1] = 0
      <4>1. 1 \in 1..Len(F)
        BY <2>2
      <4> QED BY <1>4, <2>2, <4>1, Zenon
    <3> QED BY <1>9, <3>1, <3>2, Zenon
  <2>4. Framed'
    BY <1>2, <1>3, <1>7, <1>8, <2>1, <2>3, Zenon DEF Framed
  <2>5. /\ Len(due) <= Len(due') /\ Len(due') <= Len(due) + 1
        /\ \A i \in 1..Len(due') : ~(Len(due) < i)
    BY <1>2, <1>3, <2>1
  <2> QED BY <1>0, <1>2, <1>4, <1>6, <2>4, <2>5, Zenon
<1>11. CASE m # <<>>
  <2>1. PICK e, x : e = N /\ x = [msg |-> m, end |-> Len(stream')]
    OBVIOUS
  <2>2. x \in [msg : Messages, end : Nat] /\ x.msg = m /\ x.end = e /\ e \in Nat
    BY <1>1, <1>2, <1>3, <1>4, <2>1, Zenon
  <2>3. due' = Append(due, x)
    BY <1>11, <2>1
  <2>4. due' \in Seq([msg : Messages, end : Nat]) /\ Len(due') = k + 1 /\ due'[k + 1] = x
    <3>1. D \in Seq([msg : Messages, end : Nat]) /\ Len(D) = k + 1 /\ D[k + 1] = x
      BY ONLY <1>2, <1>3, <2>2, <2>3
    <3> QED BY <1>2, <3>1
  <2>5. Msg(k + 1)' = m /\ EndAt(k + 1)' = e /\ StartAt(k + 1)' = e - Len(F)
    BY <1>0, <2>2, <2>4 DEF Msg, EndAt, StartAt
  <2>6. StartAt(k + 1)' = n
    BY <1>1, <1>3, <1>4, <2>1, <2>5
  <2>7. FrameAt(k + 1)'
    <3>1. m \in Messages /\ m # <<>> /\ e \in 0..Len(stream') /\ n \in Nat
      BY <1>2, <1>3, <1>11, <2>1, <2>2
    <3>2. \A j \in 1..Len(F) : stream'[n + j] = F[j]
      BY <1>4, Zenon
    <3> QED BY <1>0, <2>5, <2>6, <3>1, <3>2, Zenon DEF FrameAt
  <2>8. \A i \in 1..Len(due') : i \in 1..k \/ i = k + 1
    BY <1>3, <2>4
  <2>9. \A i, j \in 1..Len(due') : i < j => EndAt(i)' <= StartAt(j)'
    <3>1. \A i \in 1..k : EndAt(i)' <= n
      BY <1>2, <1>3, <1>6, <1>7 DEF FrameAt
    <3>2. \A i, j \in 1..Len(due') : i < j => i \in 1..k
      BY <1>3, <2>4
    <3> QED BY <1>8, <2>6, <2>8, <3>1, <3>2
  <2>10. \A p \in 1..N :
           stream'[p] = 0 \/ \E i \in 1..Len(due') : StartAt(i)' < p /\ p <= EndAt(i)'
    <3>1. \A p \in 1..N : p \in 1..n \/ (n < p /\ p <= e)
      BY <1>3, <2>1, <2>2
    <3>2. k + 1 \in 1..Len(due') /\ 1..k \subseteq 1..Len(due')
      BY <1>3, <2>4
    <3> QED BY <1>9, <2>5, <2>6, <3>1, <3>2, Zenon
  <2>11. Framed'
    BY <1>2, <1>7, <2>4, <2>7, <2>8, <2>9, <2>10, Zenon DEF Framed
  <2>12. \A i \in 1..Len(due') : k < i => StartAt(i)' = n
    BY <1>3, <2>6, <2>8
  <2>13. Len(due) <= Len(due') /\ Len(due') <= Len(due) + 1
    BY <1>2, <1>3, <2>4
  <2> QED BY <1>0, <1>2, <1>4, <1>6, <2>11, <2>12, <2>13, Zenon
<1> QED BY <1>10, <1>11

\* Where the decoder is.
LEMMA WhereTaken ==
  ASSUME BufferOK, Buffered, received \in Nat
  PROVE  Readable \in Nat /\ Taken \in Nat /\ Taken + Readable = received /\ read \in Nat
BY DEF BufferOK, Buffered, Readable, Taken

\* The bytes that a read of the buffer takes.
LEMMA PeekType ==
  ASSUME BufferOK, NEW n \in 0..Readable, NEW P, P = Peek(n)
  PROVE  n \in Nat /\ P \in Seq(Bytes) /\ Len(P) = n /\ \A j \in 1..n : P[j] = in[read + j]
<1>1. in \in Seq(Bytes) /\ read \in Nat /\ read + n <= Len(in) /\ Len(in) \in Nat /\ n \in Nat
  BY DEF BufferOK, Readable
<1>2. P = SubSeq(in, read + 1, read + n)
  BY DEF Peek
<1>3. P \in Seq(Bytes) /\ Len(P) = n /\ \A j \in 1..n : P[j] = in[read + j]
  BY ONLY <1>1, <1>2
<1> QED BY <1>1, <1>3

\* One more at the end of the second of two sequences.
LEMMA OneMore ==
  ASSUME NEW a \in Seq(Seq(Bytes)), NEW o \in Seq(Seq(Bytes)), NEW x \in Seq(Bytes)
  PROVE  a \o Append(o, x) = Append(a \o o, x) /\ a \o o \in Seq(Seq(Bytes))
OBVIOUS

\* All messages decoded so far are a sequence.
LEMMA DecodedType ==
  ASSUME CodecTypeOK
  PROVE  Decoded \in Seq(Seq(Bytes)) /\ Len(Decoded) \in Nat
BY DEF CodecTypeOK, Decoded

\* A message written moves the end of the stream only.
LEMMA WriteKeepsStream ==
  ASSUME CodecTypeOK, StreamInv, transport = "tcp", NEW m \in Messages, Write(m)
  PROVE  OnItsWay' /\ Buffered' /\ Framed' /\ Progress(Len(Decoded))'
<1>1. PICK F, d, n, t, r : /\ F = Frame(m) /\ d = Len(Decoded) /\ n = Len(stream)
                           /\ t = Taken /\ r = received
  BY Zenon
<1>2. /\ OnItsWay /\ Buffered /\ Framed /\ Progress(d)
      /\ stream \in Seq(Bytes) /\ n \in Nat /\ r \in 0..n /\ d \in Nat
  BY <1>1, DecodedType DEF StreamInv, OnItsWay
<1>3. Readable \in Nat /\ t \in Nat /\ t + Readable = r /\ read \in Nat
  BY <1>1, <1>2, WhereTaken DEF CodecTypeOK
<1>4. /\ stream' = stream \o F /\ net' = net \o F
      /\ due' = IF m = <<>> THEN due ELSE Append(due, [msg |-> m, end |-> Len(stream')])
      /\ UNCHANGED <<received, in, read, state, flag, length, out, fired>>
  BY <1>1, Zenon DEF Write
<1>5. /\ Framed' /\ stream' \in Seq(Bytes)
      /\ Len(stream') = Len(stream) + Len(F)
      /\ \A p \in 1..Len(stream) : stream'[p] = stream[p]
      /\ \A p \in 1..Len(F) : stream'[Len(stream) + p] = F[p]
      /\ Len(due) <= Len(due') /\ Len(due') <= Len(due) + 1
      /\ \A i \in 1..Len(due) :
           Msg(i)' = Msg(i) /\ EndAt(i)' = EndAt(i) /\ StartAt(i)' = StartAt(i)
      /\ \A i \in 1..Len(due') : Len(due) < i => StartAt(i)' = Len(stream)
  BY <1>1, <1>2, <1>4, StreamGrows, Zenon
<1>6. F \in Seq(Bytes) /\ Len(F) \in Nat
  BY <1>1, FrameParts
<1>7. OnItsWay'
  <2>1. PICK V, S, b : V = net' /\ S = stream' /\ b = Len(net)
    BY Zenon
  <2>2. net \in Seq(Bytes) /\ b = n - r /\ b \in Nat /\ \A i \in 1..b : net[i] = stream[r + i]
    BY <1>1, <1>2, <2>1 DEF OnItsWay
  <2>3. net \in Seq(Bytes) /\ F \in Seq(Bytes) /\ V = net \o F
    BY <1>4, <1>6, <2>1, <2>2
  <2>4. /\ V \in Seq(Bytes) /\ Len(V) = Len(net) + Len(F)
        /\ \A p \in 1..Len(net) : V[p] = net[p]
        /\ \A p \in 1..Len(F) : V[Len(net) + p] = F[p]
    BY ONLY <2>3, JoinedAt
  <2>5. Len(S) = n + Len(F) /\ \A p \in 1..n : S[p] = stream[p]
    BY <1>1, <1>5, <2>1
  <2>6. \A p \in 1..Len(F) : S[n + p] = F[p]
    BY <1>1, <1>5, <2>1
  <2>7. ASSUME NEW i \in 1..Len(V) PROVE V[i] = S[r + i]
    <3>1. CASE i \in 1..b
      <4>1. r + i \in 1..n
        BY <1>2, <2>2, <3>1
      <4> QED BY <2>1, <2>2, <2>4, <2>5, <3>1, <4>1, Zenon
    <3>2. CASE ~(i \in 1..b)
      <4>1. PICK p : p = i - b
        OBVIOUS
      <4>2. p \in 1..Len(F) /\ i = b + p /\ r + i = n + p
        <5>1. Len(V) = b + Len(F) /\ i \in 1..Len(V) /\ b = n - r /\ b \in Nat /\ Len(F) \in Nat
          BY <1>6, <2>1, <2>2, <2>4, Zenon
        <5>2. n \in Nat /\ r \in 0..n
          BY <1>2
        <5> QED BY ONLY <5>1, <5>2, <3>2, <4>1
      <4> QED BY <2>1, <2>4, <2>6, <4>2
    <3> QED BY <3>1, <3>2
  <2>8. Len(V) = Len(S) - r /\ r \in 0..Len(S)
    <3>1. n \in Nat /\ r \in 0..n /\ Len(F) \in Nat
      BY <1>2, <1>6
    <3>2. Len(V) = b + Len(F) /\ b = n - r /\ Len(S) = n + Len(F)
      BY <2>1, <2>2, <2>4, <2>5, Zenon
    <3> QED BY ONLY <3>1, <3>2
  <2> QED BY <1>1, <1>4, <1>5, <2>1, <2>4, <2>7, <2>8, Zenon DEF OnItsWay
<1>8. Readable' = Readable /\ Taken' = t /\ Decoded' = Decoded
  BY <1>1, <1>4 DEF Readable, Taken, Decoded
<1>9. Buffered'
  <2>1. \A i \in 1..Readable : t + i \in 1..n
    BY <1>2, <1>3
  <2>2. \A i \in 1..Readable : in[read + i] = stream[t + i]
    BY <1>1, <1>2 DEF Buffered
  <2>3. \A i \in 1..Readable : in'[read' + i] = stream'[t + i]
    BY <1>1, <1>4, <1>5, <2>1, <2>2, Zenon
  <2>4. Readable' <= received'
    BY <1>1, <1>3, <1>4, <1>8
  <2> QED BY <1>8, <2>3, <2>4 DEF Buffered
<1>10. Progress(d)'
  <2>1. Len(due) \in Nat /\ Len(due') \in Nat
    BY <1>2, <1>5 DEF Framed
  <2>2. /\ d <= Len(due)
        /\ \A i \in 1..d : Decoded[i] = Msg(i) /\ EndAt(i) <= t
        /\ state = "FLAG" => \A i \in 1..Len(due) : d < i => t <= StartAt(i)
    BY <1>1, <1>2 DEF Progress
  <2>3. \A i \in 1..d : Decoded'[i] = Msg(i)' /\ EndAt(i)' <= t
    BY <1>2, <1>5, <1>8, <2>1, <2>2
  <2>4. ASSUME state' = "FLAG", NEW i \in 1..Len(due'), d < i PROVE t <= StartAt(i)'
    <3>1. CASE i \in 1..Len(due)
      BY <1>4, <1>5, <2>2, <2>4, <3>1
    <3>2. CASE ~(i \in 1..Len(due))
      <4>1. StartAt(i)' = n
        <5>1. Len(due) < i
          BY <2>1, <3>2
        <5> QED BY <1>1, <1>5, <5>1
      <4>2. t <= n
        BY <1>2, <1>3
      <4> QED BY <4>1, <4>2
    <3> QED BY <3>1, <3>2
  <2>5. ASSUME d < Len(due)
        PROVE  d < Len(due') /\ StartAt(d + 1)' = StartAt(d + 1) /\ Msg(d + 1)' = Msg(d + 1)
    BY <1>2, <1>5, <2>1, <2>5
  <2>6. d <= Len(due')
    BY <1>2, <1>5, <2>1, <2>2
  <2> QED BY <1>1, <1>2, <1>4, <1>8, <2>3, <2>4, <2>5, <2>6 DEF Progress
<1> QED BY <1>1, <1>5, <1>7, <1>8, <1>9, <1>10 DEF Progress

\* Bytes that are read go from what is on its way to what waits.
LEMMA ReadKeepsStream ==
  ASSUME CodecTypeOK, StreamInv, NEW k \in 1..BufferSize, ReadStream(k)
  PROVE  OnItsWay' /\ Buffered' /\ Framed' /\ Progress(Len(Decoded))'
<1>1. PICK d, n, t, r, b, V, R, B, T, rd : /\ d = Len(Decoded) /\ n = Len(stream) /\ t = Taken
        /\ r = received /\ b = Len(net) /\ V = net' /\ R = Readable /\ B = SubSeq(net, 1, k)
        /\ T = in' /\ rd = read
  BY Zenon
<1>2. /\ transport = "tcp" /\ k <= b /\ V = SubSeq(net, k + 1, b) /\ received' = r + k /\ Read(B)
      /\ UNCHANGED <<stream, due, read, state, flag, length, out, fired>>
  BY <1>1 DEF ReadStream, Read
<1>3. /\ OnItsWay /\ Buffered /\ Framed /\ Progress(d) /\ BufferOK
      /\ n \in Nat /\ r \in 0..n /\ b = n - r /\ net \in Seq(Bytes)
      /\ \A i \in 1..b : net[i] = stream[r + i]
  BY <1>1, <1>2 DEF StreamInv, OnItsWay, CodecTypeOK
<1>4. R \in Nat /\ t \in Nat /\ t + R = r /\ rd \in Nat
  BY <1>1, <1>3, WhereTaken
<1>5. b \in Nat /\ k \in 1..b /\ k \in Nat /\ b = Len(net)
  <2>1. b \in Nat /\ b = Len(net)
    BY <1>1, <1>3
  <2>2. k \in Nat /\ k >= 1
    BY BoundsAssumption
  <2> QED BY <1>2, <2>1, <2>2
<1>6. /\ B \in Seq(Bytes) /\ Len(B) = k /\ \A i \in 1..k : B[i] = net[i]
      /\ V \in Seq(Bytes) /\ Len(V) = b - k /\ \A i \in 1..(b - k) : V[i] = net[k + i]
  <2>1. net \in Seq(Bytes) /\ b = Len(net) /\ k \in 1..b
    BY <1>2, <1>3, <1>5, Zenon
  <2>2. B = SubSeq(net, 1, k) /\ V = SubSeq(net, k + 1, b)
    BY <1>1, <1>2
  <2>3. B \in Seq(Bytes) /\ Len(B) = k /\ \A i \in 1..k : B[i] = net[i]
    BY ONLY <2>1, <2>2
  <2>4. V \in Seq(Bytes) /\ Len(V) = b - k /\ \A i \in 1..(b - k) : V[i] = net[k + i]
    BY ONLY <2>1, <2>2
  <2> QED BY <2>3, <2>4, Zenon
<1>7. /\ BufferOK' /\ Readable' = R + k
      /\ \A i \in 1..R : T[rd + i] = in[rd + i]
      /\ \A i \in 1..k : T[rd + R + i] = B[i]
  <2>1. BufferOK /\ B \in Seq(Bytes) /\ Read(B)
    BY <1>2, <1>3, <1>6
  <2>2. /\ BufferOK' /\ Readable' = Readable + Len(B)
        /\ \A i \in 1..Readable : in'[read' + i] = in[read + i]
        /\ \A i \in 1..Len(B) : in'[read' + Readable + i] = B[i]
    BY ONLY <2>1, ReadAppends
  <2> QED BY <1>1, <1>2, <1>6, <2>2, Zenon
<1>8. OnItsWay'
  <2>1. r + k \in 0..n /\ b - k = n - (r + k)
    BY <1>2, <1>3, <1>5
  <2>2. \A i \in 1..(b - k) : V[i] = stream[r + k + i]
    <3> SUFFICES ASSUME NEW i \in 1..(b - k) PROVE V[i] = stream[r + k + i]
      OBVIOUS
    <3>1. PICK p : p = k + i
      OBVIOUS
    <3>2. p \in 1..b /\ r + p = r + k + i
      <4>1. r \in Nat
        BY <1>3
      <4> QED BY ONLY <1>5, <3>1, <4>1, i \in 1..(b - k)
    <3> QED BY <1>3, <1>6, <3>1, <3>2
  <2> QED BY <1>1, <1>2, <1>3, <1>6, <2>1, <2>2, Zenon DEF OnItsWay
<1>9. Taken' = t
  BY <1>2, <1>4, <1>5, <1>7 DEF Taken
<1>10. Buffered'
  <2>1. \A i \in 1..R : in[rd + i] = stream[t + i]
    BY <1>1, <1>3 DEF Buffered
  <2>2. ASSUME NEW i \in 1..(R + k) PROVE T[rd + i] = stream[t + i]
    <3>1. CASE i \in 1..R
      BY <1>7, <2>1, <3>1
    <3>2. CASE ~(i \in 1..R)
      <4>1. PICK p : p = i - R
        OBVIOUS
      <4>2. p \in 1..k /\ rd + i = rd + R + p /\ t + i = r + p
        <5>1. i \in 1..(R + k) /\ R \in Nat /\ k \in Nat /\ t + R = r /\ t \in Nat /\ rd \in Nat
          BY <1>4, <1>5
        <5> QED BY ONLY <3>2, <4>1, <5>1
      <4>3. p \in 1..b
        BY <1>2, <1>5, <4>2
      <4> QED BY <1>3, <1>6, <1>7, <4>2, <4>3
    <3> QED BY <3>1, <3>2
  <2>3. R + k <= r + k
    BY <1>4, <1>5
  <2> QED BY <1>1, <1>2, <1>7, <1>9, <2>2, <2>3 DEF Buffered
<1>11. Framed' /\ \A i : Msg(i)' = Msg(i) /\ EndAt(i)' = EndAt(i) /\ StartAt(i)' = StartAt(i)
  BY <1>2, <1>3, HistoryStays
<1>12. Decoded' = Decoded
  BY <1>2 DEF Decoded
<1> QED BY <1>1, <1>2, <1>3, <1>8, <1>9, <1>10, <1>11, <1>12, Zenon DEF Progress

-----------------------------------------------------------------------------
(* The decoder takes the stream apart.                                     *)

\* While the decoder works nothing happens to the stream.
LEMMA DecodingOnly ==
  ASSUME StreamInv, transport = "tcp", UNCHANGED netVars
  PROVE  OnItsWay' /\ Framed' /\ \A i : Msg(i)' = Msg(i) /\ EndAt(i)' = EndAt(i) /\ StartAt(i)' = StartAt(i)
<1>1. OnItsWay /\ Framed /\ UNCHANGED <<stream, due, received, net>>
  BY DEF StreamInv, netVars
<1> QED BY <1>1, HistoryStays, Zenon DEF OnItsWay

\* To consume n bytes, with a checkpoint or without.
Consumes(n) ==
  /\ n \in 0..Readable
  /\ BufferOK' /\ Readable' = Readable - n
  /\ \A i \in 1..(Readable - n) : in'[read' + i] = in[read + n + i]

\* What is consumed is the next part of the stream.
LEMMA DecoderMoves ==
  ASSUME CodecTypeOK, StreamInv, transport = "tcp", UNCHANGED netVars, NEW n, Consumes(n)
  PROVE  /\ n \in Nat /\ Taken \in Nat /\ Taken + n <= received /\ received \in 0..Len(stream)
         /\ Len(stream) \in Nat /\ Taken' = Taken + n /\ Buffered'
         /\ \A i \in 1..n : in[read + i] = stream[Taken + i]
<1>1. /\ Buffered /\ received \in 0..Len(stream) /\ Len(stream) \in Nat /\ received \in Nat
      /\ BufferOK /\ UNCHANGED <<stream, received>>
  BY DEF StreamInv, OnItsWay, CodecTypeOK, netVars
<1>2. Readable \in Nat
  BY <1>1, WhereTaken
<1>3. n \in 0..Readable /\ n \in Nat /\ Readable' = Readable - n
      /\ \A i \in 1..(Readable - n) : in'[read' + i] = in[read + n + i]
  BY <1>2 DEF Consumes
<1> QED BY <1>1, <1>3, TakenMoves

\* A checkpoint consumes.
LEMMA CheckpointConsumes ==
  ASSUME BufferOK, NEW s, NEW n \in 0..Readable, Checkpoint(s, n)
  PROVE  Consumes(n) /\ state' = s
BY CheckpointMoves DEF Consumes

\* So does a skipped keep-alive, without a checkpoint.
LEMMA SkipConsumes ==
  ASSUME BufferOK, Readable >= 1, read' = read + 1, UNCHANGED in
  PROVE  Consumes(1)
<1>1. in \in Seq(Bytes) /\ Len(in) \in Nat /\ read \in 0..Len(in) /\ Readable = Len(in) - read
  BY DEF BufferOK, Readable
<1>2. Readable' = Readable - 1
  BY <1>1 DEF Readable
<1>3. \A i \in 1..(Readable - 1) : in'[read' + i] = in[read + 1 + i]
  BY <1>1
<1>4. BufferOK'
  BY <1>1 DEF BufferOK
<1> QED BY <1>1, <1>2, <1>3, <1>4 DEF Consumes

\* A step that consumes nothing and decodes nothing.
LEMMA NothingTaken ==
  ASSUME StreamInv, transport = "tcp", Decoded' = Decoded,
         UNCHANGED <<netVars, in, read, state, flag, length>>
  PROVE  StreamInv'
<1>1. OnItsWay' /\ Framed' /\ \A i : Msg(i)' = Msg(i) /\ EndAt(i)' = EndAt(i) /\ StartAt(i)' = StartAt(i)
  BY DecodingOnly
<1>2. Readable' = Readable /\ Taken' = Taken /\ UNCHANGED <<stream, received, due, in, read, state, flag, length>>
  BY DEF Readable, Taken, netVars
<1>3. Buffered /\ Progress(Len(Decoded))
  BY DEF StreamInv
<1>4. Buffered'
  BY <1>2, <1>3 DEF Buffered
<1>5. Progress(Len(Decoded))'
  BY <1>1, <1>2, <1>3 DEF Progress
<1> QED BY <1>1, <1>4, <1>5 DEF StreamInv

\* A flag of 0 is a keep-alive, any other the first byte of the next message to deliver.
LEMMA FlagKeepsStream ==
  ASSUME CodecTypeOK, StreamInv, transport = "tcp", DecodeFlag
  PROVE  StreamInv'
<1>1. UNCHANGED netVars /\ state = "FLAG" /\ UNCHANGED <<fired, out, length>>
  BY DEF DecodeFlag, NeedsMore
<1>2. Decoded' = Decoded /\ BufferOK /\ Len(Decoded) \in Nat
  BY <1>1, DecodedType DEF Decoded, CodecTypeOK
<1>3. CASE NeedsMore(1)
  BY <1>1, <1>2, <1>3, NothingTaken DEF NeedsMore
<1>4. CASE ~NeedsMore(1)
  <2>1. /\ Readable >= 1 /\ flag' = in[read + 1]
        /\ IF flag' = 0 THEN read' = read + 1 /\ UNCHANGED <<in, state>>
                        ELSE Checkpoint("LENGTH", 1)
    BY <1>4 DEF DecodeFlag
  <2>2. Consumes(1) /\ state' = IF flag' = 0 THEN "FLAG" ELSE "LENGTH"
    <3>1. CASE flag' = 0
      BY <1>1, <1>2, <2>1, <3>1, SkipConsumes
    <3>2. CASE flag' # 0
      <4>1. 1 \in 0..Readable
        BY <1>2, <2>1 DEF BufferOK, Readable
      <4> QED BY <1>2, <2>1, <3>2, <4>1, CheckpointConsumes
    <3> QED BY <3>1, <3>2
  <2>3. PICK t, d : t = Taken /\ d = Len(Decoded)
    BY Zenon
  <2>4. /\ OnItsWay' /\ Framed'
        /\ \A i : Msg(i)' = Msg(i) /\ EndAt(i)' = EndAt(i) /\ StartAt(i)' = StartAt(i)
    BY <1>1, DecodingOnly
  <2>5. /\ t \in Nat /\ Taken' = t + 1 /\ Buffered' /\ in[read + 1] = stream[t + 1]
        /\ t + 1 <= Len(stream) /\ Len(stream) \in Nat
    <3>1. /\ Taken \in Nat /\ Taken + 1 <= received /\ received \in 0..Len(stream)
          /\ Len(stream) \in Nat /\ Taken' = Taken + 1 /\ Buffered'
          /\ \A i \in 1..1 : in[read + i] = stream[Taken + i]
      BY <1>1, <2>2, DecoderMoves
    <3> QED BY <2>3, <3>1
  <2>6. Framed /\ Progress(d) /\ d \in Nat /\ due' = due
    BY <1>1, <1>2, <2>3 DEF StreamInv, netVars
  <2>7. IF stream[t + 1] = 0 THEN \A i \in 1..Len(due) : d < i => t + 1 <= StartAt(i)
        ELSE d < Len(due) /\ t = StartAt(d + 1) /\ stream[t + 1] = FlagOf(Msg(d + 1))
    BY <1>1, <2>3, <2>5, <2>6, FlagMeans
  <2>8. Progress(d)'
    <3>1. d <= Len(due) /\ \A i \in 1..d : Decoded[i] = Msg(i) /\ EndAt(i) <= t
      BY <2>3, <2>6 DEF Progress
    <3>2. \A i \in 1..d : EndAt(i) <= t + 1
      <4>1. \A i \in 1..d : i \in 1..Len(due)
        BY <2>6, <3>1 DEF Framed
      <4>2. \A i \in 1..Len(due) : EndAt(i) \in Nat
        BY <2>6 DEF Framed, FrameAt
      <4> QED BY <2>5, <3>1, <4>1, <4>2
    <3>3. CASE flag' = 0
      <4>1. state' = "FLAG" /\ \A i \in 1..Len(due) : d < i => t + 1 <= StartAt(i)
        BY <2>1, <2>2, <2>5, <2>7, <3>3
      <4> QED BY <1>2, <2>4, <2>5, <2>6, <3>1, <3>2, <4>1, Zenon DEF Progress
    <3>4. CASE flag' # 0
      <4>1. state' = "LENGTH" /\ d < Len(due) /\ t = StartAt(d + 1) /\ flag' = FlagOf(Msg(d + 1))
        BY <2>1, <2>2, <2>5, <2>7, <3>4
      <4> QED BY <1>2, <2>4, <2>5, <2>6, <3>1, <3>2, <4>1, Zenon DEF Progress
    <3> QED BY <3>3, <3>4
  <2> QED BY <1>2, <2>3, <2>4, <2>5, <2>8 DEF StreamInv, Progress
<1> QED BY <1>3, <1>4

\* The length that is decoded is the one of the next message to deliver.
LEMMA LengthKeepsStream ==
  ASSUME CodecTypeOK, StreamInv, transport = "tcp", DecodeLength
  PROVE  StreamInv'
<1>1. UNCHANGED netVars /\ state = "LENGTH" /\ UNCHANGED <<fired, out, flag>>
  BY DEF DecodeLength, NeedsMore
<1>2. Decoded' = Decoded /\ BufferOK /\ Len(Decoded) \in Nat
  BY <1>1, DecodedType DEF Decoded, CodecTypeOK
<1>3. CASE NeedsMore(Width(flag))
  BY <1>1, <1>2, <1>3, NothingTaken DEF NeedsMore
<1>4. CASE ~NeedsMore(Width(flag))
  <2>1. PICK t, d, w, P : t = Taken /\ d = Len(Decoded) /\ w = Width(flag) /\ P = Peek(w)
    BY Zenon
  <2>2. Readable >= w /\ length' = VarIntDecode(flag, P) /\ Checkpoint("BODY", w)
    BY <1>4, <2>1 DEF DecodeLength
  <2>3. Framed /\ Progress(d) /\ d \in Nat /\ due' = due
    BY <1>1, <1>2, <2>1 DEF StreamInv, netVars
  <2>4. d < Len(due) /\ Len(due) \in Nat /\ t = StartAt(d + 1) + 1 /\ flag = FlagOf(Msg(d + 1))
    BY <1>1, <2>1, <2>3 DEF Progress, Framed
  <2>5. PICK i, m, F, h, s : i = d + 1 /\ m = Msg(i) /\ F = Frame(m) /\ h = HeadSize(m) /\ s = StartAt(i)
    OBVIOUS
  <2>6. i \in 1..Len(due)
    BY <2>3, <2>4, <2>5
  <2>7. /\ w \in Nat /\ h = 1 + w /\ s \in Nat
        /\ \A j \in 1..w : stream[s + 1 + j] = F[1 + j]
        /\ F \in Seq(Bytes) /\ Len(F) = h + Len(m) /\ Len(m) \in Nat
        /\ VarIntDecode(flag, SubSeq(F, 2, h)) = Len(m)
    <3>1. /\ flag = FlagOf(m) /\ m \in Messages /\ s \in Nat
          /\ \A j \in 1..Width(FlagOf(m)) : stream[s + 1 + j] = F[1 + j]
      BY <2>3, <2>4, <2>5, <2>6, FrameLies, Zenon
    <3>2. /\ h = 1 + Width(FlagOf(m)) /\ Width(FlagOf(m)) \in Nat /\ Len(m) \in Nat
          /\ F \in Seq(Bytes) /\ Len(F) = h + Len(m)
          /\ VarIntDecode(FlagOf(m), SubSeq(F, 2, h)) = Len(m)
      BY <2>5, <3>1, FrameParts
    <3> QED BY <2>1, <3>1, <3>2
  <2>8. Consumes(w) /\ state' = "BODY"
    <3>1. w \in 0..Readable
      BY <1>2, <2>2, <2>7 DEF BufferOK, Readable
    <3> QED BY <1>2, <2>2, <3>1, CheckpointConsumes
  <2>9. /\ OnItsWay' /\ Framed'
        /\ \A j : Msg(j)' = Msg(j) /\ EndAt(j)' = EndAt(j) /\ StartAt(j)' = StartAt(j)
    BY <1>1, DecodingOnly
  <2>10. /\ t \in Nat /\ Taken' = t + w /\ Buffered'
         /\ \A j \in 1..w : in[read + j] = stream[t + j]
    BY <1>1, <2>1, <2>8, DecoderMoves
  <2>11. P = SubSeq(F, 2, h)
    <3>1. PICK Q : Q = SubSeq(F, 2, h)
      BY Zenon
    <3>2. Q \in Seq(Bytes) /\ Len(Q) = w /\ \A j \in 1..w : Q[j] = F[1 + j]
      BY ONLY <2>7, <3>1
    <3>3. P \in Seq(Bytes) /\ Len(P) = w /\ \A j \in 1..w : P[j] = in[read + j]
      <4>1. w \in 0..Readable
        BY <1>2, <2>2, <2>7 DEF BufferOK, Readable
      <4> QED BY <1>2, <2>1, <4>1, PeekType
    <3>4. \A j \in 1..w : P[j] = Q[j]
      <4>1. t = s + 1
        BY <2>4, <2>5
      <4>2. \A j \in 1..w : in[read + j] = stream[s + 1 + j]
        BY <2>10, <4>1, Zenon
      <4> QED BY <2>7, <3>2, <3>3, <4>2, Zenon
    <3>5. P = Q
      BY ONLY <3>2, <3>3, <3>4, SeqEqual, Zenon
    <3> QED BY <3>1, <3>5
  <2>12. length' = Len(m)
    BY <2>2, <2>7, <2>11
  <2>13. Progress(d)'
    <3>1. d <= Len(due) /\ \A j \in 1..d : Decoded[j] = Msg(j) /\ EndAt(j) <= t
      BY <2>1, <2>3 DEF Progress
    <3>2. \A j \in 1..d : EndAt(j) <= t + w
      <4>1. \A j \in 1..d : j \in 1..Len(due)
        BY <2>3, <2>4
      <4>2. \A j \in 1..Len(due) : EndAt(j) \in Nat
        BY <2>3 DEF Framed, FrameAt
      <4> QED BY <2>7, <2>10, <3>1, <4>1, <4>2
    <3>3. Taken' = s + h
      <4>1. t = s + 1
        BY <2>4, <2>5
      <4>2. Taken' = t + w /\ h = 1 + w /\ s \in Nat /\ w \in Nat
        BY <2>7, <2>10
      <4> QED BY ONLY <4>1, <4>2
    <3> QED BY <1>2, <2>3, <2>4, <2>5, <2>8, <2>9, <2>10, <2>12, <3>1, <3>2, <3>3, Zenon DEF Progress
  <2> QED BY <1>2, <2>1, <2>9, <2>10, <2>13 DEF StreamInv, Progress
<1> QED BY <1>3, <1>4

\* The body that is decoded is the next message to deliver.
LEMMA BodyKeepsStream ==
  ASSUME CodecTypeOK, StreamInv, transport = "tcp", DecodeBody
  PROVE  StreamInv'
<1>1. UNCHANGED netVars /\ state = "BODY" /\ UNCHANGED <<fired, flag, length>>
  BY DEF DecodeBody, NeedsMore
<1>2. BufferOK /\ Decoded \in Seq(Seq(Bytes)) /\ Len(Decoded) \in Nat /\ length \in Nat
  BY DecodedType DEF CodecTypeOK
<1>3. CASE NeedsMore(length)
  <2>1. Decoded' = Decoded /\ UNCHANGED <<in, read, state, length>>
    BY <1>1, <1>3 DEF NeedsMore, Decoded
  <2> QED BY <1>1, <2>1, NothingTaken
<1>4. CASE ~NeedsMore(length)
  <2>1. PICK t, d, k, P, D : t = Taken /\ d = Len(Decoded) /\ k = length /\ P = Peek(k) /\ D = Decoded
    BY Zenon
  <2>2. Readable >= k /\ out' = Append(out, P) /\ Checkpoint("FLAG", k)
    BY <1>4, <2>1 DEF DecodeBody
  <2>3. Framed /\ Progress(d) /\ d \in Nat /\ due' = due
    BY <1>1, <1>2, <2>1 DEF StreamInv, netVars
  <2>4. /\ d < Len(due) /\ Len(due) \in Nat
        /\ t = StartAt(d + 1) + HeadSize(Msg(d + 1)) /\ k = Len(Msg(d + 1))
    BY <1>1, <2>1, <2>3 DEF Progress, Framed
  <2>5. PICK i, m, h, s, e : /\ i = d + 1 /\ m = Msg(i) /\ h = HeadSize(m)
                             /\ s = StartAt(i) /\ e = EndAt(i)
    OBVIOUS
  <2>6. i \in 1..Len(due)
    BY <2>3, <2>4, <2>5
  <2>7. /\ m \in Seq(Bytes) /\ k = Len(m) /\ t = s + h
        /\ e = s + h + Len(m) /\ e \in Nat
        /\ \A j \in 1..Len(m) : stream[s + h + j] = m[j]
    <3>1. k = Len(m) /\ t = s + h
      BY <2>4, <2>5
    <3>2. /\ m \in Seq(Bytes) /\ e = s + h + Len(m) /\ e \in 0..Len(stream)
          /\ \A j \in 1..Len(m) : stream[s + h + j] = m[j]
      BY <2>3, <2>5, <2>6, FrameLies, Zenon
    <3>3. Len(stream) \in Nat
      BY DEF StreamInv, OnItsWay
    <3> QED BY <3>1, <3>2, <3>3
  <2>8. Consumes(k) /\ state' = "FLAG"
    <3>1. k \in 0..Readable
      BY <1>2, <2>1, <2>2 DEF BufferOK, Readable
    <3> QED BY <1>2, <2>2, <3>1, CheckpointConsumes
  <2>9. /\ OnItsWay' /\ Framed'
        /\ \A j : Msg(j)' = Msg(j) /\ EndAt(j)' = EndAt(j) /\ StartAt(j)' = StartAt(j)
    BY <1>1, DecodingOnly
  <2>10. /\ t \in Nat /\ Taken' = t + k /\ Buffered'
         /\ \A j \in 1..k : in[read + j] = stream[t + j]
    BY <1>1, <2>1, <2>8, DecoderMoves
  <2>11. P = m
    <3>1. P \in Seq(Bytes) /\ Len(P) = k /\ \A j \in 1..k : P[j] = in[read + j]
      <4>1. k \in 0..Readable
        BY <1>2, <2>1, <2>2 DEF BufferOK, Readable
      <4> QED BY <1>2, <2>1, <4>1, PeekType
    <3>2. \A j \in 1..k : P[j] = m[j]
      BY <2>7, <2>10, <3>1, Zenon
    <3> QED BY ONLY <2>7, <3>1, <3>2, SeqEqual, Zenon
  <2>12. /\ Len(Decoded') = i /\ Decoded'[i] = m
         /\ \A j \in 1..d : Decoded'[j] = D[j]
    <3>1. PICK f, o, o2, D2 : f = fired /\ o = out /\ o2 = out' /\ D2 = Decoded'
      OBVIOUS
    <3>2. D = f \o o /\ o2 = Append(o, P) /\ D2 = f \o o2
      BY <1>1, <2>1, <2>2, <3>1 DEF Decoded
    <3>3. f \in Seq(Seq(Bytes)) /\ o \in Seq(Seq(Bytes)) /\ P \in Seq(Bytes)
      BY <2>7, <2>11, <3>1 DEF CodecTypeOK
    <3>4. D2 = Append(D, P) /\ D \in Seq(Seq(Bytes))
      BY <3>2, <3>3, OneMore, Zenon
    <3>5. Len(D2) = Len(D) + 1 /\ D2[Len(D) + 1] = P /\ \A j \in 1..Len(D) : D2[j] = D[j]
      BY ONLY <3>3, <3>4
    <3> QED BY <2>1, <2>5, <2>11, <3>1, <3>5
  <2>13. Progress(i)'
    <3>1. d <= Len(due) /\ \A j \in 1..d : D[j] = Msg(j) /\ EndAt(j) <= t
      BY <2>1, <2>3 DEF Progress
    <3>2. Taken' = e
      BY <2>7, <2>10
    <3>3. \A j \in 1..i : EndAt(j) <= e
      <4>1. \A j \in 1..i : j \in 1..Len(due) /\ (j \in 1..d \/ j = i)
        BY <2>3, <2>4, <2>5
      <4>2. \A j \in 1..Len(due) : EndAt(j) \in Nat
        BY <2>3 DEF Framed, FrameAt
      <4>3. t <= e /\ t \in Nat /\ e \in Nat
        BY <1>2, <2>1, <2>7, <2>10
      <4>4. \A j \in 1..d : EndAt(j) <= t
        BY <3>1
      <4>5. e = EndAt(i)
        BY <2>5
      <4> QED BY ONLY <4>1, <4>2, <4>3, <4>4, <4>5
    <3>4. \A j \in 1..i : Decoded'[j] = Msg(j)
      <4>1. \A j \in 1..i : j \in 1..d \/ j = i
        BY <2>3, <2>5
      <4> QED BY <2>5, <2>12, <3>1, <4>1
    <3>5. \A j \in 1..Len(due) : i < j => e <= StartAt(j)
      BY <2>3, <2>5, <2>6 DEF Framed
    <3> QED BY <2>3, <2>6, <2>8, <2>9, <3>2, <3>3, <3>4, <3>5 DEF Progress
  <2> QED BY <2>9, <2>10, <2>12, <2>13 DEF StreamInv, Progress
<1> QED BY <1>3, <1>4

\* To hand on what was decoded changes nothing of what was decoded.
LEMMA FireKeepsStream ==
  ASSUME CodecTypeOK, StreamInv, transport = "tcp", FireOut
  PROVE  StreamInv'
<1>1. PICK f, o, f2, o2 : f = fired /\ o = out /\ f2 = fired' /\ o2 = out'
  OBVIOUS
<1>2. f \in Seq(Seq(Bytes)) /\ o \in Seq(Seq(Bytes)) /\ f2 = f \o o /\ o2 = <<>>
  BY <1>1 DEF FireOut, CodecTypeOK
<1>3. f2 \o o2 = f \o o
  BY ONLY <1>2
<1>4. Decoded' = Decoded
  BY <1>1, <1>3 DEF Decoded
<1> QED BY <1>4, NothingTaken DEF FireOut

-----------------------------------------------------------------------------
(* How often a message is in a sequence.                                   *)

\* The places of a message are finitely many.
LEMMA PlacesFinite ==
  ASSUME NEW S, NEW s \in Seq(S), NEW m
  PROVE  /\ IsFiniteSet({i \in DOMAIN s : s[i] = m})
         /\ Count(s, m) \in Nat
<1>1. DOMAIN s = 1..Len(s) /\ Len(s) \in Nat
  OBVIOUS
<1>2. IsFiniteSet(1..Len(s))
  BY <1>1, FS_Interval
<1>3. {i \in DOMAIN s : s[i] = m} \in SUBSET (1..Len(s))
  BY <1>1
<1>4. IsFiniteSet({i \in DOMAIN s : s[i] = m})
  BY <1>2, <1>3, FS_Subset
<1> QED BY <1>4, FS_CardinalityType DEF Count

\* One more at the end.
LEMMA CountAppended ==
  ASSUME NEW S, NEW s \in Seq(S), NEW x \in S, NEW m
  PROVE  Count(Append(s, x), m) = Count(s, m) + (IF x = m THEN 1 ELSE 0) /\ Count(s, m) \in Nat
<1>0. PICK t : t = Append(s, x)
  BY Zenon
<1>1. PICK A, B, n : A = {i \in DOMAIN s : s[i] = m} /\ B = {i \in DOMAIN t : t[i] = m} /\ n = Len(s)
  BY Zenon
<1>2. IsFiniteSet(A) /\ Cardinality(A) \in Nat /\ Cardinality(A) = Count(s, m) /\ Cardinality(B) = Count(t, m)
  BY <1>1, PlacesFinite, Zenon DEF Count
<1>3. /\ n \in Nat /\ DOMAIN s = 1..n /\ DOMAIN t = 1..(n + 1) /\ t[n + 1] = x
      /\ \A i \in 1..n : t[i] = s[i]
  BY <1>0, <1>1
<1>4. CASE x = m
  <2>1. B = A \cup {n + 1} /\ n + 1 \notin A
    BY <1>1, <1>3, <1>4
  <2>2. Cardinality(B) = Cardinality(A) + 1
    BY <1>2, <2>1, FS_AddElement, Zenon
  <2> QED BY <1>0, <1>2, <1>4, <2>2
<1>5. CASE x # m
  <2>1. B = A
    BY <1>1, <1>3, <1>5
  <2> QED BY <1>0, <1>2, <1>5, <2>1
<1> QED BY <1>0, <1>4, <1>5

\* One less.
LEMMA RemovedAt ==
  ASSUME NEW S, NEW s \in Seq(S), NEW k \in 1..Len(s)
  PROVE  /\ Without(s, k) \in Seq(S) /\ Len(Without(s, k)) = Len(s) - 1
         /\ \A i \in 1..(Len(s) - 1) : Without(s, k)[i] = IF i < k THEN s[i] ELSE s[i + 1]
<1>1. PICK t, u, v, n : /\ t = Without(s, k) /\ n = Len(s)
                        /\ u = SubSeq(s, 1, k - 1) /\ v = SubSeq(s, k + 1, n)
  BY Zenon
<1>2. n \in Nat /\ k \in 1..n
  BY <1>1
<1>3. u \in Seq(S) /\ Len(u) = k - 1 /\ \A i \in 1..(k - 1) : u[i] = s[i]
  BY <1>1, <1>2
<1>4. v \in Seq(S) /\ Len(v) = n - k /\ \A i \in 1..(n - k) : v[i] = s[k + i]
  BY <1>1, <1>2
<1>5. t = u \o v
  BY <1>1 DEF Without
<1>6. /\ t \in Seq(S) /\ Len(t) = (k - 1) + (n - k)
      /\ \A i \in 1..(k - 1) : t[i] = u[i]
      /\ \A i \in 1..(n - k) : t[k - 1 + i] = v[i]
  <2>1. u \in Seq(S) /\ v \in Seq(S) /\ Len(u) = k - 1 /\ Len(v) = n - k
    BY <1>3, <1>4
  <2>2. PICK a, b : a = Len(u) /\ b = Len(v)
    BY Zenon
  <2>3. /\ t \in Seq(S) /\ Len(t) = a + b
        /\ \A i \in 1..a : t[i] = u[i]
        /\ \A i \in 1..b : t[a + i] = v[i]
    <3>1. u \in Seq(S) /\ v \in Seq(S) /\ t = u \o v /\ a = Len(u) /\ b = Len(v)
      BY <1>5, <2>1, <2>2
    <3> QED BY ONLY <3>1
  <2> QED BY <2>1, <2>2, <2>3
<1>7. ASSUME NEW i \in 1..(n - 1), ~(i < k) PROVE t[i] = s[i + 1]
  <2>1. PICK p : p = i - (k - 1)
    OBVIOUS
  <2>2. p \in 1..(n - k) /\ k - 1 + p = i /\ k + p = i + 1
    BY ONLY <1>2, <1>7, <2>1
  <2> QED BY <1>4, <1>6, <2>2, Zenon
<1>8. \A i \in 1..(n - 1) : i < k => t[i] = s[i]
  BY <1>2, <1>3, <1>6
<1> QED BY <1>1, <1>2, <1>6, <1>7, <1>8

\* How often it is there when one place is taken out.
LEMMA CountRemoved ==
  ASSUME NEW S, NEW s \in Seq(S), NEW k \in 1..Len(s), NEW m
  PROVE  /\ Count(Without(s, k), m) = Count(s, m) - (IF s[k] = m THEN 1 ELSE 0)
         /\ Count(s, m) \in Nat
<1>1. PICK t, A, B, n : /\ t = Without(s, k) /\ n = Len(s)
                        /\ A = {i \in DOMAIN s : s[i] = m} /\ B = {i \in DOMAIN t : t[i] = m}
  BY Zenon
<1>2. n \in Nat /\ k \in 1..n /\ DOMAIN s = 1..n
  BY <1>1
<1>3. /\ t \in Seq(S) /\ Len(t) = n - 1
      /\ \A i \in 1..(n - 1) : t[i] = IF i < k THEN s[i] ELSE s[i + 1]
  BY <1>1, RemovedAt, Zenon
<1>4. DOMAIN t = 1..(n - 1)
  BY <1>3
<1>5. /\ IsFiniteSet(A) /\ IsFiniteSet(B) /\ Count(s, m) = Cardinality(A) /\ Count(t, m) = Cardinality(B)
      /\ Count(s, m) \in Nat
  <2>1. /\ IsFiniteSet({i \in DOMAIN s : s[i] = m}) /\ Count(s, m) \in Nat
        /\ IsFiniteSet({i \in DOMAIN t : t[i] = m})
    BY <1>3, PlacesFinite, Zenon
  <2> QED BY <1>1, <2>1 DEF Count
<1>6. PICK f : f = [i \in B |-> IF i < k THEN i ELSE i + 1]
  BY Zenon
<1>7. /\ \A i \in 1..n : i \in A <=> s[i] = m
      /\ \A i \in 1..(n - 1) : i \in B <=> (IF i < k THEN s[i] = m ELSE s[i + 1] = m)
      /\ A \subseteq 1..n /\ B \subseteq 1..(n - 1)
  BY <1>1, <1>2, <1>3, <1>4
<1>8. f \in Bijection(B, A \ {k})
  <2>1. ASSUME NEW i \in B PROVE f[i] \in A \ {k}
    <3>1. i \in 1..(n - 1) /\ i \in 1..n /\ i + 1 \in 1..n
      BY <1>2, <1>7
    <3> QED BY <1>2, <1>6, <1>7, <3>1
  <2>2. ASSUME NEW i \in B, NEW j \in B, f[i] = f[j] PROVE i = j
    <3>1. i \in 1..(n - 1) /\ j \in 1..(n - 1)
      BY <1>7
    <3> QED BY <1>2, <1>6, <2>2, <3>1
  <2>3. ASSUME NEW a \in A \ {k} PROVE \E i \in B : f[i] = a
    <3>1. a \in 1..n /\ s[a] = m /\ a # k
      BY <1>7
    <3>2. CASE a < k
      <4>1. a \in 1..(n - 1)
        BY <1>2, <3>1, <3>2
      <4>2. a \in B
        BY <1>7, <3>1, <3>2, <4>1
      <4> QED BY <1>6, <3>2, <4>2
    <3>3. CASE a > k
      <4>1. PICK i : i = a - 1
        OBVIOUS
      <4>2. i \in 1..(n - 1) /\ ~(i < k) /\ i + 1 = a
        BY <1>2, <3>1, <3>3, <4>1
      <4>3. i \in B
        BY <1>7, <3>1, <4>2
      <4> QED BY <1>6, <4>2, <4>3
    <3> QED BY <1>2, <3>1, <3>2, <3>3
  <2>4. f \in [B -> A \ {k}]
    BY <1>6, <2>1
  <2> QED BY <2>2, <2>3, <2>4 DEF Bijection, Injection, Surjection, IsInjective
<1>9. Cardinality(B) = Cardinality(A \ {k})
  <2>1. IsFiniteSet(A \ {k})
    BY <1>5, FS_RemoveElement, Zenon
  <2> QED BY <1>5, <1>8, <2>1, FS_Bijection DEF ExistsBijection
<1>10. Cardinality(A \ {k}) = IF k \in A THEN Cardinality(A) - 1 ELSE Cardinality(A)
  BY <1>5, FS_RemoveElement, Zenon
<1>11. k \in A <=> s[k] = m
  BY <1>2, <1>7
<1>12. Count(t, m) = Count(s, m) - (IF s[k] = m THEN 1 ELSE 0)
  <2>1. CASE s[k] = m
    BY ONLY <1>5, <1>9, <1>10, <1>11, <2>1
  <2>2. CASE s[k] # m
    BY ONLY <1>5, <1>9, <1>10, <1>11, <2>2
  <2> QED BY <2>1, <2>2
<1> QED BY <1>1, <1>5, <1>12

-----------------------------------------------------------------------------
(* Datagrams.                                                              *)

\* A datagram is the frame of one message only.
LEMMA FrameOfOne ==
  ASSUME NEW a \in Messages, NEW b \in Messages, Frame(a) = Frame(b)
  PROVE  a = b
<1>1. PICK F, f : F = Frame(a) /\ f = FlagOf(a)
  OBVIOUS
<1>2. F = Frame(b) /\ f = FlagOf(b)
  BY <1>1 DEF FlagOf
<1>3. SubSeq(F, HeadSize(a) + 1, Len(F)) = a /\ HeadSize(a) = 1 + Width(f)
  BY <1>1, FrameParts, Zenon
<1>4. SubSeq(F, HeadSize(b) + 1, Len(F)) = b /\ HeadSize(b) = 1 + Width(f)
  BY <1>2, FrameParts, Zenon
<1> QED BY <1>3, <1>4, Zenon

\* A datagram less.
LEMMA DatagramsLeft ==
  ASSUME Datagrams, NEW k \in 1..Len(net), net' = Without(net, k), written' = written
  PROVE  Datagrams'
<1>1. PICK n, N : n = Len(net) /\ N = Without(net, k)
  OBVIOUS
<1>2. /\ N \in Seq(Seq(Bytes)) /\ Len(N) = n - 1 /\ n \in Nat
      /\ \A i \in 1..(n - 1) : N[i] = IF i < k THEN net[i] ELSE net[i + 1]
  <2>1. net \in Seq(Seq(Bytes)) /\ k \in 1..Len(net) /\ Len(net) \in Nat
    BY DEF Datagrams
  <2> QED BY <1>1, <2>1, RemovedAt, Zenon
<1>3. ASSUME NEW i \in 1..(n - 1) PROVE \E m \in Messages : Sent(m) /\ N[i] = Frame(m)
  <2>1. i \in 1..n /\ i + 1 \in 1..n
    BY <1>2
  <2> QED BY <1>1, <1>2, <2>1, Zenon DEF Datagrams
<1> QED BY <1>1, <1>2, <1>3 DEF Datagrams, Sent

\* The numbers that Balanced relates.
LEMMA CountsAreNumbers ==
  ASSUME CodecTypeOK, Datagrams, NEW m
  PROVE  /\ Count(net, Frame(m)) \in Nat /\ Count(Decoded, m) \in Nat
         /\ Count(written, m) \in Nat /\ repeats \in Nat
<1>1. net \in Seq(Seq(Bytes)) /\ Decoded \in Seq(Seq(Bytes)) /\ written \in Seq(Messages)
  BY DecodedType DEF Datagrams, CodecTypeOK
<1>2. Count(net, Frame(m)) \in Nat /\ Count(Decoded, m) \in Nat
  BY <1>1, PlacesFinite, Zenon
<1>3. Count(written, m) \in Nat
  BY <1>1, PlacesFinite, Zenon
<1> QED BY <1>2, <1>3 DEF CodecTypeOK

\* A message written is one datagram more.
LEMMA WriteKeepsDatagrams ==
  ASSUME CodecTypeOK, DatagramInv, transport = "udp", NEW m \in Messages, Write(m)
  PROVE  DatagramInv'
<1> SUFFICES ASSUME ~truncated' PROVE DatagramInv'
  BY Zenon DEF DatagramInv
<1>1. PICK F, N, W : F = Frame(m) /\ N = net' /\ W = written'
  OBVIOUS
<1>2. /\ N = Append(net, F) /\ W = Append(written, m)
      /\ UNCHANGED <<transport, repeats, truncated>>
      /\ UNCHANGED <<in, read, state, flag, length, out, reader, fired>>
  BY <1>1 DEF Write
<1>3. /\ Datagrams
      /\ \A i \in 1..Len(Decoded) : Decoded[i] # <<>> /\ Sent(Decoded[i])
      /\ \/ state = "FLAG" /\ Readable = 0 /\ Balanced({})
         \/ \E h \in Messages : Sent(h) /\ Holding(h) /\ Balanced({h})
  BY <1>2, Zenon DEF DatagramInv
<1>4. F \in Seq(Bytes) /\ net \in Seq(Seq(Bytes)) /\ written \in Seq(Messages)
  BY <1>1, <1>3, FrameParts DEF Datagrams, CodecTypeOK
<1>5. /\ W \in Seq(Messages) /\ Len(W) = Len(written) + 1 /\ W[Len(written) + 1] = m
      /\ \A j \in 1..Len(written) : W[j] = written[j]
      /\ Len(written) \in Nat
  BY ONLY <1>2, <1>4, m \in Messages
<1>6. /\ N \in Seq(Seq(Bytes)) /\ Len(N) = Len(net) + 1 /\ N[Len(net) + 1] = F
      /\ \A j \in 1..Len(net) : N[j] = net[j]
      /\ Len(net) \in Nat
  BY ONLY <1>2, <1>4
<1>7. Sent(m)' /\ \A x : Sent(x) => Sent(x)'
  <2>1. Len(written) + 1 \in 1..Len(W) /\ 1..Len(written) \subseteq 1..Len(W)
    BY <1>5
  <2> QED BY <1>1, <1>5, <2>1 DEF Sent
<1>8. Datagrams'
  <2>1. \A i \in 1..Len(net) : \E x \in Messages : Sent(x)' /\ N[i] = Frame(x)
    BY <1>3, <1>6, <1>7, Zenon DEF Datagrams
  <2>2. \A i \in 1..Len(N) : i \in 1..Len(net) \/ i = Len(net) + 1
    BY <1>6
  <2>3. \A i \in 1..Len(N) : \E x \in Messages : Sent(x)' /\ N[i] = Frame(x)
    BY <1>1, <1>6, <1>7, <2>1, <2>2, Zenon
  <2> QED BY <1>1, <1>6, <2>3 DEF Datagrams
<1>9. Decoded' = Decoded /\ Readable' = Readable
  BY <1>2 DEF Decoded, Readable
<1>10. ASSUME NEW hs, Balanced(hs) PROVE Balanced(hs)'
  <2> SUFFICES ASSUME NEW x \in Messages
               PROVE  Count(N, Frame(x)) + (IF x \in hs THEN 1 ELSE 0) + Count(Decoded, x)
                        <= Count(W, x) + repeats
    BY <1>1, <1>2, <1>9 DEF Balanced
  <2>1. PICK a, b, c, d, a2, c2 :
          /\ a = Count(net, Frame(x)) /\ b = (IF x \in hs THEN 1 ELSE 0) /\ c = Count(written, x)
          /\ d = Count(Decoded, x) /\ a2 = Count(N, Frame(x)) /\ c2 = Count(W, x)
    OBVIOUS
  <2>2. a + b + d <= c + repeats
    BY <1>10, <2>1 DEF Balanced
  <2>3. a \in Nat /\ b \in Nat /\ c \in Nat /\ d \in Nat /\ repeats \in Nat
    BY <1>3, <2>1, CountsAreNumbers
  <2>4. a2 = a + (IF F = Frame(x) THEN 1 ELSE 0)
    <3>1. PICK f : f = Frame(x)
      OBVIOUS
    <3>2. net \in Seq(Seq(Bytes)) /\ F \in Seq(Bytes) /\ N = Append(net, F)
      BY <1>2, <1>4
    <3>3. Count(N, f) = Count(net, f) + (IF F = f THEN 1 ELSE 0)
      BY ONLY <3>2, CountAppended
    <3> QED BY <2>1, <3>1, <3>3
  <2>5. c2 = c + (IF m = x THEN 1 ELSE 0)
    <3>1. written \in Seq(Messages) /\ m \in Messages /\ W = Append(written, m)
      BY <1>2, <1>4
    <3>2. Count(W, x) = Count(written, x) + (IF m = x THEN 1 ELSE 0)
      BY ONLY <3>1, CountAppended
    <3> QED BY <2>1, <3>2
  <2>6. F = Frame(x) <=> m = x
    BY <1>1, FrameOfOne
  <2>7. a2 + b + d <= c2 + repeats
    BY ONLY <2>2, <2>3, <2>4, <2>5, <2>6
  <2> QED BY <2>1, <2>7
<1>11. ASSUME NEW h, Holding(h) PROVE Holding(h)'
  BY <1>2, <1>9, <1>11 DEF Holding, RestFrom
<1>12. \/ state' = "FLAG" /\ Readable' = 0 /\ Balanced({})'
       \/ \E h \in Messages : Sent(h)' /\ Holding(h)' /\ Balanced({h})'
  <2>1. CASE state = "FLAG" /\ Readable = 0 /\ Balanced({})
    BY <1>2, <1>9, <1>10, <2>1
  <2>2. ASSUME NEW h \in Messages, Sent(h) /\ Holding(h) /\ Balanced({h})
        PROVE  Sent(h)' /\ Holding(h)' /\ Balanced({h})'
    BY <1>7, <1>10, <1>11, <2>2
  <2> QED BY <1>3, <2>1, <2>2, Zenon
<1>13. (\A i \in 1..Len(Decoded) : Decoded[i] # <<>> /\ Sent(Decoded[i]))'
  BY <1>3, <1>7, <1>9, Zenon DEF Sent
<1> QED BY <1>8, <1>12, <1>13, Zenon DEF DatagramInv

\* A datagram that is lost only makes less of what is counted.
LEMMA LoseKeepsDatagrams ==
  ASSUME CodecTypeOK, DatagramInv, NEW k \in 1..MaxSent, LoseDatagram(k)
  PROVE  DatagramInv'
<1> SUFFICES ASSUME ~truncated' PROVE DatagramInv'
  BY Zenon DEF DatagramInv
<1>1. PICK N : N = net'
  OBVIOUS
<1>2. /\ transport = "udp" /\ k <= Len(net) /\ N = Without(net, k)
      /\ UNCHANGED <<transport, written, repeats, truncated>>
      /\ UNCHANGED <<in, read, state, flag, length, out, reader, fired>>
  BY <1>1 DEF LoseDatagram
<1>3. /\ Datagrams
      /\ \A i \in 1..Len(Decoded) : Decoded[i] # <<>> /\ Sent(Decoded[i])
      /\ \/ state = "FLAG" /\ Readable = 0 /\ Balanced({})
         \/ \E h \in Messages : Sent(h) /\ Holding(h) /\ Balanced({h})
  BY <1>2, Zenon DEF DatagramInv
<1>4. net \in Seq(Seq(Bytes)) /\ k \in 1..Len(net)
  <2>1. net \in Seq(Seq(Bytes)) /\ Len(net) \in Nat
    BY <1>3 DEF Datagrams
  <2>2. k \in Nat /\ k >= 1
    BY BoundsAssumption
  <2> QED BY <1>2, <2>1, <2>2
<1>5. N \in Seq(Seq(Bytes))
  BY <1>2, <1>4, RemovedAt
<1>6. ASSUME NEW f PROVE Count(N, f) <= Count(net, f)
  <2>1. /\ Count(Without(net, k), f) = Count(net, f) - (IF net[k] = f THEN 1 ELSE 0)
        /\ Count(net, f) \in Nat
    BY ONLY <1>4, CountRemoved
  <2> QED BY ONLY <1>2, <2>1
<1>7. Datagrams'
  BY <1>1, <1>2, <1>3, <1>4, DatagramsLeft
<1>8. Decoded' = Decoded /\ Readable' = Readable
  BY <1>2 DEF Decoded, Readable
<1>9. ASSUME NEW hs, Balanced(hs) PROVE Balanced(hs)'
  <2> SUFFICES ASSUME NEW x \in Messages
               PROVE  Count(N, Frame(x)) + (IF x \in hs THEN 1 ELSE 0) + Count(Decoded, x)
                        <= Count(written, x) + repeats
    BY <1>1, <1>2, <1>8 DEF Balanced
  <2>1. PICK a, b, c, d, a2 :
          /\ a = Count(net, Frame(x)) /\ b = (IF x \in hs THEN 1 ELSE 0) /\ c = Count(written, x)
          /\ d = Count(Decoded, x) /\ a2 = Count(N, Frame(x))
    OBVIOUS
  <2>2. a + b + d <= c + repeats /\ a2 <= a
    BY <1>6, <1>9, <2>1 DEF Balanced
  <2>3. a \in Nat /\ b \in Nat /\ c \in Nat /\ d \in Nat /\ repeats \in Nat
    BY <1>3, <2>1, CountsAreNumbers
  <2>4. a2 \in Nat
    BY <1>5, <2>1, PlacesFinite, Zenon
  <2>5. a2 + b + d <= c + repeats
    BY ONLY <2>2, <2>3, <2>4
  <2> QED BY <2>1, <2>5
<1>10. ASSUME NEW h, Holding(h) PROVE Holding(h)'
  BY <1>2, <1>8, <1>10 DEF Holding, RestFrom
<1>11. \/ state' = "FLAG" /\ Readable' = 0 /\ Balanced({})'
       \/ \E h \in Messages : Sent(h)' /\ Holding(h)' /\ Balanced({h})'
  <2>1. CASE state = "FLAG" /\ Readable = 0 /\ Balanced({})
    BY <1>2, <1>8, <1>9, <2>1
  <2>2. ASSUME NEW h \in Messages, Sent(h) /\ Holding(h) /\ Balanced({h})
        PROVE  Sent(h)' /\ Holding(h)' /\ Balanced({h})'
    BY <1>2, <1>9, <1>10, <2>2 DEF Sent
  <2> QED BY <1>3, <2>1, <2>2, Zenon
<1> QED BY <1>2, <1>3, <1>7, <1>8, <1>11, Zenon DEF DatagramInv, Sent

\* The decoder moves by n in the datagram it holds.
LEMMA RestMoves ==
  ASSUME BufferOK, NEW m \in Messages, NEW k \in Nat, RestFrom(m, k), NEW n, Consumes(n)
  PROVE  /\ RestFrom(m, k + n)' /\ n \in Nat
         /\ \A i \in 1..n : in[read + i] = Frame(m)[k + i]
<1>1. PICK F, R, L : F = Frame(m) /\ R = Readable /\ L = Len(F)
  BY Zenon
<1>2. R \in Nat /\ L \in Nat /\ read \in Nat
  <2>1. F \in Seq(Bytes)
    BY <1>1, FrameParts
  <2> QED BY <1>1, <2>1 DEF BufferOK, Readable
<1>3. /\ n \in 0..R /\ n \in Nat /\ Readable' = R - n
      /\ \A i \in 1..(R - n) : in'[read' + i] = in[read + n + i]
  BY <1>1, <1>2 DEF Consumes
<1>4. R = L - k /\ \A i \in 1..R : in[read + i] = F[k + i]
  BY <1>1 DEF RestFrom
<1>5. ASSUME NEW i \in 1..(R - n) PROVE in'[read' + i] = F[k + n + i]
  <2>1. PICK p : p = n + i
    OBVIOUS
  <2>2. p \in 1..R /\ read + p = read + n + i /\ k + p = k + n + i
    BY ONLY <1>2, <1>3, <2>1, i \in 1..(R - n), k \in Nat
  <2> QED BY <1>3, <1>4, <2>2
<1>6. R - n = L - (k + n)
  BY <1>2, <1>3, <1>4
<1>7. RestFrom(m, k + n)'
  BY <1>1, <1>3, <1>5, <1>6 DEF RestFrom
<1>8. \A i \in 1..n : in[read + i] = F[k + i]
  BY <1>2, <1>3, <1>4
<1> QED BY <1>1, <1>3, <1>7, <1>8

\* What the other parts of the invariant say while the decoder works.
LEMMA DecodingDatagrams ==
  ASSUME DatagramInv, transport = "udp", ~truncated', UNCHANGED netVars
  PROVE  /\ Datagrams /\ Datagrams' /\ ~truncated
         /\ \A i \in 1..Len(Decoded) : Decoded[i] # <<>> /\ Sent(Decoded[i])
         /\ \/ state = "FLAG" /\ Readable = 0 /\ Balanced({})
            \/ \E h \in Messages : Sent(h) /\ Holding(h) /\ Balanced({h})
BY Zenon DEF DatagramInv, netVars, Datagrams, Sent

\* A message that was held has been dropped.
LEMMA BalancedWithout ==
  ASSUME CodecTypeOK, Datagrams, NEW h, Balanced({h})
  PROVE  Balanced({})
<1> SUFFICES ASSUME NEW m \in Messages
             PROVE  Count(net, Frame(m)) + (IF m \in {} THEN 1 ELSE 0) + Count(Decoded, m)
                      <= Count(written, m) + repeats
  BY DEF Balanced
<1>1. PICK a, b, c, d : /\ a = Count(net, Frame(m)) /\ b = Count(Decoded, m)
                        /\ c = Count(written, m) /\ d = (IF m \in {h} THEN 1 ELSE 0)
  OBVIOUS
<1>2. a + d + b <= c + repeats
  BY <1>1 DEF Balanced
<1>3. a \in Nat /\ b \in Nat /\ c \in Nat /\ repeats \in Nat /\ d \in {0, 1}
  BY <1>1, CountsAreNumbers
<1>4. a + 0 + b <= c + repeats
  BY ONLY <1>2, <1>3
<1> QED BY <1>1, <1>4

\* The datagram is a keep-alive, and gone with its flag, or the decoder goes on in it.
LEMMA FlagKeepsDatagrams ==
  ASSUME CodecTypeOK, DatagramInv, transport = "udp", DecodeFlag
  PROVE  DatagramInv'
<1> SUFFICES ASSUME ~truncated' PROVE DatagramInv'
  BY Zenon DEF DatagramInv
<1>1. UNCHANGED netVars /\ state = "FLAG" /\ UNCHANGED <<fired, out, length>> /\ reader = "decode"
  BY DEF DecodeFlag, NeedsMore
<1>2. /\ Datagrams /\ Datagrams'
      /\ \A i \in 1..Len(Decoded) : Decoded[i] # <<>> /\ Sent(Decoded[i])
      /\ \/ Readable = 0 /\ Balanced({})
         \/ \E h \in Messages : Sent(h) /\ Holding(h) /\ Balanced({h})
  BY <1>1, DecodingDatagrams, Zenon
<1>3. Decoded' = Decoded /\ BufferOK /\ UNCHANGED <<net, written, repeats>>
  BY <1>1 DEF Decoded, CodecTypeOK, netVars
<1>4. (\A i \in 1..Len(Decoded) : Decoded[i] # <<>> /\ Sent(Decoded[i]))'
  BY <1>2, <1>3 DEF Sent
<1>5. CASE Readable = 0 /\ Balanced({})
  <2>1. UNCHANGED <<in, read, state>>
    BY <1>5 DEF DecodeFlag, NeedsMore
  <2>2. state' = "FLAG" /\ Readable' = 0 /\ Balanced({})'
    BY <1>1, <1>3, <1>5, <2>1 DEF Readable, Balanced
  <2> QED BY <1>2, <1>4, <2>2 DEF DatagramInv
<1>6. ASSUME NEW h \in Messages, Sent(h), Holding(h), Balanced({h}) PROVE DatagramInv'
  <2>1. RestFrom(h, 0)
    BY <1>1, <1>6 DEF Holding
  <2>2. PICK F, f : F = Frame(h) /\ f = FlagOf(h)
    OBVIOUS
  <2>3. /\ F \in Seq(Bytes) /\ F[1] = f /\ Len(F) \in Nat /\ Len(F) >= 1
        /\ Len(F) = 1 + Width(f) + Len(h)
        /\ (f = 0 <=> h = <<>>)
    <3>1. /\ F \in Seq(Bytes) /\ F[1] = f /\ HeadSize(h) = 1 + Width(f)
          /\ Width(f) \in Nat /\ Len(h) \in Nat /\ Len(F) = HeadSize(h) + Len(h)
          /\ (f = 0 <=> h = <<>>)
      BY <2>2, FrameParts, Zenon
    <3> QED BY <3>1
  <2>4. Readable = Len(F) /\ in[read + 1] = f
    <3>1. Readable = Len(F) - 0 /\ \A i \in 1..Readable : in[read + i] = F[0 + i]
      BY <2>1, <2>2 DEF RestFrom
    <3>2. 1 \in 1..Readable /\ 0 + 1 = 1
      BY <2>3, <3>1
    <3> QED BY <2>3, <3>1, <3>2
  <2>5. /\ flag' = f
        /\ IF f = 0 THEN read' = read + 1 /\ UNCHANGED <<in, state>>
                    ELSE Checkpoint("LENGTH", 1)
        /\ reader' = "decode"
    <3>1. ~NeedsMore(1)
      BY <2>3, <2>4 DEF NeedsMore
    <3> QED BY <1>1, <2>4, <3>1 DEF DecodeFlag
  <2>6. 1 \in 0..Readable /\ Readable >= 1 /\ Readable \in Nat
    BY <2>3, <2>4
  <2>7. CASE f = 0
    <3>1. Consumes(1)
      BY <1>3, <2>5, <2>6, <2>7, SkipConsumes
    <3>2. Len(F) = 1
      <4>1. h = <<>>
        BY <2>3, <2>7
      <4>2. Len(h) = 0 /\ Width(f) = 0
        BY <2>7, <4>1, Bases DEF Width
      <4> QED BY <2>3, <4>2
    <3>3. Readable' = 0 /\ state' = "FLAG"
      BY <1>1, <2>4, <2>5, <2>7, <3>1, <3>2 DEF Consumes
    <3>4. Balanced({})
      BY <1>2, <1>6, BalancedWithout, Zenon
    <3>5. Balanced({})'
      BY <1>3, <3>4 DEF Balanced
    <3> QED BY <1>2, <1>4, <3>3, <3>5 DEF DatagramInv
  <2>8. CASE f # 0
    <3>1. Consumes(1) /\ state' = "LENGTH"
      BY <1>3, <2>5, <2>6, <2>8, CheckpointConsumes
    <3>2. RestFrom(h, 1)'
      <4>1. RestFrom(h, 0 + 1)'
        BY <1>3, <2>1, <3>1, RestMoves
      <4> QED BY <4>1
    <3>3. Holding(h)'
      BY <2>2, <2>3, <2>5, <2>8, <3>1, <3>2 DEF Holding, FlagOf
    <3>4. Sent(h)' /\ Balanced({h})'
      BY <1>3, <1>6 DEF Balanced, Sent
    <3> QED BY <1>2, <1>4, <3>3, <3>4, Zenon DEF DatagramInv
  <2> QED BY <2>7, <2>8
<1> QED BY <1>2, <1>5, <1>6, Zenon

\* The length is in the same datagram.
LEMMA LengthKeepsDatagrams ==
  ASSUME CodecTypeOK, DatagramInv, transport = "udp", DecodeLength
  PROVE  DatagramInv'
<1> SUFFICES ASSUME ~truncated' PROVE DatagramInv'
  BY DEF DatagramInv
<1>1. UNCHANGED netVars /\ state = "LENGTH" /\ UNCHANGED <<fired, out, flag>> /\ reader = "decode"
  BY DEF DecodeLength, NeedsMore
<1>2. /\ Datagrams'
      /\ \A i \in 1..Len(Decoded) : Decoded[i] # <<>> /\ Sent(Decoded[i])
      /\ \E h \in Messages : Sent(h) /\ Holding(h) /\ Balanced({h})
  BY <1>1, DecodingDatagrams, Zenon
<1>3. Decoded' = Decoded /\ BufferOK /\ UNCHANGED <<net, written, repeats>>
  BY <1>1 DEF Decoded, CodecTypeOK, netVars
<1>4. (\A i \in 1..Len(Decoded) : Decoded[i] # <<>> /\ Sent(Decoded[i]))'
  BY <1>2, <1>3 DEF Sent
<1>5. PICK h \in Messages : Sent(h) /\ Holding(h) /\ Balanced({h})
  BY <1>2, Zenon
<1>6. PICK F, f, w, P, k : F = Frame(h) /\ f = FlagOf(h) /\ w = Width(f) /\ P = Peek(w) /\ k = HeadSize(h)
  OBVIOUS
<1>7. h # <<>> /\ flag = f /\ RestFrom(h, 1)
  BY <1>1, <1>5, <1>6 DEF Holding
<1>8. /\ F \in Seq(Bytes) /\ w \in Nat /\ k = 1 + w /\ Len(h) \in Nat /\ Len(F) = k + Len(h)
      /\ VarIntDecode(f, SubSeq(F, 2, k)) = Len(h)
  BY <1>6, FrameParts
<1>9. Readable = Len(F) - 1 /\ Readable >= w /\ w \in 0..Readable
  <2>1. Readable = Len(F) - 1
    BY <1>6, <1>7 DEF RestFrom
  <2> QED BY <1>8, <2>1
<1>10. length' = VarIntDecode(f, P) /\ Checkpoint("BODY", w) /\ reader' = "decode"
  <2>1. ~NeedsMore(w)
    BY <1>8, <1>9 DEF NeedsMore
  <2> QED BY <1>1, <1>6, <1>7, <2>1 DEF DecodeLength
<1>11. Consumes(w) /\ state' = "BODY"
  BY <1>3, <1>9, <1>10, CheckpointConsumes
<1>12. RestFrom(h, 1 + w)' /\ \A i \in 1..w : in[read + i] = F[1 + i]
  BY <1>3, <1>6, <1>7, <1>11, RestMoves
<1>13. RestFrom(h, HeadSize(h))'
  BY <1>6, <1>8, <1>12
<1>14. P = SubSeq(F, 2, k)
  <2>1. PICK Q : Q = SubSeq(F, 2, k)
    BY Zenon
  <2>2. Q \in Seq(Bytes) /\ Len(Q) = w /\ \A j \in 1..w : Q[j] = F[1 + j]
    BY ONLY <1>8, <2>1
  <2>3. P \in Seq(Bytes) /\ Len(P) = w /\ \A j \in 1..w : P[j] = in[read + j]
    BY <1>3, <1>6, <1>9, PeekType
  <2>4. \A j \in 1..w : P[j] = Q[j]
    BY <1>12, <2>2, <2>3
  <2>5. P = Q
    BY ONLY <2>2, <2>3, <2>4, SeqEqual
  <2> QED BY <2>1, <2>5
<1>15. length' = Len(h)
  BY <1>8, <1>10, <1>14
<1>16. Holding(h)'
  BY <1>7, <1>10, <1>11, <1>13, <1>15 DEF Holding
<1>17. Sent(h)' /\ Balanced({h})'
  BY <1>3, <1>5 DEF Balanced, Sent
<1> QED BY <1>2, <1>4, <1>16, <1>17, Zenon DEF DatagramInv

\* So is the body, and nothing is left of the datagram.
LEMMA BodyKeepsDatagrams ==
  ASSUME CodecTypeOK, DatagramInv, transport = "udp", DecodeBody
  PROVE  DatagramInv'
<1> SUFFICES ASSUME ~truncated' PROVE DatagramInv'
  BY DEF DatagramInv
<1>1. UNCHANGED netVars /\ state = "BODY" /\ UNCHANGED <<fired, flag, length>> /\ reader = "decode"
  BY DEF DecodeBody, NeedsMore
<1>2. /\ Datagrams /\ Datagrams'
      /\ \A i \in 1..Len(Decoded) : Decoded[i] # <<>> /\ Sent(Decoded[i])
      /\ \E h \in Messages : Sent(h) /\ Holding(h) /\ Balanced({h})
  BY <1>1, DecodingDatagrams, Zenon
<1>3. BufferOK /\ UNCHANGED <<net, written, repeats>>
  BY <1>1 DEF CodecTypeOK, netVars
<1>4. PICK h \in Messages : Sent(h) /\ Holding(h) /\ Balanced({h})
  BY <1>2, Zenon
<1>5. PICK F, f, P, k, n, D, D2 :
        /\ F = Frame(h) /\ n = Len(h) /\ P = Peek(n) /\ k = HeadSize(h) /\ D = Decoded /\ D2 = Decoded'
  BY Zenon
<1>6. h # <<>> /\ length = n /\ RestFrom(h, k)
  BY <1>1, <1>4, <1>5 DEF Holding
<1>7. /\ F \in Seq(Bytes) /\ h \in Seq(Bytes) /\ k \in Nat /\ n \in Nat /\ Len(F) = k + n
  <2>1. PICK g : g = FlagOf(h)
    OBVIOUS
  <2>2. /\ F \in Seq(Bytes) /\ h \in Seq(Bytes) /\ Width(g) \in Nat /\ n \in Nat /\ k = 1 + Width(g)
        /\ Len(F) = k + n
    BY <1>5, <2>1, FrameParts, Zenon
  <2>3. k \in Nat
    <3>1. k = 1 + Width(g) /\ Width(g) \in Nat
      BY <2>2
    <3> QED BY ONLY <3>1
  <2> QED BY <2>2, <2>3
<1>8. Readable = n /\ n \in 0..Readable
  <2>1. Readable = Len(F) - k
    BY <1>5, <1>6 DEF RestFrom
  <2> QED BY <1>7, <2>1
<1>9. out' = Append(out, P) /\ Checkpoint("FLAG", n) /\ reader' = "decode"
  <2>1. ~NeedsMore(n)
    BY <1>7, <1>8 DEF NeedsMore
  <2> QED BY <1>1, <1>5, <1>6, <2>1 DEF DecodeBody
<1>10. Consumes(n) /\ state' = "FLAG"
  BY <1>3, <1>8, <1>9, CheckpointConsumes
<1>11. Readable' = 0
  BY <1>7, <1>8, <1>10 DEF Consumes
<1>12. P = h
  <2>1. P \in Seq(Bytes) /\ Len(P) = n /\ \A j \in 1..n : P[j] = in[read + j]
    BY <1>3, <1>5, <1>8, PeekType
  <2>2. \A j \in 1..n : in[read + j] = F[k + j]
    BY <1>3, <1>5, <1>6, <1>7, <1>10, RestMoves, Zenon
  <2>3. \A j \in 1..n : h[j] = F[k + j]
    BY <1>5, FrameParts, Zenon
  <2>4. \A j \in 1..n : P[j] = h[j]
    BY <2>1, <2>2, <2>3
  <2> QED BY <1>5, <1>7, <2>1, <2>4, SeqEqual, Zenon
<1>13. D2 = Append(D, h) /\ D \in Seq(Seq(Bytes)) /\ h \in Seq(Bytes)
  <2>1. PICK a, o, o2 : a = fired /\ o = out /\ o2 = out'
    OBVIOUS
  <2>2. /\ a \in Seq(Seq(Bytes)) /\ o \in Seq(Seq(Bytes)) /\ h \in Seq(Bytes)
        /\ D = a \o o /\ D2 = a \o o2 /\ o2 = Append(o, h)
    BY <1>1, <1>5, <1>7, <1>9, <1>12, <2>1, Zenon DEF Decoded, CodecTypeOK
  <2> QED BY <2>2, OneMore, Zenon
<1>14. (\A i \in 1..Len(Decoded) : Decoded[i] # <<>> /\ Sent(Decoded[i]))'
  <2>1. /\ Len(D2) = Len(D) + 1 /\ D2[Len(D) + 1] = h /\ Len(D) \in Nat
        /\ \A i \in 1..Len(D) : D2[i] = D[i]
    BY ONLY <1>13
  <2>2. \A i \in 1..Len(D2) : i \in 1..Len(D) \/ i = Len(D) + 1
    BY <2>1
  <2>3. \A i \in 1..Len(D2) : D2[i] # <<>> /\ Sent(D2[i])
    BY <1>2, <1>4, <1>5, <1>6, <2>1, <2>2
  <2> QED BY <1>3, <1>5, <2>3 DEF Sent
<1>15. Balanced({})'
  <2> SUFFICES ASSUME NEW m \in Messages
               PROVE  Count(net, Frame(m)) + (IF m \in {} THEN 1 ELSE 0) + Count(D2, m)
                        <= Count(written, m) + repeats
    BY <1>3, <1>5 DEF Balanced
  <2>1. PICK a, b, c, d, b2 : /\ a = Count(net, Frame(m)) /\ b = Count(D, m) /\ c = Count(written, m)
                              /\ d = (IF m \in {h} THEN 1 ELSE 0) /\ b2 = Count(D2, m)
    OBVIOUS
  <2>2. a + d + b <= c + repeats
    BY <1>4, <1>5, <2>1 DEF Balanced
  <2>3. a \in Nat /\ b \in Nat /\ c \in Nat /\ repeats \in Nat /\ d \in {0, 1}
    BY <1>2, <1>5, <2>1, CountsAreNumbers
  <2>4. b2 = b + d
    <3>1. Count(D2, m) = Count(D, m) + (IF h = m THEN 1 ELSE 0)
      BY ONLY <1>13, CountAppended
    <3> QED BY <2>1, <3>1
  <2>5. a + 0 + b2 <= c + repeats
    BY ONLY <2>2, <2>3, <2>4
  <2> QED BY <2>1, <2>5
<1> QED BY <1>2, <1>10, <1>11, <1>14, <1>15 DEF DatagramInv

\* To hand on what was decoded changes nothing of what was decoded.
LEMMA FireKeepsDatagrams ==
  ASSUME CodecTypeOK, DatagramInv, transport = "udp", FireOut
  PROVE  DatagramInv'
<1>1. PICK f, o, f2, o2 : f = fired /\ o = out /\ f2 = fired' /\ o2 = out'
  OBVIOUS
<1>2. f \in Seq(Seq(Bytes)) /\ o \in Seq(Seq(Bytes)) /\ f2 = f \o o /\ o2 = <<>>
  BY <1>1 DEF FireOut, CodecTypeOK
<1>3. f2 \o o2 = f \o o
  BY ONLY <1>2
<1>4. Decoded' = Decoded
  BY <1>1, <1>3 DEF Decoded
<1>5. UNCHANGED <<netVars, in, read, state>> /\ reader = "fire"
  BY DEF FireOut
<1> QED BY <1>4, <1>5 DEF DatagramInv, Datagrams, Sent, Holding, Balanced, Readable, netVars

\* A datagram comes when the one before it has been decoded.
LEMMA ReadKeepsDatagrams ==
  ASSUME CodecTypeOK, Waits, DatagramInv, NEW k \in 1..MaxSent, ReadDatagram(k)
  PROVE  DatagramInv'
<1> SUFFICES ASSUME ~truncated' PROVE DatagramInv'
  BY Zenon DEF DatagramInv
<1>1. PICK F, N, B, r2 : F = net[k] /\ N = net' /\ r2 = repeats'
        /\ B = SubSeq(net[k], 1, IF Len(net[k]) > BufferSize THEN BufferSize ELSE Len(net[k]))
  BY Zenon
<1>2. /\ transport = "udp" /\ reader = "idle" /\ k <= Len(net) /\ ~truncated
      /\ \/ N = Without(net, k) /\ r2 = repeats
         \/ N = net /\ r2 = repeats + 1
      /\ ~(Len(F) > BufferSize)
      /\ Read(B)
      /\ UNCHANGED <<transport, written>>
      /\ UNCHANGED <<read, state, flag, length, out, fired>> /\ reader' = "decode"
  BY <1>1, Zenon DEF ReadDatagram, Read
<1>3. /\ Datagrams
      /\ \A i \in 1..Len(Decoded) : Decoded[i] # <<>> /\ Sent(Decoded[i])
      /\ state = "FLAG" /\ Readable = 0 /\ Balanced({})
  BY <1>2 DEF DatagramInv, Holding
<1>4. net \in Seq(Seq(Bytes)) /\ k \in 1..Len(net) /\ F \in Seq(Bytes)
  <2>1. net \in Seq(Seq(Bytes)) /\ Len(net) \in Nat
    BY <1>3 DEF Datagrams
  <2>2. k \in Nat /\ k >= 1
    BY BoundsAssumption
  <2>3. k \in 1..Len(net)
    BY <1>2, <2>1, <2>2
  <2> QED BY <1>1, <2>1, <2>3
<1>5. B = F
  <2>1. B = SubSeq(F, 1, Len(F))
    BY <1>1, <1>2
  <2> QED BY ONLY <1>4, <2>1
<1>6. PICK h \in Messages : Sent(h) /\ F = Frame(h)
  BY <1>1, <1>3, <1>4 DEF Datagrams
<1>7. Decoded' = Decoded /\ BufferOK
  BY <1>2 DEF Decoded, CodecTypeOK
<1>8. RestFrom(h, 0)'
  <2>1. /\ Readable' = Readable + Len(F)
        /\ \A i \in 1..Len(F) : in'[read' + Readable + i] = F[i]
    BY <1>2, <1>4, <1>5, <1>7, ReadAppends
  <2>2. read' \in Nat /\ Len(F) \in Nat
    BY <1>2, <1>4, <1>7 DEF BufferOK
  <2>3. Readable' = Len(F) - 0 /\ Readable' = Len(F)
    BY <1>3, <2>1, <2>2
  <2>4. \A i \in 1..Len(F) : in'[read' + i] = F[0 + i]
    <3>1. \A i \in 1..Len(F) : read' + Readable + i = read' + i /\ 0 + i = i
      BY <1>3, <2>2
    <3> QED BY <2>1, <3>1
  <2> QED BY <1>6, <2>3, <2>4 DEF RestFrom
<1>9. Holding(h)'
  BY <1>2, <1>3, <1>8 DEF Holding
<1>10. Datagrams'
  <2>1. CASE N = Without(net, k)
    <3>1. /\ Datagrams /\ k \in 1..Len(net) /\ net' = Without(net, k)
          /\ written' = written
      BY <1>1, <1>2, <1>3, <1>4, <2>1
    <3> QED BY ONLY <3>1, DatagramsLeft, Zenon
  <2>2. CASE N = net
    BY <1>1, <1>2, <1>3, <2>2, Zenon DEF Datagrams, Sent
  <2> QED BY <1>2, <2>1, <2>2
<1>11. Balanced({h})'
  <2> SUFFICES ASSUME NEW m \in Messages
               PROVE  Count(N, Frame(m)) + (IF m \in {h} THEN 1 ELSE 0) + Count(Decoded, m)
                        <= Count(written, m) + r2
    BY <1>1, <1>2, <1>7 DEF Balanced
  <2>1. PICK a, b, c, d, a2, e : /\ a = Count(net, Frame(m)) /\ b = Count(Decoded, m)
          /\ c = Count(written, m) /\ d = (IF m \in {h} THEN 1 ELSE 0) /\ a2 = Count(N, Frame(m))
          /\ e = (IF m \in {} THEN 1 ELSE 0)
    OBVIOUS
  <2>2. a + e + b <= c + repeats /\ e = 0
    BY <1>3, <2>1 DEF Balanced
  <2>3. a \in Nat /\ b \in Nat /\ c \in Nat /\ repeats \in Nat /\ d \in {0, 1}
    BY <1>3, <2>1, CountsAreNumbers
  <2>4. CASE N = Without(net, k) /\ r2 = repeats
    <3>1. PICK g : g = Frame(m)
      OBVIOUS
    <3>2. Count(Without(net, k), g) = Count(net, g) - (IF net[k] = g THEN 1 ELSE 0)
      BY ONLY <1>4, CountRemoved
    <3>3. F = g <=> m = h
      BY <1>6, <3>1, FrameOfOne
    <3>4. a2 = a - d
      BY <1>1, <2>1, <2>4, <3>1, <3>2, <3>3
    <3>5. a2 + d + b <= c + r2
      BY ONLY <2>2, <2>3, <2>4, <3>4
    <3> QED BY <2>1, <3>5
  <2>5. CASE N = net /\ r2 = repeats + 1
    <3>1. a2 = a
      BY <2>1, <2>5
    <3>2. a2 + d + b <= c + r2
      BY ONLY <2>2, <2>3, <2>5, <3>1
    <3> QED BY <2>1, <3>2
  <2> QED BY <1>2, <2>4, <2>5
<1>12. Sent(h)'
  BY <1>2, <1>6 DEF Sent
<1>13. (\A i \in 1..Len(Decoded) : Decoded[i] # <<>> /\ Sent(Decoded[i]))'
  BY <1>2, <1>3, <1>7 DEF Sent
<1> QED BY <1>9, <1>10, <1>11, <1>12, <1>13, Zenon DEF DatagramInv

-----------------------------------------------------------------------------
(* The types, and when the reader waits.                                   *)

\* The two halves of a sequence.
LEMMA Halves ==
  ASSUME NEW s \in Seq(Bytes), NEW n \in Nat, Len(s) = n + n,
         NEW a, a = SubSeq(s, 1, n), NEW b, b = SubSeq(s, n + 1, n + n)
  PROVE  a \in Seq(Bytes) /\ Len(a) = n /\ b \in Seq(Bytes) /\ Len(b) = n
OBVIOUS

\* A number put together of two.
LEMMA Positional ==
  ASSUME NEW x \in Nat, NEW b \in Nat, NEW y \in Nat
  PROVE  x * b + y \in Nat
OBVIOUS

\* Two bytes make a number.
LEMMA TwoMakeANumber ==
  ASSUME NEW s \in Seq(Bytes), Len(s) = 2
  PROVE  Value2(s) \in Nat
<1>1. 1 \in 1..Len(s) /\ 2 \in 1..Len(s)
  OBVIOUS
<1>2. s[1] \in Bytes /\ s[2] \in Bytes
  BY <1>1, ElementOfSeq, Zenon
<1>3. s[1] \in Nat /\ s[2] \in Nat /\ Base \in Nat
  BY <1>2, Bases DEF Bytes
<1> QED BY ONLY <1>3, Positional, Zenon DEF Value2

\* Four bytes make a number ...
LEMMA FourMakeANumber ==
  ASSUME NEW s \in Seq(Bytes), Len(s) = 4
  PROVE  Value4(s) \in Nat
<1>1. PICK a, b, c : a = SubSeq(s, 1, 2) /\ b = SubSeq(s, 3, 4) /\ c = 2
  BY Zenon
<1>2. c \in Nat /\ Len(s) = c + c /\ a = SubSeq(s, 1, c) /\ b = SubSeq(s, c + 1, c + c)
  BY <1>1
<1>3. a \in Seq(Bytes) /\ Len(a) = c /\ b \in Seq(Bytes) /\ Len(b) = c
  BY ONLY <1>2, Halves, s \in Seq(Bytes)
<1>4. Value2(a) \in Nat /\ Value2(b) \in Nat /\ Base2 \in Nat
  BY <1>1, <1>3, TwoMakeANumber, Bases, Zenon
<1>5. Value2(a) * Base2 + Value2(b) \in Nat
  BY ONLY <1>4, Positional
<1> QED BY <1>1, <1>5 DEF Value4

\* ... and so do eight.
LEMMA EightMakeANumber ==
  ASSUME NEW s \in Seq(Bytes), Len(s) = 8
  PROVE  Value8(s) \in Nat
<1>1. PICK a, b, c : a = SubSeq(s, 1, 4) /\ b = SubSeq(s, 5, 8) /\ c = 4
  BY Zenon
<1>2. c \in Nat /\ Len(s) = c + c /\ a = SubSeq(s, 1, c) /\ b = SubSeq(s, c + 1, c + c)
  BY <1>1
<1>3. a \in Seq(Bytes) /\ Len(a) = c /\ b \in Seq(Bytes) /\ Len(b) = c
  BY ONLY <1>2, Halves, s \in Seq(Bytes)
<1>4. Value4(a) \in Nat /\ Value4(b) \in Nat /\ Base4 \in Nat
  BY <1>1, <1>3, FourMakeANumber, Bases, Zenon
<1>5. Value4(a) * Base4 + Value4(b) \in Nat
  BY ONLY <1>4, Positional
<1> QED BY <1>1, <1>5 DEF Value8

\* Whatever bytes follow the flag, they make a number.
LEMMA LengthsAreNumbers ==
  ASSUME NEW f \in Bytes, NEW ds \in Seq(Bytes), Len(ds) = Width(f)
  PROVE  VarIntDecode(f, ds) \in Nat
<1>1. Base \in Nat /\ Base >= 5 /\ f \in Nat
  BY Bases DEF Bytes
<1>2. CASE f = Base - 3
  BY <1>1, <1>2, TwoMakeANumber DEF VarIntDecode, Width
<1>3. CASE f = Base - 2
  BY <1>1, <1>3, FourMakeANumber DEF VarIntDecode, Width
<1>4. CASE f = Base - 1
  BY <1>1, <1>4, EightMakeANumber DEF VarIntDecode, Width
<1> QED BY <1>1, <1>2, <1>3, <1>4 DEF VarIntDecode

\* How many bytes follow a flag is a number.
LEMMA WidthType ==
  ASSUME NEW f
  PROVE  Width(f) \in Nat
BY DEF Width

\* Each action keeps the types, and the reader waits as Waits says; here Write.
LEMMA WriteKeepsRest ==
  ASSUME CodecTypeOK, Waits, NEW m \in Messages, Write(m)
  PROVE  CodecTypeOK' /\ Waits'
<1>1. written' \in Seq(Messages)
  BY DEF Write, CodecTypeOK
<1>2. ASSUME transport = "udp" PROVE net' \in Seq(Seq(Bytes))
  <2>1. PICK F : F = Frame(m)
    OBVIOUS
  <2>2. F \in Seq(Bytes)
    BY <2>1, FrameParts
  <2>3. net' = Append(net, F) /\ net \in Seq(Seq(Bytes))
    BY <1>2, <2>1 DEF Write, CodecTypeOK
  <2> QED BY ONLY <2>2, <2>3
<1>3. UNCHANGED <<transport, repeats, truncated, in, read, state, flag, length, out, reader, fired>>
  BY DEF Write
<1> QED BY <1>2, <1>1, <1>3 DEF CodecTypeOK, Waits, BufferOK, Readable

\* Any read of the connection.
LEMMA ReadKeepsRest ==
  ASSUME CodecTypeOK, NEW bytes \in Seq(Bytes), Read(bytes),
         UNCHANGED <<transport, written>>, repeats' \in Nat, truncated' \in BOOLEAN,
         transport = "udp" => net' \in Seq(Seq(Bytes))
  PROVE  CodecTypeOK' /\ Waits'
<1>1. BufferOK'
  BY ReadAppends DEF CodecTypeOK
<1>2. UNCHANGED <<state, flag, length, out, fired>> /\ reader' = "decode"
  BY DEF Read
<1> QED BY <1>1, <1>2 DEF CodecTypeOK, Waits

\* A part of the stream comes.
LEMMA ReadStreamKeepsRest ==
  ASSUME CodecTypeOK, StreamInv, NEW n \in 1..BufferSize, ReadStream(n)
  PROVE  CodecTypeOK' /\ Waits'
<1>1. PICK B : B = SubSeq(net, 1, n)
  BY Zenon
<1>2. net \in Seq(Bytes) /\ n <= Len(net) /\ n \in Nat /\ n >= 1
  BY BoundsAssumption DEF StreamInv, ReadStream, OnItsWay
<1>3. B \in Seq(Bytes)
  BY ONLY <1>1, <1>2
<1>4. Read(B) /\ UNCHANGED <<transport, written, repeats, truncated>>
  BY <1>1 DEF ReadStream
<1>5. repeats' \in Nat /\ truncated' \in BOOLEAN
  BY <1>4 DEF CodecTypeOK
<1>6. transport = "tcp"
  BY DEF ReadStream
<1> QED BY <1>3, <1>4, <1>5, <1>6, ReadKeepsRest

\* A datagram comes, whole or cut off.
LEMMA ReadDatagramKeepsRest ==
  ASSUME CodecTypeOK, NEW k \in 1..MaxSent, ReadDatagram(k)
  PROVE  CodecTypeOK' /\ Waits'
<1>1. PICK F, B : F = net[k] /\ B = SubSeq(F, 1, IF Len(F) > BufferSize THEN BufferSize ELSE Len(F))
  BY Zenon
<1>2. net \in Seq(Seq(Bytes)) /\ k \in 1..Len(net)
  BY BoundsAssumption DEF ReadDatagram, CodecTypeOK
<1>3. F \in Seq(Bytes)
  BY <1>2, <1>1
<1>4. B \in Seq(Bytes)
  <2>1. Len(F) \in Nat /\ BufferSize \in Nat
    BY <1>3, BoundsAssumption
  <2>2. PICK c : c = (IF Len(F) > BufferSize THEN BufferSize ELSE Len(F))
    OBVIOUS
  <2>3. c \in 0..Len(F)
    BY ONLY <2>1, <2>2
  <2>4. B = SubSeq(F, 1, c)
    BY <1>1, <2>2
  <2> QED BY ONLY <1>3, <2>1, <2>3, <2>4
<1>5. Read(B) /\ UNCHANGED <<transport, written>>
  BY <1>1 DEF ReadDatagram
<1>6. repeats' \in Nat /\ truncated' \in BOOLEAN
  BY DEF ReadDatagram, CodecTypeOK
<1>7. net' \in Seq(Seq(Bytes))
  <2>1. CASE net' = Without(net, k)
    BY <1>2, <2>1, RemovedAt
  <2>2. CASE net' = net
    BY <1>2, <2>2
  <2> QED BY <2>1, <2>2 DEF ReadDatagram
<1> QED BY <1>4, <1>5, <1>6, <1>7, ReadKeepsRest

\* A datagram is lost.
LEMMA LoseKeepsRest ==
  ASSUME CodecTypeOK, Waits, NEW k \in 1..MaxSent, LoseDatagram(k)
  PROVE  CodecTypeOK' /\ Waits'
<1>1. net \in Seq(Seq(Bytes)) /\ k \in 1..Len(net) /\ net' = Without(net, k)
  BY BoundsAssumption DEF LoseDatagram, CodecTypeOK
<1>2. net' \in Seq(Seq(Bytes))
  BY <1>1, RemovedAt
<1> QED BY <1>2 DEF LoseDatagram, CodecTypeOK, Waits, BufferOK, Readable

\* The flag is decoded, or waited for.
LEMMA FlagKeepsRest ==
  ASSUME CodecTypeOK, DecodeFlag
  PROVE  CodecTypeOK' /\ Waits'
<1>1. /\ UNCHANGED netVars /\ UNCHANGED <<fired, length, out>> /\ BufferOK
      /\ reader = "decode" /\ state = "FLAG" /\ Readable \in Nat
  BY DEF DecodeFlag, NeedsMore, CodecTypeOK, BufferOK, Readable
<1>2. CASE NeedsMore(1)
  <2>1. UNCHANGED <<in, read, state>> /\ reader' = "fire" /\ Readable = 0 /\ flag' = flag
    BY <1>1, <1>2 DEF NeedsMore, DecodeFlag
  <2> QED BY <1>1, <2>1 DEF CodecTypeOK, Waits, BufferOK, Readable, netVars
<1>3. CASE ~NeedsMore(1)
  <2>1. /\ Readable >= 1 /\ flag' = in[read + 1] /\ reader' = "decode"
        /\ IF flag' = 0 THEN read' = read + 1 /\ UNCHANGED <<in, state>>
                        ELSE Checkpoint("LENGTH", 1)
    BY <1>1, <1>3 DEF DecodeFlag
  <2>2. flag' \in Bytes
    BY <1>1, <2>1 DEF BufferOK, Readable
  <2>3. BufferOK' /\ state' \in {"FLAG", "LENGTH"}
    <3>1. CASE flag' = 0
      BY <1>1, <2>1, <3>1, SkipConsumes DEF Consumes
    <3>2. CASE flag' # 0
      <4>1. 1 \in 0..Readable
        BY <1>1, <2>1
      <4> QED BY <1>1, <2>1, <3>2, <4>1, CheckpointMoves
    <3> QED BY <3>1, <3>2
  <2> QED BY <1>1, <2>1, <2>2, <2>3 DEF CodecTypeOK, Waits, netVars
<1> QED BY <1>2, <1>3

\* The length is decoded, or waited for.
LEMMA LengthKeepsRest ==
  ASSUME CodecTypeOK, DecodeLength
  PROVE  CodecTypeOK' /\ Waits'
<1>1. PICK w : w = Width(flag)
  OBVIOUS
<1>2. /\ UNCHANGED netVars /\ UNCHANGED <<fired, flag, out>> /\ BufferOK
      /\ reader = "decode" /\ state = "LENGTH" /\ Readable \in Nat /\ w \in Nat
  BY <1>1, WidthType DEF DecodeLength, NeedsMore, CodecTypeOK, BufferOK, Readable
<1>3. CASE NeedsMore(w)
  <2>1. UNCHANGED <<in, read, state>> /\ reader' = "fire" /\ Readable < w /\ length' = length
    BY <1>1, <1>2, <1>3 DEF NeedsMore, DecodeLength
  <2> QED BY <1>1, <1>2, <2>1 DEF CodecTypeOK, Waits, BufferOK, Readable, netVars
<1>4. CASE ~NeedsMore(w)
  <2>1. /\ Readable >= w /\ length' = VarIntDecode(flag, Peek(w)) /\ reader' = "decode"
        /\ Checkpoint("BODY", w)
    BY <1>1, <1>2, <1>4 DEF DecodeLength
  <2>2. w \in 0..Readable
    BY <1>2, <2>1
  <2>3. length' \in Nat
    <3>1. PICK P : P = Peek(w)
      OBVIOUS
    <3>2. P \in Seq(Bytes) /\ Len(P) = w
      BY <1>2, <2>2, <3>1, PeekType
    <3> QED BY <1>1, <2>1, <3>1, <3>2, LengthsAreNumbers DEF CodecTypeOK
  <2>4. BufferOK' /\ state' = "BODY"
    BY <1>2, <2>1, <2>2, CheckpointMoves
  <2> QED BY <1>2, <2>1, <2>3, <2>4 DEF CodecTypeOK, Waits, netVars
<1> QED BY <1>3, <1>4

\* The body is decoded, or waited for.
LEMMA BodyKeepsRest ==
  ASSUME CodecTypeOK, DecodeBody
  PROVE  CodecTypeOK' /\ Waits'
<1>1. /\ UNCHANGED netVars /\ UNCHANGED <<fired, flag, length>> /\ BufferOK
      /\ reader = "decode" /\ state = "BODY" /\ Readable \in Nat /\ length \in Nat
  BY DEF DecodeBody, NeedsMore, CodecTypeOK, BufferOK, Readable
<1>2. CASE NeedsMore(length)
  <2>1. UNCHANGED <<in, read, state, out>> /\ reader' = "fire" /\ Readable < length
    BY <1>1, <1>2 DEF NeedsMore, DecodeBody
  <2> QED BY <1>1, <2>1 DEF CodecTypeOK, Waits, BufferOK, Readable, netVars
<1>3. CASE ~NeedsMore(length)
  <2>1. PICK P : P = Peek(length)
    OBVIOUS
  <2>2. /\ Readable >= length /\ out' = Append(out, P) /\ reader' = "decode"
        /\ Checkpoint("FLAG", length)
    BY <1>1, <1>3, <2>1 DEF DecodeBody
  <2>3. length \in 0..Readable
    BY <1>1, <2>2
  <2>4. out' \in Seq(Seq(Bytes))
    <3>1. P \in Seq(Bytes)
      BY <1>1, <2>1, <2>3, PeekType
    <3> QED BY <2>2, <3>1 DEF CodecTypeOK
  <2>5. BufferOK' /\ state' = "FLAG"
    BY <1>1, <2>2, <2>3, CheckpointMoves
  <2> QED BY <1>1, <2>2, <2>4, <2>5 DEF CodecTypeOK, Waits, netVars
<1> QED BY <1>2, <1>3

\* What was decoded is handed on.
LEMMA FireKeepsRest ==
  ASSUME CodecTypeOK, Waits, FireOut
  PROVE  CodecTypeOK' /\ Waits'
<1>1. /\ UNCHANGED <<netVars, in, read, state, flag, length>> /\ reader = "fire"
      /\ reader' = "idle" /\ out' = <<>>
  BY DEF FireOut
<1>2. out' \in Seq(Seq(Bytes)) /\ fired' \in Seq(Seq(Bytes))
  BY DEF FireOut, CodecTypeOK
<1>3. CodecTypeOK'
  BY <1>1, <1>2 DEF CodecTypeOK, BufferOK, netVars
<1>4. Waits'
  BY <1>1 DEF Waits, Readable
<1> QED BY <1>3, <1>4

-----------------------------------------------------------------------------
(* The invariant, and what it means for what is delivered.                 *)

\* In no sequence at all nothing is counted.
LEMMA NothingCounted ==
  ASSUME NEW m
  PROVE  Count(<<>>, m) = 0
<1>1. {i \in DOMAIN <<>> : <<>>[i] = m} = {}
  OBVIOUS
<1> QED BY <1>1, FS_EmptySet DEF Count

\* The invariant holds initially.
LEMMA CodecInitially ==
  ASSUME CodecInit
  PROVE  CodecInv
<1>0. /\ in = <<>> /\ read = 0 /\ received = 0 /\ fired = <<>> /\ out = <<>>
      /\ written = <<>> /\ net = <<>>
  BY DEF CodecInit
<1>1. Readable = 0 /\ Taken = 0 /\ BufferOK /\ Decoded = <<>>
  <2>1. Len(in) = 0 /\ in \in Seq(Bytes)
    BY <1>0
  <2>2. fired \o out = <<>>
    BY <1>0
  <2>3. Readable = 0
    BY <1>0, <2>1 DEF Readable
  <2>4. Taken = 0
    BY <1>0, <2>3 DEF Taken
  <2>5. BufferOK
    BY <1>0, <2>1 DEF BufferOK
  <2> QED BY <2>2, <2>3, <2>4, <2>5 DEF Decoded
<1>2. CodecTypeOK /\ Waits
  <2>1. flag \in Bytes /\ length \in Nat
    BY Bases DEF CodecInit, Bytes
  <2>2. /\ written \in Seq(Messages) /\ net \in Seq(Seq(Bytes))
        /\ out \in Seq(Seq(Bytes)) /\ fired \in Seq(Seq(Bytes))
    BY <1>0
  <2> QED BY <1>1, <2>1, <2>2, Zenon DEF CodecInit, CodecTypeOK, Waits
<1>3. OnItsWay /\ Buffered
  BY <1>1 DEF CodecInit, OnItsWay, Buffered
<1>4. Framed
  BY DEF CodecInit, Framed
<1>5. Progress(Len(Decoded))
  BY <1>1 DEF CodecInit, Progress
<1>6. Datagrams
  BY DEF CodecInit, Datagrams
<1>7. Balanced({})
  BY <1>1, NothingCounted DEF CodecInit, Balanced
<1>8. DatagramInv
  BY <1>1, <1>6, <1>7 DEF CodecInit, DatagramInv
<1> QED BY <1>2, <1>3, <1>4, <1>5, <1>8 DEF CodecInv, StreamInv

\* Every step keeps the invariant.
LEMMA CodecStep ==
  ASSUME CodecInv, [CodecNext]_codecVars
  PROVE  CodecInv'
<1>1. CodecTypeOK /\ Waits /\ StreamInv /\ DatagramInv
  BY DEF CodecInv
<1>2. transport = "tcp" \/ transport = "udp"
  BY <1>1 DEF CodecTypeOK
<1>3. ASSUME NEW m \in Messages, Write(m) PROVE CodecInv'
  <2>1. CodecTypeOK' /\ Waits'
    BY <1>1, <1>3, WriteKeepsRest
  <2>2. transport' = transport
    BY <1>3 DEF Write
  <2>3. StreamInv'
    BY <1>1, <1>3, <2>2, WriteKeepsStream DEF StreamInv
  <2>4. DatagramInv'
    <3>1. CASE transport = "udp"
      BY <1>1, <1>3, <3>1, WriteKeepsDatagrams
    <3>2. CASE transport # "udp"
      BY <2>2, <3>2 DEF DatagramInv
    <3> QED BY <3>1, <3>2
  <2> QED BY <2>1, <2>3, <2>4 DEF CodecInv
<1>4. ASSUME NEW n \in 1..BufferSize, ReadStream(n) PROVE CodecInv'
  <2>1. CodecTypeOK' /\ Waits'
    BY <1>1, <1>4, ReadStreamKeepsRest
  <2>2. transport = "tcp" /\ transport' = transport
    BY <1>4 DEF ReadStream
  <2>3. StreamInv'
    BY <1>1, <1>4, ReadKeepsStream DEF StreamInv
  <2> QED BY <2>1, <2>2, <2>3 DEF CodecInv, DatagramInv
<1>5. ASSUME NEW i \in 1..MaxSent, ReadDatagram(i) PROVE CodecInv'
  <2>1. transport = "udp" /\ transport' = transport
    BY <1>5 DEF ReadDatagram
  <2>2. DatagramInv'
    BY <1>1, <1>5, ReadKeepsDatagrams
  <2>3. CodecTypeOK' /\ Waits'
    BY <1>1, <1>5, ReadDatagramKeepsRest
  <2> QED BY <2>1, <2>2, <2>3 DEF CodecInv, StreamInv
<1>6. ASSUME NEW i \in 1..MaxSent, LoseDatagram(i) PROVE CodecInv'
  <2>1. transport = "udp" /\ transport' = transport
    BY <1>6 DEF LoseDatagram
  <2>2. DatagramInv'
    BY <1>1, <1>6, LoseKeepsDatagrams
  <2>3. CodecTypeOK' /\ Waits'
    BY <1>1, <1>6, LoseKeepsRest
  <2> QED BY <2>1, <2>2, <2>3 DEF CodecInv, StreamInv
<1>7. ASSUME DecodeFlag \/ DecodeLength \/ DecodeBody \/ FireOut PROVE CodecInv'
  <2>1. CodecTypeOK' /\ Waits'
    BY <1>1, <1>7, FlagKeepsRest, LengthKeepsRest, BodyKeepsRest, FireKeepsRest
  <2>2. transport' = transport
    BY <1>7 DEF DecodeFlag, DecodeLength, DecodeBody, FireOut, netVars
  <2>3. CASE transport = "tcp"
    <3>1. StreamInv'
      BY <1>1, <1>7, <2>3, FlagKeepsStream, LengthKeepsStream, BodyKeepsStream, FireKeepsStream
    <3> QED BY <2>1, <2>2, <2>3, <3>1 DEF CodecInv, DatagramInv
  <2>4. CASE transport = "udp"
    <3>1. DatagramInv'
      BY <1>1, <1>7, <2>4, FlagKeepsDatagrams, LengthKeepsDatagrams, BodyKeepsDatagrams,
         FireKeepsDatagrams
    <3> QED BY <2>1, <2>2, <2>4, <3>1 DEF CodecInv, StreamInv
  <2> QED BY <1>2, <2>3, <2>4
<1>8. ASSUME UNCHANGED codecVars PROVE CodecInv'
  <2>1. /\ UNCHANGED netVars
        /\ UNCHANGED <<in, read, state, flag, length, out, reader, fired>>
    BY <1>8 DEF codecVars
  <2>2. UNCHANGED <<Readable, Decoded, transport, truncated>>
    BY <2>1 DEF Readable, Decoded, netVars
  <2>3. CodecTypeOK' /\ Waits'
    BY <1>1, <2>1, <2>2 DEF CodecTypeOK, Waits, BufferOK, netVars
  <2>4. StreamInv'
    <3>1. CASE transport = "tcp"
      BY <1>1, <2>1, <2>2, <3>1, NothingTaken
    <3>2. CASE transport # "tcp"
      BY <2>2, <3>2 DEF StreamInv
    <3> QED BY <3>1, <3>2
  <2>5. DatagramInv'
    BY <1>1, <2>1, <2>2 DEF DatagramInv, Datagrams, Sent, Holding, RestFrom, Balanced, netVars
  <2> QED BY <2>3, <2>4, <2>5 DEF CodecInv
<1> QED BY <1>3, <1>4, <1>5, <1>6, <1>7, <1>8 DEF CodecNext, AllRead

\* So it holds in every reachable state.
LEMMA CodecInvariant == CodecSpec => []CodecInv
BY CodecInitially, CodecStep, PTL DEF CodecSpec

\* When the reader waits, the messages decoded are those whose last byte was read.
LEMMA DecodedAreComplete ==
  ASSUME CodecInv, transport = "tcp", reader = "idle", NEW d, d = Len(Decoded)
  PROVE  d \in Nat /\ d <= Len(due) /\ {i \in DOMAIN due : due[i].end <= received} = 1..d
<1>1. /\ CodecTypeOK /\ Waits /\ OnItsWay /\ Buffered /\ Framed /\ Progress(d)
      /\ Len(stream) \in Nat /\ BufferOK
  BY DEF CodecInv, StreamInv, OnItsWay, CodecTypeOK
<1>2. d \in Nat /\ d <= Len(due) /\ DOMAIN due = 1..Len(due) /\ Len(due) \in Nat
  BY <1>1, DecodedType DEF Framed, Progress
<1>3. /\ Readable \in Nat /\ Taken \in Nat /\ Taken + Readable = received /\ received \in Nat
  <2>1. received \in Nat
    BY <1>1 DEF OnItsWay
  <2> QED BY <1>1, <2>1, WhereTaken
<1>4. \A i \in 1..Len(due) :
        StartAt(i) \in Nat /\ EndAt(i) \in Nat /\ StartAt(i) < EndAt(i)
  BY <1>1, FrameLies, Zenon
<1>5. \A i \in 1..d : EndAt(i) <= received
  BY <1>1, <1>2, <1>3, <1>4 DEF Progress
<1>6. ASSUME d < Len(due) PROVE received < EndAt(d + 1)
  <2>1. PICK i, m, f, h, s, e : /\ i = d + 1 /\ m = Msg(i) /\ f = FlagOf(m) /\ h = HeadSize(m)
                                /\ s = StartAt(i) /\ e = EndAt(i)
    OBVIOUS
  <2>2. i \in 1..Len(due)
    BY <1>2, <1>6, <2>1
  <2>3. /\ s \in Nat /\ e = s + h + Len(m) /\ h = 1 + Width(f) /\ Width(f) \in Nat
        /\ Len(m) \in Nat
    BY <1>1, <2>1, <2>2, FrameLies, Zenon
  <2>4. CASE state = "FLAG"
    <3>1. Readable = 0 /\ Taken <= s
      BY <1>1, <1>2, <2>1, <2>2, <2>4 DEF Waits, Progress
    <3>2. received < e
      BY ONLY <1>3, <2>3, <3>1
    <3> QED BY <2>1, <3>2
  <2>5. CASE state = "LENGTH"
    <3>1. Readable < Width(f) /\ Taken = s + 1
      BY <1>1, <2>1, <2>5 DEF Waits, Progress
    <3>2. received < e
      BY ONLY <1>3, <2>3, <3>1
    <3> QED BY <2>1, <3>2
  <2>6. CASE state = "BODY"
    <3>1. Readable < Len(m) /\ Taken = s + h
      BY <1>1, <2>1, <2>6 DEF Waits, Progress
    <3>2. received < e
      BY ONLY <1>3, <2>3, <3>1
    <3> QED BY <2>1, <3>2
  <2> QED BY <1>1, <2>4, <2>5, <2>6 DEF CodecTypeOK
<1>7. ASSUME NEW i \in 1..Len(due), d < i PROVE received < EndAt(i)
  <2>1. d < Len(due) /\ d + 1 \in 1..Len(due) /\ (i = d + 1 \/ d + 1 < i)
    BY <1>2, <1>7
  <2>2. CASE i = d + 1
    BY <1>6, <2>1, <2>2
  <2>3. CASE d + 1 < i
    <3>1. EndAt(d + 1) <= StartAt(i)
      BY <1>1, <2>1, <2>3 DEF Framed
    <3> QED BY <1>3, <1>4, <1>6, <2>1, <3>1
  <2> QED BY <2>1, <2>2, <2>3
<1>8. \A i \in 1..Len(due) : EndAt(i) <= received <=> i \in 1..d
  BY <1>2, <1>3, <1>4, <1>5, <1>7
<1> QED BY <1>2, <1>8 DEF EndAt

\* A TCP receiver gets the messages as they were written, each as soon as it is complete.
THEOREM StreamFaithfulHolds == CodecSpec => []StreamFaithful
<1>1. ASSUME CodecInv PROVE StreamFaithful
  <2> SUFFICES ASSUME transport = "tcp", reader = "idle"
               PROVE  LET k == Cardinality({i \in DOMAIN due : due[i].end <= received})
                      IN fired = [i \in 1..k |-> due[i].msg]
    BY DEF StreamFaithful
  <2>1. PICK d : d = Len(Decoded)
    BY Zenon
  <2>2. d \in Nat /\ {i \in DOMAIN due : due[i].end <= received} = 1..d
    BY <1>1, <2>1, DecodedAreComplete
  <2>3. Cardinality(1..d) = d
    <3>1. Cardinality(1..d) = IF 1 > d THEN 0 ELSE d - 1 + 1
      BY <2>2, FS_Interval
    <3> QED BY <2>2, <3>1
  <2>4. fired \in Seq(Seq(Bytes)) /\ Decoded = fired
    BY <1>1 DEF CodecInv, CodecTypeOK, Waits, Decoded
  <2>5. \A i \in 1..d : fired[i] = due[i].msg
    BY <1>1, <2>1, <2>4 DEF CodecInv, StreamInv, Progress, Msg
  <2>6. fired = [i \in 1..d |-> due[i].msg]
    <3>1. fired = [i \in 1..Len(fired) |-> fired[i]]
      BY <2>4
    <3> QED BY <2>1, <2>4, <2>5, <3>1
  <2> QED BY <2>2, <2>3, <2>6, Zenon
<1> QED BY <1>1, CodecInvariant, PTL

\* Lost, repeated and reordered datagrams harm no other.
THEOREM DatagramsStandAloneHolds == CodecSpec => []DatagramsStandAlone
<1>1. ASSUME CodecInv PROVE DatagramsStandAlone
  <2> SUFFICES ASSUME transport = "udp", ~truncated
               PROVE  /\ \A i \in DOMAIN fired : fired[i] # <<>> /\ \E j \in DOMAIN written : written[j] = fired[i]
                      /\ \A m \in Messages : Count(fired, m) <= Count(written, m) + repeats
                      /\ reader = "idle" => state = "FLAG" /\ Readable = 0
    BY DEF DatagramsStandAlone
  <2>1. /\ CodecTypeOK /\ Datagrams
        /\ \A i \in 1..Len(Decoded) : Decoded[i] # <<>> /\ Sent(Decoded[i])
        /\ \/ state = "FLAG" /\ Readable = 0 /\ Balanced({})
           \/ \E h \in Messages : Sent(h) /\ Holding(h) /\ Balanced({h})
    BY <1>1, Zenon DEF CodecInv, DatagramInv
  <2>2. PICK f, o, D : f = fired /\ o = out /\ D = Decoded
    OBVIOUS
  <2>3. /\ f \in Seq(Seq(Bytes)) /\ o \in Seq(Seq(Bytes)) /\ D = f \o o
    BY <2>1, <2>2 DEF CodecTypeOK, Decoded
  <2>4. /\ D \in Seq(Seq(Bytes)) /\ DOMAIN f = 1..Len(f) /\ DOMAIN D = 1..Len(D)
        /\ \A i \in 1..Len(f) : i \in 1..Len(D) /\ D[i] = f[i]
    BY ONLY <2>3
  <2>5. \A i \in DOMAIN f : f[i] # <<>> /\ \E j \in DOMAIN written : written[j] = f[i]
    <3>1. DOMAIN written = 1..Len(written)
      BY <2>1 DEF CodecTypeOK
    <3>2. ASSUME NEW i \in 1..Len(f) PROVE f[i] # <<>> /\ Sent(f[i])
      BY <2>1, <2>2, <2>4, <3>2, Zenon
    <3> QED BY <2>4, <3>1, <3>2, Zenon DEF Sent
  <2>6. ASSUME NEW m \in Messages PROVE Count(f, m) <= Count(written, m) + repeats
    <3>1. PICK A, B : A = {i \in DOMAIN f : f[i] = m} /\ B = {i \in DOMAIN D : D[i] = m}
      BY Zenon
    <3>2. A \in SUBSET B
      BY <2>4, <3>1
    <3>3. IsFiniteSet(B)
      BY <2>4, <3>1, PlacesFinite, Zenon
    <3>4. Count(f, m) <= Count(D, m) /\ Count(f, m) \in Nat
      <4>1. Cardinality(A) <= Cardinality(B)
        BY <3>2, <3>3, FS_Subset
      <4>2. Count(f, m) \in Nat
        BY <2>3, PlacesFinite, Zenon
      <4> QED BY <3>1, <4>1, <4>2 DEF Count
    <3>5. PICK hs : Balanced(hs)
      BY <2>1, Zenon
    <3>6. PICK a, b, c, d : /\ a = Count(net, Frame(m)) /\ b = Count(D, m) /\ c = Count(written, m)
                            /\ d = (IF m \in hs THEN 1 ELSE 0)
      OBVIOUS
    <3>7. a + d + b <= c + repeats
      BY <2>2, <3>5, <3>6 DEF Balanced
    <3>8. a \in Nat /\ b \in Nat /\ c \in Nat /\ repeats \in Nat /\ d \in {0, 1}
      BY <2>1, <2>2, <3>6, CountsAreNumbers
    <3>9. b <= c + repeats
      BY ONLY <3>7, <3>8
    <3>10. c + repeats \in Nat
      BY ONLY <3>8
    <3> QED BY <3>4, <3>6, <3>8, <3>9, <3>10
  <2>7. reader = "idle" => state = "FLAG" /\ Readable = 0
    BY <2>1 DEF Holding
  <2> QED BY <2>2, <2>5, <2>6, <2>7
<1> QED BY <1>1, CodecInvariant, PTL
=============================================================================
