--------------------------- MODULE TransportProofs ---------------------------
(***************************************************************************)
(* Proofs about Transport, for packets and messages of any size, any       *)
(* number of them, and all faults at once.                                 *)
(*                                                                         *)
(* What the sender has encrypted is a sequence of packets that make sense  *)
(* one after the other (FrameOk); the receiver has decrypted a prefix of   *)
(* it (Channel), its reader and its handle are where that prefix ends      *)
(* (Receiver), and what the application has been told so far is what the   *)
(* prefix says (History).                                                  *)
(***************************************************************************)
EXTENDS Transport, PacketStateProofs, SequenceTheorems, TLAPS

Kind(n) == HeaderKind(frames[n].header)

\* The first n frames end inside a message.
Open(n) == n > 0 /\ Kind(n) \in {First, Mid}

\* The message the first n frames end in or after, and how much of it they have.
MsgOf(n) == IF n = 0 THEN 0 ELSE frames[n].m
Start(n) == IF Open(n) THEN frames[n].to ELSE 0

\* Frame n continues the frames before it, and carries what it should.
FrameOk(n) ==
    LET f == frames[n] IN
    /\ Kind(n) \in PacketKind
    /\ f.m \in 1..cur /\ f.m = MsgOf(n - 1) + (IF Open(n - 1) THEN 0 ELSE 1)
    /\ HeaderType(f.header) = sent[f.m].msg_type
    /\ Kind(n) \in {Mid, Last} => Open(n - 1)
    /\ Kind(n) \in {Sole, First} => ~Open(n - 1)
    /\ Kind(n) # Abort => f.to >= Start(n - 1) /\ f.payload = Bytes(f.m, Start(n - 1), f.to)
    /\ Kind(n) \in {Sole, Last} => f.to = sent[f.m].len

FramesOk == \A n \in 1..Len(frames) : FrameOk(n)

\* The builder is where the frames end.
Builder ==
    /\ cur = MsgOf(Len(frames))
             + (IF packet_builder.in_progress /\ packet_builder.is_first THEN 1 ELSE 0)
    /\ Open(Len(frames)) <=> packet_builder.in_progress /\ ~packet_builder.is_first
    /\ packet_builder.in_progress => cur > 0 /\ packet_builder.msg_type = sent[cur].msg_type

\* So is the running call.
Calls ==
    /\ call \notin {"idle", "closed", "abort_message"} => cur > 0
    /\ call = "send_message" =>
          /\ sent[cur].how = "slice" /\ taken <= sent[cur].len
          /\ taken < sent[cur].len <=> packet_builder.in_progress
          /\ packet_builder.in_progress => ~packet_builder.is_first /\ Start(Len(frames)) = taken
    /\ call = "send_reader" =>
          /\ packet_builder.in_progress /\ filled <= taken
          /\ taken <= sent[cur].len
          /\ Start(Len(frames)) = taken - filled
    /\ call \in {"send_reader", "closing"} => sent[cur].how = "reader"
    /\ sent # <<>> /\ sent[cur].how = "slice" /\ result[cur] = "ok"
          => ~packet_builder.in_progress
    /\ writing => call \notin {"idle", "closed"} /\ Len(frames) > 0

Sender == FramesOk /\ Builder /\ Calls

\* Frames whose write is over.
Put == IF writing THEN Len(frames) - 1 ELSE Len(frames)

\* No frame can be decrypted any more.
Dead == rx_torn \/ rx_nonce \in lost

\* The stream holds the frames from rx_nonce up to the first one that is lost.
Channel ==
    /\ \A n \in lost : n < Put
    /\ rx_nonce <= Put
    /\ LostFrameStops
    /\ \A i \in 1..Len(wire) : wire[i].nonce < Put /\ (wire[i].torn <=> wire[i].nonce \in lost)
    /\ Dead \/ (IF wire = <<>> THEN rx_nonce = Put ELSE wire[1].nonce = rx_nonce)
    /\ \A i \in 1..Len(wire) :
          LET n == wire[i].nonce + 1 IN
          n \in lost \/ (IF i = Len(wire) THEN n = Put ELSE wire[i + 1].nonce = n)

\* Nothing will be read any more.
Stopped == Dead \/ (StreamEnds /\ wire = <<>>)

\* The handle is on the message of the last frame decrypted.
Live ==
    \/ msg.at = "message"
    \/ msg.at \in {"bytes", "packets"} /\ (msg.done \/ Open(rx_nonce))

ReaderOk ==
    /\ packet_reader.in_progress <=> Open(rx_nonce)
    /\ Open(rx_nonce) => packet_reader.msg_type = HeaderType(frames[rx_nonce].header)

\* What a live handle has gathered of its message.
Gathered ==
    LET to == frames[rx_nonce].to IN
    /\ Len(msg.data) <= to /\ msg.data = Bytes(msg.m, to - Len(msg.data), to)
    /\ msg.m \notin dropped => Len(msg.data) = to

HandleOk ==
    /\ msg.at = "none" /\ Open(rx_nonce) => Stopped \/ MsgOf(rx_nonce) \in dropped
    /\ Live =>
          /\ rx_nonce > 0
          /\ msg.m = MsgOf(rx_nonce) /\ msg.msg_type = sent[msg.m].msg_type
          /\ Kind(rx_nonce) # Abort => Gathered
    /\ msg.at = "message" =>
          /\ msg.kind = Kind(rx_nonce) /\ ~msg.done
          /\ msg.kind \in {Mid, Last, Abort} => msg.m \in dropped
    /\ msg.done =>
          /\ rx_nonce > 0
          /\ \/ msg.at = "packets" /\ Kind(rx_nonce) \in {Sole, Last}
             \/ msg.at = "aborted" /\ Kind(rx_nonce) = Abort
    /\ msg.at \in {"bytes", "packets"} /\ ~Live => msg.m \in dropped
    /\ PanicOnlyAfterDrop

Receiver == ReaderOk /\ HandleOk

Heard == Events({"message", "aborted", "rejected"})

\* The message the receiver is in or after, and whether it is still in it.
Top == MsgOf(rx_nonce)
Busy == Live \/ Open(rx_nonce)

\* The application has not heard of a message the receiver has not come to.
Bounded == \A i \in Heard : seen[i].m \in 1..Top /\ (Busy => seen[i].m < Top)

\* It has heard of all that the receiver is done with.
Covered ==
    msg.at # "panicked" =>
       \A m \in 1..Top \ dropped : (\E j \in Heard : seen[j].m = m) \/ (m = Top /\ Busy)

History == OnlyBareAbortRejected /\ Bounded /\ Covered /\ MessageIntact /\ InOrder

IInv == TypeOK /\ Sender /\ Channel /\ Receiver /\ History

----------------------------------------------------------------------------
\* Data.

\* Bytes from..to of a message, of which there are to - from.
LEMMA BytesIs ==
    ASSUME NEW m \in Nat, NEW from \in Nat, NEW to \in Nat, from <= to
    PROVE  /\ Bytes(m, from, to) \in Seq(Nat \X Nat)
           /\ Len(Bytes(m, from, to)) = to - from
           /\ \A i \in 1..(to - from) : Bytes(m, from, to)[i] = <<m, from + i>>
<1>1. to - from \in Nat
  OBVIOUS
<1>2. \A i \in 1..(to - from) : <<m, from + i>> \in Nat \X Nat
  OBVIOUS
<1>3. Bytes(m, from, to) \in Seq(Nat \X Nat)
  BY <1>1, <1>2 DEF Bytes
<1>4. DOMAIN Bytes(m, from, to) = 1..(to - from)
  BY Zenon DEF Bytes
<1>5. Len(Bytes(m, from, to)) = to - from
  <2>1. 1..Len(Bytes(m, from, to)) = 1..(to - from) /\ Len(Bytes(m, from, to)) \in Nat
    BY Zenon, <1>3, <1>4, LenProperties
  <2>q. QED  BY <1>1, <2>1
<1>q. QED  BY Zenon, <1>3, <1>5 DEF Bytes

\* Consecutive pieces of a message make one piece.
LEMMA BytesConcat ==
    ASSUME NEW m \in Nat, NEW a \in Nat, NEW b \in Nat, NEW c \in Nat, a <= b, b <= c
    PROVE  Bytes(m, a, b) \o Bytes(m, b, c) = Bytes(m, a, c)
<1> DEFINE s == Bytes(m, a, b)
           t == Bytes(m, b, c)
           u == Bytes(m, a, c)
<1>1. /\ s \in Seq(Nat \X Nat) /\ Len(s) = b - a
      /\ \A i \in 1..(b - a) : s[i] = <<m, a + i>>
  BY Zenon, BytesIs
<1>2. /\ t \in Seq(Nat \X Nat) /\ Len(t) = c - b
      /\ \A i \in 1..(c - b) : t[i] = <<m, b + i>>
  BY Zenon, BytesIs
<1>3. /\ u \in Seq(Nat \X Nat) /\ Len(u) = c - a
      /\ \A i \in 1..(c - a) : u[i] = <<m, a + i>>
  <2>1. a <= c
    OBVIOUS
  <2>q. QED  BY Zenon, <2>1, BytesIs
<1> HIDE DEF s, t, u
<1>4. /\ s \o t \in Seq(Nat \X Nat) /\ Len(s \o t) = c - a
      /\ \A i \in 1..(c - a) : (s \o t)[i] = IF i <= b - a THEN s[i] ELSE t[i - (b - a)]
  <2>1. /\ s \o t \in Seq(Nat \X Nat) /\ Len(s \o t) = Len(s) + Len(t)
        /\ \A i \in 1..(Len(s) + Len(t)) :
              (s \o t)[i] = IF i <= Len(s) THEN s[i] ELSE t[i - Len(s)]
    BY Zenon, <1>1, <1>2, ConcatProperties
  <2>2. Len(s) + Len(t) = c - a
    BY <1>1, <1>2
  <2>q. QED  BY Zenon, <1>1, <2>1, <2>2
<1>5. ASSUME NEW i \in 1..(c - a)
      PROVE  (s \o t)[i] = u[i]
  <2>1. CASE i <= b - a
    <3>1. i \in 1..(b - a)
      BY <2>1
    <3>2. (s \o t)[i] = s[i]
      BY Zenon, <1>4, <2>1
    <3>q. QED  BY Zenon, <1>1, <1>3, <3>1, <3>2
  <2>2. CASE ~(i <= b - a)
    <3>1. i - (b - a) \in 1..(c - b) /\ b + (i - (b - a)) = a + i
      BY <2>2
    <3>2. (s \o t)[i] = t[i - (b - a)]
      BY Zenon, <1>4, <2>2
    <3>3. t[i - (b - a)] = <<m, b + (i - (b - a))>>
      BY Zenon, <1>2, <3>1
    <3>q. QED  BY Zenon, <1>3, <3>1, <3>2, <3>3
  <2>q. QED  BY Zenon, <2>1, <2>2
<1>6. s \o t = u
  BY Zenon, <1>3, <1>4, <1>5, SeqEqual
<1>q. QED  BY Zenon, <1>6 DEF s, t, u

\* An empty range of a message has no bytes.
LEMMA BytesNone == \A m : Bytes(m, 0, 0) = <<>>
  BY DEF Bytes

\* What the builder stamps is what the reader decodes.
LEMMA Stamped ==
    ASSUME NEW b \in PacketBuilder, NEW last \in BOOLEAN
    PROVE  /\ PackHeader(b, last) \in Nat /\ HeaderKind(PackHeader(b, last)) = PackKind(b, last)
           /\ HeaderType(PackHeader(b, last)) = b.msg_type
           /\ PackKind(b, last) \in PacketKind
           /\ Packed(b, last) \in PacketBuilder
           /\ (Packed(b, last).in_progress <=> ~last) /\ ~Packed(b, last).is_first
           /\ Packed(b, last).msg_type = b.msg_type
<1>1. b.msg_type \in 0..TYPE_MASK /\ PackKind(b, last) \in PacketKind
  BY Zenon DEF PacketBuilder, PackKind, PacketKind
<1>2. /\ PackHeader(b, last) \in Nat /\ HeaderKind(PackHeader(b, last)) = PackKind(b, last)
      /\ HeaderType(PackHeader(b, last)) = b.msg_type
  BY <1>1, HeaderRoundTrip DEF PackHeader
<1>3. /\ Packed(b, last) \in PacketBuilder
      /\ (Packed(b, last).in_progress <=> ~last) /\ ~Packed(b, last).is_first
      /\ Packed(b, last).msg_type = b.msg_type
  BY Zenon DEF Packed, PacketBuilder
<1>q. QED  BY Zenon, <1>1, <1>2, <1>3

\* So it is with the header that abort stamps, after which the builder is idle.
LEMMA StampedAbort ==
    ASSUME NEW b \in PacketBuilder
    PROVE  /\ AbortHeader(b) \in Nat /\ HeaderKind(AbortHeader(b)) = Abort
           /\ HeaderType(AbortHeader(b)) = b.msg_type
           /\ Aborted(b) \in PacketBuilder /\ ~Aborted(b).in_progress
<1>1. b.msg_type \in 0..TYPE_MASK /\ Abort \in PacketKind
  BY Zenon DEF PacketBuilder, PacketKind
<1>2. /\ AbortHeader(b) \in Nat /\ HeaderKind(AbortHeader(b)) = Abort
      /\ HeaderType(AbortHeader(b)) = b.msg_type
  BY <1>1, HeaderRoundTrip DEF AbortHeader
<1>3. Aborted(b) \in PacketBuilder /\ ~Aborted(b).in_progress
  BY Zenon DEF Aborted, PacketBuilder
<1>q. QED  BY Zenon, <1>2, <1>3

\* Facts about message numbers.
LEMMA PlusZero == \A n \in Nat : n + 0 = n
  OBVIOUS

\* The number of a message that was sent is positive.
LEMMA MsgNumber == \A c : \A m \in 1..c : m \in Nat /\ m > 0
  OBVIOUS

\* The kinds of packets are different numbers.
LEMMA Distinct ==
    /\ Sole \in Nat /\ First \in Nat /\ Mid \in Nat /\ Last \in Nat /\ Abort \in Nat
    /\ Sole # First /\ Sole # Mid /\ Sole # Last /\ Sole # Abort /\ First # Mid
    /\ First # Last /\ First # Abort /\ Mid # Last /\ Mid # Abort /\ Last # Abort
    /\ PacketKind = {Sole, First, Mid, Last, Abort}
  BY DEF Sole, First, Mid, Last, Abort, PacketKind

\* Having no message in hand is a well-typed handle.
LEMMA NoHandle ==
    /\ NoMessage \in Handle /\ NoMessage.at = "none" /\ ~NoMessage.done
  BY DEF NoMessage, Handle, PacketKind, TYPE_MASK

\* Whatever 16 bits arrive, PacketReader::read decodes a kind and a valid type.
LEMMA DecodedTyped ==
    ASSUME NEW h \in Nat
    PROVE  HeaderKind(h) \in Nat /\ HeaderType(h) \in 0..TYPE_MASK
  BY DEF HeaderKind, HeaderType, KIND_UNIT, TYPE_MASK

\* The reader's next state, and what it says of a packet of a known kind.
LEMMA Reads ==
    ASSUME NEW r \in PacketReader, NEW h \in Nat, NEW len \in Nat, len >= 2,
           HeaderKind(h) \in PacketKind
    PROVE  /\ ReadNext(r, h) \in PacketReader
           /\ ReadError(r, len, h) # "none" => ReadError(r, len, h) \in PacketReadError
           /\ HeaderKind(h) \in {Sole, First} =>
                ReadError(r, len, h) = IF r.in_progress THEN "UnexpectedMessageStart" ELSE "none"
           /\ HeaderKind(h) \in {Mid, Last, Abort} =>
                ReadError(r, len, h) = IF ~r.in_progress THEN "MissingMessageStart"
                                       ELSE IF r.msg_type # HeaderType(h)
                                            THEN "MessageTypeChange" ELSE "none"
<1>1. ReadNext(r, h) \in PacketReader
  <2>1. NewReader \in PacketReader
    BY DEF NewReader, PacketReader, TYPE_MASK
  <2>2. [in_progress |-> TRUE, msg_type |-> HeaderType(h)] \in PacketReader
    BY Zenon, DecodedTyped DEF PacketReader
  <2>q. QED  BY Zenon, <2>1, <2>2, ReadNextIs, Distinct
<1>2. HeaderKind(h) \in {Sole, First} =>
        ReadError(r, len, h) = IF r.in_progress THEN "UnexpectedMessageStart" ELSE "none"
  BY DEF ReadError
<1>3. HeaderKind(h) \in {Mid, Last, Abort} =>
        ReadError(r, len, h) = IF ~r.in_progress THEN "MissingMessageStart"
                               ELSE IF r.msg_type # HeaderType(h)
                                    THEN "MessageTypeChange" ELSE "none"
  BY Distinct DEF ReadError
<1>4. ReadError(r, len, h) # "none" => ReadError(r, len, h) \in PacketReadError
  <2>1. HeaderKind(h) \in {Sole, First} \/ HeaderKind(h) \in {Mid, Last, Abort}
    BY Zenon DEF PacketKind
  <2>q. QED  BY Zenon, <1>2, <1>3, <2>1 DEF PacketReadError
<1>q. QED  BY Zenon, <1>1, <1>2, <1>3, <1>4

\* Where the frames end, in numbers.
LEMMA EndTyped ==
    ASSUME TypeOK
    PROVE  /\ cur \in Nat /\ Len(frames) \in Nat
           /\ \A n \in 0..Len(frames) : MsgOf(n) \in Nat /\ Start(n) \in Nat
           /\ MsgOf(Len(frames)) \in Nat /\ Start(Len(frames)) \in Nat
           /\ cur > 0 => /\ sent # <<>> /\ sent[cur].len \in Nat
                         /\ sent[cur].msg_type \in 0..TYPE_MASK
<1>1. Len(frames) \in Nat /\ cur \in Nat
  BY DEF TypeOK, cur
<1>2. \A n \in 1..Len(frames) : frames[n].m \in Nat /\ frames[n].to \in Nat
  <2>1. \A n \in 1..Len(frames) : frames[n] \in Packet
    BY Zenon, ElementOfSeq DEF TypeOK
  <2>q. QED  BY Zenon, <2>1 DEF Packet
<1>3. \A n \in 0..Len(frames) : MsgOf(n) \in Nat /\ Start(n) \in Nat
  BY <1>1, <1>2 DEF MsgOf, Start, Open
<1>4. cur > 0 =>
        /\ sent # <<>>
        /\ sent[cur] \in [msg_type : 0..TYPE_MASK, len : Nat, how : {"slice", "reader"}]
  <2>1. cur > 0 => cur \in 1..Len(sent) /\ sent # <<>>
    BY <1>1 DEF cur
  <2>2. sent \in Seq([msg_type : 0..TYPE_MASK, len : Nat, how : {"slice", "reader"}])
    BY Zenon DEF TypeOK
  <2>q. QED  BY Zenon, <2>1, <2>2, ElementOfSeq
<1>q. QED  BY <1>1, <1>3, <1>4

----------------------------------------------------------------------------
\* The sender.

\* Frames and messages are only ever added.
Grows ==
    /\ frames' \in Seq(Packet) /\ Len(frames) <= Len(frames')
    /\ \A n \in 1..Len(frames) : frames'[n] = frames[n]
    /\ Len(sent') \in Nat /\ cur <= cur' /\ \A m \in 1..cur : sent'[m] = sent[m]

\* What the frames so far say stays true.
LEMMA Stable ==
    ASSUME TypeOK, Sender, Grows
    PROVE  \A n \in 0..Len(frames) :
              /\ Open(n)' <=> Open(n)
              /\ MsgOf(n)' = MsgOf(n) /\ Start(n)' = Start(n)
              /\ n > 0 => /\ frames'[n] = frames[n] /\ Kind(n)' = Kind(n) /\ FrameOk(n)'
                          /\ frames[n].m \in 1..cur /\ sent'[frames[n].m] = sent[frames[n].m]
<1>1. Len(frames) \in Nat /\ cur \in Nat
  BY DEF TypeOK, cur
<1>2. \A n \in 1..Len(frames) : frames'[n] = frames[n] /\ Kind(n)' = Kind(n)
  BY Zenon DEF Grows, Kind
<1>3. \A n \in 0..Len(frames) : Open(n)' <=> Open(n)
  BY <1>1, <1>2 DEF Open
<1>4. \A n \in 0..Len(frames) : MsgOf(n)' = MsgOf(n) /\ Start(n)' = Start(n)
  BY <1>1, <1>2, <1>3 DEF MsgOf, Start, Open
<1>5. ASSUME NEW n \in 1..Len(frames)
      PROVE  FrameOk(n)' /\ frames[n].m \in 1..cur /\ sent'[frames[n].m] = sent[frames[n].m]
  <2>1. FrameOk(n)
    BY Zenon DEF Sender, FramesOk
  <2>2. n - 1 \in 0..Len(frames)
    BY <1>1
  <2>3. frames[n].m \in 1..cur
    BY Zenon, <2>1 DEF FrameOk
  <2>4. frames[n].m \in 1..cur' /\ sent'[frames[n].m] = sent[frames[n].m]
    BY <1>1, <2>3 DEF Grows, cur
  <2>5. /\ Open(n - 1)' <=> Open(n - 1)
        /\ MsgOf(n - 1)' = MsgOf(n - 1) /\ Start(n - 1)' = Start(n - 1)
    BY Zenon, <1>3, <1>4, <2>2
  <2>6. FrameOk(n)'
    BY Zenon, <1>2, <2>1, <2>4, <2>5 DEF FrameOk
  <2>q. QED  BY Zenon, <2>3, <2>4, <2>6
<1>q. QED  BY <1>1, <1>2, <1>3, <1>4, <1>5

\* A packet of a message continues the frames, when it starts where they end.
LEMMA PacketContinues ==
    ASSUME TypeOK, Sender, Grows,
           NEW b \in PacketBuilder, NEW last \in BOOLEAN, NEW m \in Nat,
           NEW from \in Nat, NEW to \in Nat, from <= to,
           pack(b, m, from, to, last),
           m \in 1..cur', m = MsgOf(Len(frames)) + (IF Open(Len(frames)) THEN 0 ELSE 1),
           b.msg_type = sent'[m].msg_type,
           b.is_first <=> ~Open(Len(frames)),
           from = Start(Len(frames)),
           last => to = sent'[m].len
    PROVE  /\ Len(frames') = Len(frames) + 1
           /\ FramesOk'
           /\ Open(Len(frames))' <=> ~last
           /\ MsgOf(Len(frames))' = m
           /\ Start(Len(frames))' = IF last THEN 0 ELSE to
<1> PICK N \in Nat : N = Len(frames)
  BY Zenon, EndTyped
<1> DEFINE f == [header |-> PackHeader(b, last), payload |-> Bytes(m, from, to),
                 m |-> m, to |-> to]
<1>1. N \in Nat /\ frames \in Seq(Packet)
  BY Zenon DEF TypeOK
<1>2. frames' = Append(frames, f)
  BY Zenon DEF pack, encrypt
<1>3. Len(frames') = N + 1 /\ frames'[N + 1] = f
  <2>1. PackHeader(b, last) \in Nat /\ Bytes(m, from, to) \in Seq(Nat \X Nat)
    BY Zenon, Stamped, BytesIs
  <2>2. f \in Packet
    BY Zenon, <2>1 DEF Packet
  <2> HIDE DEF f
  <2>q. QED  BY <1>1, <1>2, <2>2, AppendProperties
<1>4. /\ f.header = PackHeader(b, last) /\ f.payload = Bytes(m, from, to)
      /\ f.m = m /\ f.to = to
  BY Zenon
<1> HIDE DEF f
<1>5. /\ Kind(N + 1)' = PackKind(b, last) /\ PackKind(b, last) \in PacketKind
      /\ HeaderType(f.header) = b.msg_type
  BY <1>3, <1>4, Stamped DEF Kind
<1>6. PackKind(b, last) = IF b.is_first THEN (IF last THEN Sole ELSE First)
                                        ELSE (IF last THEN Last ELSE Mid)
  BY Zenon DEF PackKind
<1>7. Open(N + 1)' <=> ~last
  <2>1. Open(N + 1)' <=> PackKind(b, last) \in {First, Mid}
    BY <1>1, <1>5 DEF Open
  <2>q. QED  BY Zenon, <1>6, <2>1, Distinct
<1>8. MsgOf(N + 1)' = m /\ Start(N + 1)' = IF last THEN 0 ELSE to
  BY <1>1, <1>3, <1>4, <1>7 DEF MsgOf, Start
<1>9. FrameOk(N + 1)'
  <2>1. N + 1 - 1 = N /\ N \in 0..N
    BY <1>1
  <2>2. /\ Open(N)' <=> Open(N)
        /\ MsgOf(N)' = MsgOf(N) /\ Start(N)' = Start(N)
    BY Zenon, <2>1, Stable
  <2>3. /\ Kind(N + 1)' \in {Mid, Last} => Open(N)'
        /\ Kind(N + 1)' \in {Sole, First} => ~Open(N)'
        /\ Kind(N + 1)' \in {Sole, Last} => last
        /\ Kind(N + 1)' \in PacketKind
    BY Zenon, <1>5, <1>6, <2>2, Distinct
  <2>q. QED  BY <1>3, <1>4, <1>5, <2>1, <2>2, <2>3 DEF FrameOk
<1>10. \A n \in 1..(N + 1) : FrameOk(n)'
  <2>1. \A n \in 1..N : FrameOk(n)'
    BY <1>1, Stable
  <2>q. QED  BY <1>1, <1>9, <2>1
<1>q. QED  BY Zenon, <1>3, <1>7, <1>8, <1>10 DEF FramesOk

\* So does the Abort of the message in progress.
LEMMA AbortContinues ==
    ASSUME TypeOK, Sender, Grows, UNCHANGED sent,
           packet_builder.in_progress, encrypt(cur, AbortHeader(packet_builder), 0, 0)
    PROVE  /\ Len(frames') = Len(frames) + 1
           /\ FramesOk'
           /\ ~Open(Len(frames))'
           /\ MsgOf(Len(frames))' = cur
<1> PICK N \in Nat : N = Len(frames)
  BY DEF TypeOK
<1> DEFINE f == [header |-> AbortHeader(packet_builder), payload |-> Bytes(cur, 0, 0),
                 m |-> cur, to |-> 0]
<1>1. N \in Nat /\ frames \in Seq(Packet) /\ packet_builder \in PacketBuilder /\ cur \in Nat
  BY DEF TypeOK, cur
<1>2. frames' = Append(frames, f)
  BY Zenon DEF encrypt
<1>3. Len(frames') = N + 1 /\ frames'[N + 1] = f
  <2>1. AbortHeader(packet_builder) \in Nat /\ Bytes(cur, 0, 0) \in Seq(Nat \X Nat)
    BY Zenon, <1>1, StampedAbort, BytesNone, EmptySeq
  <2>2. f \in Packet
    BY Zenon, <1>1, <2>1 DEF Packet
  <2> HIDE DEF f
  <2>q. QED  BY <1>1, <1>2, <2>2, AppendProperties
<1>4. f.header = AbortHeader(packet_builder) /\ f.m = cur
  BY Zenon
<1> HIDE DEF f
<1>5. Kind(N + 1)' = Abort /\ HeaderType(f.header) = packet_builder.msg_type
  BY Zenon, <1>1, <1>3, <1>4, StampedAbort DEF Kind
<1>6. ~Open(N + 1)'
  BY Zenon, <1>5, Distinct DEF Open
<1>7. MsgOf(N + 1)' = cur
  BY <1>1, <1>3, <1>4 DEF MsgOf
<1>8. FrameOk(N + 1)'
  <2>1. N + 1 - 1 = N /\ N \in 0..N
    BY <1>1
  <2>2. /\ Open(N)' <=> Open(N)
        /\ MsgOf(N)' = MsgOf(N) /\ Start(N)' = Start(N)
    BY Zenon, <2>1, Stable
  <2>3. /\ cur \in 1..cur /\ cur = MsgOf(N) + (IF Open(N) THEN 0 ELSE 1)
        /\ packet_builder.msg_type = sent[cur].msg_type
    BY <1>1, EndTyped DEF Sender, Builder, PacketBuilder
  <2>4. cur' = cur
    BY Zenon DEF cur
  <2>5. /\ Abort \in PacketKind /\ Abort \notin {Mid, Last} /\ Abort \notin {Sole, First}
        /\ Abort \notin {Sole, Last}
    BY Zenon, Distinct
  <2>q. QED  BY <1>3, <1>4, <1>5, <2>1, <2>2, <2>3, <2>4, <2>5 DEF FrameOk
<1>9. \A n \in 1..(N + 1) : FrameOk(n)'
  <2>1. \A n \in 1..N : FrameOk(n)'
    BY <1>1, Stable
  <2>q. QED  BY <1>1, <1>8, <2>1
<1>q. QED  BY Zenon, <1>3, <1>6, <1>7, <1>9 DEF FramesOk

\* A chunk of send_slice ends after its start and within the payload.
LEMMA ChunkEndIs ==
    ASSUME NEW from \in Nat, NEW len \in Nat, from <= len
    PROVE  /\ ChunkEnd(from, len) \in Nat
           /\ from <= ChunkEnd(from, len) /\ ChunkEnd(from, len) <= len
  BY TransportAssumption DEF ChunkEnd

\* A call that returns records its result for the current message.
LEMMA Returned ==
    ASSUME TypeOK, cur > 0, NEW r \in {"open", "ok", "failed"}
    PROVE  /\ [result EXCEPT ![cur] = r] \in Seq({"open", "ok", "failed"})
           /\ Len([result EXCEPT ![cur] = r]) = Len(result)
           /\ [result EXCEPT ![cur] = r][cur] = r
<1>1. cur \in 1..Len(result) /\ result \in Seq({"open", "ok", "failed"})
  BY DEF TypeOK, cur
<1>q. QED  BY <1>1, ExceptSeq

\* The parts of the type invariant that belong to the two ends.
TxType ==
    /\ packet_builder \in PacketBuilder
    /\ frames \in Seq(Packet)
    /\ call \in {"idle", "send_message", "send_reader", "closing", "abort_message", "closed"}
    /\ taken \in Nat /\ filled \in 0..MAX_PACKET_SIZE
    /\ writing \in BOOLEAN
    /\ sent \in Seq([msg_type : 0..TYPE_MASK, len : Nat, how : {"slice", "reader"}])
    /\ result \in Seq({"open", "ok", "failed"}) /\ Len(result) = Len(sent)

RxType ==
    /\ rx_nonce \in Nat
    /\ packet_reader \in PacketReader
    /\ rx_torn \in BOOLEAN
    /\ msg \in Handle
    /\ dropped \subseteq Nat
    /\ seen \in Seq(Event)

\* The type invariant, split between the two ends and the stream.
LEMMA TypeParts ==
    TypeOK <=> TxType /\ RxType /\ wire \in Seq(Frame) /\ lost \subseteq Nat /\ rx_half \in BOOLEAN
  BY Zenon DEF TypeOK, TxType, RxType

\* prepare_message adds a message.
LEMMA PrepareGrows ==
    ASSUME TypeOK, NEW t \in MsgTypes, NEW len \in Lengths, NEW how \in {"slice", "reader"},
           prepare_message(how, t, len)
    PROVE  /\ ~packet_builder.in_progress /\ t \in 0..TYPE_MASK /\ len \in Nat
           /\ Prepared(packet_builder, t) \in PacketBuilder
           /\ Prepared(packet_builder, t).in_progress /\ Prepared(packet_builder, t).is_first
           /\ Prepared(packet_builder, t).msg_type = t
           /\ sent' \in Seq([msg_type : 0..TYPE_MASK, len : Nat, how : {"slice", "reader"}])
           /\ cur \in Nat /\ cur' = cur + 1 /\ Len(sent') = Len(sent) + 1
           /\ \A m \in 1..cur : sent'[m] = sent[m]
           /\ sent'[cur + 1].msg_type = t /\ sent'[cur + 1].len = len /\ sent'[cur + 1].how = how
           /\ result' \in Seq({"open", "ok", "failed"}) /\ Len(result') = Len(sent')
           /\ result'[cur + 1] = "open"
<1>1. ~packet_builder.in_progress /\ t \in 0..TYPE_MASK /\ len \in Nat
  BY TransportAssumption DEF prepare_message, PrepareOk
<1>2. /\ Prepared(packet_builder, t) \in PacketBuilder
      /\ Prepared(packet_builder, t).in_progress /\ Prepared(packet_builder, t).is_first
      /\ Prepared(packet_builder, t).msg_type = t
  BY Zenon, <1>1 DEF Prepared, PacketBuilder
<1> DEFINE M == [msg_type : 0..TYPE_MASK, len : Nat, how : {"slice", "reader"}]
           s == [msg_type |-> t, len |-> len, how |-> how]
<1>3. s \in M /\ s.msg_type = t /\ s.len = len /\ s.how = how
  BY Zenon, <1>1
<1>4. sent \in Seq(M) /\ sent' = Append(sent, s) /\ Len(sent) \in Nat
  BY DEF TypeOK, prepare_message
<1>5. /\ result \in Seq({"open", "ok", "failed"}) /\ Len(result) = Len(sent)
      /\ result' = Append(result, "open")
  BY Zenon DEF TypeOK, prepare_message
<1> HIDE DEF s, M
<1>6. /\ sent' \in Seq(M) /\ Len(sent') = Len(sent) + 1
      /\ \A m \in 1..Len(sent) : sent'[m] = sent[m]
      /\ sent'[Len(sent) + 1] = s
  BY <1>3, <1>4, AppendProperties
<1>7. /\ result' \in Seq({"open", "ok", "failed"}) /\ Len(result') = Len(result) + 1
      /\ result'[Len(result) + 1] = "open"
  BY <1>5, AppendProperties
<1>8. cur \in Nat /\ cur' = cur + 1
  BY Zenon, <1>4, <1>6 DEF cur
<1>9. sent' \in Seq([msg_type : 0..TYPE_MASK, len : Nat, how : {"slice", "reader"}])
  BY Zenon, <1>6 DEF M
<1>q. QED  BY Zenon, <1>1, <1>2, <1>3, <1>5, <1>6, <1>7, <1>8, <1>9 DEF cur

\* pack and encrypt add a frame.
LEMMA EncryptGrows ==
    ASSUME TypeOK, NEW m \in Nat, NEW header \in Nat, NEW from \in Nat, NEW to \in Nat,
           from <= to, encrypt(m, header, from, to)
    PROVE  /\ frames' \in Seq(Packet) /\ Len(frames') = Len(frames) + 1
           /\ \A n \in 1..Len(frames) : frames'[n] = frames[n]
           /\ writing' = TRUE
<1> DEFINE f == [header |-> header, payload |-> Bytes(m, from, to), m |-> m, to |-> to]
<1>1. Bytes(m, from, to) \in Seq(Nat \X Nat)
  BY Zenon, BytesIs
<1>2. f \in Packet
  BY Zenon, <1>1 DEF Packet
<1>3. frames \in Seq(Packet) /\ frames' = Append(frames, f) /\ writing' = TRUE
  BY Zenon DEF encrypt, TypeOK
<1> HIDE DEF f
<1>q. QED  BY <1>2, <1>3, AppendProperties

\* send_message makes the first frame of a new message.
LEMMA StepSendMessage ==
    ASSUME TypeOK, Sender, NEW t \in MsgTypes, NEW len \in Lengths, send_message(t, len)
    PROVE  TxType' /\ Grows /\ Sender'
<1> DEFINE b == Prepared(packet_builder, t)
<1> PICK to : to = ChunkEnd(0, len)
  BY Zenon
<1> PICK last \in BOOLEAN : last = (to = len)
  BY Zenon
<1> PICK m \in Nat : m = cur + 1
  BY EndTyped
<1>1. prepare_message("slice", t, len)
  BY Zenon DEF send_message
<1>2. /\ ~packet_builder.in_progress /\ t \in 0..TYPE_MASK /\ len \in Nat
      /\ b \in PacketBuilder /\ b.in_progress /\ b.is_first /\ b.msg_type = t
      /\ sent' \in Seq([msg_type : 0..TYPE_MASK, len : Nat, how : {"slice", "reader"}])
      /\ cur \in Nat /\ cur' = cur + 1 /\ cur' = m /\ Len(sent') = Len(sent) + 1
      /\ \A i \in 1..cur : sent'[i] = sent[i]
      /\ sent'[m].msg_type = t /\ sent'[m].len = len /\ sent'[m].how = "slice"
      /\ result' \in Seq({"open", "ok", "failed"}) /\ Len(result') = Len(sent')
      /\ result'[m] = "open"
  BY Zenon, <1>1, PrepareGrows
<1>3. to \in Nat /\ 0 <= to /\ to <= len
  BY <1>2, ChunkEndIs
<1>4. /\ pack(b, m, 0, to, last) /\ encrypt(m, PackHeader(b, last), 0, to)
      /\ packet_builder' = Packed(b, last)
      /\ call' = "send_message" /\ taken' = to /\ filled' = filled
  BY Zenon DEF send_message, pack
<1> HIDE DEF b
<1>6. /\ PackHeader(b, last) \in Nat /\ Packed(b, last) \in PacketBuilder
      /\ (Packed(b, last).in_progress <=> ~last) /\ ~Packed(b, last).is_first
      /\ Packed(b, last).msg_type = t
  BY Zenon, <1>2, Stamped
<1>7. /\ frames' \in Seq(Packet) /\ Len(frames') = Len(frames) + 1
      /\ \A n \in 1..Len(frames) : frames'[n] = frames[n]
      /\ writing' = TRUE
  <2>1. m \in Nat /\ 0 \in Nat /\ encrypt(m, PackHeader(b, last), 0, to)
    BY Zenon, <1>2, <1>4
  <2>q. QED  BY Zenon, <1>3, <1>6, <2>1, EncryptGrows
<1>8. Grows
  BY SMTT(30), <1>2, <1>7 DEF Grows, TypeOK, cur
<1>9. TxType'
  BY Zenon, <1>2, <1>3, <1>4, <1>6, <1>7 DEF TxType, TypeOK
<1>10. ~Open(Len(frames)) /\ MsgOf(Len(frames)) = cur /\ Start(Len(frames)) = 0
  BY SMTT(30), <1>2, EndTyped DEF Sender, Builder, Start
<1>11. /\ FramesOk'
       /\ Open(Len(frames))' <=> ~last
       /\ MsgOf(Len(frames))' = m
       /\ Start(Len(frames))' = IF last THEN 0 ELSE to
  <2>1. last => to = len
    BY Zenon
  <2>2. /\ m \in Nat /\ 0 \in Nat /\ pack(b, m, 0, to, last)
        /\ m \in 1..cur' /\ b.msg_type = sent'[m].msg_type
        /\ m = MsgOf(Len(frames)) + (IF Open(Len(frames)) THEN 0 ELSE 1)
        /\ last => to = sent'[m].len
        /\ b.is_first <=> ~Open(Len(frames))
        /\ 0 = Start(Len(frames))
    BY <1>2, <1>4, <1>10, <2>1
  <2>q. QED  BY Zenon, <1>2, <1>3, <1>8, <2>2, PacketContinues
<1>12. Sender'
  <2>1. last <=> to = len
    BY Zenon
  <2>2. Len(sent') > 0 /\ Len(frames') > 0
    BY SMTT(30), <1>2, <1>7 DEF TypeOK
  <2>3. /\ (packet_builder'.in_progress <=> ~last) /\ ~packet_builder'.is_first
        /\ packet_builder'.msg_type = t
    BY Zenon, <1>4, <1>6
  <2>4. /\ cur' > 0 /\ sent'[cur'].msg_type = t /\ sent'[cur'].len = len
        /\ sent'[cur'].how = "slice" /\ result'[cur'] = "open"
    BY <1>2
  <2>5. Builder'
    BY <1>2, <1>11, <2>3, <2>4 DEF Builder
  <2>6. Calls'
    BY SMTT(30), <1>2, <1>3, <1>4, <1>7, <1>11, <2>1, <2>2, <2>3, <2>4 DEF Calls
  <2>q. QED  BY Zenon, <1>11, <2>5, <2>6 DEF Sender
<1>q. QED  BY Zenon, <1>8, <1>9, <1>12

\* send_slice goes on with the next frame, or returns.
LEMMA StepSliceNext ==
    ASSUME TypeOK, Sender, send_slice_next
    PROVE  TxType' /\ Grows /\ Sender'
<1> DEFINE len == sent[cur].len
           to == ChunkEnd(taken, len)
           last == (to = len)
<1>1. /\ cur \in Nat /\ cur > 0 /\ len \in Nat /\ taken \in Nat /\ taken <= len
      /\ call = "send_message" /\ ~writing /\ UNCHANGED <<filled, sent>>
  <2>1. call = "send_message" /\ ~writing /\ UNCHANGED <<filled, sent>>
    BY Zenon DEF send_slice_next
  <2>2. cur > 0 /\ taken <= len
    BY Zenon, <2>1 DEF Sender, Calls
  <2>q. QED  BY SMTT(30), <2>1, <2>2, EndTyped DEF TypeOK
<1>2. CASE taken < len
  <2>1. /\ packet_builder.in_progress /\ ~packet_builder.is_first
        /\ packet_builder \in PacketBuilder /\ Open(Len(frames)) /\ MsgOf(Len(frames)) = cur
        /\ Start(Len(frames)) = taken /\ packet_builder.msg_type = sent[cur].msg_type
        /\ sent[cur].how = "slice"
    <3>1. packet_builder \in PacketBuilder /\ packet_builder.in_progress \in BOOLEAN
          /\ packet_builder.is_first \in BOOLEAN
      BY Zenon DEF TypeOK, PacketBuilder
    <3>2. packet_builder.in_progress
      BY Zenon, <1>1, <1>2 DEF Sender, Calls
    <3>q. QED  BY <1>1, <1>2, <3>1, <3>2, EndTyped DEF Sender, Builder, Calls
  <2>2. to \in Nat /\ taken <= to /\ to <= len
    BY Zenon, <1>1, ChunkEndIs
  <2>3. /\ pack(packet_builder, cur, taken, to, last)
        /\ encrypt(cur, PackHeader(packet_builder, last), taken, to)
        /\ packet_builder' = Packed(packet_builder, last)
        /\ taken' = to /\ call' = call /\ result' = result
    BY Zenon, <1>2 DEF send_slice_next, pack
  <2>4. last \in BOOLEAN
    BY Zenon
  <2>5. /\ PackHeader(packet_builder, last) \in Nat /\ Packed(packet_builder, last) \in PacketBuilder
        /\ Packed(packet_builder, last).in_progress <=> ~last
        /\ ~Packed(packet_builder, last).is_first
        /\ Packed(packet_builder, last).msg_type = packet_builder.msg_type
    BY Zenon, <2>1, <2>4, Stamped
  <2>6. last <=> to = len
    BY Zenon
  <2> HIDE DEF to, last, len
  <2>7. /\ frames' \in Seq(Packet) /\ Len(frames') = Len(frames) + 1
        /\ \A n \in 1..Len(frames) : frames'[n] = frames[n]
        /\ writing' = TRUE
    BY Zenon, <1>1, <2>2, <2>3, <2>5, EncryptGrows
  <2>8. Grows
    BY SMTT(30), <1>1, <2>7 DEF Grows, TypeOK, cur
  <2>9. TxType'
    BY Zenon, <1>1, <2>2, <2>3, <2>5, <2>7 DEF TxType, TypeOK
  <2>10. /\ FramesOk'
         /\ Open(Len(frames))' <=> ~last
         /\ MsgOf(Len(frames))' = cur
         /\ Start(Len(frames))' = IF last THEN 0 ELSE to
    <3>1. cur \in 1..cur' /\ sent'[cur].msg_type = packet_builder.msg_type
          /\ sent'[cur].len = len
      BY <1>1, <2>1 DEF cur, len
    <3>q. QED  BY <1>1, <2>1, <2>2, <2>3, <2>4, <2>6, <2>8, <3>1, PacketContinues
  <2>11. Sender'
    <3>1. Len(frames') > 0 /\ cur' = cur /\ sent'[cur'] = sent[cur]
      BY <1>1, <2>7 DEF TypeOK, cur
    <3>2. sent # <<>> /\ result[cur] # "ok" /\ result'[cur'] = result[cur]
      BY <1>1, <2>1, <2>3, <3>1 DEF Sender, Calls, cur, TypeOK
    <3>3. /\ (packet_builder'.in_progress <=> ~last) /\ ~packet_builder'.is_first
          /\ packet_builder'.msg_type = packet_builder.msg_type
      BY Zenon, <2>3, <2>5
    <3>4. sent[cur].len = len
      BY Zenon DEF len
    <3>5. Builder'
      BY <1>1, <2>1, <2>10, <3>1, <3>3 DEF Builder
    <3>6. Calls'
      BY <1>1, <2>1, <2>2, <2>3, <2>6, <2>7, <2>10, <3>1, <3>2, <3>3, <3>4 DEF Calls
    <3>q. QED  BY Zenon, <2>10, <3>5, <3>6 DEF Sender
  <2>q. QED  BY Zenon, <2>8, <2>9, <2>11
<1>3. CASE ~(taken < len)
  <2>1. /\ call' = "idle" /\ result' = [result EXCEPT ![cur] = "ok"]
        /\ UNCHANGED <<packet_builder, frames, writing, taken>>
    BY Zenon, <1>3 DEF send_slice_next, Return
  <2>2. /\ result' \in Seq({"open", "ok", "failed"}) /\ Len(result') = Len(result)
        /\ result'[cur] = "ok" /\ ~packet_builder.in_progress
    BY Zenon, <1>1, <1>3, <2>1, Returned DEF Sender, Calls
  <2>3. TxType'
    BY Zenon, <1>1, <2>1, <2>2 DEF TxType, TypeOK
  <2>4. Grows
    BY <1>1, <2>1 DEF Grows, TypeOK, cur
  <2>5. Sender'
    <3>1. /\ (Open(Len(frames))' <=> Open(Len(frames))) /\ MsgOf(Len(frames))' = MsgOf(Len(frames))
          /\ FramesOk'
      BY Zenon, <1>1, <2>1, <2>4 DEF Open, MsgOf, Kind, FramesOk, FrameOk, Start, Sender, cur
    <3>q. QED  BY Zenon, <1>1, <2>1, <2>2, <3>1 DEF Sender, Builder, Calls, cur
  <2>q. QED  BY Zenon, <2>3, <2>4, <2>5
<1>q. QED  BY Zenon, <1>2, <1>3

\* Steps that encrypt nothing and prepare nothing leave the end of the frames
\* where it is.
LEMMA Quiet ==
    ASSUME TypeOK, Sender, UNCHANGED <<frames, sent>>
    PROVE  /\ Grows /\ FramesOk' /\ cur' = cur
           /\ Open(Len(frames))' <=> Open(Len(frames))
           /\ MsgOf(Len(frames))' = MsgOf(Len(frames))
           /\ Start(Len(frames))' = Start(Len(frames))
<1>1. Grows
  BY DEF Grows, TypeOK, cur
<1>q. QED  BY <1>1 DEF Sender, FramesOk, FrameOk, Kind, Open, MsgOf, Start, cur

\* send_reader begins a new message and makes no frame yet.
LEMMA StepSendReader ==
    ASSUME TypeOK, Sender, NEW t \in MsgTypes, NEW len \in Lengths, send_reader(t, len)
    PROVE  TxType' /\ Grows /\ Sender'
<1> DEFINE b == Prepared(packet_builder, t)
<1> PICK m \in Nat : m = cur + 1
  BY EndTyped
<1>1. /\ prepare_message("reader", t, len) /\ packet_builder' = b
      /\ call' = "send_reader" /\ taken' = 0 /\ filled' = 0
      /\ UNCHANGED <<frames, writing>>
  BY Zenon DEF send_reader
<1>2. /\ ~packet_builder.in_progress /\ t \in 0..TYPE_MASK /\ len \in Nat
      /\ b \in PacketBuilder /\ b.in_progress /\ b.is_first /\ b.msg_type = t
      /\ sent' \in Seq([msg_type : 0..TYPE_MASK, len : Nat, how : {"slice", "reader"}])
      /\ cur \in Nat /\ cur' = cur + 1 /\ cur' = m /\ Len(sent') = Len(sent) + 1
      /\ \A i \in 1..cur : sent'[i] = sent[i]
      /\ sent'[m].msg_type = t /\ sent'[m].len = len /\ sent'[m].how = "reader"
      /\ result' \in Seq({"open", "ok", "failed"}) /\ Len(result') = Len(sent')
      /\ result'[m] = "open"
  BY Zenon, <1>1, PrepareGrows
<1> HIDE DEF b
<1>3. Grows
  <2>1. frames' \in Seq(Packet) /\ Len(frames) <= Len(frames')
        /\ \A n \in 1..Len(frames) : frames'[n] = frames[n]
    BY <1>1, EndTyped DEF TypeOK
  <2>2. Len(sent') \in Nat /\ cur <= cur'
    BY <1>2 DEF cur
  <2>q. QED  BY Zenon, <1>2, <2>1, <2>2 DEF Grows
<1>4. TxType'
  BY <1>1, <1>2, TransportAssumption DEF TxType, TypeOK
<1>5. ~Open(Len(frames)) /\ MsgOf(Len(frames)) = cur
  BY SMTT(30), <1>2, EndTyped DEF Sender, Builder
<1>6. ~Open(Len(frames))' /\ MsgOf(Len(frames))' = cur /\ Start(Len(frames))' = 0
  <2>1. (Open(Len(frames))' <=> Open(Len(frames))) /\ MsgOf(Len(frames))' = MsgOf(Len(frames))
    BY Zenon, <1>1 DEF Open, MsgOf, Kind
  <2>q. QED  BY Zenon, <1>5, <2>1 DEF Start
<1>7. FramesOk'
  <2>1. \A n \in 1..Len(frames) : FrameOk(n)'
    BY <1>3, Stable, EndTyped
  <2>q. QED  BY Zenon, <1>1, <2>1 DEF FramesOk
<1>8. Builder'
  BY <1>1, <1>2, <1>6 DEF Builder
<1>9. Calls'
  <2>1. call = "idle" /\ ~writing
    BY Zenon, <1>1 DEF prepare_message, Sender, Calls
  <2>q. QED  BY <1>1, <1>2, <1>6, <2>1 DEF Calls
<1>q. QED  BY Zenon, <1>3, <1>4, <1>7, <1>8, <1>9 DEF Sender

\* send_reader packs what the buffer holds.
LEMMA ReaderPacks ==
    ASSUME TypeOK, Sender, NEW last \in BOOLEAN, call = "send_reader",
           pack(packet_builder, cur, taken - filled, taken, last),
           last => taken = sent[cur].len,
           UNCHANGED <<taken, sent>>
    PROVE  /\ Grows /\ FramesOk' /\ writing' = TRUE /\ Len(frames') > 0
           /\ packet_builder' \in PacketBuilder /\ (packet_builder'.in_progress <=> ~last)
           /\ ~packet_builder'.is_first /\ packet_builder'.msg_type = sent[cur].msg_type
           /\ cur > 0 /\ cur' = cur /\ sent[cur].how = "reader" /\ taken <= sent[cur].len
           /\ Open(Len(frames))' <=> ~last
           /\ MsgOf(Len(frames))' = cur
           /\ Start(Len(frames))' = IF last THEN 0 ELSE taken
           /\ frames' \in Seq(Packet)
<1> PICK m \in Nat : m = cur
  BY Zenon, EndTyped
<1>1. /\ packet_builder \in PacketBuilder /\ packet_builder.in_progress
      /\ packet_builder.is_first \in BOOLEAN
      /\ cur > 0 /\ filled \in Nat /\ taken \in Nat /\ filled <= taken
      /\ packet_builder.msg_type = sent[cur].msg_type
      /\ Start(Len(frames)) = taken - filled
      /\ sent[cur].how = "reader" /\ taken <= sent[cur].len
  BY DEF TypeOK, PacketBuilder, Sender, Builder, Calls
<1> PICK from \in Nat : from = taken - filled
  BY <1>1
<1>2. /\ packet_builder.is_first <=> ~Open(Len(frames))
      /\ m = MsgOf(Len(frames)) + (IF Open(Len(frames)) THEN 0 ELSE 1)
  BY Zenon, <1>1, EndTyped DEF Sender, Builder
<1>3. /\ pack(packet_builder, m, from, taken, last)
      /\ encrypt(m, PackHeader(packet_builder, last), from, taken)
      /\ packet_builder' = Packed(packet_builder, last)
  BY Zenon DEF pack
<1>4. /\ PackHeader(packet_builder, last) \in Nat
      /\ Packed(packet_builder, last) \in PacketBuilder
      /\ (Packed(packet_builder, last).in_progress <=> ~last)
      /\ ~Packed(packet_builder, last).is_first
      /\ Packed(packet_builder, last).msg_type = packet_builder.msg_type
  BY Zenon, <1>1, Stamped
<1>5. /\ frames' \in Seq(Packet) /\ Len(frames') = Len(frames) + 1
      /\ \A n \in 1..Len(frames) : frames'[n] = frames[n]
      /\ writing' = TRUE
  <2>1. from <= taken /\ taken \in Nat
    BY <1>1
  <2>q. QED  BY Zenon, <1>3, <1>4, <2>1, EncryptGrows
<1>6. Grows /\ Len(frames') > 0 /\ cur' = cur
  BY SMTT(30), <1>5 DEF Grows, TypeOK, cur
<1>7. /\ FramesOk'
      /\ Open(Len(frames))' <=> ~last
      /\ MsgOf(Len(frames))' = m
      /\ Start(Len(frames))' = IF last THEN 0 ELSE taken
  <2>1. /\ m \in 1..cur' /\ packet_builder.msg_type = sent'[m].msg_type
        /\ last => taken = sent'[m].len
        /\ from = Start(Len(frames)) /\ from <= taken
        /\ m \in Nat /\ taken \in Nat /\ packet_builder \in PacketBuilder
    BY <1>1, <1>6
  <2>q. QED  BY ZenonT(60), <1>2, <1>3, <1>6, <2>1, PacketContinues
<1>q. QED  BY Zenon, <1>1, <1>3, <1>4, <1>5, <1>6, <1>7

\* A full buffer of send_reader becomes the next frame.
LEMMA StepReaderFull ==
    ASSUME TypeOK, Sender, send_reader_full
    PROVE  TxType' /\ Grows /\ Sender'
<1>1. /\ call = "send_reader" /\ ~writing /\ filled' = 0
      /\ pack(packet_builder, cur, taken - filled, taken, FALSE)
      /\ UNCHANGED <<call, taken, sent, result>>
  BY Zenon DEF send_reader_full
<1>2. /\ Grows /\ FramesOk' /\ writing' = TRUE /\ Len(frames') > 0
      /\ packet_builder' \in PacketBuilder /\ packet_builder'.in_progress
      /\ ~packet_builder'.is_first /\ packet_builder'.msg_type = sent[cur].msg_type
      /\ cur > 0 /\ cur' = cur /\ sent[cur].how = "reader" /\ taken <= sent[cur].len
      /\ Open(Len(frames))'
      /\ MsgOf(Len(frames))' = cur
      /\ Start(Len(frames))' = taken
      /\ frames' \in Seq(Packet)
  BY Zenon, <1>1, ReaderPacks
<1>3. TxType'
  BY <1>1, <1>2, TransportAssumption DEF TxType, TypeOK
<1>4. Builder'
  BY <1>1, <1>2, EndTyped DEF Builder
<1>5. Calls'
  BY <1>1, <1>2, EndTyped DEF Calls, TypeOK
<1>q. QED  BY Zenon, <1>2, <1>3, <1>4, <1>5 DEF Sender

\* A read of the source fills the buffer of send_reader.
LEMMA StepReaderRead ==
    ASSUME TypeOK, Sender, send_reader_read
    PROVE  TxType' /\ Grows /\ Sender'
<1>1. /\ call = "send_reader" /\ ~writing
      /\ UNCHANGED <<packet_builder, frames, call, writing, sent, result>>
  BY Zenon DEF send_reader_read
<1>2. PICK n \in 1..(MAX_PACKET_SIZE - filled) :
          /\ taken + n <= sent[cur].len
          /\ taken' = taken + n /\ filled' = filled + n
  BY Zenon DEF send_reader_read
<1>3. taken \in Nat /\ filled \in 0..MAX_PACKET_SIZE /\ n \in Nat /\ MAX_PACKET_SIZE \in Nat
  BY TransportAssumption DEF TypeOK
<1>4. TxType'
  BY SMTT(30), <1>1, <1>2, <1>3 DEF TxType, TypeOK
<1>5. /\ Grows /\ FramesOk' /\ cur' = cur
      /\ Open(Len(frames))' <=> Open(Len(frames))
      /\ MsgOf(Len(frames))' = MsgOf(Len(frames))
      /\ Start(Len(frames))' = Start(Len(frames))
  BY Zenon, <1>1, Quiet
<1>6. Builder'
  BY Zenon, <1>1, <1>5 DEF Builder, Sender
<1>7. Calls'
  BY <1>1, <1>2, <1>3, <1>5 DEF Calls, Sender
<1>q. QED  BY Zenon, <1>4, <1>5, <1>6, <1>7 DEF Sender

\* A call returns with r, or goes on to its last await.
LEMMA CallReturns ==
    ASSUME TypeOK, Sender, NEW r \in {"ok", "failed"}, Return(r), cur > 0,
           r = "ok" => sent[cur].how = "reader",
           UNCHANGED <<packet_builder, frames, taken, writing, sent>>,
           filled' \in 0..MAX_PACKET_SIZE, ~writing
    PROVE  TxType' /\ Grows /\ Sender'
<1>1. call' = "idle" /\ result' = [result EXCEPT ![cur] = r]
  BY Zenon DEF Return
<1>2. /\ result' \in Seq({"open", "ok", "failed"}) /\ Len(result') = Len(result)
      /\ result'[cur] = r
  BY Zenon, <1>1, Returned
<1>3. TxType'
  BY Zenon, <1>1, <1>2 DEF TxType, TypeOK
<1>4. /\ Grows /\ FramesOk' /\ cur' = cur
      /\ Open(Len(frames))' <=> Open(Len(frames))
      /\ MsgOf(Len(frames))' = MsgOf(Len(frames))
      /\ Start(Len(frames))' = Start(Len(frames))
  BY Zenon, Quiet
<1>5. Builder'
  BY Zenon, <1>4 DEF Builder, Sender
<1>6. Calls'
  BY Zenon, <1>1, <1>2, <1>4 DEF Calls
<1>q. QED  BY Zenon, <1>3, <1>4, <1>5, <1>6 DEF Sender

\* At the end of the source what is in the buffer becomes the last frame.
LEMMA StepReaderEof ==
    ASSUME TypeOK, Sender, send_reader_eof
    PROVE  TxType' /\ Grows /\ Sender'
<1>1. /\ call = "send_reader" /\ ~writing /\ taken = sent[cur].len /\ filled' = 0
      /\ UNCHANGED <<taken, sent>>
  BY Zenon DEF send_reader_eof
<1>2. filled' \in 0..MAX_PACKET_SIZE /\ cur > 0 /\ sent[cur].how = "reader"
  BY <1>1, TransportAssumption DEF Sender, Calls
<1>3. CASE filled > 0 \/ taken = 0
  <2>1. /\ pack(packet_builder, cur, taken - filled, taken, TRUE) /\ call' = "closing"
        /\ UNCHANGED result
    BY Zenon, <1>3 DEF send_reader_eof
  <2>2. /\ Grows /\ FramesOk' /\ writing' = TRUE /\ Len(frames') > 0
        /\ packet_builder' \in PacketBuilder /\ ~packet_builder'.in_progress
        /\ cur > 0 /\ cur' = cur /\ sent[cur].how = "reader"
        /\ ~Open(Len(frames))'
        /\ MsgOf(Len(frames))' = cur
        /\ frames' \in Seq(Packet)
    BY Zenon, <1>1, <2>1, ReaderPacks
  <2>3. TxType'
    BY Zenon, <1>1, <1>2, <2>1, <2>2 DEF TxType, TypeOK
  <2>4. Builder'
    BY <1>1, <2>2, EndTyped DEF Builder
  <2>5. Calls'
    BY Zenon, <1>1, <2>1, <2>2 DEF Calls
  <2>q. QED  BY Zenon, <2>2, <2>3, <2>4, <2>5 DEF Sender
<1>4. CASE ~(filled > 0 \/ taken = 0)
  <2>1. Return("ok") /\ UNCHANGED <<packet_builder, frames, writing>>
    BY Zenon, <1>4 DEF send_reader_eof
  <2>q. QED  BY Zenon, <1>1, <1>2, <2>1, CallReturns
<1>q. QED  BY Zenon, <1>3, <1>4

\* send_reader returns once its last frame is written.
LEMMA StepReaderReturn ==
    ASSUME TypeOK, Sender, send_reader_return
    PROVE  TxType' /\ Grows /\ Sender'
<1>1. /\ Return("ok") /\ call = "closing" /\ ~writing
      /\ UNCHANGED <<packet_builder, frames, taken, filled, writing, sent>>
  BY Zenon DEF send_reader_return
<1>2. cur > 0 /\ sent[cur].how = "reader" /\ filled' \in 0..MAX_PACKET_SIZE
  BY Zenon, <1>1 DEF Sender, Calls, TypeOK
<1>q. QED  BY Zenon, <1>1, <1>2, CallReturns

\* send_reader gives up when its source fails.
LEMMA StepSourceFails ==
    ASSUME TypeOK, Sender, source_fails
    PROVE  TxType' /\ Grows /\ Sender'
<1>1. /\ Return("failed") /\ call = "send_reader" /\ ~writing
      /\ UNCHANGED <<packet_builder, frames, taken, filled, writing, sent>>
  BY Zenon DEF source_fails
<1>2. cur > 0 /\ filled' \in 0..MAX_PACKET_SIZE
  BY Zenon, <1>1 DEF Sender, Calls, TypeOK
<1>q. QED  BY Zenon, <1>1, <1>2, CallReturns

\* abort_message makes an Abort frame of the message in progress.
LEMMA StepAbort ==
    ASSUME TypeOK, Sender, abort_message
    PROVE  TxType' /\ Grows /\ Sender'
<1>1. /\ call = "idle" /\ packet_builder.in_progress /\ call' = "abort_message"
      /\ encrypt(cur, AbortHeader(packet_builder), 0, 0)
      /\ packet_builder' = Aborted(packet_builder)
      /\ UNCHANGED <<taken, filled, sent, result>>
  BY Zenon DEF abort_message
<1> PICK z \in Nat : z = 0
  BY Zenon
<1>2. packet_builder \in PacketBuilder /\ cur \in Nat /\ cur' = cur
  BY Zenon, <1>1, EndTyped DEF TypeOK, cur
<1>3. /\ AbortHeader(packet_builder) \in Nat
      /\ packet_builder' \in PacketBuilder /\ ~packet_builder'.in_progress
  BY Zenon, <1>1, <1>2, StampedAbort
<1>4. /\ frames' \in Seq(Packet) /\ Len(frames') = Len(frames) + 1
      /\ \A n \in 1..Len(frames) : frames'[n] = frames[n]
      /\ writing' = TRUE
  <2>1. encrypt(cur, AbortHeader(packet_builder), z, z) /\ z <= z
    BY <1>1
  <2>q. QED  BY Zenon, <1>2, <1>3, <2>1, EncryptGrows
<1>5. Grows /\ Len(frames') > 0
  BY <1>1, <1>2, <1>4, EndTyped DEF Grows, cur
<1>6. FramesOk' /\ ~Open(Len(frames))' /\ MsgOf(Len(frames))' = cur
  BY Zenon, <1>1, <1>5, AbortContinues
<1>7. TxType'
  BY Zenon, <1>1, <1>3, <1>4 DEF TxType, TypeOK
<1>8. Builder'
  BY <1>2, <1>3, <1>6 DEF Builder
<1>9. Calls'
  BY Zenon, <1>1, <1>3, <1>5 DEF Calls
<1>q. QED  BY Zenon, <1>5, <1>6, <1>7, <1>8, <1>9 DEF Sender

\* The other steps of a sender encrypt nothing.
LEMMA StepOtherTx ==
    ASSUME TypeOK, Sender,
           abort_message_return \/ write_frame \/ write_fails \/ drop_tx \/ drop_rx
    PROVE  TxType' /\ Grows /\ Sender'
<1>1. UNCHANGED <<packet_builder, frames, taken, filled, sent>>
  BY Zenon DEF abort_message_return, write_frame, write_fails, drop_tx, drop_rx
<1>2. /\ Grows /\ FramesOk' /\ cur' = cur
      /\ Open(Len(frames))' <=> Open(Len(frames))
      /\ MsgOf(Len(frames))' = MsgOf(Len(frames))
      /\ Start(Len(frames))' = Start(Len(frames))
  BY Zenon, <1>1, Quiet
<1>3. Builder'
  BY Zenon, <1>1, <1>2 DEF Builder, Sender
<1>4. CASE abort_message_return \/ write_frame \/ drop_tx \/ drop_rx
  <2>1. /\ result' = result /\ call' \in {"idle", "closed", call}
        /\ call' = "closed" => ~writing
        /\ writing' \in BOOLEAN /\ (writing' => writing) /\ (call' = "idle" => ~writing')
    <3>1. CASE abort_message_return
      BY Zenon, <3>1 DEF abort_message_return, TypeOK
    <3>2. CASE write_frame
      BY Zenon, <3>2 DEF write_frame, Sender, Calls
    <3>3. CASE drop_tx
      BY Zenon, <3>3 DEF drop_tx, TypeOK, Sender, Calls
    <3>4. CASE drop_rx
      <4>1. UNCHANGED <<result, call, writing>>
        BY Zenon, <3>4 DEF drop_rx
      <4>2. writing \in BOOLEAN /\ (writing => call # "idle" /\ call # "closed")
        BY Zenon DEF TypeOK, Sender, Calls
      <4>q. QED  BY Zenon, <4>1, <4>2
    <3>q. QED  BY Zenon, <1>4, <3>1, <3>2, <3>3, <3>4
  <2>2. TxType'
    BY Zenon, <1>1, <2>1 DEF TxType, TypeOK
  <2>3. Calls'
    BY Zenon, <1>1, <1>2, <2>1 DEF Calls, Sender
  <2>q. QED  BY Zenon, <1>2, <1>3, <2>2, <2>3 DEF Sender
<1>5. CASE write_fails
  <2>1. /\ writing /\ ~writing' /\ writing' \in BOOLEAN /\ call' = "idle"
        /\ result' = IF call = "abort_message" THEN result
                     ELSE [result EXCEPT ![cur] = "failed"]
    BY Zenon, <1>5 DEF write_fails
  <2>2. call # "abort_message" => cur > 0
    BY Zenon, <2>1 DEF Sender, Calls
  <2>3. /\ result' \in Seq({"open", "ok", "failed"}) /\ Len(result') = Len(result)
        /\ result' = result \/ result'[cur] = "failed"
    <3>1. CASE call = "abort_message"
      BY Zenon, <2>1, <3>1 DEF TypeOK
    <3>2. CASE call # "abort_message"
      BY Zenon, <2>1, <2>2, <3>2, Returned
    <3>q. QED  BY Zenon, <3>1, <3>2
  <2>4. TxType'
    BY Zenon, <1>1, <2>1, <2>3 DEF TxType, TypeOK
  <2>5. Calls'
    BY Zenon, <1>1, <1>2, <2>1, <2>3 DEF Calls, Sender
  <2>q. QED  BY Zenon, <1>2, <1>3, <2>4, <2>5 DEF Sender
<1>q. QED  BY Zenon, <1>4, <1>5

\* Every step keeps the sender's part of the invariant, and frames only grow.
LEMMA StepSender ==
    ASSUME TypeOK, Sender, [Next]_vars
    PROVE  TxType' /\ Grows /\ Sender'
<1>1. CASE UNCHANGED txVars
  <2>1. /\ Grows /\ FramesOk' /\ cur' = cur
        /\ Open(Len(frames))' <=> Open(Len(frames))
        /\ MsgOf(Len(frames))' = MsgOf(Len(frames))
        /\ Start(Len(frames))' = Start(Len(frames))
    BY Zenon, <1>1, Quiet DEF txVars
  <2>2. Builder' /\ Calls'
    BY Zenon, <1>1, <2>1 DEF Builder, Calls, Sender, txVars
  <2>3. TxType'
    BY Zenon, <1>1 DEF TxType, TypeOK, txVars
  <2>q. QED  BY Zenon, <2>1, <2>2, <2>3 DEF Sender
<1>2. RecvStep \/ message_dropped \/ read_cancelled \/ UNCHANGED vars => UNCHANGED txVars
  BY Zenon DEF RecvStep, read_message, read_bytes, into_packets, continue_message, packets_done,
         message_dropped, read_cancelled, vars, txVars
<1>q. QED
  BY Zenon, <1>1, <1>2, StepSendMessage, StepSendReader, StepSliceNext, StepReaderFull,
     StepReaderRead, StepReaderEof, StepReaderReturn, StepSourceFails, StepAbort, StepOtherTx
     DEF Next, SendCall, SendStep, Fault

----------------------------------------------------------------------------
\* The stream.

\* A frame put on the stream makes it one longer.
LEMMA AppendLen ==
    ASSUME NEW S, NEW s \in Seq(S), NEW e
    PROVE  Len(Append(s, e)) = Len(s) + 1
<1>1. s \in Seq(S \cup {e}) /\ e \in S \cup {e}
  BY Zenon, SeqMonotonic
<1>q. QED  BY Zenon, <1>1, AppendProperties

ChannelTypes == wire \in Seq(Frame) /\ lost \subseteq Nat /\ rx_nonce \in Nat /\ rx_torn \in BOOLEAN

\* All frames but the one being written have been written.
LEMMA PutTyped ==
    ASSUME TypeOK, Sender
    PROVE  Put \in Nat /\ Put <= Len(frames) /\ Len(frames) \in Nat
  BY EndTyped DEF Put, Sender, Calls

\* Steps that leave the stream alone.
LEMMA ChannelSame ==
    ASSUME TypeOK, Sender, Channel,
           UNCHANGED <<wire, lost, rx_nonce>>, rx_torn' \in BOOLEAN, rx_torn => rx_torn',
           Put' = Put
    PROVE  ChannelTypes' /\ Channel'
<1>1. ChannelTypes'
  BY Zenon DEF ChannelTypes, TypeOK
<1>2. Dead => Dead'
  BY Zenon DEF Dead
<1>3. LostFrameStops'
  BY Zenon DEF Channel, LostFrameStops
<1>4. /\ (\A n \in lost : n < Put)'
      /\ (rx_nonce <= Put)'
      /\ (\A i \in 1..Len(wire) : wire[i].nonce < Put /\ (wire[i].torn <=> wire[i].nonce \in lost))'
  BY Zenon DEF Channel
<1>5. (Dead \/ (IF wire = <<>> THEN rx_nonce = Put ELSE wire[1].nonce = rx_nonce))'
  BY Zenon, <1>2 DEF Channel
<1>6. (\A i \in 1..Len(wire) :
         LET n == wire[i].nonce + 1 IN
         n \in lost \/ (IF i = Len(wire) THEN n = Put ELSE wire[i + 1].nonce = n))'
  BY Zenon DEF Channel
<1>q. QED  BY Zenon, <1>1, <1>3, <1>4, <1>5, <1>6 DEF Channel

\* A write is over: the frame is on the stream, whole or torn, or it is lost.
LEMMA ChannelWrites ==
    ASSUME TypeOK, Sender, Channel, write_frame \/ write_fails
    PROVE  ChannelTypes' /\ Channel'
<1> PICK p \in Nat : p = Put
  BY Zenon, PutTyped
<1>1. /\ writing /\ writing' = FALSE /\ UNCHANGED <<frames, rx_nonce, rx_torn>>
      /\ last_nonce = p /\ Put' = p + 1
  <2>1. writing /\ writing' = FALSE /\ UNCHANGED <<frames, rx_nonce, rx_torn>>
    BY Zenon DEF write_frame, write_fails, rxVars
  <2>q. QED  BY <2>1, EndTyped DEF Put, last_nonce
<1>2. /\ rx_nonce \in Nat /\ rx_torn \in BOOLEAN /\ rx_nonce <= p
      /\ lost \subseteq Nat /\ \A n \in lost : n < p /\ rx_nonce <= n
      /\ wire \in Seq(Frame) /\ Len(wire) \in Nat
  BY DEF Channel, LostFrameStops, TypeOK
<1>3. /\ \A i \in 1..Len(wire) :
            wire[i].nonce \in Nat /\ wire[i].nonce < p /\ (wire[i].torn <=> wire[i].nonce \in lost)
  <2>1. \A i \in 1..Len(wire) : wire[i] \in Frame
    BY Zenon, <1>2, ElementOfSeq
  <2>q. QED  BY Zenon, <2>1 DEF Channel, Frame
<1>4. \A i \in 1..Len(wire) :
         wire[i].nonce + 1 \in lost
         \/ (IF i = Len(wire) THEN wire[i].nonce + 1 = p ELSE wire[i + 1].nonce = wire[i].nonce + 1)
  BY Zenon DEF Channel
<1>5. rx_torn \/ rx_nonce \in lost \/ (IF wire = <<>> THEN rx_nonce = p ELSE wire[1].nonce = rx_nonce)
  BY Zenon DEF Channel, Dead
<1>6. /\ lost' \subseteq Nat /\ \A n \in lost' : n < p + 1 /\ rx_nonce <= n
      /\ \A n \in Nat : n \in lost => n \in lost'
      /\ \A n \in Nat : n \in lost' => n \in lost \/ n = p
  <2>1. lost' = lost \/ lost' = lost \cup {p}
    BY Zenon, <1>1 DEF write_frame, write_fails
  <2>2. \A n : n \in lost' => n \in lost \/ n = p
    BY Zenon, <2>1
  <2>3. \A n : n \in lost => n \in lost'
    BY Zenon, <2>1
  <2>4. ASSUME NEW n \in lost'
        PROVE  n \in Nat /\ n < p + 1 /\ rx_nonce <= n
    <3>1. CASE n \in lost
      BY <1>2, <3>1
    <3>2. CASE n = p
      BY <1>2, <3>2
    <3>q. QED  BY Zenon, <2>2, <3>1, <3>2
  <2>q. QED  BY Zenon, <2>2, <2>3, <2>4
<1>7. CASE wire' = wire /\ lost' = lost \cup {p}
  <2>1. ChannelTypes'
    BY Zenon, <1>1, <1>2, <1>6, <1>7 DEF ChannelTypes
  <2>2. \A i \in 1..Len(wire) :
           wire[i].nonce < p + 1 /\ (wire[i].torn <=> wire[i].nonce \in lost')
    BY <1>3, <1>6
  <2>3. rx_torn \/ rx_nonce \in lost'
          \/ (IF wire = <<>> THEN rx_nonce = p + 1 ELSE wire[1].nonce = rx_nonce)
    BY Zenon, <1>2, <1>5, <1>7
  <2>4. \A i \in 1..Len(wire) :
           wire[i].nonce + 1 \in lost'
           \/ (IF i = Len(wire) THEN wire[i].nonce + 1 = p + 1
               ELSE wire[i + 1].nonce = wire[i].nonce + 1)
    BY Zenon, <1>4, <1>7
  <2>q. QED  BY <1>1, <1>2, <1>6, <1>7, <2>1, <2>2, <2>3, <2>4 DEF Channel, LostFrameStops, Dead
<1>8. CASE \E torn \in BOOLEAN : Written(torn) /\ (torn <=> p \in lost')
  <2>1. PICK torn \in BOOLEAN : Written(torn) /\ (torn <=> p \in lost')
    BY Zenon, <1>8
  <2> DEFINE f == [nonce |-> p, torn |-> torn]
             L == Len(wire)
  <2>2. f \in Frame /\ f.nonce = p /\ f.torn = torn /\ wire' = Append(wire, f)
    BY Zenon, <1>1, <2>1 DEF Frame, Written
  <2> HIDE DEF f
  <2>3. /\ wire' \in Seq(Frame) /\ wire' # <<>> /\ Len(wire') = L + 1
        /\ \A i \in 1..L : wire'[i] = wire[i]
        /\ wire'[L + 1] = f
    BY <1>2, <2>2, AppendProperties
  <2>4. ChannelTypes'
    BY Zenon, <1>1, <1>2, <1>6, <2>3 DEF ChannelTypes
  <2>5. \A i \in 1..(L + 1) :
           wire'[i].nonce < p + 1 /\ (wire'[i].torn <=> wire'[i].nonce \in lost')
    <3>1. \A i \in 1..L : wire'[i].nonce < p + 1 /\ (wire'[i].torn <=> wire'[i].nonce \in lost')
      BY <1>3, <1>6, <2>3
    <3>2. wire'[L + 1].nonce < p + 1 /\ (wire'[L + 1].torn <=> wire'[L + 1].nonce \in lost')
      BY <2>1, <2>2, <2>3
    <3>q. QED  BY <1>2, <3>1, <3>2
  <2>6. rx_torn \/ rx_nonce \in lost' \/ wire'[1].nonce = rx_nonce
    <3>1. CASE wire = <<>>
      BY <1>2, <1>5, <1>6, <2>2, <2>3, <3>1
    <3>2. CASE wire # <<>>
      <4>1. 1 \in 1..L
        BY <1>2, <3>2, EmptySeq
      <4>q. QED  BY Zenon, <1>2, <1>5, <1>6, <2>3, <3>2, <4>1
    <3>q. QED  BY Zenon, <3>1, <3>2
  <2>7. ASSUME NEW i \in 1..(L + 1)
        PROVE  wire'[i].nonce + 1 \in lost'
               \/ (IF i = L + 1 THEN wire'[i].nonce + 1 = p + 1
                   ELSE wire'[i + 1].nonce = wire'[i].nonce + 1)
    <3>1. CASE i = L + 1
      BY Zenon, <2>2, <2>3, <3>1
    <3>2. CASE i = L /\ i # L + 1
      BY <1>2, <1>3, <1>4, <1>6, <2>2, <2>3, <3>2
    <3>3. CASE i < L
      <4>1. i \in 1..L /\ i + 1 \in 1..L
        BY <1>2, <3>3
      <4>q. QED  BY SMTT(30), <1>2, <1>3, <1>4, <1>6, <2>3, <3>3, <4>1
    <3>q. QED  BY <1>2, <3>1, <3>2, <3>3
  <2>q. QED
    BY <1>1, <1>2, <1>6, <2>3, <2>4, <2>5, <2>6, <2>7 DEF Channel, LostFrameStops, Dead
<1>9. \/ wire' = wire /\ lost' = lost \cup {p}
      \/ \E torn \in BOOLEAN : Written(torn) /\ (torn <=> p \in lost')
  <2>1. p \notin lost
    BY <1>2
  <2>2. \/ wire' = wire /\ lost' = lost \cup {p}
        \/ Written(TRUE) /\ lost' = lost \cup {p}
        \/ Written(FALSE) /\ lost' = lost
    BY Zenon, <1>1 DEF write_frame, write_fails
  <2>q. QED  BY Zenon, <2>1, <2>2
<1>q. QED  BY Zenon, <1>7, <1>8, <1>9

\* What the head of the stream is to the receiver.
LEMMA HeadIs ==
    ASSUME TypeOK, Sender, Channel, wire # <<>>
    PROVE  /\ Head(wire) = wire[1] /\ Head(wire) \in Frame /\ 1 \in 1..Len(wire)
           /\ Head(wire).nonce \in Nat /\ Head(wire).nonce < Put /\ Head(wire).torn \in BOOLEAN
           /\ Tail(wire) \in Seq(Frame) /\ Len(Tail(wire)) = Len(wire) - 1
           /\ \A i \in 1..Len(Tail(wire)) : Tail(wire)[i] = wire[i + 1]
           /\ Decrypts(Head(wire)) => Head(wire).nonce = rx_nonce /\ rx_nonce \notin lost
           /\ ~Decrypts(Head(wire)) => Dead
<1>1. wire \in Seq(Frame) /\ Len(wire) \in Nat /\ 1 \in 1..Len(wire) /\ Head(wire) = wire[1]
  BY EmptySeq DEF TypeOK
<1>2. Head(wire) \in Frame
  BY Zenon, <1>1, ElementOfSeq
<1>3. /\ Tail(wire) \in Seq(Frame) /\ Len(Tail(wire)) = Len(wire) - 1
      /\ \A i \in 1..Len(Tail(wire)) : Tail(wire)[i] = wire[i + 1]
  BY Zenon, <1>1, HeadTailProperties
<1>4. /\ wire[1].nonce < Put /\ (wire[1].torn <=> wire[1].nonce \in lost)
      /\ Dead \/ wire[1].nonce = rx_nonce
  BY Zenon, <1>1 DEF Channel
<1>5. Head(wire).nonce \in Nat /\ Head(wire).torn \in BOOLEAN
  BY Zenon, <1>2 DEF Frame
<1>q. QED  BY Zenon, <1>1, <1>2, <1>3, <1>4, <1>5 DEF Decrypts, Dead

\* The receiver takes the head of the stream.
LEMMA ChannelReads ==
    ASSUME TypeOK, Sender, Channel, wire # <<>>, wire' = Tail(wire),
           IF Decrypts(Head(wire)) THEN rx_nonce' = rx_nonce + 1 ELSE rx_nonce' = rx_nonce,
           UNCHANGED <<frames, writing, lost, rx_torn>>
    PROVE  ChannelTypes' /\ Channel'
<1> PICK p \in Nat : p = Put
  BY Zenon, PutTyped
<1> PICK L \in Nat : L = Len(wire)
  BY DEF TypeOK
<1>1. /\ wire \in Seq(Frame) /\ L \in Nat /\ 1 \in 1..L /\ Head(wire) = wire[1]
      /\ wire' \in Seq(Frame) /\ Len(wire') = L - 1
      /\ \A i \in 1..(L - 1) : wire'[i] = wire[i + 1]
      /\ Decrypts(Head(wire)) => wire[1].nonce = rx_nonce /\ rx_nonce \notin lost
      /\ ~Decrypts(Head(wire)) => Dead
      /\ wire[1].nonce < p
  BY Zenon, HeadIs DEF TypeOK
<1>2. /\ rx_nonce \in Nat /\ rx_torn \in BOOLEAN /\ rx_nonce <= p /\ lost \subseteq Nat
      /\ \A n \in lost : n < p /\ rx_nonce <= n
      /\ \A i \in 1..L : wire[i].nonce \in Nat
      /\ \A i \in 1..L : wire[i].nonce < p /\ (wire[i].torn <=> wire[i].nonce \in lost)
      /\ \A i \in 1..L : wire[i].nonce + 1 \in lost
           \/ (IF i = L THEN wire[i].nonce + 1 = p ELSE wire[i + 1].nonce = wire[i].nonce + 1)
  <2>1. \A i \in 1..L : wire[i] \in Frame
    BY Zenon, <1>1, ElementOfSeq
  <2>2. \A i \in 1..L : wire[i].nonce \in Nat
    BY Zenon, <2>1 DEF Frame
  <2>q. QED  BY Zenon, <2>2 DEF Channel, LostFrameStops, TypeOK
<1>3. Put' = p
  BY Zenon DEF Put
<1>4. rx_nonce' \in Nat /\ rx_nonce' <= p /\ \A n \in lost : rx_nonce' <= n
  <2>1. CASE Decrypts(Head(wire))
    <3>1. rx_nonce' = rx_nonce + 1 /\ rx_nonce < p /\ rx_nonce \notin lost
      BY Zenon, <1>1, <2>1
    <3>2. ASSUME NEW n \in lost
          PROVE  rx_nonce + 1 <= n
      <4>1. n \in Nat /\ rx_nonce <= n /\ rx_nonce # n
        BY Zenon, <1>2, <3>1
      <4>q. QED  BY <1>2, <4>1
    <3>q. QED  BY <1>2, <3>1, <3>2
  <2>2. CASE ~Decrypts(Head(wire))
    BY Zenon, <1>2, <2>2
  <2>q. QED  BY Zenon, <2>1, <2>2
<1>5. ChannelTypes'
  BY Zenon, <1>1, <1>2, <1>4 DEF ChannelTypes
<1>6. \A i \in 1..(L - 1) : wire'[i].nonce < p /\ (wire'[i].torn <=> wire'[i].nonce \in lost)
  <2>1. \A i \in 1..(L - 1) : i + 1 \in 1..L /\ wire'[i] = wire[i + 1]
    BY <1>1
  <2>q. QED  BY <1>2, <2>1
<1>7. rx_torn \/ rx_nonce' \in lost
        \/ (IF wire' = <<>> THEN rx_nonce' = p ELSE wire'[1].nonce = rx_nonce')
  <2>1. CASE Decrypts(Head(wire))
    <3>1. rx_nonce' = wire[1].nonce + 1
      BY Zenon, <1>1, <2>1
    <3>2. CASE L = 1
      <4>1. wire' = <<>>
        BY <1>1, <3>2, EmptySeq
      <4>q. QED  BY Zenon, <1>1, <1>2, <3>1, <3>2, <4>1
    <3>3. CASE L # 1
      <4>1. wire' # <<>> /\ wire'[1] = wire[2] /\ 2 \in 1..L
        <5>1. L - 1 > 0 /\ 1 \in 1..(L - 1) /\ 2 \in 1..L /\ 1 + 1 = 2
          BY <1>1, <3>3
        <5>2. Len(<<>>) = 0
          BY Zenon
        <5>3. Len(wire') # 0
          BY <1>1, <5>1
        <5>4. wire' # <<>>
          BY <5>2, <5>3, Zenon
        <5>q. QED  BY Zenon, <1>1, <5>1, <5>4
      <4>2. wire[1].nonce + 1 \in lost \/ wire[2].nonce = wire[1].nonce + 1
        BY <1>1, <1>2, <3>3
      <4>q. QED  BY Zenon, <3>1, <4>1, <4>2
    <3>q. QED  BY Zenon, <3>2, <3>3
  <2>2. CASE ~Decrypts(Head(wire))
    BY Zenon, <1>1, <2>2 DEF Dead
  <2>q. QED  BY Zenon, <2>1, <2>2
<1>8. \A i \in 1..(L - 1) :
         wire'[i].nonce + 1 \in lost
         \/ (IF i = L - 1 THEN wire'[i].nonce + 1 = p ELSE wire'[i + 1].nonce = wire'[i].nonce + 1)
  <2>1. ASSUME NEW i \in 1..(L - 1)
        PROVE  wire'[i].nonce + 1 \in lost
               \/ (IF i = L - 1 THEN wire'[i].nonce + 1 = p
                   ELSE wire'[i + 1].nonce = wire'[i].nonce + 1)
    <3>1. i + 1 \in 1..L /\ wire'[i] = wire[i + 1]
      BY <1>1
    <3>2. CASE i = L - 1
      <4>1. i + 1 = L
        BY <3>2
      <4>q. QED  BY Zenon, <1>2, <3>1, <3>2, <4>1
    <3>3. CASE i # L - 1
      <4>1. i + 1 \in 1..(L - 1) /\ i + 1 # L /\ wire'[i + 1] = wire[(i + 1) + 1]
        <5>1. i + 1 \in 1..(L - 1) /\ i + 1 # L
          BY <3>3
        <5>q. QED  BY Zenon, <1>1, <5>1
      <4>q. QED  BY <1>2, <3>1, <3>3, <4>1
    <3>q. QED  BY Zenon, <3>2, <3>3
  <2>q. QED  BY Zenon, <2>1
<1>q. QED
  BY ZenonT(60), <1>1, <1>2, <1>3, <1>4, <1>5, <1>6, <1>7, <1>8 DEF Channel, LostFrameStops, Dead

\* Encrypting a frame puts nothing on the stream.
LEMMA PutSame ==
    ASSUME TypeOK, Sender, ~writing,
           NEW m, NEW h, NEW from, NEW to, encrypt(m, h, from, to)
    PROVE  Put' = Put
<1>1. frames' = Append(frames, [header |-> h, payload |-> Bytes(m, from, to),
                                m |-> m, to |-> to]) /\ writing' = TRUE
  BY Zenon DEF encrypt
<1>2. Len(frames') = Len(frames) + 1 /\ Len(frames) \in Nat
  BY <1>1, AppendLen DEF TypeOK
<1>q. QED  BY <1>1, <1>2 DEF Put

\* Every step keeps what is known of the stream.
LEMMA StepChannel ==
    ASSUME TypeOK, Sender, Channel, [Next]_vars
    PROVE  ChannelTypes' /\ Channel'
<1>1. call \in {"idle", "closed"} => ~writing
  BY Zenon DEF Sender, Calls
<1>2. rx_torn \in BOOLEAN
  BY Zenon DEF TypeOK
<1>3. ASSUME NEW t, NEW len, send_message(t, len)
      PROVE  ChannelTypes' /\ Channel'
  <2>1. Put' = Put
    BY Zenon, <1>1, <1>3, PutSame DEF send_message, prepare_message, pack
  <2>q. QED  BY Zenon, <1>2, <1>3, <2>1, ChannelSame DEF send_message, rxVars
<1>4. ASSUME NEW t, NEW len, send_reader(t, len)
      PROVE  ChannelTypes' /\ Channel'
  BY Zenon, <1>2, <1>4, ChannelSame DEF send_reader, rxVars, Put
<1>5. CASE abort_message
  <2>1. Put' = Put
    BY Zenon, <1>1, <1>5, PutSame DEF abort_message
  <2>q. QED  BY Zenon, <1>2, <1>5, <2>1, ChannelSame DEF abort_message, rxVars
<1>6. CASE send_slice_next
  <2>1. Put' = Put
    BY <1>6, PutSame DEF send_slice_next, pack, Put
  <2>q. QED  BY Zenon, <1>2, <1>6, <2>1, ChannelSame DEF send_slice_next, rxVars
<1>7. CASE send_reader_full
  <2>1. Put' = Put
    BY Zenon, <1>7, PutSame DEF send_reader_full, pack
  <2>q. QED  BY Zenon, <1>2, <1>7, <2>1, ChannelSame DEF send_reader_full, rxVars
<1>8. CASE send_reader_eof
  <2>1. Put' = Put
    <3>1. CASE filled > 0 \/ taken = 0
      BY Zenon, <1>8, <3>1, PutSame DEF send_reader_eof, pack
    <3>2. CASE ~(filled > 0 \/ taken = 0)
      BY <1>8, <3>2 DEF send_reader_eof, Put
    <3>q. QED  BY Zenon, <3>1, <3>2
  <2>q. QED  BY Zenon, <1>2, <1>8, <2>1, ChannelSame DEF send_reader_eof, rxVars
<1>9. CASE send_reader_read \/ send_reader_return \/ abort_message_return
           \/ source_fails \/ drop_tx \/ drop_rx
  BY <1>2, <1>9, ChannelSame
     DEF send_reader_read, send_reader_return, abort_message_return, source_fails, drop_tx,
         drop_rx, rxVars, Put
<1>10. CASE write_frame \/ write_fails
  BY Zenon, <1>10, ChannelWrites
<1>11. CASE read_bytes \/ into_packets \/ packets_done \/ message_dropped \/ read_cancelled
            \/ UNCHANGED vars
  <2>1. UNCHANGED <<frames, writing, wire, lost, rx_nonce>> /\ rx_torn' \in {TRUE, rx_torn}
    BY Zenon, <1>11 DEF read_bytes, into_packets, packets_done, message_dropped, read_cancelled,
                 vars, txVars, rxVars
  <2>q. QED  BY Zenon, <1>2, <2>1, ChannelSame DEF Put
<1>12. CASE read_message \/ continue_message
  <2>1. /\ UNCHANGED <<frames, writing, lost, rx_torn>>
        /\ read_packet_noise \/ read_packet_rejected \/ read_packet_eof \/ read_packet_ok
    BY Zenon, <1>12 DEF read_message, continue_message, txVars
  <2>2. CASE read_packet_eof
    BY Zenon, <1>2, <2>1, <2>2, ChannelSame DEF read_packet_eof, Put
  <2>3. CASE read_packet_noise \/ read_packet_rejected \/ read_packet_ok
    BY Zenon, <2>1, <2>3, ChannelReads DEF read_packet_noise, read_packet_rejected, read_packet_ok
  <2>q. QED  BY Zenon, <2>1, <2>2, <2>3
<1>q. QED
  BY Zenon, <1>3, <1>4, <1>5, <1>6, <1>7, <1>8, <1>9, <1>10, <1>11, <1>12
     DEF Next, SendCall, SendStep, RecvStep, Fault

----------------------------------------------------------------------------
\* The receiver.

\* The last frame decrypted is one of those encrypted.
LEMMA PrefixIs ==
    ASSUME TypeOK, Sender, Channel
    PROVE  /\ rx_nonce \in 0..Len(frames) /\ Top \in 0..cur /\ cur \in Nat
           /\ Len(frames) \in Nat
           /\ rx_nonce > 0 => /\ FrameOk(rx_nonce) /\ frames[rx_nonce] \in Packet
                              /\ Top = frames[rx_nonce].m /\ Top \in 1..cur
<1>1. rx_nonce \in 0..Len(frames) /\ Len(frames) \in Nat /\ cur \in Nat
  <2>1. rx_nonce \in Nat
    BY Zenon DEF TypeOK
  <2>q. QED  BY <2>1, PutTyped, EndTyped DEF Channel
<1>2. rx_nonce > 0 => rx_nonce \in 1..Len(frames) /\ FrameOk(rx_nonce) /\ frames[rx_nonce] \in Packet
  BY <1>1, ElementOfSeq DEF Sender, FramesOk, TypeOK
<1>3. rx_nonce > 0 => Top = frames[rx_nonce].m /\ Top \in 1..cur
  <2>1. rx_nonce > 0 => rx_nonce # 0
    BY <1>1
  <2>q. QED  BY Zenon, <1>2, <2>1 DEF Top, MsgOf, FrameOk
<1>4. rx_nonce = 0 => Top = 0
  BY Zenon DEF Top, MsgOf
<1>q. QED  BY <1>1, <1>2, <1>3, <1>4

\* What the sender adds changes nothing for the receiver.
LEMMA RxSame ==
    ASSUME TypeOK, Sender, Channel, Receiver, History, Grows, UNCHANGED rxVars,
           Stopped => Stopped'
    PROVE  RxType' /\ Receiver' /\ History'
<1> PICK k \in Nat : k = rx_nonce
  BY Zenon DEF TypeOK
<1>1. k \in 0..Len(frames) /\ Top \in 0..cur /\ cur \in Nat /\ rx_nonce' = k
  BY Zenon, PrefixIs DEF rxVars
<1>2. /\ Open(k)' <=> Open(k)
      /\ MsgOf(k)' = MsgOf(k)
      /\ k > 0 => /\ frames'[k] = frames[k] /\ Kind(k)' = Kind(k)
                  /\ sent'[frames[k].m] = sent[frames[k].m]
  BY Zenon, <1>1, Stable
<1>3. /\ Open(rx_nonce)' <=> Open(rx_nonce)
      /\ Top' = Top /\ MsgOf(rx_nonce)' = MsgOf(rx_nonce)
      /\ k > 0 => /\ frames'[rx_nonce'] = frames[rx_nonce] /\ Kind(rx_nonce)' = Kind(rx_nonce)
                  /\ Top = frames[rx_nonce].m /\ sent'[Top] = sent[Top]
  <2>1. (Open(rx_nonce)' <=> Open(k)') /\ MsgOf(rx_nonce)' = MsgOf(k)' /\ Kind(rx_nonce)' = Kind(k)'
    BY Zenon, <1>1 DEF Open, MsgOf, Kind
  <2>2. k > 0 => Top = frames[k].m
    BY Zenon, PrefixIs
  <2>q. QED  BY Zenon, <1>1, <1>2, <2>1, <2>2 DEF Top
<1>4. /\ packet_reader' = packet_reader /\ msg' = msg /\ dropped' = dropped /\ seen' = seen
      /\ rx_torn' = rx_torn /\ rx_nonce' = rx_nonce
  BY Zenon DEF rxVars
<1>5. RxType'
  BY Zenon, <1>4 DEF RxType, TypeOK
<1>6. Live' <=> Live
  BY Zenon, <1>3, <1>4 DEF Live
<1>7. ReaderOk'
  <2>1. Open(rx_nonce) => k > 0
    BY Zenon DEF Open
  <2>q. QED  BY Zenon, <1>3, <1>4, <2>1 DEF Receiver, ReaderOk
<1>8. HandleOk'
  <2>1. Live => k > 0 /\ msg.m = Top
    BY Zenon DEF Receiver, HandleOk, Top
  <2>2. k > 0 => (Gathered' <=> Gathered)
    BY Zenon, <1>3, <1>4 DEF Gathered
  <2>3. msg.at = "message" => Live
    BY Zenon DEF Live
  <2>4. msg.done => k > 0
    BY Zenon DEF Receiver, HandleOk
  <2>5. PanicOnlyAfterDrop'
    BY Zenon, <1>4 DEF PanicOnlyAfterDrop, Receiver, HandleOk
  <2>6. (msg.at = "none" /\ Open(rx_nonce) => Stopped \/ MsgOf(rx_nonce) \in dropped)'
    BY Zenon, <1>3, <1>4 DEF Receiver, HandleOk
  <2>7. (Live => /\ rx_nonce > 0
                 /\ msg.m = MsgOf(rx_nonce) /\ msg.msg_type = sent[msg.m].msg_type
                 /\ Kind(rx_nonce) # Abort => Gathered)'
    BY Zenon, <1>3, <1>4, <1>6, <2>1, <2>2 DEF Receiver, HandleOk
  <2>8. /\ (msg.at = "message" =>
             /\ msg.kind = Kind(rx_nonce) /\ ~msg.done
             /\ msg.kind \in {Mid, Last, Abort} => msg.m \in dropped)'
        /\ (msg.done =>
             /\ rx_nonce > 0
             /\ \/ msg.at = "packets" /\ Kind(rx_nonce) \in {Sole, Last}
                \/ msg.at = "aborted" /\ Kind(rx_nonce) = Abort)'
        /\ (msg.at \in {"bytes", "packets"} /\ ~Live => msg.m \in dropped)'
    BY Zenon, <1>3, <1>4, <1>6, <2>1, <2>3, <2>4 DEF Receiver, HandleOk
  <2>q. QED  BY Zenon, <2>5, <2>6, <2>7, <2>8 DEF HandleOk
<1>9. \A K : Events(K)' = Events(K)
  BY Zenon, <1>4 DEF Events
<1>10. OnlyBareAbortRejected' /\ InOrder'
  <2>1. OnlyBareAbortRejected'
    BY Zenon, <1>4, <1>9 DEF History, OnlyBareAbortRejected
  <2>2. InOrder'
    BY <1>4, <1>9 DEF History, InOrder
  <2>q. QED  BY Zenon, <2>1, <2>2
<1>11. (Busy' <=> Busy) /\ Heard' = Heard
  BY Zenon, <1>3, <1>6, <1>9 DEF Busy, Heard
<1>12. Bounded' /\ Covered'
  BY ZenonT(60), <1>3, <1>4, <1>11 DEF History, Bounded, Covered
<1>13. MessageIntact'
  <2>1. \A i \in Events({"message"}) : i \in Heard
    BY Zenon DEF Events, Heard
  <2>2. \A i \in Events({"message"}) : seen[i].m \in 1..cur
    BY <1>1, <2>1 DEF History, Bounded
  <2>3. \A i \in Events({"message"}) : sent'[seen[i].m] = sent[seen[i].m]
    BY Zenon, <2>2 DEF Grows
  <2>q. QED  BY ZenonT(60), <1>4, <1>9, <2>3 DEF History, MessageIntact
<1>q. QED  BY Zenon, <1>5, <1>7, <1>8, <1>10, <1>12, <1>13 DEF Receiver, History

\* The steps of the sender, and those of nobody.
TxStep == SendCall \/ abort_message \/ SendStep \/ source_fails \/ write_fails
          \/ drop_tx \/ drop_rx

\* The sender does not touch the receiver, and cannot revive it.
LEMMA TxKeeps ==
    ASSUME TypeOK, Sender, Channel, TxStep \/ UNCHANGED vars
    PROVE  UNCHANGED rxVars /\ (Stopped => Stopped')
<1>1. UNCHANGED rxVars
  BY Zenon DEF TxStep, SendCall, SendStep, send_message, send_reader, abort_message, send_slice_next,
         send_reader_full, send_reader_read, send_reader_eof, send_reader_return,
         abort_message_return, write_frame, source_fails, write_fails, drop_tx, drop_rx, vars
<1>2. lost' = lost \/ lost' = lost \cup {last_nonce}
  BY Zenon DEF TxStep, SendCall, SendStep, send_message, send_reader, abort_message, send_slice_next,
         send_reader_full, send_reader_read, send_reader_eof, send_reader_return,
         abort_message_return, write_frame, source_fails, write_fails, drop_tx, drop_rx, vars,
         txVars
<1>3. Dead => Dead'
  BY Zenon, <1>1, <1>2 DEF Dead, rxVars
<1>4. call = "closed" => UNCHANGED <<call, wire>>
  <2>1. call = "closed" => ~writing
    BY Zenon DEF Sender, Calls
  <2>q. QED
    BY Zenon, <2>1 DEF TxStep, SendCall, SendStep, send_message, send_reader, prepare_message,
         abort_message, send_slice_next, send_reader_full, send_reader_read, send_reader_eof,
         send_reader_return, abort_message_return, write_frame, source_fails, write_fails,
         drop_tx, drop_rx, vars, txVars
<1>5. ~rx_half => ~rx_half'
  BY Zenon DEF TxStep, SendCall, SendStep, send_message, send_reader, abort_message, send_slice_next,
         send_reader_full, send_reader_read, send_reader_eof, send_reader_return,
         abort_message_return, write_frame, source_fails, write_fails, drop_tx, drop_rx, vars,
         txVars
<1>q. QED  BY Zenon, <1>1, <1>3, <1>4, <1>5 DEF Stopped, StreamEnds

----------------------------------------------------------------------------
\* What the application has been told.

\* A message below the last one is one of those before it.
LEMMA Below ==
    \A t \in Nat : \A m \in 1..t : m # t => m \in 1..(t - 1)
  OBVIOUS

\* One more event.
LEMMA EventsAre ==
    ASSUME TypeOK, NEW e, e \in Event, seen' = Append(seen, e), NEW K
    PROVE  /\ Len(seen) \in Nat /\ seen' \in Seq(Event)
           /\ seen'[Len(seen) + 1] = e
           /\ \A i \in Events(K) : i \in 1..Len(seen) /\ seen'[i] = seen[i]
           /\ \A i : i \in Events(K)' <=> i \in Events(K) \/ (i = Len(seen) + 1 /\ e.ev \in K)
<1>1. seen \in Seq(Event)
  BY Zenon DEF TypeOK
<1>2. /\ seen' \in Seq(Event) /\ Len(seen') = Len(seen) + 1 /\ Len(seen) \in Nat
      /\ \A i \in 1..Len(seen) : seen'[i] = seen[i]
      /\ seen'[Len(seen) + 1] = e
  BY <1>1, AppendProperties
<1>3. DOMAIN seen = 1..Len(seen) /\ DOMAIN seen' = 1..(Len(seen) + 1)
  BY Zenon, <1>1, <1>2, LenProperties
<1>4. \A i : i \in DOMAIN seen' <=> i \in DOMAIN seen \/ i = Len(seen) + 1
  BY <1>2, <1>3
<1>5. \A i : i \in Events(K) <=> i \in DOMAIN seen /\ seen[i].ev \in K
  BY Zenon DEF Events
<1>6. \A i : i \in Events(K)' <=> i \in DOMAIN seen' /\ seen'[i].ev \in K
  BY Zenon DEF Events
<1>7. Len(seen) + 1 \notin DOMAIN seen
  BY <1>2, <1>3
<1>q. QED  BY <1>2, <1>3, <1>4, <1>5, <1>6, <1>7

\* The data of a message event is what was sent.
Intact(e) ==
    LET len == sent[e.m].len IN
    /\ e.msg_type = sent[e.m].msg_type
    /\ e.data = Bytes(e.m, len - Len(e.data), len)
    /\ e.m \notin dropped => Len(e.data) = len

HeardKinds == {"message", "aborted", "rejected"}

\* The application hears of the message the receiver has just come to the end of.
LEMMA HistoryAdds ==
    ASSUME TypeOK, History, UNCHANGED <<sent, dropped>>,
           NEW e, e \in Event, seen' = Append(seen, e),
           e.ev \in HeardKinds, Top' \in Nat, Top' > 0, e.m = Top', ~Busy',
           \A i \in Heard : seen[i].m < Top',
           msg.at # "panicked",
           \A m \in (1..(Top' - 1)) \ dropped : \E j \in Heard : seen[j].m = m,
           e.ev = "rejected" => e.kind = Abort /\ e.err = "MissingMessageStart",
           e.ev = "message" => Intact(e)
    PROVE  History'
<1> PICK t \in Nat : t = Top'
  BY Zenon
<1> PICK N : N = Len(seen) + 1
  BY Zenon
<1>1. /\ Len(seen) \in Nat /\ seen'[N] = e /\ N = Len(seen) + 1
      /\ \A K : \A i \in Events(K) : i \in 1..Len(seen) /\ seen'[i] = seen[i]
      /\ \A K : \A i : i \in Events(K)' <=> i \in Events(K) \/ (i = N /\ e.ev \in K)
  BY EventsAre
<1>2. /\ \A i \in Heard : i \in 1..Len(seen) /\ seen'[i] = seen[i] /\ i < N
      /\ \A i : i \in Heard' <=> i \in Heard \/ i = N
  <2>1. Heard = Events(HeardKinds) /\ Heard' = Events(HeardKinds)'
    BY Zenon DEF Heard, HeardKinds
  <2>2. \A i \in Events(HeardKinds) : i \in 1..Len(seen) /\ seen'[i] = seen[i] /\ i < N
    BY <1>1
  <2>3. \A i : i \in Events(HeardKinds)' <=> i \in Events(HeardKinds) \/ i = N
    BY Zenon, <1>1
  <2>q. QED  BY Zenon, <2>1, <2>2, <2>3
<1>3. OnlyBareAbortRejected'
  BY <1>1 DEF History, OnlyBareAbortRejected
<1>4. \A i \in Heard : seen[i].m \in 1..t /\ seen[i].m < t
  BY DEF History, Bounded
<1>5. Bounded'
  <2>1. \A i \in Heard' : seen'[i].m \in 1..t
    BY <1>1, <1>2, <1>4
  <2>q. QED  BY Zenon, <2>1 DEF Bounded
<1>6. ASSUME NEW m \in (1..t) \ dropped
      PROVE  \E j \in Heard' : seen'[j].m = m
  <2>1. CASE m = t
    BY Zenon, <1>1, <1>2, <2>1
  <2>2. CASE m # t
    <3>1. m \in (1..(Top' - 1)) \ dropped
      <4>1. m \in 1..t /\ m \notin dropped
        BY Zenon
      <4>2. m \in 1..(t - 1)
        BY Zenon, <2>2, <4>1, Below
      <4>q. QED  BY Zenon, <4>1, <4>2
    <3>2. PICK j \in Heard : seen[j].m = m
      BY Zenon, <3>1
    <3>q. QED  BY Zenon, <1>2, <3>2
  <2>q. QED  BY Zenon, <2>1, <2>2
<1>7. Covered'
  BY Zenon, <1>6 DEF Covered
<1>8. MessageIntact'
  <2>1. ASSUME NEW i \in Events({"message"})'
        PROVE  LET f == seen'[i]
                   len == sent[f.m].len
               IN /\ f.msg_type = sent[f.m].msg_type
                  /\ f.data = Bytes(f.m, len - Len(f.data), len)
                  /\ f.m \notin dropped => Len(f.data) = len
    <3>1. CASE i \in Events({"message"})
      BY ZenonT(60), <1>1, <3>1 DEF History, MessageIntact
    <3>2. CASE i = N /\ e.ev = "message"
      BY Zenon, <1>1, <3>2 DEF Intact
    <3>q. QED  BY Zenon, <1>1, <3>1, <3>2
  <2>q. QED  BY Zenon, <2>1 DEF MessageIntact
<1>9. InOrder'
  <2>1. \A i \in Heard : /\ \A j \in Heard : i < j => seen[i].m < seen[j].m
                         /\ \A m \in (1..(seen[i].m - 1)) \ dropped :
                               \E j \in Heard : j < i /\ seen[j].m = m
    BY Zenon DEF History, InOrder, Heard
  <2>2. ASSUME NEW i \in Heard', NEW j \in Heard', i < j
        PROVE  seen'[i].m < seen'[j].m
    <3>1. i \in Heard /\ (j \in Heard \/ j = N)
      BY <1>1, <1>2, <2>2
    <3>q. QED  BY Zenon, <1>1, <1>2, <1>4, <2>1, <2>2, <3>1
  <2>3. ASSUME NEW i \in Heard', NEW m \in (1..(seen'[i].m - 1)) \ dropped
        PROVE  \E j \in Heard' : j < i /\ seen'[j].m = m
    <3>1. CASE i \in Heard
      <4>1. PICK j \in Heard : j < i /\ seen[j].m = m
        BY Zenon, <1>2, <2>1, <3>1
      <4>q. QED  BY Zenon, <1>2, <4>1
    <3>2. CASE i = N
      <4>1. PICK j \in Heard : seen[j].m = m
        BY Zenon, <1>1, <3>2
      <4>q. QED  BY Zenon, <1>2, <3>2, <4>1
    <3>q. QED  BY Zenon, <1>2, <3>1, <3>2
  <2>q. QED  BY Zenon, <2>2, <2>3 DEF InOrder, Heard
<1>q. QED  BY Zenon, <1>3, <1>5, <1>7, <1>8, <1>9 DEF History

\* The application hears of no message.
LEMMA HistoryMoves ==
    ASSUME TypeOK, History, UNCHANGED sent, dropped \subseteq dropped',
           UNCHANGED seen \/ \E e \in Event : e.ev \in {"noise", "eof"} /\ seen' = Append(seen, e),
           \A i \in Heard : seen[i].m \in 1..Top' /\ (Busy' => seen[i].m < Top'),
           msg'.at # "panicked" =>
              \A m \in 1..Top' \ dropped' : (\E j \in Heard : seen[j].m = m) \/ (m = Top' /\ Busy')
    PROVE  History'
<1>1. \A K \in SUBSET HeardKinds :
         /\ Events(K)' = Events(K)
         /\ \A i \in Events(K) : seen'[i] = seen[i]
  <2>1. CASE UNCHANGED seen
    BY Zenon, <2>1 DEF Events
  <2>2. CASE \E e \in Event : e.ev \in {"noise", "eof"} /\ seen' = Append(seen, e)
    <3>1. PICK e \in Event : e.ev \in {"noise", "eof"} /\ seen' = Append(seen, e)
      BY Zenon, <2>2
    <3>2. ASSUME NEW K \in SUBSET HeardKinds
          PROVE  /\ Events(K)' = Events(K)
                 /\ \A i \in Events(K) : seen'[i] = seen[i]
      <4>1. e.ev \notin K
        BY Zenon, <3>1 DEF HeardKinds
      <4>2. /\ \A i \in Events(K) : seen'[i] = seen[i]
            /\ \A i : i \in Events(K)' <=> i \in Events(K) \/ (i = Len(seen) + 1 /\ e.ev \in K)
        BY Zenon, <3>1, EventsAre
      <4>q. QED  BY Zenon, <4>1, <4>2
    <3>q. QED  BY Zenon, <3>2
  <2>q. QED  BY Zenon, <2>1, <2>2
<1>2. Heard' = Heard /\ \A i \in Heard : seen'[i] = seen[i]
  BY Zenon, <1>1 DEF Heard, HeardKinds
<1>3. OnlyBareAbortRejected' /\ MessageIntact'
  <2>1. /\ Events({"rejected"})' = Events({"rejected"})
        /\ Events({"message"})' = Events({"message"})
        /\ \A i \in Events({"rejected"}) : seen'[i] = seen[i]
        /\ \A i \in Events({"message"}) : seen'[i] = seen[i]
    BY Zenon, <1>1 DEF HeardKinds
  <2>2. OnlyBareAbortRejected'
    BY Zenon, <2>1 DEF History, OnlyBareAbortRejected
  <2>3. MessageIntact'
    BY <2>1 DEF History, MessageIntact
  <2>q. QED  BY Zenon, <2>2, <2>3
<1>4. InOrder'
  <2>1. InOrder
    BY Zenon DEF History
  <2>2. \A i \in Heard : /\ \A j \in Heard : i < j => seen[i].m < seen[j].m
                         /\ \A m \in (1..(seen[i].m - 1)) \ dropped :
                               \E j \in Heard : j < i /\ seen[j].m = m
    BY Zenon, <2>1 DEF InOrder, Heard
  <2>3. \A i \in Heard' : /\ \A j \in Heard' : i < j => seen'[i].m < seen'[j].m
                          /\ \A m \in (1..(seen'[i].m - 1)) \ dropped' :
                                \E j \in Heard' : j < i /\ seen'[j].m = m
    BY <1>2, <2>2
  <2>q. QED  BY Zenon, <2>3 DEF InOrder, Heard
<1>5. Bounded' /\ Covered'
  BY Zenon, <1>2 DEF Bounded, Covered
<1>q. QED  BY Zenon, <1>3, <1>4, <1>5 DEF History

----------------------------------------------------------------------------
\* The next frame.

OpenedKind == HeaderKind(Opened.header)

\* A frame that decrypts is the one after the last that did.  The reader refuses
\* it only when it is the Abort of a message that has no packet.
LEMMA NextFrame ==
    ASSUME TypeOK, Sender, Channel, Receiver, wire # <<>>, Decrypts(Head(wire))
    PROVE  /\ rx_nonce \in Nat /\ Opened = frames[rx_nonce + 1] /\ Opened \in Packet
           /\ Opened.m \in 1..cur /\ Opened.m = Top + (IF Open(rx_nonce) THEN 0 ELSE 1)
           /\ OpenedKind \in PacketKind
           /\ HeaderType(Opened.header) = sent[Opened.m].msg_type
           /\ OpenedKind \in {Mid, Last} => Open(rx_nonce)
           /\ OpenedKind \in {Sole, First} => ~Open(rx_nonce)
           /\ OpenedKind # Abort => /\ Opened.to >= Start(rx_nonce)
                                    /\ Opened.payload = Bytes(Opened.m, Start(rx_nonce), Opened.to)
           /\ OpenedKind \in {Sole, Last} => Opened.to = sent[Opened.m].len
           /\ ~Stopped
           /\ FrameError = "none" <=> (OpenedKind = Abort => Open(rx_nonce))
           /\ FrameError # "none" => FrameError = "MissingMessageStart"
<1> PICK k \in Nat : k = rx_nonce
  BY Zenon DEF TypeOK
<1>1. /\ Head(wire) = wire[1] /\ Head(wire) \in Frame /\ 1 \in 1..Len(wire)
  <2>1. wire \in Seq(Frame)
    BY Zenon DEF TypeOK
  <2>q. QED  BY <2>1, HeadTailProperties, EmptySeq
<1>2. /\ ~rx_torn /\ ~wire[1].torn /\ wire[1].nonce = k /\ k < Put
  BY Zenon, <1>1 DEF Decrypts, Channel
<1>3. k + 1 \in 1..Len(frames) /\ Opened = frames[k + 1]
  BY <1>1, <1>2, PutTyped DEF Opened
<1>4. FrameOk(k + 1) /\ Opened \in Packet /\ Opened.header \in Nat /\ Opened.payload \in Seq(Nat \X Nat)
  <2>1. FrameOk(k + 1)
    BY Zenon, <1>3 DEF Sender, FramesOk
  <2>2. frames \in Seq(Packet)
    BY Zenon DEF TypeOK
  <2>3. Opened \in Packet
    BY Zenon, <1>3, <2>2, ElementOfSeq
  <2>q. QED  BY Zenon, <2>1, <2>3 DEF Packet
<1>5. Kind(k + 1) = OpenedKind
  BY Zenon, <1>3 DEF Kind, OpenedKind
<1>6. k + 1 - 1 = k
  OBVIOUS
<1>7. /\ Opened.m \in 1..cur /\ Opened.m = Top + (IF Open(k) THEN 0 ELSE 1)
      /\ OpenedKind \in PacketKind
      /\ HeaderType(Opened.header) = sent[Opened.m].msg_type
      /\ OpenedKind \in {Mid, Last} => Open(k)
      /\ OpenedKind \in {Sole, First} => ~Open(k)
      /\ OpenedKind # Abort => /\ Opened.to >= Start(k)
                               /\ Opened.payload = Bytes(Opened.m, Start(k), Opened.to)
      /\ OpenedKind \in {Sole, Last} => Opened.to = sent[Opened.m].len
  <2> PICK n \in Nat : n = k + 1 /\ n - 1 = k
    BY <1>6
  <2>1. FrameOk(n) /\ Opened = frames[n] /\ Kind(n) = OpenedKind /\ MsgOf(n - 1) = Top
    BY Zenon, <1>3, <1>4, <1>5 DEF Top
  <2>2. (Open(n - 1) <=> Open(k)) /\ Start(n - 1) = Start(k)
    BY Zenon
  <2>q. QED  BY Zenon, <2>1, <2>2 DEF FrameOk
<1>8. ~Stopped
  <2>1. ~Dead
    BY Zenon, <1>1, <1>2 DEF Dead, Channel
  <2>q. QED  BY Zenon, <2>1 DEF Stopped
<1>9. Open(k) => packet_reader.msg_type = HeaderType(Opened.header)
  <2>1. SUFFICES ASSUME Open(k)
                 PROVE  packet_reader.msg_type = HeaderType(Opened.header)
    BY Zenon
  <2>2. k > 0
    BY Zenon, <2>1 DEF Open
  <2>3. FrameOk(k) /\ Top = frames[k].m /\ Top \in 1..cur
    BY Zenon, <2>2, PrefixIs
  <2>4. HeaderType(frames[k].header) = sent[Top].msg_type
    BY Zenon, <2>3 DEF FrameOk
  <2>5. Opened.m = Top
    <3>1. Opened.m = Top + 0
      BY Zenon, <1>7, <2>1
    <3>2. Top \in Nat
      BY Zenon, <2>3, MsgNumber
    <3>q. QED  BY Zenon, <3>1, <3>2, PlusZero
  <2>q. QED  BY Zenon, <1>7, <2>1, <2>4, <2>5 DEF Receiver, ReaderOk
<1>10. /\ FrameError = "none" <=> (OpenedKind = Abort => Open(k))
       /\ FrameError # "none" => FrameError = "MissingMessageStart"
  <2>1. PICK len \in Nat : len = 2 + Len(Opened.payload)
    BY <1>4
  <2>2. packet_reader \in PacketReader /\ (packet_reader.in_progress <=> Open(k))
    BY Zenon DEF TypeOK, Receiver, ReaderOk
  <2>3. len >= 2
    BY <1>4, <2>1
  <2>4. FrameError = ReadError(packet_reader, len, Opened.header)
    BY Zenon, <2>1 DEF FrameError
  <2>5. /\ OpenedKind \in {Sole, First} =>
             FrameError = IF packet_reader.in_progress THEN "UnexpectedMessageStart" ELSE "none"
        /\ OpenedKind \in {Mid, Last, Abort} =>
             FrameError = IF ~packet_reader.in_progress THEN "MissingMessageStart"
                          ELSE IF packet_reader.msg_type # HeaderType(Opened.header)
                               THEN "MessageTypeChange" ELSE "none"
    BY Zenon, <1>4, <1>7, <2>2, <2>3, <2>4, Reads DEF OpenedKind
  <2>6. OpenedKind \in {Sole, First, Mid, Last, Abort}
    BY Zenon, <1>7, Distinct
  <2>q. QED  BY Zenon, <1>7, <1>9, <2>2, <2>5, <2>6, Distinct
<1>q. QED  BY Zenon, <1>3, <1>4, <1>7, <1>8, <1>10

\* Where the receiver is once it has decrypted it.
LEMMA AfterFrame ==
    ASSUME TypeOK, Sender, Channel, Receiver, wire # <<>>, Decrypts(Head(wire)),
           rx_nonce' = rx_nonce + 1, UNCHANGED <<frames, sent>>
    PROVE  /\ rx_nonce' \in Nat /\ rx_nonce' > 0
           /\ frames'[rx_nonce'] = Opened /\ Top' = Opened.m
           /\ Kind(rx_nonce)' = OpenedKind
           /\ Open(rx_nonce)' <=> OpenedKind \in {First, Mid}
<1>1. rx_nonce \in Nat /\ Opened = frames[rx_nonce + 1]
  BY Zenon, NextFrame
<1>2. rx_nonce' \in Nat /\ rx_nonce' > 0 /\ rx_nonce' # 0
  BY <1>1
<1>3. frames'[rx_nonce'] = Opened
  BY Zenon, <1>1
<1>q. QED  BY Zenon, <1>2, <1>3 DEF Top, MsgOf, Kind, Open, OpenedKind

\* The reader follows.
LEMMA ReaderFollows ==
    ASSUME TypeOK, Sender, Channel, Receiver, UNCHANGED <<frames, sent>>,
           read_packet_ok \/ read_packet_rejected
    PROVE  packet_reader' \in PacketReader /\ ReaderOk'
<1>1. wire # <<>> /\ Decrypts(Head(wire)) /\ rx_nonce' = rx_nonce + 1
  BY Zenon DEF read_packet_ok, read_packet_rejected
<1>2. /\ frames'[rx_nonce'] = Opened
      /\ Open(rx_nonce)' <=> OpenedKind \in {First, Mid}
  BY Zenon, <1>1, AfterFrame
<1>3. /\ OpenedKind \in PacketKind /\ Opened.header \in Nat
      /\ OpenedKind = Mid => Open(rx_nonce)
      /\ OpenedKind = Sole => ~Open(rx_nonce)
      /\ FrameError = "none" <=> (OpenedKind = Abort => Open(rx_nonce))
      /\ HeaderType(Opened.header) = sent[Opened.m].msg_type
      /\ Opened.m = Top + (IF Open(rx_nonce) THEN 0 ELSE 1)
  BY Zenon, <1>1, NextFrame DEF Packet
<1>4. /\ packet_reader \in PacketReader /\ (packet_reader.in_progress <=> Open(rx_nonce))
      /\ Open(rx_nonce) => packet_reader.msg_type = HeaderType(frames[rx_nonce].header)
  BY Zenon DEF TypeOK, Receiver, ReaderOk
<1>5. CASE read_packet_rejected
  <2>1. packet_reader' = packet_reader /\ FrameError # "none"
    BY Zenon, <1>5 DEF read_packet_rejected
  <2>q. QED  BY Zenon, <1>2, <1>3, <1>4, <2>1, Distinct DEF ReaderOk
<1>6. CASE read_packet_ok
  <2> PICK h \in Nat : h = Opened.header
    BY Zenon, <1>3
  <2>1. packet_reader' = ReadNext(packet_reader, h) /\ HeaderKind(h) = OpenedKind
    BY Zenon, <1>6 DEF read_packet_ok, OpenedKind
  <2>2. /\ OpenedKind = First =>
             packet_reader' = [in_progress |-> TRUE, msg_type |-> HeaderType(h)]
        /\ OpenedKind \in {Last, Abort} => packet_reader' = NewReader
        /\ OpenedKind \in {Sole, Mid} => packet_reader' = packet_reader
    BY Zenon, <2>1, ReadNextIs
  <2>3. packet_reader' \in PacketReader
    <3>1. NewReader \in PacketReader
      BY DEF NewReader, PacketReader, TYPE_MASK
    <3>2. [in_progress |-> TRUE, msg_type |-> HeaderType(h)] \in PacketReader
      BY Zenon, DecodedTyped DEF PacketReader
    <3>q. QED  BY Zenon, <1>3, <1>4, <2>2, <3>1, <3>2, Distinct
  <2>4. OpenedKind = Mid => HeaderType(frames[rx_nonce].header) = HeaderType(h)
    <3>1. SUFFICES ASSUME OpenedKind = Mid
                   PROVE  HeaderType(frames[rx_nonce].header) = HeaderType(h)
      BY Zenon
    <3>2. Open(rx_nonce) /\ rx_nonce > 0
      BY Zenon, <1>3, <3>1 DEF Open
    <3>3. FrameOk(rx_nonce) /\ Top = frames[rx_nonce].m /\ Top \in 1..cur /\ cur \in Nat
      BY Zenon, <3>2, PrefixIs
    <3>4. HeaderType(frames[rx_nonce].header) = sent[Top].msg_type
      BY Zenon, <3>3 DEF FrameOk
    <3>5. Opened.m = Top
      <4>1. Opened.m = Top + 0 /\ Top \in Nat
        BY <1>3, <3>2, <3>3
      <4>q. QED  BY <4>1
    <3>q. QED  BY Zenon, <1>3, <3>4, <3>5
  <2>5. (packet_reader'.in_progress <=> OpenedKind \in {First, Mid})
    <3>1. CASE OpenedKind = First
      BY <2>2, <3>1
    <3>2. CASE OpenedKind = Mid
      BY Zenon, <1>3, <1>4, <2>2, <3>2
    <3>3. CASE OpenedKind = Sole
      BY Zenon, <1>3, <1>4, <2>2, <3>3, Distinct
    <3>4. CASE OpenedKind \in {Last, Abort}
      BY <2>2, <3>4, Distinct DEF NewReader
    <3>q. QED  BY Zenon, <1>3, <3>1, <3>2, <3>3, <3>4 DEF PacketKind
  <2>6. OpenedKind \in {First, Mid} => packet_reader'.msg_type = HeaderType(h)
    <3>1. CASE OpenedKind = First
      BY <2>2, <3>1
    <3>2. CASE OpenedKind = Mid
      BY Zenon, <1>3, <1>4, <2>2, <2>4, <3>2
    <3>q. QED  BY Zenon, <3>1, <3>2
  <2>q. QED  BY Zenon, <1>2, <2>3, <2>5, <2>6 DEF ReaderOk
<1>q. QED  BY Zenon, <1>5, <1>6

----------------------------------------------------------------------------
\* The receiver's steps that decrypt nothing.

\* Where the receiver is depends only on the frames and on its nonce.
LEMMA SameFrame ==
    ASSUME UNCHANGED <<frames, rx_nonce>>
    PROVE  /\ Open(rx_nonce)' <=> Open(rx_nonce)
           /\ Top' = Top /\ MsgOf(rx_nonce)' = MsgOf(rx_nonce) /\ Kind(rx_nonce)' = Kind(rx_nonce)
           /\ UNCHANGED <<msg, dropped>> => (Gathered' <=> Gathered) /\ (Live' <=> Live)
  BY Zenon DEF Open, MsgOf, Kind, Top, Gathered, Live

\* The packet reader stays in step while nothing is decrypted.
LEMMA SameReader ==
    ASSUME ReaderOk, UNCHANGED <<frames, rx_nonce, packet_reader>>
    PROVE  ReaderOk'
  BY Zenon, SameFrame DEF ReaderOk

\* No handle is left.
LEMMA NoHandleLeft ==
    ASSUME msg' = NoMessage
    PROVE  /\ ~Live' /\ (Busy' <=> Open(rx_nonce)')
           /\ (Open(rx_nonce) => Stopped \/ MsgOf(rx_nonce) \in dropped)' => HandleOk'
           /\ msg' \in Handle /\ msg'.at = "none"
<1>1. msg' \in Handle /\ msg'.at = "none" /\ ~msg'.done
  BY Zenon, NoHandle
<1>2. ~Live'
  BY Zenon, <1>1 DEF Live
<1>q. QED  BY Zenon, <1>1, <1>2 DEF Busy, HandleOk, PanicOnlyAfterDrop

\* A read that comes to nothing, for the stream is over, or the None of a message
\* that was aborted.
LEMMA ReadStops ==
    ASSUME TypeOK, Sender, Channel, Receiver, History,
           UNCHANGED <<frames, sent, rx_nonce, packet_reader, dropped>>,
           rx_torn' \in BOOLEAN, Stopped' \/ ~Open(rx_nonce),
           \/ UNCHANGED msg
           \/ msg' = NoMessage /\ msg.at \in {"none", "bytes", "packets"} /\ ~msg.done
           \/ msg' = NoMessage /\ msg.at = "aborted",
           UNCHANGED seen \/ \E e \in Event : e.ev \in {"noise", "eof"} /\ seen' = Append(seen, e)
    PROVE  RxType' /\ Receiver' /\ History'
<1>1. ReaderOk'
  BY Zenon, SameReader DEF Receiver
<1>2. /\ Open(rx_nonce)' <=> Open(rx_nonce)
      /\ Top' = Top /\ MsgOf(rx_nonce)' = MsgOf(rx_nonce) /\ Kind(rx_nonce)' = Kind(rx_nonce)
      /\ UNCHANGED <<msg, dropped>> => (Gathered' <=> Gathered) /\ (Live' <=> Live)
  BY Zenon, SameFrame
<1>3. msg' \in Handle /\ HandleOk' /\ (Busy' <=> Busy)
      /\ (msg'.at # "panicked" => msg.at # "panicked")
  <2>1. CASE UNCHANGED msg
    <3>1. (Live' <=> Live) /\ (Gathered' <=> Gathered) /\ msg' \in Handle
      BY Zenon, <1>2, <2>1 DEF TypeOK
    <3>2. HandleOk'
      BY Zenon, <1>2, <2>1, <3>1 DEF HandleOk, Receiver, PanicOnlyAfterDrop
    <3>q. QED  BY Zenon, <1>2, <2>1, <3>1, <3>2 DEF Busy
  <2>2. CASE /\ msg' = NoMessage
             /\ msg.at = "aborted" \/ (msg.at \in {"none", "bytes", "packets"} /\ ~msg.done)
    <3>1. (Busy <=> Open(rx_nonce)) /\ msg.at # "panicked"
      BY Zenon, <2>2 DEF Busy, Live
    <3>q. QED  BY Zenon, <1>2, <2>2, <3>1, NoHandleLeft
  <2>q. QED  BY Zenon, <2>1, <2>2
<1>4. seen' \in Seq(Event)
  <2>1. CASE UNCHANGED seen
    BY Zenon, <2>1 DEF TypeOK
  <2>2. CASE \E e \in Event : e.ev \in {"noise", "eof"} /\ seen' = Append(seen, e)
    BY Zenon, <2>2, EventsAre
  <2>q. QED  BY Zenon, <2>1, <2>2
<1>5. RxType'
  BY Zenon, <1>3, <1>4 DEF RxType, TypeOK
<1>6. History'
  <2>1. \A i \in Heard : seen[i].m \in 1..Top' /\ (Busy' => seen[i].m < Top')
    BY Zenon, <1>2, <1>3 DEF History, Bounded
  <2>2. msg'.at # "panicked" =>
           \A m \in 1..Top' \ dropped' : (\E j \in Heard : seen[j].m = m) \/ (m = Top' /\ Busy')
    BY Zenon, <1>2, <1>3 DEF History, Covered
  <2>q. QED  BY Zenon, <2>1, <2>2, HistoryMoves
<1>q. QED  BY Zenon, <1>1, <1>3, <1>5, <1>6 DEF Receiver

\* The application drops its handle on a message.
LEMMA StepDropped ==
    ASSUME TypeOK, Sender, Channel, Receiver, History, message_dropped
    PROVE  RxType' /\ Receiver' /\ History'
<1>1. /\ msg.at \in {"message", "bytes", "packets"} /\ msg' = NoMessage
      /\ dropped' = dropped \cup {msg.m}
      /\ UNCHANGED <<frames, sent, wire, lost, call, rx_nonce, packet_reader, rx_torn, seen>>
  BY Zenon DEF message_dropped, txVars
<1>2. ReaderOk'
  BY Zenon, <1>1, SameReader DEF Receiver
<1>3. /\ Open(rx_nonce)' <=> Open(rx_nonce)
      /\ Top' = Top /\ MsgOf(rx_nonce)' = MsgOf(rx_nonce)
  BY Zenon, <1>1, SameFrame
<1>4. Live => Top \in dropped'
  BY Zenon, <1>1 DEF Receiver, HandleOk, Top
<1>5. Open(rx_nonce) => Live
  BY Zenon, <1>1 DEF Live
<1>6. HandleOk' /\ msg' \in Handle /\ (Busy' <=> Open(rx_nonce)')
  BY Zenon, <1>1, <1>3, <1>4, <1>5, NoHandleLeft DEF Top
<1>7. RxType'
  <2>1. msg.m \in Nat
    BY Zenon DEF TypeOK, Handle
  <2>q. QED  BY Zenon, <1>1, <1>6, <2>1 DEF RxType, TypeOK
<1>8. \A i \in Heard : seen[i].m \in 1..Top' /\ (Busy' => seen[i].m < Top')
  BY Zenon, <1>3, <1>6 DEF History, Bounded, Busy
<1>9. \A m \in 1..Top' \ dropped' : \E j \in Heard : seen[j].m = m
  <2>1. SUFFICES ASSUME NEW m \in 1..Top \ dropped'
                 PROVE  \E j \in Heard : seen[j].m = m
    BY Zenon, <1>3
  <2>2. m \in 1..Top \ dropped /\ msg.at # "panicked"
    BY Zenon, <1>1
  <2>3. (\E j \in Heard : seen[j].m = m) \/ (m = Top /\ Busy)
    BY Zenon, <2>2 DEF History, Covered
  <2>4. ~(m = Top /\ Busy)
    BY Zenon, <1>4, <1>5 DEF Busy
  <2>q. QED  BY Zenon, <2>3, <2>4
<1>10. History'
  <2>1. dropped \subseteq dropped' /\ UNCHANGED seen /\ UNCHANGED sent
    BY Zenon, <1>1
  <2>q. QED  BY Zenon, <1>8, <1>9, <2>1, HistoryMoves
<1>q. QED  BY Zenon, <1>2, <1>6, <1>7, <1>10 DEF Receiver

\* A message that is over is handed over.
LEMMA HandedOver ==
    ASSUME TypeOK, Sender, Channel, Receiver, History,
           Live, Kind(rx_nonce) \in {Sole, Last}, msg.at # "panicked",
           Deliver(msg.m, msg.msg_type, msg.data), msg' = NoMessage,
           UNCHANGED <<frames, sent, wire, lost, call, rx_nonce, packet_reader, rx_torn, dropped>>
    PROVE  RxType' /\ Receiver' /\ History'
<1> DEFINE e == [ev |-> "message", m |-> msg.m, msg_type |-> msg.msg_type, data |-> msg.data]
<1>1. /\ rx_nonce > 0 /\ msg.m = Top /\ msg.msg_type = sent[msg.m].msg_type /\ Gathered
  BY Zenon, Distinct DEF Receiver, HandleOk, Top
<1>2. /\ FrameOk(rx_nonce) /\ Top = frames[rx_nonce].m /\ Top \in 1..cur /\ cur \in Nat
  BY Zenon, <1>1, PrefixIs
<1>3. ~Open(rx_nonce) /\ frames[rx_nonce].to = sent[Top].len
  BY Zenon, <1>2, Distinct DEF Open, FrameOk
<1>4. ReaderOk'
  BY Zenon, SameReader DEF Receiver
<1>5. (Open(rx_nonce)' <=> Open(rx_nonce)) /\ Top' = Top
  BY Zenon, SameFrame
<1>6. HandleOk' /\ msg' \in Handle /\ ~Busy'
  BY Zenon, <1>3, <1>5, NoHandleLeft
<1>7. /\ e \in Event /\ e.ev = "message" /\ e.m = Top /\ e.msg_type = msg.msg_type
      /\ e.data = msg.data /\ seen' = Append(seen, e)
  BY Zenon, <1>1 DEF TypeOK, Handle, Event, Deliver
<1> HIDE DEF e
<1>8. Intact(e)
  BY Zenon, <1>1, <1>3, <1>7 DEF Intact, Gathered
<1>9. seen' \in Seq(Event)
  BY Zenon, <1>7, EventsAre
<1>10. RxType'
  BY Zenon, <1>6, <1>9 DEF RxType, TypeOK
<1>11. /\ \A i \in Heard : seen[i].m < Top'
       /\ \A m \in (1..(Top' - 1)) \ dropped : \E j \in Heard : seen[j].m = m
  <2>1. Busy
    BY Zenon DEF Busy
  <2>2. \A m \in 1..Top \ dropped : (\E j \in Heard : seen[j].m = m) \/ m = Top
    BY Zenon, <2>1 DEF History, Covered
  <2>3. \A m \in (1..(Top - 1)) : m \in 1..Top /\ m # Top
    BY <1>2
  <2>q. QED  BY Zenon, <1>5, <2>1, <2>2, <2>3 DEF History, Bounded
<1>12. History'
  <2>1. /\ e.ev \in HeardKinds /\ Top' \in Nat /\ Top' > 0 /\ e.m = Top'
        /\ e.ev # "rejected"
    <3>1. Top \in Nat /\ Top > 0
      BY <1>2
    <3>q. QED  BY Zenon, <1>5, <1>7, <3>1 DEF HeardKinds
  <2>q. QED  BY Zenon, <1>6, <1>7, <1>8, <1>11, <2>1, HistoryAdds
<1>q. QED  BY Zenon, <1>4, <1>6, <1>10, <1>12 DEF Receiver

\* read_bytes or into_packets takes the handle over.
LEMMA Begins ==
    ASSUME TypeOK, Sender, Channel, Receiver, History,
           msg.at = "message", msg'.at \in {"bytes", "packets"}, msg' \in Handle,
           msg'.m = msg.m, msg'.msg_type = msg.msg_type, msg'.data = msg.data,
           msg'.done => msg'.at = "packets",
           msg'.done <=> msg.kind = Sole,
           UNCHANGED <<frames, sent, wire, lost, call, rx_nonce, packet_reader, rx_torn, dropped, seen>>
    PROVE  RxType' /\ Receiver' /\ History'
<1>1. ReaderOk'
  BY Zenon, SameReader DEF Receiver
<1>2. /\ Open(rx_nonce)' <=> Open(rx_nonce)
      /\ Top' = Top /\ MsgOf(rx_nonce)' = MsgOf(rx_nonce) /\ Kind(rx_nonce)' = Kind(rx_nonce)
  BY Zenon, SameFrame
<1>3. /\ Live /\ rx_nonce > 0 /\ msg.m = Top /\ msg.msg_type = sent[msg.m].msg_type
      /\ Kind(rx_nonce) # Abort => Gathered
      /\ msg.kind = Kind(rx_nonce)
      /\ msg.kind \in {Mid, Last, Abort} => msg.m \in dropped
      /\ msg.kind \in PacketKind
  <2>1. Live
    BY Zenon DEF Live
  <2>q. QED  BY Zenon, <2>1 DEF Receiver, HandleOk, Top, TypeOK, Handle
<1>4. Gathered' <=> Gathered
  BY Zenon DEF Gathered
<1>5. Live' <=> Kind(rx_nonce) \in {Sole, First, Mid}
  BY Zenon, <1>2, <1>3, Distinct DEF Live, Open
<1>6. ~Live' => msg.m \in dropped
  BY Zenon, <1>3, <1>5, Distinct
<1>7. HandleOk'
  BY Zenon, <1>2, <1>3, <1>4, <1>5, <1>6, Distinct DEF HandleOk, Top, PanicOnlyAfterDrop
<1>8. RxType'
  BY Zenon DEF RxType, TypeOK
<1>9. Busy /\ (Busy' <=> Live')
  BY Zenon, <1>2, <1>3, <1>5, Distinct DEF Busy, Open
<1>10. History'
  <2>1. \A i \in Heard : seen[i].m \in 1..Top' /\ (Busy' => seen[i].m < Top')
    BY Zenon, <1>2, <1>9 DEF History, Bounded
  <2>2. \A m \in 1..Top' \ dropped' : (\E j \in Heard : seen[j].m = m) \/ (m = Top' /\ Busy')
    <3>1. \A m \in 1..Top \ dropped : (\E j \in Heard : seen[j].m = m) \/ m = Top
      BY Zenon DEF History, Covered
    <3>2. Top \notin dropped => Busy'
      BY Zenon, <1>3, <1>6, <1>9
    <3>q. QED  BY Zenon, <1>2, <3>1, <3>2
  <2>q. QED  BY Zenon, <2>1, <2>2, HistoryMoves
<1>q. QED  BY Zenon, <1>1, <1>7, <1>8, <1>10 DEF Receiver

----------------------------------------------------------------------------
\* The receiver's steps that decrypt a frame.

\* A message the receiver was not in, or has left, is followed by the next one.
LEMMA NextMessage ==
    ASSUME TypeOK, Sender, Channel, Receiver, History, ~Busy, msg.at # "panicked"
    PROVE  /\ Top \in Nat
           /\ \A i \in Heard : seen[i].m \in 1..Top /\ seen[i].m < Top + 1
           /\ \A m \in (1..(Top + 1 - 1)) \ dropped : \E j \in Heard : seen[j].m = m
<1> PICK t \in Nat : t = Top
  BY PrefixIs
<1>1. \A i \in Heard : seen[i].m \in 1..t
  BY Zenon DEF History, Bounded
<1>2. \A m \in 1..t \ dropped : \E j \in Heard : seen[j].m = m
  BY Zenon DEF History, Covered
<1>3. 1..(t + 1 - 1) = 1..t /\ \A n \in 1..t : n < t + 1
  OBVIOUS
<1>q. QED  BY Zenon, <1>1, <1>2, <1>3

\* And while it is in it the application has heard of all those before it.
LEMMA ThisMessage ==
    ASSUME TypeOK, Sender, Channel, Receiver, History, Busy, msg.at # "panicked"
    PROVE  /\ Top \in Nat
           /\ \A i \in Heard : seen[i].m \in 1..Top /\ seen[i].m < Top
           /\ \A m \in (1..(Top - 1)) \ dropped : \E j \in Heard : seen[j].m = m
<1> PICK t \in Nat : t = Top
  BY PrefixIs
<1>1. \A i \in Heard : seen[i].m \in 1..t /\ seen[i].m < t
  BY Zenon DEF History, Bounded
<1>2. \A m \in 1..t \ dropped : (\E j \in Heard : seen[j].m = m) \/ m = t
  BY Zenon DEF History, Covered
<1>3. \A m \in 1..(t - 1) : m \in 1..t /\ m # t
  OBVIOUS
<1>q. QED  BY Zenon, <1>1, <1>2, <1>3

\* The handle survives or it does not, but it was not on the message rejected.
LEMMA StepRejected ==
    ASSUME TypeOK, Sender, Channel, Receiver, History, read_packet_rejected,
           msg.at \in {"none", "bytes", "packets"}, ~msg.done,
           msg' = NoMessage \/ UNCHANGED msg, UNCHANGED <<frames, sent, dropped, rx_torn>>
    PROVE  RxType' /\ Receiver' /\ History'
<1> DEFINE e == [ev |-> "rejected", m |-> Opened.m, kind |-> HeaderKind(Opened.header),
                 err |-> FrameError]
<1>1. /\ wire # <<>> /\ Decrypts(Head(wire)) /\ FrameError # "none"
      /\ rx_nonce' = rx_nonce + 1 /\ seen' = Append(seen, e)
  BY Zenon DEF read_packet_rejected
<1>2. /\ Opened \in Packet /\ Opened.m = Top + (IF Open(rx_nonce) THEN 0 ELSE 1)
      /\ OpenedKind = Abort /\ ~Open(rx_nonce)
      /\ FrameError = "MissingMessageStart"
  BY Zenon, <1>1, NextFrame
<1>3. /\ rx_nonce' \in Nat /\ rx_nonce' > 0 /\ Top' = Opened.m
      /\ ~Open(rx_nonce)'
  BY Zenon, <1>1, <1>2, AfterFrame, Distinct
<1>4. packet_reader' \in PacketReader /\ ReaderOk'
  BY Zenon, ReaderFollows
<1>5. /\ e \in Event /\ e.ev = "rejected" /\ e.m = Opened.m /\ e.kind = Abort
      /\ e.err = "MissingMessageStart"
  BY Zenon, <1>2, Distinct DEF Event, OpenedKind, Packet, PacketReadError
<1> HIDE DEF e
<1>6. ~Live /\ ~Busy
  BY Zenon, <1>2 DEF Live, Busy
<1>7. msg' \in Handle /\ HandleOk' /\ ~Busy'
  <2>1. CASE msg' = NoMessage
    BY Zenon, <1>3, <2>1, NoHandleLeft
  <2>2. CASE UNCHANGED msg
    <3>1. ~Live'
      BY Zenon, <1>3, <2>2 DEF Live
    <3>2. msg.at \in {"bytes", "packets"} => msg.m \in dropped
      BY Zenon, <1>6 DEF Receiver, HandleOk
    <3>3. HandleOk'
      BY Zenon, <1>3, <2>2, <3>1, <3>2 DEF HandleOk, PanicOnlyAfterDrop
    <3>q. QED  BY Zenon, <1>3, <2>2, <3>1, <3>3 DEF Busy, TypeOK
  <2>q. QED  BY Zenon, <2>1, <2>2
<1>8. seen' \in Seq(Event)
  BY Zenon, <1>1, <1>5, EventsAre
<1>9. RxType'
  BY Zenon, <1>3, <1>4, <1>7, <1>8 DEF RxType, TypeOK
<1>10. /\ Top \in Nat /\ Top' = Top + 1
       /\ \A i \in Heard : seen[i].m < Top'
       /\ \A m \in (1..(Top' - 1)) \ dropped : \E j \in Heard : seen[j].m = m
  <2>1. Top \in Nat /\ Top' = Top + 1
    BY Zenon, <1>2, <1>3, <1>6, NextMessage
  <2>q. QED  BY <1>6, <2>1, NextMessage
<1>11. History'
  <2>1. /\ e.ev \in HeardKinds /\ Top' \in Nat /\ Top' > 0 /\ e.m = Top' /\ e.ev # "message"
    BY <1>3, <1>5, <1>10 DEF HeardKinds
  <2>q. QED  BY Zenon, <1>1, <1>5, <1>7, <1>10, <2>1, HistoryAdds
<1>q. QED  BY Zenon, <1>4, <1>7, <1>9, <1>11 DEF Receiver

\* read_message returns a handle.
LEMMA StepRead ==
    ASSUME TypeOK, Sender, Channel, Receiver, History, read_packet_ok, msg.at = "none",
           msg' = [at |-> "message", kind |-> HeaderKind(Opened.header),
                   msg_type |-> HeaderType(Opened.header), data |-> Opened.payload,
                   done |-> FALSE, m |-> Opened.m],
           UNCHANGED <<frames, sent, dropped, rx_torn, seen>>
    PROVE  RxType' /\ Receiver' /\ History'
<1>1. /\ wire # <<>> /\ Decrypts(Head(wire)) /\ FrameError = "none"
      /\ rx_nonce' = rx_nonce + 1
  BY Zenon DEF read_packet_ok
<1>2. /\ Opened \in Packet /\ Opened.m = Top + (IF Open(rx_nonce) THEN 0 ELSE 1)
      /\ OpenedKind \in PacketKind /\ HeaderType(Opened.header) = sent[Opened.m].msg_type
      /\ OpenedKind \in {Mid, Last, Abort} => Open(rx_nonce)
      /\ OpenedKind # Abort => /\ Opened.to >= Start(rx_nonce)
                               /\ Opened.payload = Bytes(Opened.m, Start(rx_nonce), Opened.to)
      /\ ~Stopped
  BY Zenon, <1>1, NextFrame, Distinct
<1>3. /\ rx_nonce' \in Nat /\ rx_nonce' > 0 /\ Top' = Opened.m /\ frames'[rx_nonce'] = Opened
      /\ Kind(rx_nonce)' = OpenedKind /\ (Open(rx_nonce)' <=> OpenedKind \in {First, Mid})
  BY Zenon, <1>1, AfterFrame
<1>4. packet_reader' \in PacketReader /\ ReaderOk'
  BY Zenon, ReaderFollows
<1>5. /\ Opened.m \in Nat /\ Opened.header \in Nat /\ Opened.to \in Nat
      /\ Opened.payload \in Seq(Nat \X Nat)
  BY Zenon, <1>2 DEF Packet
<1>6. /\ msg' \in Handle /\ msg'.at = "message" /\ msg'.kind = OpenedKind /\ ~msg'.done
      /\ msg'.msg_type = sent[Opened.m].msg_type /\ msg'.data = Opened.payload
      /\ msg'.m = Opened.m
  BY Zenon, <1>2, <1>5, DecodedTyped DEF Handle, OpenedKind
<1>7. Live' /\ Busy'
  BY Zenon, <1>6 DEF Live, Busy
<1>8. Top \in Nat /\ (Open(rx_nonce) => Opened.m = Top /\ Top \in dropped)
  <2>1. Open(rx_nonce) => MsgOf(rx_nonce) \in dropped
    BY Zenon, <1>2 DEF Receiver, HandleOk
  <2>2. Top \in Nat
    <3>1. Top \in 0..cur /\ cur \in Nat
      BY Zenon, PrefixIs
    <3>q. QED  BY <3>1
  <2>3. Open(rx_nonce) => Opened.m = Top + 0
    BY Zenon, <1>2
  <2>4. Top + 0 = Top
    BY <2>2
  <2>q. QED  BY Zenon, <2>1, <2>2, <2>3, <2>4 DEF Top
<1>9. OpenedKind # Abort => Gathered'
  <2>1. SUFFICES ASSUME OpenedKind # Abort
                 PROVE  Gathered'
    BY Zenon
  <2> PICK a \in Nat : a = Start(rx_nonce)
    <3>1. rx_nonce \in 0..Len(frames)
      BY Zenon, PrefixIs
    <3>q. QED  BY Zenon, <3>1, EndTyped
  <2> PICK b \in Nat : b = Opened.to
    BY Zenon, <1>5
  <2> PICK m \in Nat : m = Opened.m
    BY Zenon, <1>5
  <2>2. a <= b /\ Opened.payload = Bytes(m, a, b)
    BY Zenon, <1>2, <2>1
  <2>3. Len(Opened.payload) = b - a
    <3>1. Len(Bytes(m, a, b)) = b - a
      BY ZenonT(60), <2>2, BytesIs
    <3>q. QED  BY Zenon, <2>2, <3>1
  <2>4. ~Open(rx_nonce) => a = 0
    BY Zenon DEF Start
  <2>5. m \notin dropped => a = 0
    BY Zenon, <1>8, <2>4
  <2>6. b - (b - a) = a /\ b - a <= b /\ (a = 0 => b - a = b)
    BY <2>2
  <2>q. QED  BY ZenonT(60), <1>3, <1>6, <2>2, <2>3, <2>5, <2>6 DEF Gathered
<1>10. HandleOk'
  <2>1. (Live => /\ rx_nonce > 0
                 /\ msg.m = MsgOf(rx_nonce) /\ msg.msg_type = sent[msg.m].msg_type
                 /\ Kind(rx_nonce) # Abort => Gathered)'
    BY Zenon, <1>3, <1>6, <1>9 DEF Top
  <2>2. msg'.kind \in {Mid, Last, Abort} => msg'.m \in dropped'
    BY Zenon, <1>2, <1>6, <1>8
  <2>q. QED  BY Zenon, <1>3, <1>6, <1>7, <2>1, <2>2 DEF HandleOk, PanicOnlyAfterDrop
<1>11. RxType'
  BY Zenon, <1>3, <1>4, <1>6 DEF RxType, TypeOK
<1>12. /\ \A i \in Heard : seen[i].m \in 1..Top' /\ seen[i].m < Top'
       /\ \A m \in (1..(Top' - 1)) \ dropped : \E j \in Heard : seen[j].m = m
       /\ Top' \in Nat
  <2>1. CASE Open(rx_nonce)
    <3>1. Busy /\ Top' = Top
      BY Zenon, <1>3, <1>8, <2>1 DEF Busy
    <3>q. QED  BY Zenon, <3>1, ThisMessage
  <2>2. CASE ~Open(rx_nonce)
    <3>1. ~Busy /\ Top' = Top + 1 /\ Top \in Nat
      BY Zenon, <1>2, <1>3, <1>8, <2>2 DEF Busy, Live
    <3>2. /\ \A i \in Heard : seen[i].m \in 1..Top /\ seen[i].m < Top + 1
          /\ \A m \in (1..(Top + 1 - 1)) \ dropped : \E j \in Heard : seen[j].m = m
      BY Zenon, <3>1, NextMessage
    <3>3. \A n \in 1..Top : n \in 1..(Top + 1)
      BY <3>1
    <3>4. Top + 1 \in Nat
      BY <3>1
    <3>5. \A i \in Heard : seen[i].m \in 1..Top' /\ seen[i].m < Top'
      BY Zenon, <3>1, <3>2, <3>3
    <3>6. \A m \in (1..(Top' - 1)) \ dropped : \E j \in Heard : seen[j].m = m
      <4>1. Top' - 1 = Top + 1 - 1
        BY <3>1
      <4>q. QED  BY Zenon, <3>2, <4>1
    <3>q. QED  BY Zenon, <3>1, <3>4, <3>5, <3>6
  <2>q. QED  BY Zenon, <2>1, <2>2
<1>13. History'
  <2>1. \A m \in 1..Top' \ dropped' : (\E j \in Heard : seen[j].m = m) \/ (m = Top' /\ Busy')
    <3>1. \A m \in 1..Top' : m # Top' => m \in 1..(Top' - 1)
      BY Zenon, <1>12, Below
    <3>q. QED  BY Zenon, <1>7, <1>12, <3>1
  <2>q. QED  BY Zenon, <1>12, <2>1, HistoryMoves
<1>q. QED  BY Zenon, <1>4, <1>10, <1>11, <1>13 DEF Receiver

\* Bytes a..b of a message followed by bytes b..c.
Joins(m, a, b, c) ==
    /\ Bytes(m, a, b) \o Bytes(m, b, c) = Bytes(m, a, c)
    /\ Bytes(m, a, c) \in Seq(Nat \X Nat) /\ Len(Bytes(m, a, c)) = c - a

\* The bytes of a packet follow those gathered before it.
LEMMA Joined ==
    ASSUME NEW m \in Nat, NEW a \in Nat, NEW b \in Nat, NEW c \in Nat, a <= b, b <= c
    PROVE  Joins(m, a, b, c)
<1>1. a <= c
  OBVIOUS
<1>q. QED  BY ZenonT(60), <1>1, BytesConcat, BytesIs DEF Joins

\* A packet accepted inside a message belongs to the message of the handle, and
\* carries on where it is.
LEMMA InMessage ==
    ASSUME TypeOK, Sender, Channel, Receiver, read_packet_ok,
           msg.at \in {"bytes", "packets"}, ~msg.done, Open(rx_nonce), UNCHANGED <<frames, sent>>
    PROVE  /\ Live /\ Busy /\ Top \in Nat /\ Top > 0 /\ Top' = Top
           /\ msg.m = Top /\ Opened.m = Top /\ msg.msg_type = sent[Top].msg_type
           /\ OpenedKind # Abort =>
                LET data == msg.data \o Opened.payload IN
                /\ data \in Seq(Nat \X Nat)
                /\ Len(data) <= Opened.to /\ data = Bytes(Top, Opened.to - Len(data), Opened.to)
                /\ Top \notin dropped => Len(data) = Opened.to
<1>1. /\ wire # <<>> /\ Decrypts(Head(wire)) /\ rx_nonce' = rx_nonce + 1
  BY Zenon DEF read_packet_ok
<1>2. /\ Opened \in Packet /\ Opened.m = Top + (IF Open(rx_nonce) THEN 0 ELSE 1)
      /\ OpenedKind # Abort => /\ Opened.to >= Start(rx_nonce)
                               /\ Opened.payload = Bytes(Opened.m, Start(rx_nonce), Opened.to)
  BY Zenon, <1>1, NextFrame
<1>3. Live /\ Busy /\ rx_nonce > 0
  BY Zenon DEF Live, Busy, Open
<1>4. /\ msg.m = Top /\ msg.msg_type = sent[Top].msg_type /\ Gathered
  BY Zenon, <1>3, Distinct DEF Receiver, HandleOk, Top, Open
<1>5. Top \in Nat /\ Top > 0
  <2>1. Top \in 1..cur /\ cur \in Nat
    BY Zenon, <1>3, PrefixIs
  <2>q. QED  BY <2>1
<1>6. Opened.m = Top /\ Top' = Top
  <2>1. Opened.m = Top + 0
    BY Zenon, <1>2
  <2>2. Top + 0 = Top
    BY <1>5
  <2>3. Top' = Opened.m
    BY Zenon, <1>1, AfterFrame DEF read_packet_ok
  <2>q. QED  BY Zenon, <2>1, <2>2, <2>3
<1>7. ASSUME OpenedKind # Abort
      PROVE  LET data == msg.data \o Opened.payload IN
             /\ data \in Seq(Nat \X Nat)
             /\ Len(data) <= Opened.to /\ data = Bytes(Top, Opened.to - Len(data), Opened.to)
             /\ Top \notin dropped => Len(data) = Opened.to
  <2>1. PICK m \in Nat : m = Top
    BY Zenon, <1>5
  <2>2. PICK b \in Nat : b = frames[rx_nonce].to
    BY Zenon, <1>3, PrefixIs DEF Packet
  <2>3. PICK c \in Nat : c = Opened.to
    BY Zenon, <1>2 DEF Packet
  <2>4. b <= c /\ Opened.payload = Bytes(m, b, c)
    <3>1. Start(rx_nonce) = b
      BY Zenon, <2>2 DEF Start
    <3>q. QED  BY Zenon, <1>2, <1>6, <1>7, <2>1, <2>3, <3>1
  <2>5. PICK a \in Nat : a <= b /\ msg.data = Bytes(m, a, b) /\ (m \notin dropped => a = 0)
    <3>1. PICK n \in Nat : n = Len(msg.data)
      BY DEF TypeOK, Handle
    <3>2. n <= b /\ msg.data = Bytes(m, b - n, b) /\ (m \notin dropped => n = b)
      BY Zenon, <1>4, <2>1, <2>2, <3>1 DEF Gathered
    <3>3. b - n \in Nat /\ b - n <= b /\ (n = b => b - n = 0)
      BY <3>2
    <3>q. QED  BY Zenon, <3>2, <3>3
  <2>6. a <= b /\ b <= c
    BY Zenon, <2>4, <2>5
  <2>7. Joins(m, a, b, c)
    BY Zenon, <2>6, Joined
  <2>8. c - (c - a) = a /\ c - a <= c /\ (a = 0 => c - a = c)
    OBVIOUS
  <2>q. QED  BY SMTT(30), <2>1, <2>3, <2>4, <2>5, <2>7, <2>8 DEF Joins
<1>q. QED  BY Zenon, <1>3, <1>4, <1>5, <1>6, <1>7

\* The Abort of the message, or its last packet when read_bytes reads it: the
\* application hears of the message.
LEMMA StepEnds ==
    ASSUME TypeOK, Sender, Channel, Receiver, History, read_packet_ok,
           msg.at \in {"bytes", "packets"}, ~msg.done, OpenedKind \in {Last, Abort},
           \/ msg' = NoMessage
           \/ OpenedKind = Abort /\ msg' = [msg EXCEPT !.at = "aborted", !.done = TRUE],
           IF OpenedKind = Abort THEN seen' = Append(seen, [ev |-> "aborted", m |-> msg.m])
           ELSE Deliver(msg.m, msg.msg_type, msg.data \o Opened.payload),
           UNCHANGED <<frames, sent, dropped, rx_torn>>
    PROVE  RxType' /\ Receiver' /\ History'
<1> DEFINE data == msg.data \o Opened.payload
<1>1. /\ wire # <<>> /\ Decrypts(Head(wire)) /\ FrameError = "none" /\ rx_nonce' = rx_nonce + 1
  BY Zenon DEF read_packet_ok
<1>2. /\ Open(rx_nonce)
      /\ OpenedKind \in {Sole, Last} => Opened.to = sent[Opened.m].len
  BY Zenon, <1>1, NextFrame
<1>3. /\ rx_nonce' \in Nat /\ rx_nonce' > 0 /\ ~Open(rx_nonce)'
      /\ Kind(rx_nonce)' = OpenedKind
  BY Zenon, <1>1, AfterFrame, Distinct
<1>4. /\ Busy /\ Top \in Nat /\ Top > 0 /\ Top' = Top
      /\ msg.m = Top /\ Opened.m = Top /\ msg.msg_type = sent[Top].msg_type
      /\ OpenedKind # Abort =>
           /\ data \in Seq(Nat \X Nat)
           /\ data = Bytes(Top, Opened.to - Len(data), Opened.to)
           /\ Top \notin dropped => Len(data) = Opened.to
  BY Zenon, <1>2, InMessage
<1> HIDE DEF data
<1>5. packet_reader' \in PacketReader /\ ReaderOk'
  BY Zenon, ReaderFollows
<1>6. msg' \in Handle /\ HandleOk' /\ ~Busy'
  <2>1. CASE msg' = NoMessage
    BY Zenon, <1>3, <2>1, NoHandleLeft
  <2>2. CASE OpenedKind = Abort /\ msg' = [msg EXCEPT !.at = "aborted", !.done = TRUE]
    <3>1. msg' \in Handle /\ msg'.at = "aborted"
      BY Zenon, <2>2 DEF TypeOK, Handle
    <3>2. ~Live'
      BY Zenon, <3>1 DEF Live
    <3>3. HandleOk'
      BY Zenon, <1>3, <2>2, <3>1, <3>2 DEF HandleOk, PanicOnlyAfterDrop
    <3>q. QED  BY Zenon, <1>3, <3>1, <3>2, <3>3 DEF Busy
  <2>q. QED  BY Zenon, <2>1, <2>2
<1>7. PICK e \in Event : /\ seen' = Append(seen, e) /\ e.m = Top /\ e.ev \in {"message", "aborted"}
                         /\ e.ev = "message" => Intact(e)
  <2>1. CASE OpenedKind = Abort
    <3> DEFINE f == [ev |-> "aborted", m |-> msg.m]
    <3>1. f \in Event /\ f.m = Top /\ f.ev = "aborted" /\ seen' = Append(seen, f)
      BY Zenon, <1>4, <2>1 DEF Event
    <3> HIDE DEF f
    <3>q. QED  BY Zenon, <3>1
  <2>2. CASE OpenedKind # Abort
    <3> DEFINE f == [ev |-> "message", m |-> msg.m, msg_type |-> msg.msg_type, data |-> data]
    <3>1. seen' = Append(seen, f)
      BY Zenon, <2>2 DEF Deliver, data
    <3>2. /\ f \in Event /\ f.m = Top /\ f.ev = "message" /\ f.msg_type = msg.msg_type
          /\ f.data = data
      BY Zenon, <1>4, <2>2 DEF Event, TypeOK, Handle
    <3> HIDE DEF f
    <3>3. Opened.to = sent[Top].len
      BY Zenon, <1>2, <1>4, <2>2, Distinct
    <3>4. Intact(f)
      BY Zenon, <1>4, <2>2, <3>2, <3>3 DEF Intact
    <3>q. QED  BY Zenon, <3>1, <3>2, <3>4
  <2>q. QED  BY Zenon, <2>1, <2>2
<1>8. seen' \in Seq(Event)
  BY Zenon, <1>7, EventsAre
<1>9. RxType'
  BY Zenon, <1>3, <1>5, <1>6, <1>8 DEF RxType, TypeOK
<1>10. /\ \A i \in Heard : seen[i].m < Top'
       /\ \A m \in (1..(Top' - 1)) \ dropped : \E j \in Heard : seen[j].m = m
  BY Zenon, <1>4, ThisMessage
<1>11. History'
  <2>1. /\ e.ev \in HeardKinds /\ Top' \in Nat /\ Top' > 0 /\ e.m = Top' /\ e.ev # "rejected"
    BY Zenon, <1>4, <1>7 DEF HeardKinds
  <2>q. QED  BY Zenon, <1>6, <1>7, <1>10, <2>1, HistoryAdds
<1>q. QED  BY Zenon, <1>5, <1>6, <1>9, <1>11 DEF Receiver

\* A Mid packet, or the last one when next reads it: the handle has more of the message.
LEMMA StepGathers ==
    ASSUME TypeOK, Sender, Channel, Receiver, History, read_packet_ok,
           msg.at \in {"bytes", "packets"}, ~msg.done, OpenedKind \in {Mid, Last},
           msg' \in [at : {msg.at}, kind : {msg.kind}, msg_type : {msg.msg_type},
                     data : {msg.data \o Opened.payload}, done : BOOLEAN, m : {msg.m}],
           msg'.done <=> OpenedKind = Last, OpenedKind = Last => msg.at = "packets",
           UNCHANGED <<frames, sent, dropped, rx_torn, seen>>
    PROVE  RxType' /\ Receiver' /\ History'
<1> DEFINE data == msg.data \o Opened.payload
<1>1. /\ wire # <<>> /\ Decrypts(Head(wire)) /\ rx_nonce' = rx_nonce + 1
  BY Zenon DEF read_packet_ok
<1>2. Open(rx_nonce) /\ Opened \in Packet
  BY Zenon, <1>1, NextFrame
<1>3. /\ rx_nonce' \in Nat /\ rx_nonce' > 0 /\ frames'[rx_nonce'] = Opened
      /\ Kind(rx_nonce)' = OpenedKind /\ (Open(rx_nonce)' <=> OpenedKind = Mid)
  BY Zenon, <1>1, AfterFrame, Distinct
<1>4. /\ Busy /\ Top \in Nat /\ Top > 0 /\ Top' = Top
      /\ msg.m = Top /\ msg.msg_type = sent[Top].msg_type
      /\ data \in Seq(Nat \X Nat)
      /\ Len(data) <= Opened.to /\ data = Bytes(Top, Opened.to - Len(data), Opened.to)
      /\ Top \notin dropped => Len(data) = Opened.to
  BY Zenon, <1>2, InMessage, Distinct
<1>5. /\ msg'.at = msg.at /\ msg'.kind = msg.kind /\ msg'.msg_type = msg.msg_type
      /\ msg'.data = data /\ msg'.m = msg.m /\ msg' \in Handle
  <2>1. /\ msg.kind \in PacketKind /\ msg.msg_type \in 0..TYPE_MASK /\ msg.m \in Nat
        /\ msg.at \in {"none", "message", "bytes", "packets", "aborted", "panicked"}
    BY Zenon DEF TypeOK, Handle
  <2>q. QED  BY Zenon, <1>4, <2>1 DEF Handle
<1> HIDE DEF data
<1>6. packet_reader' \in PacketReader /\ ReaderOk'
  BY Zenon, ReaderFollows
<1>7. Live' /\ Busy'
  BY Zenon, <1>3, <1>5, Distinct DEF Live, Busy
<1>8. Gathered'
  BY Zenon, <1>3, <1>4, <1>5 DEF Gathered
<1>9. HandleOk'
  BY Zenon, <1>3, <1>4, <1>5, <1>7, <1>8, Distinct DEF HandleOk, Top, PanicOnlyAfterDrop
<1>10. RxType'
  BY Zenon, <1>3, <1>5, <1>6 DEF RxType, TypeOK
<1>11. History'
  <2>1. \A i \in Heard : seen[i].m \in 1..Top' /\ (Busy' => seen[i].m < Top')
    BY Zenon, <1>4, <1>7 DEF History, Bounded
  <2>2. \A m \in 1..Top' \ dropped' : (\E j \in Heard : seen[j].m = m) \/ (m = Top' /\ Busy')
    BY Zenon, <1>4, <1>7 DEF History, Covered
  <2>q. QED  BY Zenon, <2>1, <2>2, HistoryMoves
<1>q. QED  BY Zenon, <1>6, <1>9, <1>10, <1>11 DEF Receiver

\* The first packet of a message where a later one was due: the handle is of a
\* message whose packets went to a handle that was dropped.
LEMMA StepPanics ==
    ASSUME TypeOK, Sender, Channel, Receiver, History, read_packet_ok,
           msg.at \in {"bytes", "packets"}, ~msg.done, OpenedKind \in {Sole, First},
           msg' = [msg EXCEPT !.at = "panicked"],
           UNCHANGED <<frames, sent, dropped, rx_torn, seen>>
    PROVE  RxType' /\ Receiver' /\ History'
<1>1. /\ wire # <<>> /\ Decrypts(Head(wire)) /\ rx_nonce' = rx_nonce + 1
  BY Zenon DEF read_packet_ok
<1>2. ~Open(rx_nonce) /\ Opened.m = Top + (IF Open(rx_nonce) THEN 0 ELSE 1)
  BY Zenon, <1>1, NextFrame
<1>3. rx_nonce' \in Nat /\ Top' = Opened.m
  BY Zenon, <1>1, AfterFrame
<1>4. msg'.at = "panicked" /\ msg' \in Handle /\ ~msg'.done
  BY Zenon DEF TypeOK, Handle
<1>5. ~Live /\ ~Busy
  BY Zenon, <1>2 DEF Live, Busy
<1>6. dropped # {}
  BY Zenon, <1>5 DEF Receiver, HandleOk
<1>7. ~Live'
  BY Zenon, <1>4 DEF Live
<1>8. HandleOk'
  BY Zenon, <1>4, <1>6, <1>7 DEF HandleOk, PanicOnlyAfterDrop
<1>9. packet_reader' \in PacketReader /\ ReaderOk'
  BY Zenon, ReaderFollows
<1>10. RxType'
  BY Zenon, <1>3, <1>4, <1>9 DEF RxType, TypeOK
<1>11. History'
  <2>1. msg.at # "panicked"
    BY Zenon
  <2>2. Top \in Nat /\ \A i \in Heard : seen[i].m \in 1..Top /\ seen[i].m < Top + 1
    BY Zenon, <1>5, <2>1, NextMessage
  <2>3. \A n \in 1..Top : n \in 1..(Top + 1)
    BY <2>2
  <2>4. Top' = Top + 1
    BY Zenon, <1>2, <1>3, <2>2
  <2>5. \A i \in Heard : seen[i].m \in 1..Top' /\ (Busy' => seen[i].m < Top')
    BY Zenon, <2>2, <2>3, <2>4
  <2>q. QED  BY Zenon, <1>4, <2>5, HistoryMoves
<1>q. QED  BY Zenon, <1>8, <1>9, <1>10, <1>11 DEF Receiver

----------------------------------------------------------------------------
\* All steps.

\* The three outcomes of read_packet that read nothing for the application.
LEMMA StepNothing ==
    ASSUME TypeOK, Sender, Channel, Receiver, History,
           read_packet_noise \/ read_packet_rejected \/ read_packet_eof,
           msg.at \in {"none", "bytes", "packets"}, ~msg.done,
           msg' = NoMessage \/ UNCHANGED msg, UNCHANGED <<txVars, rx_torn, dropped>>
    PROVE  RxType' /\ Receiver' /\ History'
<1>1. UNCHANGED <<frames, sent, lost, call, rx_half>> /\ rx_torn' \in BOOLEAN
  BY Zenon DEF txVars, TypeOK
<1>2. CASE read_packet_rejected
  BY Zenon, <1>1, <1>2, StepRejected
<1>3. CASE read_packet_noise
  <2>1. wire # <<>> /\ ~Decrypts(Head(wire)) /\ UNCHANGED <<rx_nonce, packet_reader>>
    BY Zenon, <1>3 DEF read_packet_noise
  <2>2. Dead
    BY Zenon, <2>1, HeadIs
  <2>3. Stopped'
    BY Zenon, <1>1, <2>1, <2>2 DEF Stopped, Dead
  <2>4. \E e \in Event : e.ev \in {"noise", "eof"} /\ seen' = Append(seen, e)
    <3>1. [ev |-> "noise"] \in Event
      BY Zenon DEF Event
    <3>q. QED  BY Zenon, <1>3, <3>1 DEF read_packet_noise
  <2>q. QED  BY Zenon, <1>1, <2>1, <2>3, <2>4, ReadStops
<1>4. CASE read_packet_eof
  <2>1. wire = <<>> /\ StreamEnds /\ UNCHANGED <<wire, rx_nonce, packet_reader>>
    BY Zenon, <1>4 DEF read_packet_eof
  <2>2. Stopped'
    BY Zenon, <1>1, <2>1 DEF Stopped, StreamEnds
  <2>3. \E e \in Event : e.ev \in {"noise", "eof"} /\ seen' = Append(seen, e)
    <3>1. [ev |-> "eof"] \in Event
      BY Zenon DEF Event
    <3>q. QED  BY Zenon, <1>4, <3>1 DEF read_packet_eof
  <2>q. QED  BY Zenon, <1>1, <2>1, <2>2, <2>3, ReadStops
<1>q. QED  BY Zenon, <1>2, <1>3, <1>4

\* read_bytes and MessagePackets::next read another packet of the message in hand.
LEMMA StepContinue ==
    ASSUME TypeOK, Sender, Channel, Receiver, History, continue_message
    PROVE  RxType' /\ Receiver' /\ History'
<1>1. /\ msg.at \in {"bytes", "packets"} /\ ~msg.done
      /\ UNCHANGED <<txVars, rx_torn, dropped>> /\ UNCHANGED <<frames, sent>>
  BY Zenon DEF continue_message, txVars
<1>2. CASE /\ read_packet_noise \/ read_packet_rejected \/ read_packet_eof
           /\ msg' = NoMessage \/ (msg.at = "packets" /\ msg' = msg)
  BY Zenon, <1>1, <1>2, StepNothing
<1>3. CASE /\ read_packet_ok
           /\ \/ /\ OpenedKind = Abort
                 /\ \/ msg' = NoMessage
                    \/ msg' = [msg EXCEPT !.at = "aborted", !.done = TRUE]
                 /\ seen' = Append(seen, [ev |-> "aborted", m |-> msg.m])
              \/ /\ OpenedKind = Last /\ msg.at = "bytes" /\ msg' = NoMessage
                 /\ Deliver(msg.m, msg.msg_type, msg.data \o Opened.payload)
  BY Zenon, <1>1, <1>3, StepEnds, Distinct
<1>4. CASE /\ read_packet_ok /\ UNCHANGED seen
           /\ \/ /\ OpenedKind = Last /\ msg.at = "packets"
                 /\ msg' = [msg EXCEPT !.data = msg.data \o Opened.payload, !.done = TRUE]
              \/ /\ OpenedKind = Mid
                 /\ msg' = [msg EXCEPT !.data = msg.data \o Opened.payload]
  <2>1. /\ msg' \in [at : {msg.at}, kind : {msg.kind}, msg_type : {msg.msg_type},
                     data : {msg.data \o Opened.payload}, done : BOOLEAN, m : {msg.m}]
        /\ msg'.done <=> OpenedKind = Last
    BY ZenonT(60), <1>1, <1>4, Distinct DEF TypeOK, Handle
  <2>2. OpenedKind \in {Mid, Last} /\ (OpenedKind = Last => msg.at = "packets")
    BY Zenon, <1>4, Distinct
  <2>q. QED  BY Zenon, <1>1, <1>4, <2>1, <2>2, StepGathers
<1>5. CASE /\ read_packet_ok /\ UNCHANGED seen /\ OpenedKind \in {Sole, First}
           /\ msg' = [msg EXCEPT !.at = "panicked"]
  BY <1>1, <1>5, StepPanics
<1>q. QED  BY Zenon, <1>2, <1>3, <1>4, <1>5 DEF continue_message, message_aborted, OpenedKind

\* Every step keeps the receiver's part of the invariant and what the application has been told.
LEMMA StepReceiver ==
    ASSUME TypeOK, Sender, Channel, Receiver, History, [Next]_vars
    PROVE  RxType' /\ Receiver' /\ History'
<1>1. CASE TxStep \/ UNCHANGED vars
  BY <1>1, StepSender, TxKeeps, RxSame
<1>2. CASE read_message
  <2>1. /\ msg.at = "none" /\ UNCHANGED <<txVars, rx_torn, dropped>> /\ UNCHANGED <<frames, sent>>
    BY Zenon, <1>2 DEF read_message, txVars
  <2>2. ~msg.done
    BY Zenon, <2>1 DEF Receiver, HandleOk
  <2>3. CASE (read_packet_noise \/ read_packet_rejected \/ read_packet_eof) /\ UNCHANGED msg
    BY <2>1, <2>2, <2>3, StepNothing
  <2>4. CASE /\ read_packet_ok /\ UNCHANGED seen
             /\ msg' = [at |-> "message", kind |-> HeaderKind(Opened.header),
                        msg_type |-> HeaderType(Opened.header), data |-> Opened.payload,
                        done |-> FALSE, m |-> Opened.m]
    BY Zenon, <2>1, <2>4, StepRead
  <2>q. QED  BY Zenon, <1>2, <2>3, <2>4 DEF read_message
<1>3. CASE read_bytes \/ into_packets
  <2>1. /\ msg.at = "message"
        /\ UNCHANGED <<frames, sent, wire, lost, call, rx_nonce, packet_reader, rx_torn, dropped>>
    BY <1>3 DEF read_bytes, into_packets, txVars
  <2>2. CASE msg.kind = Sole /\ read_bytes
    <3>1. Deliver(msg.m, msg.msg_type, msg.data) /\ msg' = NoMessage
      BY <2>2 DEF read_bytes
    <3>2. Live /\ Kind(rx_nonce) \in {Sole, Last}
      BY Zenon, <2>1, <2>2 DEF Live, Receiver, HandleOk
    <3>3. msg.at # "panicked"
      BY <2>1
    <3>q. QED  BY <2>1, <3>1, <3>2, <3>3, HandedOver
  <2>3. CASE msg.kind # Sole /\ read_bytes
    <3>1. msg' = [msg EXCEPT !.at = "bytes"] /\ UNCHANGED seen
      BY <2>3 DEF read_bytes
    <3>2. ~msg.done
      BY Zenon, <2>1 DEF Receiver, HandleOk
    <3>3. /\ msg'.at \in {"bytes", "packets"} /\ msg' \in Handle
          /\ msg'.m = msg.m /\ msg'.msg_type = msg.msg_type /\ msg'.data = msg.data /\ ~msg'.done
      BY Zenon, <3>1, <3>2 DEF TypeOK, Handle
    <3>q. QED  BY <2>1, <2>3, <3>1, <3>3, Begins
  <2>4. CASE into_packets
    <3>1. msg' = [msg EXCEPT !.at = "packets", !.done = (msg.kind = Sole)] /\ UNCHANGED seen
      BY <2>4 DEF into_packets
    <3>2. /\ msg'.at = "packets" /\ msg' \in Handle
          /\ msg'.m = msg.m /\ msg'.msg_type = msg.msg_type /\ msg'.data = msg.data
          /\ msg'.done <=> msg.kind = Sole
      BY Zenon, <3>1 DEF TypeOK, Handle
    <3>q. QED  BY <2>1, <3>1, <3>2, Begins
  <2>q. QED  BY <1>3, <2>2, <2>3, <2>4
<1>4. CASE continue_message
  BY <1>4, StepContinue
<1>5. CASE packets_done
  <2>1. /\ msg.at \in {"packets", "aborted"} /\ msg.done /\ msg' = NoMessage
        /\ UNCHANGED <<frames, sent, wire, lost, call, rx_nonce, packet_reader, rx_torn, dropped>>
    BY Zenon, <1>5 DEF packets_done, txVars
  <2>2. CASE msg.at = "packets"
    <3>1. Deliver(msg.m, msg.msg_type, msg.data)
      BY Zenon, <1>5, <2>2 DEF packets_done
    <3>2. Live /\ Kind(rx_nonce) \in {Sole, Last} /\ msg.at # "panicked"
      BY Zenon, <2>1, <2>2 DEF Live, Receiver, HandleOk
    <3>q. QED  BY Zenon, <2>1, <3>1, <3>2, HandedOver
  <2>3. CASE msg.at = "aborted"
    <3>1. UNCHANGED seen
      BY Zenon, <1>5, <2>3 DEF packets_done
    <3>2. ~Open(rx_nonce) /\ rx_torn' \in BOOLEAN
      BY Zenon, <2>1, <2>3, Distinct DEF Receiver, HandleOk, Open, TypeOK
    <3>q. QED  BY Zenon, <2>1, <2>3, <3>1, <3>2, ReadStops
  <2>q. QED  BY Zenon, <2>1, <2>2, <2>3
<1>6. CASE message_dropped
  BY <1>6, StepDropped
<1>7. CASE read_cancelled
  <2>1. /\ msg.at \in {"none", "bytes", "packets"} /\ ~msg.done /\ msg' = NoMessage
        /\ UNCHANGED <<frames, sent, rx_nonce, packet_reader, dropped>> /\ UNCHANGED seen
        /\ rx_torn' = TRUE
    BY <1>7 DEF read_cancelled, txVars
  <2>2. Stopped' /\ rx_torn' \in BOOLEAN
    BY <2>1 DEF Stopped, Dead
  <2>q. QED  BY <2>1, <2>2, ReadStops
<1>q. QED  BY <1>1, <1>2, <1>3, <1>4, <1>5, <1>6, <1>7
           DEF Next, RecvStep, Fault, TxStep

\* The sending node's own MessageRx is there or gone.
LEMMA HalfTyped ==
    ASSUME TypeOK, [Next]_vars
    PROVE  rx_half' \in BOOLEAN
<1>1. rx_half \in BOOLEAN
  BY Zenon DEF TypeOK
<1>2. CASE UNCHANGED rx_half
  BY Zenon, <1>1, <1>2
<1>3. CASE drop_rx
  BY Zenon, <1>3 DEF drop_rx
<1>4. drop_rx \/ UNCHANGED rx_half
  BY Zenon DEF Next, SendCall, SendStep, RecvStep, Fault, send_message, send_slice_next, send_reader,
         send_reader_full, send_reader_read, send_reader_eof, send_reader_return, abort_message,
         abort_message_return, write_frame, source_fails, write_fails, drop_tx, read_message,
         read_bytes, into_packets, continue_message, packets_done, message_dropped, read_cancelled,
         txVars, vars
<1>q. QED  BY Zenon, <1>2, <1>3, <1>4

\* What holds at the start.
LEMMA InitInv == Init => IInv
<1> SUFFICES ASSUME Init
             PROVE  IInv
  OBVIOUS
<1>1. /\ frames = <<>> /\ wire = <<>> /\ sent = <<>> /\ result = <<>> /\ seen = <<>>
      /\ Len(<<>>) = 0 /\ \A S : <<>> \in Seq(S)
  BY EmptySeq DEF Init
<1>2. /\ Len(frames) = 0 /\ cur = 0 /\ Len(wire) = 0 /\ 1..0 = {}
      /\ rx_nonce = 0 /\ lost = {} /\ dropped = {} /\ msg = NoMessage /\ call = "idle"
      /\ packet_builder = NewBuilder /\ packet_reader = NewReader /\ ~writing /\ ~rx_torn
      /\ taken = 0 /\ filled = 0
  BY <1>1 DEF Init, cur
<1>3. TypeOK
  <2>1. NewBuilder \in PacketBuilder /\ NewReader \in PacketReader
    BY DEF NewBuilder, NewReader, PacketBuilder, PacketReader, TYPE_MASK
  <2>2. 0 \in 0..MAX_PACKET_SIZE
    BY TransportAssumption
  <2>3. writing \in BOOLEAN /\ rx_torn \in BOOLEAN /\ rx_half \in BOOLEAN
    BY Zenon DEF Init
  <2>q. QED  BY <1>1, <1>2, <2>1, <2>2, <2>3, NoHandle DEF TypeOK
<1>4. ~Open(0) /\ MsgOf(0) = 0 /\ Start(0) = 0
  BY DEF Open, MsgOf, Start
<1>5. Sender
  <2>1. FramesOk
    BY <1>2 DEF FramesOk
  <2>2. Builder
    BY <1>2, <1>4 DEF Builder, NewBuilder
  <2>3. Calls
    BY <1>1, <1>2 DEF Calls, NewBuilder
  <2>q. QED  BY <2>1, <2>2, <2>3 DEF Sender
<1>6. Channel
  BY <1>1, <1>2 DEF Channel, Put, LostFrameStops
<1>7. ~Live /\ ~Busy
  BY <1>2, <1>4, NoHandle DEF Live, Busy
<1>8. Receiver
  BY Zenon, <1>2, <1>4, <1>7, NoHandle DEF Receiver, ReaderOk, HandleOk, NewReader, PanicOnlyAfterDrop
<1>9. \A K : Events(K) = {}
  <2>1. DOMAIN seen = {}
    BY <1>1, <1>2
  <2>q. QED  BY <2>1 DEF Events
<1>10. History
  BY Zenon, <1>2, <1>4, <1>9 DEF History, OnlyBareAbortRejected, Bounded, Covered, MessageIntact,
         InOrder, Heard, Top
<1>q. QED  BY <1>3, <1>5, <1>6, <1>8, <1>10 DEF IInv

\* Every step keeps it.
LEMMA StepInv ==
    ASSUME IInv, [Next]_vars
    PROVE  IInv'
<1>1. TypeOK /\ Sender /\ Channel /\ Receiver /\ History
  BY DEF IInv
<1>2. TxType' /\ Sender'
  BY <1>1, StepSender
<1>3. ChannelTypes' /\ Channel'
  BY <1>1, StepChannel
<1>4. RxType' /\ Receiver' /\ History'
  BY <1>1, StepReceiver
<1>5. rx_half' \in BOOLEAN
  BY Zenon, <1>1, HalfTyped
<1>6. TypeOK'
  BY SMTT(30), <1>2, <1>3, <1>4, <1>5, TypeParts DEF ChannelTypes, TxType, RxType, TypeOK
<1>q. QED  BY <1>2, <1>3, <1>4, <1>6 DEF IInv

----------------------------------------------------------------------------
\* The size of frames.

\* The cast to u16 keeps a number that is small enough.
LEMMA SmallMod ==
    ASSUME NEW w \in Nat \ {0}, NEW n \in Nat, n < w
    PROVE  n % w = n
  OBVIOUS

\* The largest packet, encrypted with its header, is shorter than a u16 can say.
LEMMA PacketLimit ==
    /\ MAX_PACKET_SIZE \in Nat /\ U16 \in Nat \ {0}
    /\ MAX_PACKET_SIZE + 18 < U16
  BY TransportAssumption DEF U16, MAX_RAW_PACKET_SIZE, MAX_CIPHERTEXT_SIZE, CIPHER_OVERHEAD_SIZE

\* What fits in a packet has a length that send_packet can write before it.
LEMMA FitsPrefix ==
    ASSUME NEW f, Len(f.payload) \in Nat, Len(f.payload) <= MAX_PACKET_SIZE
    PROVE  length_prefix(f) = ciphertext_len(f)
<1> PICK n \in Nat : n = ciphertext_len(f) /\ n < U16
  BY PacketLimit DEF ciphertext_len, CIPHER_OVERHEAD_SIZE
<1>1. n % U16 = n
  BY PacketLimit, SmallMod
<1>q. QED  BY <1>1 DEF length_prefix

\* The indices of a sequence.
LEMMA SeqDomain ==
    ASSUME NEW S, NEW s \in Seq(S)
    PROVE  Len(s) \in Nat /\ DOMAIN s = 1..Len(s)
  OBVIOUS

\* A frame that holds at most MAX_PACKET_SIZE bytes of a message may be added.
LEMMA FrameFits ==
    ASSUME TypeOK, FramesFit, NEW m \in Nat, NEW h \in Nat, NEW from \in Nat, NEW to \in Nat,
           from <= to, to - from <= MAX_PACKET_SIZE, encrypt(m, h, from, to)
    PROVE  FramesFit'
<1>1. /\ frames' \in Seq(Packet) /\ Len(frames') = Len(frames) + 1
      /\ \A n \in 1..Len(frames) : frames'[n] = frames[n]
      /\ frames'[Len(frames) + 1].payload = Bytes(m, from, to)
  <2> DEFINE f == [header |-> h, payload |-> Bytes(m, from, to), m |-> m, to |-> to]
  <2>1. Bytes(m, from, to) \in Seq(Nat \X Nat)
    BY BytesIs
  <2>2. f \in Packet /\ frames \in Seq(Packet) /\ frames' = Append(frames, f)
    BY Zenon, <2>1 DEF Packet, encrypt, TypeOK
  <2>3. f.payload = Bytes(m, from, to)
    OBVIOUS
  <2> HIDE DEF f
  <2>q. QED  BY <2>2, <2>3, EncryptGrows, AppendProperties
<1>2. Len(frames) \in Nat /\ DOMAIN frames = 1..Len(frames) /\ DOMAIN frames' = 1..(Len(frames) + 1)
  <2>1. frames \in Seq(Packet)
    BY Zenon DEF TypeOK
  <2>q. QED  BY Zenon, <1>1, <2>1, SeqDomain
<1>3. /\ Len(Bytes(m, from, to)) \in Nat
      /\ Len(Bytes(m, from, to)) <= MAX_PACKET_SIZE
  <2>1. Len(Bytes(m, from, to)) = to - from
    BY BytesIs
  <2>2. to - from \in Nat
    OBVIOUS
  <2>q. QED  BY <2>1, <2>2
<1> PICK k \in Nat : k = Len(frames) + 1
  BY <1>2
<1>4. /\ Len(frames'[k].payload) <= MAX_PACKET_SIZE
      /\ length_prefix(frames'[k]) = ciphertext_len(frames'[k])
  BY <1>1, <1>3, FitsPrefix
<1>5. \A n \in DOMAIN frames' : n = k \/ n \in 1..Len(frames)
  BY <1>2
<1>6. \A n \in 1..Len(frames) :
         /\ Len(frames[n].payload) <= MAX_PACKET_SIZE
         /\ length_prefix(frames[n]) = ciphertext_len(frames[n])
  BY <1>2 DEF FramesFit
<1>7. \A n \in DOMAIN frames' :
         /\ Len(frames'[n].payload) <= MAX_PACKET_SIZE
         /\ length_prefix(frames'[n]) = ciphertext_len(frames'[n])
  BY Zenon, <1>1, <1>4, <1>5, <1>6
<1>q. QED  BY <1>7 DEF FramesFit, length_prefix, ciphertext_len

\* No step makes a frame that is too large.
LEMMA StepFits ==
    ASSUME TypeOK, Sender, FramesFit, [Next]_vars
    PROVE  FramesFit'
<1>1. ASSUME UNCHANGED frames
      PROVE  FramesFit'
  BY <1>1 DEF FramesFit, length_prefix, ciphertext_len
<1>2. /\ packet_builder \in PacketBuilder /\ cur \in Nat /\ taken \in Nat /\ filled \in 0..MAX_PACKET_SIZE
      /\ MAX_PACKET_SIZE \in Nat
  BY Zenon, EndTyped, TransportAssumption DEF TypeOK
<1>3. ASSUME NEW b \in PacketBuilder, NEW m \in Nat, NEW from \in Nat, NEW to \in Nat,
             NEW last \in BOOLEAN, from <= to, to - from <= MAX_PACKET_SIZE, pack(b, m, from, to, last)
      PROVE  FramesFit'
  BY <1>3, Stamped, FrameFits DEF pack
<1>4. ASSUME NEW t \in MsgTypes, NEW len \in Lengths, send_message(t, len)
      PROVE  FramesFit'
  <2> PICK to : to = ChunkEnd(0, len)
    OBVIOUS
  <2> PICK last \in BOOLEAN : last = (to = len)
    BY Zenon
  <2>1. to \in Nat /\ 0 <= to /\ to - 0 <= MAX_PACKET_SIZE /\ len \in Nat
    BY <1>2, TransportAssumption DEF ChunkEnd
  <2>2. pack(Prepared(packet_builder, t), cur + 1, 0, to, last) /\ PrepareOk(packet_builder, t)
    BY <1>4 DEF send_message, prepare_message
  <2>3. Prepared(packet_builder, t) \in PacketBuilder /\ cur + 1 \in Nat /\ 0 \in Nat
    BY <1>2, <2>2, TransportAssumption DEF Prepared, PrepareOk, PacketBuilder
  <2>q. QED  BY Zenon, <1>3, <2>1, <2>2, <2>3
<1>5. CASE send_slice_next
  <2>1. CASE taken < sent[cur].len
    <3> PICK to : to = ChunkEnd(taken, sent[cur].len)
      OBVIOUS
    <3> PICK last \in BOOLEAN : last = (to = sent[cur].len)
      BY Zenon
    <3>1. cur > 0 /\ sent[cur].len \in Nat
      BY Zenon, <1>5, EndTyped DEF send_slice_next, Sender, Calls
    <3>2. to \in Nat /\ taken <= to /\ to - taken <= MAX_PACKET_SIZE
      BY <1>2, <2>1, <3>1 DEF ChunkEnd
    <3>3. pack(packet_builder, cur, taken, to, last)
      BY Zenon, <1>5, <2>1 DEF send_slice_next
    <3>q. QED  BY Zenon, <1>2, <1>3, <3>2, <3>3
  <2>2. CASE ~(taken < sent[cur].len)
    BY Zenon, <1>1, <1>5, <2>2 DEF send_slice_next
  <2>q. QED  BY <2>1, <2>2
<1>6. CASE send_reader_full \/ send_reader_eof
  <2>1. filled <= taken
    BY Zenon, <1>6 DEF send_reader_full, send_reader_eof, Sender, Calls
  <2>2. taken - filled \in Nat /\ taken - filled <= taken /\ taken - (taken - filled) <= MAX_PACKET_SIZE
    BY <1>2, <2>1
  <2>3. \/ \E last \in BOOLEAN : pack(packet_builder, cur, taken - filled, taken, last)
        \/ UNCHANGED frames
    BY Zenon, <1>6 DEF send_reader_full, send_reader_eof
  <2>q. QED  BY <1>1, <1>2, <1>3, <2>2, <2>3
<1>7. CASE abort_message
  <2> PICK z \in Nat : z = 0
    OBVIOUS
  <2>1. encrypt(cur, AbortHeader(packet_builder), z, z) /\ z <= z /\ z - z <= MAX_PACKET_SIZE
    BY <1>2, <1>7 DEF abort_message
  <2>2. AbortHeader(packet_builder) \in Nat
    BY <1>2, StampedAbort
  <2>q. QED  BY <1>2, <2>1, <2>2, FrameFits
<1>8. \/ \E t \in MsgTypes, n \in Lengths : send_message(t, n)
      \/ send_slice_next \/ send_reader_full \/ send_reader_eof \/ abort_message
      \/ UNCHANGED frames
  BY Zenon DEF Next, SendCall, SendStep, RecvStep, Fault, send_reader, prepare_message, send_reader_read,
         send_reader_return, abort_message_return, write_frame, source_fails, write_fails, drop_tx,
         drop_rx, read_message, read_bytes, into_packets, continue_message, packets_done, message_dropped,
         read_cancelled, txVars, vars
<1>q. QED  BY <1>1, <1>4, <1>5, <1>6, <1>7, <1>8

----------------------------------------------------------------------------
\* The theorems.

\* The inductive invariant holds in every state of the connection.
THEOREM Invariant == Spec => []IInv
<1>1. Init => IInv
  BY InitInv
<1>2. IInv /\ [Next]_vars => IInv'
  BY StepInv
<1>q. QED  BY <1>1, <1>2, PTL DEF Spec

\* Every variable keeps its type.
THEOREM TypeCorrect == Spec => []TypeOK
<1>1. IInv => TypeOK
  BY DEF IInv
<1>q. QED  BY <1>1, Invariant, PTL

\* send_slice and send_reader never meet NoMessageInProgress, however calls fail
\* or are cancelled in between.
THEOREM NeverRefused == Spec => []PackNeverRefused
<1>1. IInv => PackNeverRefused
  <2>1. SUFFICES ASSUME IInv
                 PROVE  PackNeverRefused
    OBVIOUS
  <2>2. Calls
    BY <2>1 DEF IInv, Sender
  <2>q. QED  BY <2>2 DEF Calls, PackNeverRefused
<1>q. QED  BY <1>1, Invariant, PTL

\* What read_bytes returns, or next yields in all, is the payload of one message
\* that was sent, from its start unless the application dropped a handle on it.
THEOREM Intactness == Spec => []MessageIntact
<1>1. IInv => MessageIntact
  BY DEF IInv, History
<1>q. QED  BY <1>1, Invariant, PTL

\* next answers None only when the receiver is between two messages.
THEOREM NoneIsTheEnd == Spec => []NoneMeansOver
<1>1. IInv => NoneMeansOver
  <2>1. SUFFICES ASSUME IInv, msg.done
                 PROVE  ~packet_reader.in_progress
    BY Zenon DEF NoneMeansOver
  <2>2. ~Open(rx_nonce)
    BY Zenon, <2>1, Distinct DEF IInv, Receiver, HandleOk, Open
  <2>q. QED  BY Zenon, <2>1, <2>2 DEF IInv, Receiver, ReaderOk
<1>q. QED  BY <1>1, Invariant, PTL

\* The application hears of the messages in the order of sending, of each once,
\* and of all but those whose handles it dropped.
THEOREM Ordering == Spec => []InOrder
<1>1. IInv => InOrder
  BY DEF IInv, History
<1>q. QED  BY <1>1, Invariant, PTL

\* PacketReader::read refuses no packet of PacketBuilder but the Abort of a message
\* that has no packet.
THEOREM OnlyBareAbort == Spec => []OnlyBareAbortRejected
<1>1. IInv => OnlyBareAbortRejected
  BY DEF IInv, History
<1>q. QED  BY <1>1, Invariant, PTL

\* A frame that did not reach the stream whole stops the receiver for good.
THEOREM Stops == Spec => []LostFrameStops
<1>1. IInv => LostFrameStops
  BY DEF IInv, Channel
<1>q. QED  BY <1>1, Invariant, PTL

\* The unreachable!() arms are reached only by an application that has dropped a
\* message half read.
THEOREM Panics == Spec => []PanicOnlyAfterDrop
<1>1. IInv => PanicOnlyAfterDrop
  BY DEF IInv, Receiver, HandleOk
<1>q. QED  BY <1>1, Invariant, PTL

\* The length prefix of every frame is the length of its ciphertext, whatever the
\* payloads and however the source of a send_reader doles them out.
THEOREM PrefixesFit == Spec => []FramesFit
<1>1. Init => FramesFit
  BY DEF Init, FramesFit
<1>2. IInv /\ FramesFit /\ [Next]_vars => FramesFit'
  BY StepFits DEF IInv
<1>q. QED  BY <1>1, <1>2, Invariant, PTL DEF Spec
============================================================================
