------------------------ MODULE MessageChannelProofs ------------------------
(***************************************************************************)
(* Transport implements MessageChannel, for packets and messages of any    *)
(* size, any number of them, and all faults at once.                       *)
(*                                                                         *)
(* The invariant of TransportProofs says where the receiver is among the   *)
(* frames, and that what the application has been told is intact and in    *)
(* order.  What the refinement needs besides is that a packet that ends a  *)
(* message is the last one of that message (Ordered): then a delivered     *)
(* message has no Abort, before or after, and PacketBuilder is not at work *)
(* on it.                                                                  *)
(***************************************************************************)
EXTENDS TransportProofs, MessageRefinement

\* The frames go through the messages in order, and no frame of a message
\* follows the one that ends it.
Ordered ==
    \A n \in 1..Len(frames), k \in 1..Len(frames) :
        n < k => frames[n].m <= frames[k].m /\ (Open(n) \/ frames[n].m # frames[k].m)

\* One frame is added.
OneMore ==
    /\ frames' \in Seq(Packet) /\ Len(frames') = Len(frames) + 1
    /\ \A n \in 1..Len(frames) : frames'[n] = frames[n]

\* The steps of the sender, as MessageChannel sees them: nothing happens, a
\* message begins, a packet of one is added, or its Abort is.
NoSend == UNCHANGED <<sent, frames>> /\ UNCHANGED packet_builder
Starts ==
    /\ ~packet_builder.in_progress
    /\ \E x \in [msg_type : MsgTypes, len : Lengths, how : {"slice", "reader"}] :
          sent' = Append(sent, x)
    /\ aborted_messages' = aborted_messages
    /\ OneMore \/ UNCHANGED frames
Continues ==
    /\ packet_builder.in_progress /\ UNCHANGED sent
    /\ aborted_messages' = aborted_messages
    /\ OneMore
GivesUp ==
    /\ packet_builder.in_progress /\ ~packet_builder'.in_progress /\ UNCHANGED sent
    /\ aborted_messages' = aborted_messages \cup {cur}
    /\ OneMore

----------------------------------------------------------------------------
\* The sender.

\* encrypt adds one frame, with the header and of the message it is given.
LEMMA FrameAppended ==
    ASSUME TypeOK, NEW m \in Nat, NEW h \in Nat, NEW from \in Nat, NEW to \in Nat,
           from <= to, encrypt(m, h, from, to)
    PROVE  /\ OneMore
           /\ frames'[Len(frames) + 1].header = h /\ frames'[Len(frames) + 1].m = m
<1> DEFINE f == [header |-> h, payload |-> Bytes(m, from, to), m |-> m, to |-> to]
<1>1. Bytes(m, from, to) \in Seq(Nat \X Nat)
  BY Zenon, BytesIs
<1>2. f \in Packet /\ frames \in Seq(Packet) /\ frames' = Append(frames, f)
  BY Zenon, <1>1 DEF Packet, encrypt, TypeOK
<1>3. f.header = h /\ f.m = m
  BY Zenon
<1> HIDE DEF f
<1>4. frames'[Len(frames) + 1] = f
  BY <1>2, AppendProperties
<1>5. OneMore
  BY <1>2, AppendProperties DEF OneMore
<1>q. QED  BY Zenon, <1>3, <1>4, <1>5

\* The messages aborted are those of the Aborts among the frames.
LEMMA AbortedGrow ==
    ASSUME TypeOK, OneMore, NEW f, f = frames'[Len(frames) + 1]
    PROVE  /\ HeaderKind(f.header) # Abort => aborted_messages' = aborted_messages
           /\ HeaderKind(f.header) = Abort => aborted_messages' = aborted_messages \cup {f.m}
<1> PICK k \in Nat : k = Len(frames) + 1
  BY EndTyped
<1>1. Len(frames) \in Nat /\ DOMAIN frames = 1..Len(frames) /\ DOMAIN frames' = 1..k
  BY Zenon, SeqDomain DEF TypeOK, OneMore
<1>2. \A n : n \in DOMAIN frames' <=> n \in DOMAIN frames \/ n = k
  BY <1>1
<1>3. \A n \in DOMAIN frames : frames'[n] = frames[n]
  BY Zenon, <1>1 DEF OneMore
<1>4. \A x : x \in aborted_messages <=>
        \E n \in DOMAIN frames : HeaderKind(frames[n].header) = Abort /\ x = frames[n].m
  BY Zenon DEF aborted_messages
<1>5. \A x : x \in aborted_messages' <=>
        \E n \in DOMAIN frames' : HeaderKind(frames'[n].header) = Abort /\ x = frames'[n].m
  BY Zenon DEF aborted_messages
<1>6. \A x : x \in aborted_messages' <=>
        x \in aborted_messages \/ (HeaderKind(f.header) = Abort /\ x = f.m)
  <2>1. frames'[k] = f /\ k \in DOMAIN frames'
    BY Zenon, <1>2
  <2>2. ASSUME NEW x, x \in aborted_messages'
        PROVE  x \in aborted_messages \/ (HeaderKind(f.header) = Abort /\ x = f.m)
    <3> PICK n \in DOMAIN frames' : HeaderKind(frames'[n].header) = Abort /\ x = frames'[n].m
      BY Zenon, <1>5, <2>2
    <3>1. CASE n = k
      BY Zenon, <2>1, <3>1
    <3>2. CASE n \in DOMAIN frames
      BY Zenon, <1>3, <1>4, <3>2
    <3>q. QED  BY Zenon, <1>2, <3>1, <3>2
  <2>3. ASSUME NEW x, x \in aborted_messages
        PROVE  x \in aborted_messages'
    <3> PICK n \in DOMAIN frames : HeaderKind(frames[n].header) = Abort /\ x = frames[n].m
      BY Zenon, <1>4, <2>3
    <3>1. n \in DOMAIN frames' /\ frames'[n] = frames[n]
      BY Zenon, <1>2, <1>3
    <3>q. QED  BY Zenon, <1>5, <3>1
  <2>4. HeaderKind(f.header) = Abort => f.m \in aborted_messages'
    BY Zenon, <1>5, <2>1
  <2>q. QED  BY Zenon, <2>2, <2>3, <2>4
<1>q. QED  BY Zenon, <1>6

\* A packet of a message is no Abort.
LEMMA PackKeeps ==
    ASSUME TypeOK, NEW b \in PacketBuilder, NEW m \in Nat, NEW from \in Nat, NEW to \in Nat,
           NEW last \in BOOLEAN, from <= to, pack(b, m, from, to, last)
    PROVE  OneMore /\ aborted_messages' = aborted_messages /\ b.in_progress
<1>1. b.in_progress /\ encrypt(m, PackHeader(b, last), from, to)
  BY Zenon DEF pack
<1>2. PackHeader(b, last) \in Nat /\ HeaderKind(PackHeader(b, last)) = PackKind(b, last)
  BY Zenon, Stamped
<1>3. PackKind(b, last) # Abort
  BY Distinct DEF PackKind
<1>4. OneMore /\ frames'[Len(frames) + 1].header = PackHeader(b, last)
  BY Zenon, <1>1, <1>2, FrameAppended
<1>q. QED  BY Zenon, <1>1, <1>2, <1>3, <1>4, AbortedGrow

\* What a step of the sender comes to.
LEMMA SenderSteps ==
    ASSUME TypeOK, Sender, TxStep
    PROVE  NoSend \/ Starts \/ Continues \/ GivesUp
<1>1. /\ packet_builder \in PacketBuilder /\ cur \in Nat /\ taken \in Nat /\ filled \in 0..MAX_PACKET_SIZE
      /\ MAX_PACKET_SIZE \in Nat
  BY Zenon, EndTyped, TransportAssumption DEF TypeOK
<1>2. ASSUME NEW t \in MsgTypes, NEW len \in Lengths, NEW how \in {"slice", "reader"},
             prepare_message(how, t, len)
      PROVE  \E x \in [msg_type : MsgTypes, len : Lengths, how : {"slice", "reader"}] :
                sent' = Append(sent, x)
  <2> DEFINE x == [msg_type |-> t, len |-> len, how |-> how]
  <2>1. x \in [msg_type : MsgTypes, len : Lengths, how : {"slice", "reader"}]
    BY Zenon
  <2>2. sent' = Append(sent, x)
    BY Zenon, <1>2 DEF prepare_message
  <2>q. QED  BY Zenon, <2>1, <2>2
<1>3. ASSUME NEW t \in MsgTypes, NEW len \in Lengths, send_message(t, len)
      PROVE  Starts
  <2> PICK to : to = ChunkEnd(0, len)
    BY Zenon
  <2> PICK last \in BOOLEAN : last = (to = len)
    BY Zenon
  <2>1. to \in Nat /\ 0 <= to /\ len \in Nat /\ cur + 1 \in Nat /\ 0 \in Nat
    BY <1>1, TransportAssumption DEF ChunkEnd
  <2>2. /\ pack(Prepared(packet_builder, t), cur + 1, 0, to, last)
        /\ prepare_message("slice", t, len)
    BY Zenon, <1>3 DEF send_message
  <2>3. Prepared(packet_builder, t) \in PacketBuilder /\ ~packet_builder.in_progress
    BY Zenon, <2>2, PrepareGrows
  <2>4. OneMore /\ aborted_messages' = aborted_messages
    BY Zenon, <2>1, <2>2, <2>3, PackKeeps
  <2>q. QED  BY Zenon, <1>2, <2>2, <2>3, <2>4 DEF Starts
<1>4. ASSUME NEW t \in MsgTypes, NEW len \in Lengths, send_reader(t, len)
      PROVE  Starts
  <2>1. prepare_message("reader", t, len) /\ UNCHANGED frames
    BY Zenon, <1>4 DEF send_reader
  <2>2. ~packet_builder.in_progress
    BY Zenon, <2>1, PrepareGrows
  <2>3. aborted_messages' = aborted_messages
    BY Zenon, <2>1 DEF aborted_messages
  <2>q. QED  BY Zenon, <1>2, <2>1, <2>2, <2>3 DEF Starts
<1>5. CASE send_slice_next
  <2>1. CASE taken < sent[cur].len
    <3> PICK to : to = ChunkEnd(taken, sent[cur].len)
      BY Zenon
    <3> PICK last \in BOOLEAN : last = (to = sent[cur].len)
      BY Zenon
    <3>1. cur > 0 /\ sent[cur].len \in Nat
      BY Zenon, <1>5, EndTyped DEF send_slice_next, Sender, Calls
    <3>2. to \in Nat /\ taken <= to
      BY <1>1, <2>1, <3>1 DEF ChunkEnd
    <3>3. pack(packet_builder, cur, taken, to, last) /\ UNCHANGED sent
      BY Zenon, <1>5, <2>1 DEF send_slice_next
    <3>q. QED  BY Zenon, <1>1, <3>2, <3>3, PackKeeps DEF Continues
  <2>2. CASE ~(taken < sent[cur].len)
    BY Zenon, <1>5, <2>2 DEF send_slice_next, NoSend
  <2>q. QED  BY Zenon, <2>1, <2>2
<1>6. CASE send_reader_full \/ send_reader_eof
  <2>1. filled <= taken
    BY Zenon, <1>6 DEF send_reader_full, send_reader_eof, Sender, Calls
  <2>2. taken - filled \in Nat /\ taken - filled <= taken
    BY <1>1, <2>1
  <2>3. /\ UNCHANGED sent
        /\ \/ \E last \in BOOLEAN : pack(packet_builder, cur, taken - filled, taken, last)
           \/ UNCHANGED <<packet_builder, frames>>
    BY Zenon, <1>6 DEF send_reader_full, send_reader_eof
  <2>q. QED  BY Zenon, <1>1, <2>2, <2>3, PackKeeps DEF Continues, NoSend
<1>7. CASE abort_message
  <2> PICK z \in Nat : z = 0 /\ z <= z
    OBVIOUS
  <2>1. /\ encrypt(cur, AbortHeader(packet_builder), z, z) /\ packet_builder.in_progress
        /\ packet_builder' = Aborted(packet_builder) /\ UNCHANGED sent
    BY Zenon, <1>7 DEF abort_message
  <2>2. /\ AbortHeader(packet_builder) \in Nat /\ HeaderKind(AbortHeader(packet_builder)) = Abort
        /\ ~packet_builder'.in_progress
    BY Zenon, <1>1, <2>1, StampedAbort
  <2>3. /\ OneMore /\ frames'[Len(frames) + 1].header = AbortHeader(packet_builder)
        /\ frames'[Len(frames) + 1].m = cur
    BY Zenon, <1>1, <2>1, <2>2, FrameAppended
  <2>4. aborted_messages' = aborted_messages \cup {cur}
    BY Zenon, <2>2, <2>3, AbortedGrow
  <2>q. QED  BY Zenon, <2>1, <2>2, <2>3, <2>4 DEF GivesUp
<1>8. \/ \E t \in MsgTypes, n \in Lengths : send_message(t, n) \/ send_reader(t, n)
      \/ send_slice_next \/ send_reader_full \/ send_reader_eof \/ abort_message
      \/ NoSend
  BY Zenon DEF TxStep, SendCall, SendStep, send_reader_read, send_reader_return, NoSend,
         abort_message_return, write_frame, source_fails, write_fails, drop_tx, drop_rx
<1>q. QED  BY Zenon, <1>3, <1>4, <1>5, <1>6, <1>7, <1>8

----------------------------------------------------------------------------
\* The end of a message.

\* Frames are numbered messages.
LEMMA FrameMsg ==
    ASSUME TypeOK
    PROVE  Len(frames) \in Nat /\ \A n \in 1..Len(frames) : frames[n].m \in Nat /\ MsgOf(n) = frames[n].m
<1>1. Len(frames) \in Nat
  BY Zenon, EndTyped
<1>2. \A n \in 1..Len(frames) : frames[n] \in Packet
  BY Zenon, ElementOfSeq DEF TypeOK
<1>3. \A n \in 1..Len(frames) : n # 0
  BY <1>1
<1>q. QED  BY Zenon, <1>1, <1>2, <1>3 DEF MsgOf, Packet

\* A frame added after the others is of the message they end in, or of the next one.
LEMMA StepOrdered ==
    ASSUME IInv, IInv', Ordered, OneMore \/ UNCHANGED frames
    PROVE  Ordered'
<1>1. CASE UNCHANGED frames
  BY Zenon, <1>1 DEF Ordered, Open, Kind
<1>2. CASE OneMore
  <2> PICK N \in Nat : N = Len(frames)
    BY Zenon, FrameMsg DEF IInv
  <2>1. /\ Len(frames') = N + 1
        /\ \A n \in 1..N : /\ frames'[n] = frames[n] /\ frames[n].m \in Nat
                           /\ Open(n)' <=> Open(n)
    <3>1. Len(frames') = N + 1 /\ \A n \in 1..N : frames'[n] = frames[n]
      BY Zenon, <1>2 DEF OneMore
    <3>2. \A n \in 1..N : frames[n].m \in Nat
      BY Zenon, FrameMsg DEF IInv
    <3>q. QED  BY Zenon, <3>1, <3>2 DEF Open, Kind
  <2>2. N > 0 => frames'[N + 1].m = frames[N].m + (IF Open(N) THEN 0 ELSE 1)
    <3>1. SUFFICES ASSUME N > 0
                   PROVE  frames'[N + 1].m = frames[N].m + (IF Open(N) THEN 0 ELSE 1)
      BY Zenon
    <3>2. N \in 1..N /\ N # 0 /\ N + 1 \in 1..(N + 1) /\ N + 1 - 1 = N
      BY <3>1
    <3> PICK k \in Nat : k = N + 1 /\ k - 1 = N
      BY <3>2
    <3>3. FrameOk(k)'
      BY Zenon, <2>1, <3>2 DEF IInv, Sender, FramesOk
    <3>4. frames'[k].m = MsgOf(k - 1)' + (IF Open(k - 1)' THEN 0 ELSE 1)
      BY Zenon, <3>3 DEF FrameOk
    <3>5. MsgOf(N)' = frames[N].m
      BY Zenon, <2>1, <3>2 DEF MsgOf
    <3>6. (IF Open(N)' THEN 0 ELSE 1) = (IF Open(N) THEN 0 ELSE 1)
      BY Zenon, <2>1, <3>2
    <3>7. MsgOf(k - 1)' = MsgOf(N)' /\ (Open(k - 1)' <=> Open(N)')
      BY Zenon
    <3>q. QED  BY Zenon, <3>4, <3>5, <3>6, <3>7
  <2>3. ASSUME NEW n \in 1..(N + 1), NEW k \in 1..(N + 1), n < k
        PROVE  frames'[n].m <= frames'[k].m /\ (Open(n)' \/ frames'[n].m # frames'[k].m)
    <3>1. n \in 1..N
      BY <2>3
    <3>2. CASE k \in 1..N
      BY Zenon, <2>1, <2>3, <3>1, <3>2 DEF Ordered
    <3>3. CASE k = N + 1
      <4>1. N > 0 /\ N \in 1..N /\ frames[N].m \in Nat /\ frames[n].m \in Nat
        BY <2>1, <3>1
      <4>2. n = N \/ (frames[n].m <= frames[N].m /\ (Open(n) \/ frames[n].m # frames[N].m))
        <5>1. n = N \/ n < N
          BY <3>1
        <5>q. QED  BY Zenon, <3>1, <4>1, <5>1 DEF Ordered
      <4>3. frames'[n].m = frames[n].m /\ (Open(n)' <=> Open(n))
        BY Zenon, <2>1, <3>1
      <4>4. frames'[k].m = frames[N].m + (IF Open(N) THEN 0 ELSE 1)
        BY Zenon, <2>2, <3>3, <4>1
      <4>5. frames[n].m <= frames'[k].m /\ (Open(n) \/ frames[n].m # frames'[k].m)
        BY <4>1, <4>2, <4>4
      <4>q. QED  BY Zenon, <4>3, <4>5
    <3>q. QED  BY <3>2, <3>3
  <2>q. QED  BY Zenon, <2>1, <2>3 DEF Ordered
<1>q. QED  BY Zenon, <1>1, <1>2

\* A frame that ends its message is the only one to do so, and the sender is done
\* with the message.
LEMMA EndsOnce ==
    ASSUME IInv, Ordered, NEW n \in 1..Len(frames), ~Open(n)
    PROVE  /\ frames[n].m \in 1..cur
           /\ frames[n].m = cur => ~packet_builder.in_progress
           /\ Kind(n) = Abort => frames[n].m \in aborted_messages
           /\ Kind(n) # Abort => frames[n].m \notin aborted_messages
<1> PICK N \in Nat : N = Len(frames)
  BY Zenon, FrameMsg DEF IInv
<1>1. \A k \in 1..N : frames[k].m \in Nat /\ MsgOf(k) = frames[k].m
  BY Zenon, FrameMsg DEF IInv
<1>2. frames[n].m \in 1..cur
  BY Zenon DEF IInv, Sender, FramesOk, FrameOk
<1>3. N \in 1..N /\ n \in 1..N /\ (n = N \/ n < N)
  OBVIOUS
<1>4. frames[n].m = cur => ~packet_builder.in_progress
  <2>1. SUFFICES ASSUME packet_builder.in_progress
                 PROVE  frames[n].m # cur
    BY Zenon
  <2>2. n = N \/ (frames[n].m <= frames[N].m /\ frames[n].m # frames[N].m)
    BY Zenon, <1>3 DEF Ordered
  <2>3. /\ cur = MsgOf(N) + (IF packet_builder.in_progress /\ packet_builder.is_first THEN 1 ELSE 0)
        /\ Open(N) <=> packet_builder.in_progress /\ ~packet_builder.is_first
    BY Zenon DEF IInv, Sender, Builder
  <2>4. frames[N].m \in Nat /\ frames[n].m \in Nat /\ MsgOf(N) = frames[N].m
    BY Zenon, <1>1, <1>3
  <2>5. CASE packet_builder.is_first
    <3>1. cur = frames[N].m + 1
      BY Zenon, <2>1, <2>3, <2>4, <2>5
    <3>q. QED  BY <2>2, <2>4, <3>1
  <2>6. CASE ~packet_builder.is_first
    <3>1. cur = frames[N].m + 0 /\ Open(N)
      BY Zenon, <2>1, <2>3, <2>4, <2>6
    <3>2. n # N
      BY Zenon, <3>1
    <3>q. QED  BY <2>2, <2>4, <3>1, <3>2
  <2>q. QED  BY Zenon, <2>5, <2>6
<1>5. \A x : x \in aborted_messages <=> \E k \in 1..N : Kind(k) = Abort /\ x = frames[k].m
  <2>1. DOMAIN frames = 1..N
    BY Zenon, SeqDomain DEF IInv, TypeOK
  <2>q. QED  BY Zenon, <2>1 DEF aborted_messages, Kind
<1>6. Kind(n) # Abort => frames[n].m \notin aborted_messages
  <2>1. SUFFICES ASSUME NEW k \in 1..N, Kind(k) = Abort, Kind(n) # Abort, frames[n].m = frames[k].m
                 PROVE  FALSE
    BY Zenon, <1>5
  <2>2. ~Open(k) /\ n # k
    BY Zenon, <2>1, Distinct DEF Open
  <2>3. n < k \/ k < n
    BY <2>2
  <2>q. QED  BY Zenon, <1>3, <2>1, <2>2, <2>3 DEF Ordered
<1>q. QED  BY Zenon, <1>2, <1>3, <1>4, <1>5, <1>6

----------------------------------------------------------------------------
\* The receiver.

\* What the application has been told, event by event.
LEMMA ToldAre ==
    /\ \A x : x \in told_messages <=> \E i \in Heard : x = report(i, seen[i])
    /\ \A i, e : report(i, e).at = i /\ report(i, e).of = told_of(e) /\ report(i, e).of.m = e.m
<1>1. \A x : x \in told_messages <=> \E i \in Heard : x = report(i, seen[i])
  BY Zenon DEF told_messages, Heard
<1>2. ASSUME NEW e
      PROVE  told_of(e).m = e.m
  <2>1. [ev |-> "aborted", m |-> e.m].m = e.m
    BY Zenon
  <2>q. QED  BY Zenon, <2>1 DEF told_of
<1>3. ASSUME NEW i, NEW e
      PROVE  report(i, e).at = i /\ report(i, e).of = told_of(e) /\ report(i, e).of.m = e.m
  <2>1. report(i, e).at = i /\ report(i, e).of = told_of(e)
    BY Zenon DEF report
  <2>2. told_of(e).m = e.m
    BY Zenon, <1>2
  <2>q. QED  BY Zenon, <2>1, <2>2
<1>q. QED  BY Zenon, <1>1, <1>3

\* The application is told of message m, which is settled, next.
IsDue(m) ==
    /\ m = cur => ~packet_builder.in_progress
    /\ \A x \in told_messages : x.of.m < m
    /\ \A k \in 1..(m - 1) \ dropped : \E x \in told_messages : x.of.m = k

\* The application is told e, after all it has been told before.
NowTold(e) ==
    \E t : /\ told_messages' = told_messages \cup {[at |-> t, of |-> e]}
          /\ \A x \in told_messages : x.at < t

\* Being told e, when the sender does nothing, is telling it in the channel.
LEMMA TellsIt ==
    ASSUME NEW e, NowTold(e), UNCHANGED <<sent, frames, dropped>>, UNCHANGED packet_builder
    PROVE  Messages!Tell(e)
<1>1. PICK t : /\ told_messages' = told_messages \cup {[at |-> t, of |-> e]}
               /\ \A x \in told_messages : x.at < t
  BY Zenon DEF NowTold
<1>2. [at |-> t, of |-> e] \in told_messages' /\ [at |-> t, of |-> e].at = t
  BY Zenon, <1>1
<1>3. t \in {x.at : x \in told_messages'}
  BY Zenon, <1>2
<1>4. aborted_messages' = aborted_messages /\ packet_builder'.in_progress = packet_builder.in_progress
  BY Zenon DEF aborted_messages
<1>q. QED  BY Zenon, <1>1, <1>3, <1>4 DEF Messages!Tell

\* An event adds to what the application has been told, of the message whose last
\* frame the receiver has come to.
LEMMA NowDue ==
    ASSUME IInv, IInv', Ordered, UNCHANGED <<sent, frames, dropped>>,
           NEW e, e \in Event, seen' = Append(seen, e), e.ev \in HeardKinds,
           NEW n \in 1..Len(frames), ~Open(n), e.m = frames[n].m
    PROVE  IsDue(e.m) /\ NowTold(told_of(e)) /\ told_messages' # told_messages
<1> PICK N : N = Len(seen) + 1
  BY Zenon
<1>1. /\ Len(seen) \in Nat /\ seen'[N] = e
      /\ \A i \in Heard : i \in 1..Len(seen) /\ seen'[i] = seen[i]
      /\ \A i : i \in Heard' <=> i \in Heard \/ i = N
  <2> DEFINE K == {"message", "aborted", "rejected"}
  <2>1. e.ev \in K
    BY Zenon DEF HeardKinds
  <2> HIDE DEF K
  <2>2. /\ Len(seen) \in Nat /\ seen'[N] = e
        /\ \A i \in Events(K) : i \in 1..Len(seen) /\ seen'[i] = seen[i]
        /\ \A i : i \in Events(K)' <=> i \in Events(K) \/ i = N
    BY Zenon, <2>1, EventsAre DEF IInv
  <2>3. Heard = Events(K) /\ Heard' = Events(K)'
    BY Zenon DEF Heard, K
  <2>q. QED  BY Zenon, <2>2, <2>3
<1>2. \A i \in Heard : i < N
  BY <1>1
<1>3. \A i \in Heard' :
        /\ \A j \in Heard' : i < j => seen'[i].m < seen'[j].m
        /\ \A m \in 1..(seen'[i].m - 1) \ dropped' : \E j \in Heard' : j < i /\ seen'[j].m = m
  BY Zenon DEF IInv, History, InOrder, Heard
<1>4. \A x \in told_messages : x.of.m < e.m
  <2>1. SUFFICES ASSUME NEW i \in Heard
                 PROVE  report(i, seen[i]).of.m < e.m
    BY Zenon, ToldAre
  <2>2. seen'[i].m < seen'[N].m
    BY Zenon, <1>1, <1>2, <1>3
  <2>3. seen[i].m < e.m
    BY Zenon, <1>1, <2>2
  <2>q. QED  BY Zenon, <2>3, ToldAre
<1>5. \A k \in 1..(e.m - 1) \ dropped : \E x \in told_messages : x.of.m = k
  <2>1. SUFFICES ASSUME NEW k \in 1..(e.m - 1) \ dropped
                 PROVE  \E x \in told_messages : x.of.m = k
    BY Zenon
  <2>2. N \in Heard' /\ dropped' = dropped
    BY Zenon, <1>1
  <2>3. \A m \in 1..(seen'[N].m - 1) \ dropped' : \E j \in Heard' : j < N /\ seen'[j].m = m
    BY Zenon, <1>3, <2>2
  <2>4. PICK j \in Heard' : j < N /\ seen'[j].m = k
    BY Zenon, <1>1, <2>2, <2>3
  <2>5. ~(N < N)
    BY <1>1
  <2>6. j \in Heard /\ seen[j].m = k
    BY Zenon, <1>1, <2>4, <2>5
  <2>7. report(j, seen[j]) \in told_messages /\ report(j, seen[j]).of.m = k
    BY Zenon, <2>6, ToldAre
  <2>q. QED  BY Zenon, <2>7
<1>6. told_messages' = told_messages \cup {report(N, e)}
  <2>1. \A x : x \in told_messages' <=> \E i \in Heard' : x = report(i, seen'[i])
    BY Zenon DEF told_messages, Heard, report, told_of
  <2>2. ASSUME NEW x
        PROVE  x \in told_messages' <=> x \in told_messages \/ x = report(N, e)
    <3>1. ASSUME x \in told_messages'
          PROVE  x \in told_messages \/ x = report(N, e)
      <4> PICK i \in Heard' : x = report(i, seen'[i])
        BY Zenon, <2>1, <3>1
      <4>q. QED  BY Zenon, <1>1, ToldAre
    <3>2. ASSUME x \in told_messages
          PROVE  x \in told_messages'
      <4> PICK i \in Heard : x = report(i, seen[i])
        BY Zenon, <3>2, ToldAre
      <4>1. i \in Heard' /\ seen'[i] = seen[i]
        BY Zenon, <1>1
      <4>q. QED  BY Zenon, <2>1, <4>1
    <3>3. report(N, e) \in told_messages'
      BY Zenon, <1>1, <2>1
    <3>q. QED  BY Zenon, <3>1, <3>2, <3>3
  <2>q. QED  BY Zenon, <2>2
<1>7. told_messages' # told_messages
  <2>1. e.m \in Nat
    BY Zenon, FrameMsg DEF IInv
  <2>2. ~(e.m < e.m)
    BY <2>1
  <2>3. report(N, e) \notin told_messages
    BY Zenon, <1>4, <2>2, ToldAre
  <2>q. QED  BY Zenon, <1>6, <2>3
<1>8. ASSUME NEW x \in told_messages
      PROVE  x.at < N
  <2>1. PICK i \in Heard : x = report(i, seen[i])
    BY Zenon, ToldAre
  <2>2. x.at = i
    BY Zenon, <2>1, ToldAre
  <2>q. QED  BY Zenon, <1>2, <2>2
<1>9. NowTold(told_of(e))
  BY Zenon, <1>6, <1>8 DEF NowTold, report
<1>q. QED  BY Zenon, <1>4, <1>5, <1>7, <1>9, EndsOnce DEF IsDue

\* The application hears of an aborted message: a step of the channel.
LEMMA ReportsAbort ==
    ASSUME IInv, IInv', Ordered, UNCHANGED <<sent, frames, dropped>>, UNCHANGED packet_builder,
           NEW e, e \in Event, seen' = Append(seen, e), e.ev \in {"aborted", "rejected"},
           NEW n \in 1..Len(frames), Kind(n) = Abort, e.m = frames[n].m
    PROVE  Messages!Next
<1>1. ~Open(n)
  BY Zenon, Distinct DEF Open
<1>2. IsDue(e.m) /\ NowTold(told_of(e)) /\ told_messages' # told_messages
  BY Zenon, <1>1, NowDue DEF HeardKinds
<1>3. e.m \in aborted_messages
  BY Zenon, <1>1, EndsOnce
<1>4. told_of(e) = [ev |-> "aborted", m |-> e.m]
  <2>1. e.ev # "message"
    OBVIOUS
  <2>q. QED  BY Zenon, <2>1 DEF told_of
<1>5. Messages!Due(e.m)
  BY Zenon, <1>2 DEF IsDue, Messages!Due, cur
<1>6. Messages!Tell([ev |-> "aborted", m |-> e.m])
  BY Zenon, <1>2, <1>4, TellsIt
<1>7. Messages!ReportAbort
  BY Zenon, <1>3, <1>5, <1>6 DEF Messages!ReportAbort
<1>q. QED  BY Zenon, <1>2, <1>7 DEF Messages!Next, Messages!TellNext

\* How much of a message is missing at its start.
LEMMA Remainder ==
    \A len \in Nat : \A k \in Nat : k <= len => len - k \in 0..len /\ (k = len => len - k = 0)
  OBVIOUS

\* The application is handed a message: a step of the channel.
LEMMA Delivers ==
    ASSUME IInv, IInv', Ordered, UNCHANGED <<sent, frames, dropped>>, UNCHANGED packet_builder,
           NEW t \in 0..TYPE_MASK, NEW data \in Seq(Nat \X Nat),
           NEW n \in 1..Len(frames), Kind(n) \in {Sole, Last},
           Deliver(frames[n].m, t, data), Len(data) <= sent[frames[n].m].len
    PROVE  Messages!Next
<1> PICK m \in Nat : m = frames[n].m
  BY Zenon, FrameMsg DEF IInv
<1> DEFINE e == [ev |-> "message", m |-> m, msg_type |-> t, data |-> data]
<1>1. /\ e \in Event /\ e.ev = "message" /\ e.m = m /\ e.msg_type = t /\ e.data = data
      /\ seen' = Append(seen, e)
  BY Zenon DEF Event, Deliver
<1>2. told_of(e) = e
  BY Zenon, <1>1 DEF told_of
<1> HIDE DEF e
<1>3. ~Open(n) /\ Kind(n) # Abort
  BY Zenon, Distinct DEF Open
<1>4. IsDue(m) /\ NowTold(e) /\ told_messages' # told_messages
  BY Zenon, <1>1, <1>2, <1>3, NowDue DEF HeardKinds
<1>5. m \in 1..cur /\ m \notin aborted_messages
  BY Zenon, <1>3, EndsOnce
<1>6. DOMAIN sent = 1..cur /\ sent[m].len \in Nat
  <2>1. sent \in Seq([msg_type : 0..TYPE_MASK, len : Nat, how : {"slice", "reader"}])
    BY Zenon DEF IInv, TypeOK
  <2>2. DOMAIN sent = 1..Len(sent)
    BY Zenon, <2>1, SeqDomain
  <2>3. sent[m] \in [msg_type : 0..TYPE_MASK, len : Nat, how : {"slice", "reader"}]
    BY Zenon, <1>5, <2>1, ElementOfSeq DEF cur
  <2>q. QED  BY Zenon, <2>2, <2>3 DEF cur
<1> PICK len \in Nat : len = sent[m].len
  BY Zenon, <1>6
<1> PICK k \in Nat : k = Len(data) /\ k <= len
  OBVIOUS
<1>7. /\ t = sent[m].msg_type /\ data = Bytes(m, len - k, len)
      /\ m \notin dropped => k = len
  <2>1. seen'[Len(seen) + 1] = e /\ Len(seen) + 1 \in Events({"message"})'
    BY Zenon, <1>1, EventsAre DEF IInv
  <2>2. MessageIntact'
    BY Zenon DEF IInv, History
  <2>3. LET l == sent'[e.m].len IN
        /\ e.msg_type = sent'[e.m].msg_type
        /\ e.data = Bytes(e.m, l - Len(e.data), l)
        /\ e.m \notin dropped' => Len(e.data) = l
    BY Zenon, <2>1, <2>2 DEF MessageIntact, Bytes
  <2>q. QED  BY Zenon, <1>1, <2>3
<1> PICK from : from = len - k
  BY Zenon
<1>8. from \in 0..len /\ (k = len => from = 0)
  BY Zenon, Remainder
<1>9. from \in (IF m \in dropped THEN 0..sent[m].len ELSE {0})
  BY Zenon, <1>7, <1>8
<1>10. Messages!Tell([ev |-> "message", m |-> m, msg_type |-> sent[m].msg_type,
                      data |-> Messages!Bytes(m, from, sent[m].len)])
  <2>1. e = [ev |-> "message", m |-> m, msg_type |-> sent[m].msg_type,
             data |-> Messages!Bytes(m, from, sent[m].len)]
    BY Zenon, <1>7 DEF e, Bytes, Messages!Bytes
  <2>q. QED  BY Zenon, <1>4, <2>1, TellsIt
<1>11. Messages!Due(m)
  BY Zenon, <1>4 DEF IsDue, Messages!Due, cur
<1>12. Messages!Deliver
  BY Zenon, <1>5, <1>6, <1>9, <1>10, <1>11 DEF Messages!Deliver
<1>q. QED  BY Zenon, <1>4, <1>12 DEF Messages!Next, Messages!TellNext

\* A step that tells the application nothing of a message changes nothing.
LEMMA TellsNothing ==
    ASSUME IInv, UNCHANGED <<sent, frames, dropped>>, UNCHANGED packet_builder,
           UNCHANGED seen \/ \E e \in Event : e.ev \in {"noise", "eof"} /\ seen' = Append(seen, e)
    PROVE  UNCHANGED Messages!vars
<1>1. aborted_messages' = aborted_messages
  BY Zenon DEF aborted_messages
<1>2. Heard' = Heard /\ \A i \in Heard : seen'[i] = seen[i]
  <2>1. CASE UNCHANGED seen
    BY Zenon, <2>1 DEF Heard, Events
  <2>2. ASSUME NEW e \in Event, e.ev \in {"noise", "eof"}, seen' = Append(seen, e)
        PROVE  Heard' = Heard /\ \A i \in Heard : seen'[i] = seen[i]
    <3> DEFINE K == {"message", "aborted", "rejected"}
    <3>1. e.ev \notin K
      BY <2>2
    <3> HIDE DEF K
    <3>2. /\ \A i \in Events(K) : i \in 1..Len(seen) /\ seen'[i] = seen[i]
          /\ \A i : i \in Events(K)' <=> i \in Events(K)
      BY Zenon, <2>2, <3>1, EventsAre DEF IInv
    <3>3. Heard = Events(K) /\ Heard' = Events(K)'
      BY Zenon DEF Heard, K
    <3>q. QED  BY Zenon, <3>2, <3>3
  <2>q. QED  BY Zenon, <2>1, <2>2
<1>3. told_messages' = told_messages
  <2>1. \A x : x \in told_messages' <=> \E i \in Heard' : x = report(i, seen'[i])
    BY Zenon DEF told_messages, Heard, report, told_of
  <2>2. \A x : x \in told_messages' <=> x \in told_messages
    BY Zenon, <1>2, <2>1, ToldAre
  <2>q. QED  BY Zenon, <2>2
<1>q. QED  BY Zenon, <1>1, <1>3 DEF Messages!vars

\* A packet that is decrypted is one of the frames.
LEMMA OpenedFrame ==
    ASSUME IInv, IInv', UNCHANGED txVars, wire # <<>>, Decrypts(Head(wire)), rx_nonce' = rx_nonce + 1
    PROVE  /\ rx_nonce + 1 \in 1..Len(frames) /\ Opened = frames[rx_nonce + 1]
           /\ Kind(rx_nonce + 1) = OpenedKind
<1>1. rx_nonce \in Nat /\ Opened = frames[rx_nonce + 1]
  BY Zenon, NextFrame DEF IInv
<1>2. rx_nonce' <= Put /\ Put \in Nat /\ Put <= Len(frames) /\ Len(frames) \in Nat
  <2>1. Put' = Put
    BY Zenon DEF Put, txVars
  <2>2. rx_nonce' <= Put'
    BY Zenon DEF IInv, Channel
  <2>q. QED  BY Zenon, <2>1, <2>2, PutTyped DEF IInv
<1>3. rx_nonce + 1 \in 1..Len(frames)
  BY <1>1, <1>2
<1>q. QED  BY Zenon, <1>1, <1>3 DEF Kind, OpenedKind

\* A packet that is refused is the Abort of a message without packets.
LEMMA RejectReports ==
    ASSUME IInv, IInv', Ordered, UNCHANGED txVars, UNCHANGED dropped, read_packet_rejected
    PROVE  Messages!Next
<1> DEFINE e == [ev |-> "rejected", m |-> Opened.m, kind |-> HeaderKind(Opened.header),
                 err |-> FrameError]
<1>1. /\ wire # <<>> /\ Decrypts(Head(wire)) /\ FrameError # "none"
      /\ rx_nonce' = rx_nonce + 1 /\ seen' = Append(seen, e)
  BY Zenon DEF read_packet_rejected
<1>2. Opened \in Packet /\ OpenedKind = Abort /\ FrameError = "MissingMessageStart"
  BY Zenon, <1>1, NextFrame DEF IInv
<1>3. e \in Event /\ e.ev = "rejected" /\ e.m = Opened.m
  BY Zenon, <1>2, Distinct DEF Event, OpenedKind, Packet, PacketReadError
<1> HIDE DEF e
<1>4. PICK n \in 1..Len(frames) : Kind(n) = Abort /\ e.m = frames[n].m
  BY Zenon, <1>1, <1>2, <1>3, OpenedFrame
<1>5. UNCHANGED <<sent, frames, dropped>> /\ UNCHANGED packet_builder
  BY Zenon DEF txVars
<1>q. QED  BY Zenon, <1>1, <1>3, <1>4, <1>5, ReportsAbort

\* The last packet of the message in hand, or its Abort.
LEMMA EndReports ==
    ASSUME IInv, IInv', Ordered, UNCHANGED txVars, UNCHANGED dropped, read_packet_ok,
           msg.at \in {"bytes", "packets"}, ~msg.done, OpenedKind \in {Last, Abort},
           IF OpenedKind = Abort THEN seen' = Append(seen, [ev |-> "aborted", m |-> msg.m])
           ELSE Deliver(msg.m, msg.msg_type, msg.data \o Opened.payload)
    PROVE  Messages!Next
<1> DEFINE data == msg.data \o Opened.payload
<1>1. UNCHANGED <<sent, frames, dropped>> /\ UNCHANGED packet_builder
  BY Zenon DEF txVars
<1>2. /\ wire # <<>> /\ Decrypts(Head(wire)) /\ FrameError = "none" /\ rx_nonce' = rx_nonce + 1
  BY Zenon DEF read_packet_ok
<1>3. /\ Open(rx_nonce)
      /\ OpenedKind \in {Sole, Last} => Opened.to = sent[Opened.m].len
  BY Zenon, <1>2, NextFrame DEF IInv
<1>4. /\ msg.m = Top /\ Opened.m = Top /\ Top \in Nat
      /\ OpenedKind # Abort => data \in Seq(Nat \X Nat) /\ Len(data) <= Opened.to
  BY Zenon, <1>1, <1>3, InMessage DEF IInv
<1> HIDE DEF data
<1>5. PICK n \in 1..Len(frames) : Kind(n) = OpenedKind /\ Opened.m = frames[n].m
  BY Zenon, <1>2, OpenedFrame
<1>6. CASE OpenedKind = Abort
  <2> DEFINE e == [ev |-> "aborted", m |-> msg.m]
  <2>1. e \in Event /\ e.ev = "aborted" /\ e.m = msg.m /\ seen' = Append(seen, e)
    BY Zenon, <1>4, <1>6 DEF Event
  <2> HIDE DEF e
  <2>q. QED  BY Zenon, <1>1, <1>4, <1>5, <1>6, <2>1, ReportsAbort
<1>7. CASE OpenedKind # Abort
  <2>1. Deliver(frames[n].m, msg.msg_type, data)
    BY Zenon, <1>4, <1>5, <1>7 DEF data
  <2>2. OpenedKind = Last /\ msg.msg_type \in 0..TYPE_MASK
    BY Zenon, <1>7 DEF IInv, TypeOK, Handle
  <2>3. data \in Seq(Nat \X Nat) /\ Len(data) <= sent[frames[n].m].len
    BY Zenon, <1>3, <1>4, <1>5, <1>7, <2>2
  <2>4. Kind(n) \in {Sole, Last}
    BY Zenon, <1>5, <2>2
  <2>q. QED  BY Zenon, <1>1, <2>1, <2>2, <2>3, <2>4, Delivers
<1>q. QED  BY Zenon, <1>6, <1>7

\* A message that was read to its end is handed over.
LEMMA HandReports ==
    ASSUME IInv, IInv', Ordered, UNCHANGED txVars, UNCHANGED dropped,
           Live, Kind(rx_nonce) \in {Sole, Last}, Deliver(msg.m, msg.msg_type, msg.data)
    PROVE  Messages!Next
<1>1. UNCHANGED <<sent, frames, dropped>> /\ UNCHANGED packet_builder
  BY Zenon DEF txVars
<1>2. /\ rx_nonce > 0 /\ msg.m = Top /\ Gathered
  BY Zenon, Distinct DEF IInv, Receiver, HandleOk, Top
<1>3. /\ FrameOk(rx_nonce) /\ Top = frames[rx_nonce].m /\ Top \in 1..cur
      /\ rx_nonce \in 0..Len(frames) /\ Len(frames) \in Nat
  BY Zenon, <1>2, PrefixIs DEF IInv
<1>4. PICK n \in 1..Len(frames) : n = rx_nonce
  BY <1>2, <1>3
<1>5. frames[n].to = sent[frames[n].m].len /\ Kind(n) \in {Sole, Last}
  BY Zenon, <1>3, <1>4, Distinct DEF FrameOk
<1>6. msg.data \in Seq(Nat \X Nat) /\ Len(msg.data) <= sent[frames[n].m].len
  BY Zenon, <1>2, <1>4, <1>5 DEF Gathered, IInv, TypeOK, Handle
<1>7. Deliver(frames[n].m, msg.msg_type, msg.data) /\ msg.msg_type \in 0..TYPE_MASK
  BY Zenon, <1>2, <1>3, <1>4 DEF IInv, TypeOK, Handle
<1>q. QED  BY Zenon, <1>1, <1>5, <1>6, <1>7, Delivers

\* A read that yields no packet.
LEMMA NoPacket ==
    ASSUME IInv, IInv', Ordered, UNCHANGED txVars, UNCHANGED dropped,
           read_packet_noise \/ read_packet_rejected \/ read_packet_eof
    PROVE  Messages!Next \/ UNCHANGED Messages!vars
<1>1. UNCHANGED <<sent, frames, dropped>> /\ UNCHANGED packet_builder
  BY Zenon DEF txVars
<1>2. CASE read_packet_rejected
  BY Zenon, <1>2, RejectReports
<1>3. CASE read_packet_noise \/ read_packet_eof
  <2>1. [ev |-> "noise"] \in Event /\ [ev |-> "noise"].ev = "noise"
    BY Zenon DEF Event
  <2>2. [ev |-> "eof"] \in Event /\ [ev |-> "eof"].ev = "eof"
    BY Zenon DEF Event
  <2>3. \E e \in Event : e.ev \in {"noise", "eof"} /\ seen' = Append(seen, e)
    BY Zenon, <1>3, <2>1, <2>2 DEF read_packet_noise, read_packet_eof
  <2>q. QED  BY Zenon, <1>1, <2>3, TellsNothing
<1>q. QED  BY Zenon, <1>2, <1>3

\* The application drops a handle: it skips the message.
LEMMA DropSkips ==
    ASSUME IInv, message_dropped
    PROVE  Messages!Next \/ UNCHANGED Messages!vars
<1>1. /\ msg.at \in {"message", "bytes", "packets"} /\ dropped' = dropped \cup {msg.m}
      /\ UNCHANGED <<sent, frames, seen>> /\ UNCHANGED packet_builder
  BY Zenon DEF message_dropped, txVars
<1>2. CASE Live
  <2>1. msg.m = Top /\ rx_nonce > 0
    BY Zenon, <1>2 DEF IInv, Receiver, HandleOk, Top
  <2>2. msg.m \in 1..cur
    BY Zenon, <2>1, PrefixIs DEF IInv
  <2>3. msg.m \in DOMAIN sent
    BY Zenon, <2>2, SeqDomain DEF cur, IInv, TypeOK
  <2>4. aborted_messages' = aborted_messages /\ told_messages' = told_messages
    BY Zenon, <1>1 DEF aborted_messages, told_messages, Events, report, told_of
  <2>5. Messages!Skip
    BY Zenon, <1>1, <2>3, <2>4 DEF Messages!Skip
  <2>q. QED  BY Zenon, <2>5 DEF Messages!Next
<1>3. CASE ~Live
  <2>1. msg.m \in dropped
    BY Zenon, <1>1, <1>3 DEF IInv, Receiver, HandleOk, Live
  <2>2. UNCHANGED <<sent, frames, dropped>>
    BY Zenon, <1>1, <2>1
  <2>q. QED  BY Zenon, <1>1, <2>2, TellsNothing
<1>q. QED  BY Zenon, <1>2, <1>3

\* Every step of the receiver is a step of the channel, or none.
LEMMA ReceiverRefines ==
    ASSUME IInv, IInv', Ordered, RecvStep \/ message_dropped \/ read_cancelled
    PROVE  Messages!Next \/ UNCHANGED Messages!vars
<1>1. ASSUME UNCHANGED txVars, UNCHANGED dropped, UNCHANGED seen
      PROVE  UNCHANGED Messages!vars
  <2>1. UNCHANGED <<sent, frames, dropped>> /\ UNCHANGED packet_builder
    BY Zenon, <1>1 DEF txVars
  <2>q. QED  BY Zenon, <1>1, <2>1, TellsNothing
<1>2. CASE read_message
  <2>1. UNCHANGED txVars /\ UNCHANGED dropped
    BY Zenon, <1>2 DEF read_message
  <2>2. (read_packet_noise \/ read_packet_rejected \/ read_packet_eof) \/ UNCHANGED seen
    BY Zenon, <1>2 DEF read_message
  <2>q. QED  BY Zenon, <1>1, <2>1, <2>2, NoPacket
<1>3. CASE read_bytes
  <2>1. UNCHANGED txVars /\ UNCHANGED dropped /\ msg.at = "message"
    BY Zenon, <1>3 DEF read_bytes
  <2>2. CASE msg.kind = Sole
    <3>1. Deliver(msg.m, msg.msg_type, msg.data)
      BY Zenon, <1>3, <2>2 DEF read_bytes
    <3>2. Live /\ Kind(rx_nonce) \in {Sole, Last}
      BY Zenon, <2>1, <2>2 DEF Live, IInv, Receiver, HandleOk
    <3>q. QED  BY Zenon, <2>1, <3>1, <3>2, HandReports
  <2>3. CASE msg.kind # Sole
    <3>1. UNCHANGED seen
      BY Zenon, <1>3, <2>3 DEF read_bytes
    <3>q. QED  BY Zenon, <1>1, <2>1, <3>1
  <2>q. QED  BY Zenon, <2>2, <2>3
<1>4. CASE into_packets \/ read_cancelled
  BY Zenon, <1>1, <1>4 DEF into_packets, read_cancelled
<1>5. CASE continue_message
  <2>1. /\ UNCHANGED txVars /\ UNCHANGED dropped
        /\ msg.at \in {"bytes", "packets"} /\ ~msg.done
    BY Zenon, <1>5 DEF continue_message
  <2>2. \/ read_packet_noise \/ read_packet_rejected \/ read_packet_eof
        \/ /\ read_packet_ok
           /\ \/ /\ OpenedKind = Abort
                 /\ seen' = Append(seen, [ev |-> "aborted", m |-> msg.m])
              \/ /\ OpenedKind = Last
                 /\ Deliver(msg.m, msg.msg_type, msg.data \o Opened.payload)
        \/ UNCHANGED seen
    BY Zenon, <1>5 DEF continue_message, message_aborted, OpenedKind
  <2>3. CASE read_packet_ok /\ OpenedKind = Abort
             /\ seen' = Append(seen, [ev |-> "aborted", m |-> msg.m])
    BY Zenon, <2>1, <2>3, EndReports
  <2>4. CASE read_packet_ok /\ OpenedKind = Last
             /\ Deliver(msg.m, msg.msg_type, msg.data \o Opened.payload)
    BY Zenon, <2>1, <2>4, EndReports, Distinct
  <2>q. QED  BY Zenon, <1>1, <2>1, <2>2, <2>3, <2>4, NoPacket
<1>6. CASE packets_done
  <2>1. UNCHANGED txVars /\ UNCHANGED dropped /\ msg.at \in {"packets", "aborted"} /\ msg.done
    BY Zenon, <1>6 DEF packets_done
  <2>2. CASE msg.at = "packets"
    <3>1. Deliver(msg.m, msg.msg_type, msg.data)
      BY Zenon, <1>6, <2>2 DEF packets_done
    <3>2. Live /\ Kind(rx_nonce) \in {Sole, Last}
      BY Zenon, <2>1, <2>2 DEF Live, IInv, Receiver, HandleOk
    <3>q. QED  BY Zenon, <2>1, <3>1, <3>2, HandReports
  <2>3. CASE msg.at = "aborted"
    <3>1. UNCHANGED seen
      BY Zenon, <1>6, <2>3 DEF packets_done
    <3>q. QED  BY Zenon, <1>1, <2>1, <3>1
  <2>q. QED  BY Zenon, <2>1, <2>2, <2>3
<1>q. QED  BY Zenon, <1>2, <1>3, <1>4, <1>5, <1>6, DropSkips DEF RecvStep

----------------------------------------------------------------------------
\* The refinement.

\* Every step of the sender is a step of the channel, or none.
LEMMA SenderRefines ==
    ASSUME IInv, IInv', TxStep
    PROVE  Messages!Next \/ UNCHANGED Messages!vars
<1>1. UNCHANGED <<dropped, seen>>
  BY Zenon, TxKeeps DEF IInv, rxVars
<1>2. told_messages' = told_messages
  BY Zenon, <1>1 DEF told_messages, Events, report, told_of
<1>3. packet_builder.in_progress \in BOOLEAN /\ packet_builder'.in_progress \in BOOLEAN
  BY Zenon DEF IInv, TypeOK, PacketBuilder
<1>4. CASE NoSend
  <2>1. UNCHANGED <<sent, frames, dropped>> /\ UNCHANGED packet_builder /\ UNCHANGED seen
    BY Zenon, <1>1, <1>4 DEF NoSend
  <2>q. QED  BY Zenon, <2>1, TellsNothing
<1>5. CASE Starts
  <2>1. Messages!Begin
    BY Zenon, <1>1, <1>2, <1>3, <1>5 DEF Starts, Messages!Begin
  <2>q. QED  BY Zenon, <2>1 DEF Messages!Next
<1>6. CASE Continues
  <2>1. CASE packet_builder'.in_progress
    <3>1. packet_builder'.in_progress = packet_builder.in_progress
      BY Zenon, <1>3, <1>6, <2>1 DEF Continues
    <3>q. QED  BY Zenon, <1>1, <1>2, <1>6, <3>1 DEF Continues, Messages!vars
  <2>2. CASE ~packet_builder'.in_progress
    <3>1. packet_builder'.in_progress = FALSE
      BY Zenon, <1>3, <2>2
    <3>2. Messages!Complete
      BY Zenon, <1>1, <1>2, <1>6, <3>1 DEF Continues, Messages!Complete
    <3>q. QED  BY Zenon, <3>2 DEF Messages!Next
  <2>q. QED  BY Zenon, <2>1, <2>2
<1>7. CASE GivesUp
  <2>1. packet_builder'.in_progress = FALSE
    BY Zenon, <1>3, <1>7 DEF GivesUp
  <2>2. Messages!GiveUp
    BY Zenon, <1>1, <1>2, <1>7, <2>1 DEF GivesUp, Messages!GiveUp, cur
  <2>q. QED  BY Zenon, <2>2 DEF Messages!Next
<1>q. QED  BY Zenon, <1>4, <1>5, <1>6, <1>7, SenderSteps DEF IInv

\* Frames are added one at a time, so that Ordered is kept.
LEMMA NextOrdered ==
    ASSUME IInv, IInv', Ordered, [Next]_vars
    PROVE  Ordered'
<1>1. CASE TxStep
  <2>1. OneMore \/ UNCHANGED frames
    BY Zenon, <1>1, SenderSteps DEF IInv, NoSend, Starts, Continues, GivesUp
  <2>q. QED  BY Zenon, <2>1, StepOrdered
<1>2. CASE ~TxStep
  <2>1. UNCHANGED frames
    BY Zenon, <1>2 DEF Next, RecvStep, Fault, TxStep, read_message, read_bytes, into_packets,
           continue_message, packets_done, message_dropped, read_cancelled, txVars, vars
  <2>q. QED  BY Zenon, <2>1, StepOrdered
<1>q. QED  BY Zenon, <1>1, <1>2

\* Every step is a step of the channel, or none.
LEMMA StepRefines ==
    ASSUME IInv, IInv', Ordered, [Next]_vars
    PROVE  [Messages!Next]_Messages!vars
<1>1. CASE UNCHANGED vars
  <2>1. UNCHANGED <<sent, frames, dropped>> /\ UNCHANGED packet_builder /\ UNCHANGED seen
    BY Zenon, <1>1 DEF vars, txVars, rxVars
  <2>q. QED  BY Zenon, <2>1, TellsNothing
<1>2. CASE TxStep
  BY Zenon, <1>2, SenderRefines
<1>3. CASE RecvStep \/ message_dropped \/ read_cancelled
  BY Zenon, <1>3, ReceiverRefines
<1>q. QED  BY Zenon, <1>1, <1>2, <1>3 DEF Next, Fault, TxStep

\* Nothing has been sent or told at the start.
LEMMA InitRefines == Init => Messages!Init /\ Ordered
<1> SUFFICES ASSUME Init
             PROVE  Messages!Init /\ Ordered
  BY Zenon
<1>1. frames = <<>> /\ seen = <<>> /\ sent = <<>> /\ dropped = {} /\ packet_builder = NewBuilder
  BY Zenon DEF Init
<1>2. aborted_messages = {}
  BY <1>1 DEF aborted_messages
<1>3. told_messages = {}
  <2>1. Events({"message", "aborted", "rejected"}) = {}
    BY <1>1 DEF Events
  <2>q. QED  BY Zenon, <2>1 DEF told_messages
<1>4. packet_builder.in_progress = FALSE
  BY <1>1 DEF NewBuilder
<1>5. Ordered
  <2>1. 1..Len(frames) = {}
    BY <1>1
  <2>q. QED  BY Zenon, <2>1 DEF Ordered
<1>q. QED  BY Zenon, <1>1, <1>2, <1>3, <1>4, <1>5 DEF Messages!Init

\* Packets, nonces, frames and handles implement the channel of MessageChannel:
\* in every behaviour of the connection a message is delivered only when the
\* sender has completed it, reported aborted only when the sender has aborted it,
\* each once and in order, whole unless its handle was dropped half read, and
\* nothing told is taken back.
THEOREM Refinement == Spec => ImplementsMessages
<1>1. Init => Messages!Init /\ Ordered
  BY InitRefines
<1>2. IInv /\ IInv' /\ Ordered /\ [Next]_vars => Ordered'
  BY NextOrdered
<1>3. IInv /\ IInv' /\ Ordered /\ [Next]_vars => [Messages!Next]_Messages!vars
  BY StepRefines
<1>q. QED  BY <1>1, <1>2, <1>3, Invariant, PTL DEF Spec, ImplementsMessages, Messages!Spec
=============================================================================
