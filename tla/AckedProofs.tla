----------------------------- MODULE AckedProofs -----------------------------
(***************************************************************************)
(* What Ok means: a message whose send_message or send_reader returned Ok  *)
(* is never reported aborted, and has been delivered once all frames are   *)
(* read.                                                                   *)
(*                                                                         *)
(* The sender's half of the argument is an invariant of its own (Acked):   *)
(* a call that returns Ok has packed a Sole or a Last, or its source held  *)
(* a positive multiple of MAX_PACKET_SIZE bytes.  The receiver's half is   *)
(* the refinement: the application is told of an abort only if there is    *)
(* one, which a message that ended otherwise cannot have.                  *)
(***************************************************************************)
EXTENDS MessageChannelProofs

\* The sender has packed the end of message m.
Ended(m) == \E n \in 1..Len(frames) : frames[n].m = m /\ Kind(n) \in {Sole, Last}

AckedEnded == \A m \in 1..cur : result[m] = "ok" /\ ~Unterminated(m) => Ended(m)

\* A call that is about to return Ok has, too; send_reader takes from its source
\* whole packets and what is in its buffer.
AboutToReturn ==
    /\ call = "send_message" /\ ~packet_builder.in_progress => Ended(cur)
    /\ call = "closing" => Ended(cur)
    /\ call = "send_reader" => \E k \in Nat : taken - filled = k * MAX_PACKET_SIZE

Acked == AckedEnded /\ AboutToReturn

\* What the application has been told of a message is so: it was begun, is over,
\* and was aborted if and only if it is said to be.
Settled ==
    \A x \in told_messages :
        /\ x.of.m \in 1..cur
        /\ x.of.m = cur => ~packet_builder.in_progress
        /\ x.of.ev = "aborted" <=> x.of.m \in aborted_messages

----------------------------------------------------------------------------
\* The sender.

\* Whole packets, one more of them, and none left over.
LEMMA WholePackets ==
    ASSUME NEW k \in Nat, NEW w \in Nat \ {0}
    PROVE  /\ k + 1 \in Nat /\ k * w + w = (k + 1) * w
           /\ (k * w) % w = 0 /\ 0 * w = 0
  OBVIOUS

\* A message that has ended stays so.
LEMMA EndedStays ==
    ASSUME TypeOK, OneMore \/ UNCHANGED frames, NEW m, Ended(m)
    PROVE  Ended(m)'
<1> PICK n \in 1..Len(frames) : frames[n].m = m /\ Kind(n) \in {Sole, Last}
  BY Zenon DEF Ended
<1>1. n \in 1..Len(frames') /\ frames'[n] = frames[n]
  <2>1. CASE UNCHANGED frames
    BY Zenon, <2>1
  <2>2. CASE OneMore
    <3>1. Len(frames') = Len(frames) + 1 /\ frames'[n] = frames[n] /\ Len(frames) \in Nat
      BY Zenon, <2>2, EndTyped DEF OneMore
    <3>q. QED  BY <3>1
  <2>q. QED  BY Zenon, <2>1, <2>2
<1>q. QED  BY Zenon, <1>1 DEF Ended, Kind

\* The packet that PacketBuilder::pack is told is the last ends its message.
LEMMA LastEnds ==
    ASSUME TypeOK, NEW b \in PacketBuilder, NEW m \in Nat, NEW from \in Nat, NEW to \in Nat,
           NEW last \in BOOLEAN, from <= to, pack(b, m, from, to, last)
    PROVE  /\ OneMore
           /\ packet_builder'.in_progress <=> ~last
           /\ last => Ended(m)'
<1>1. encrypt(m, PackHeader(b, last), from, to) /\ packet_builder' = Packed(b, last)
  BY Zenon DEF pack
<1>2. /\ PackHeader(b, last) \in Nat /\ HeaderKind(PackHeader(b, last)) = PackKind(b, last)
      /\ Packed(b, last).in_progress <=> ~last
  BY Zenon, Stamped
<1>3. /\ OneMore /\ frames'[Len(frames) + 1].header = PackHeader(b, last)
      /\ frames'[Len(frames) + 1].m = m
  BY Zenon, <1>1, <1>2, FrameAppended
<1>4. last => PackKind(b, last) \in {Sole, Last}
  BY Zenon DEF PackKind
<1> PICK k \in Nat : k = Len(frames) + 1 /\ k \in 1..Len(frames')
  <2>1. Len(frames') = Len(frames) + 1 /\ Len(frames) \in Nat
    BY Zenon, <1>3, EndTyped DEF OneMore
  <2>q. QED  BY <2>1
<1>5. last => frames'[k].m = m /\ Kind(k)' \in {Sole, Last}
  BY Zenon, <1>2, <1>3, <1>4 DEF Kind
<1>q. QED  BY Zenon, <1>1, <1>2, <1>3, <1>5 DEF Ended

\* What was acknowledged before, and what is acknowledged now.
LEMMA StillAcked ==
    ASSUME TypeOK, Acked, Grows, OneMore \/ UNCHANGED frames,
           \A m \in 1..cur' : result'[m] = "ok" =>
              Ended(m)' \/ Unterminated(m)' \/ (m \in 1..cur /\ result[m] = "ok")
    PROVE  AckedEnded'
<1> SUFFICES ASSUME NEW m \in 1..cur', result'[m] = "ok", ~Unterminated(m)', ~Ended(m)'
             PROVE  FALSE
  BY Zenon DEF AckedEnded
<1>1. m \in 1..cur /\ result[m] = "ok"
  BY Zenon
<1>2. sent'[m] = sent[m]
  BY Zenon, <1>1 DEF Grows
<1>3. ~Unterminated(m)
  BY Zenon, <1>2 DEF Unterminated
<1>q. QED  BY Zenon, <1>1, <1>3, EndedStays DEF Acked, AckedEnded

\* A call returns r for the current message, or nothing of it changes.
LEMMA ResultOf ==
    ASSUME TypeOK, NEW r \in {"open", "ok", "failed"}, UNCHANGED sent,
           result' = result \/ (cur > 0 /\ result' = [result EXCEPT ![cur] = r]),
           r = "ok" => Ended(cur)' \/ Unterminated(cur)'
    PROVE  \A m \in 1..cur' : result'[m] = "ok" =>
              Ended(m)' \/ Unterminated(m)' \/ (m \in 1..cur /\ result[m] = "ok")
<1>1. cur' = cur /\ cur \in Nat /\ Len(result) = cur /\ result \in Seq({"open", "ok", "failed"})
  BY Zenon, EndTyped DEF cur, TypeOK
<1> SUFFICES ASSUME NEW m \in 1..cur, result'[m] = "ok"
             PROVE  Ended(m)' \/ Unterminated(m)' \/ result[m] = "ok"
  BY Zenon, <1>1
<1>2. CASE result' = result
  BY Zenon, <1>2
<1>3. CASE cur > 0 /\ result' = [result EXCEPT ![cur] = r]
  <2>1. cur \in 1..Len(result) /\ m \in 1..Len(result)
    BY <1>1, <1>3
  <2>2. m # cur => result'[m] = result[m]
    BY <1>1, <1>3, <2>1
  <2>3. CASE m = cur
    <3>1. r = "ok"
      BY Zenon, <1>3, <2>3, Returned
    <3>2. m = cur'
      BY Zenon, <1>1, <2>3
    <3>q. QED  BY Zenon, <3>1, <3>2
  <2>q. QED  BY Zenon, <2>2, <2>3
<1>q. QED  BY Zenon, <1>2, <1>3

\* send_message and send_reader start a message that is not acknowledged yet.
LEMMA CallStarts ==
    ASSUME TypeOK, Acked, Grows, NEW t \in MsgTypes, NEW len \in Lengths,
           send_message(t, len) \/ send_reader(t, len)
    PROVE  Acked'
<1>1. \E how \in {"slice", "reader"} : prepare_message(how, t, len)
  BY Zenon DEF send_message, send_reader
<1>2. /\ Prepared(packet_builder, t) \in PacketBuilder /\ len \in Nat
      /\ cur \in Nat /\ cur' = cur + 1 /\ result' = Append(result, "open")
      /\ result \in Seq({"open", "ok", "failed"}) /\ Len(result) = cur
  BY Zenon, <1>1, PrepareGrows DEF prepare_message, TypeOK, cur
<1>3. ASSUME NEW m \in 1..cur', result'[m] = "ok"
      PROVE  m \in 1..cur /\ result[m] = "ok"
  BY <1>2, <1>3
<1>4. CASE send_message(t, len)
  <2> PICK to : to = ChunkEnd(0, len)
    BY Zenon
  <2> PICK last \in BOOLEAN : last = (to = len)
    BY Zenon
  <2> PICK m : m = cur + 1
    BY Zenon
  <2>1. to \in Nat /\ 0 <= to /\ m \in Nat /\ 0 \in Nat
    BY <1>2, TransportAssumption DEF ChunkEnd
  <2>2. pack(Prepared(packet_builder, t), m, 0, to, last) /\ call' = "send_message"
    BY Zenon, <1>4 DEF send_message
  <2>3. OneMore /\ (packet_builder'.in_progress <=> ~last) /\ (last => Ended(m)')
    BY Zenon, <1>2, <2>1, <2>2, LastEnds
  <2>4. m = cur'
    BY Zenon, <1>2
  <2>5. AckedEnded'
    BY Zenon, <1>3, <2>3, StillAcked
  <2>q. QED  BY Zenon, <2>2, <2>3, <2>4, <2>5 DEF Acked, AboutToReturn
<1>5. CASE send_reader(t, len)
  <2>1. call' = "send_reader" /\ taken' = 0 /\ filled' = 0 /\ UNCHANGED frames
    BY Zenon, <1>5 DEF send_reader
  <2>2. 0 \in Nat /\ taken' - filled' = 0 * MAX_PACKET_SIZE
    BY <2>1, TransportAssumption
  <2>q. QED  BY Zenon, <1>3, <2>1, <2>2, StillAcked DEF Acked, AboutToReturn
<1>q. QED  BY Zenon, <1>4, <1>5

\* send_slice packs the next chunk, or returns after one that was the last.
LEMMA SliceAcked ==
    ASSUME TypeOK, Sender, Acked, Grows, send_slice_next
    PROVE  Acked'
<1>1. /\ call = "send_message" /\ cur > 0 /\ sent[cur].len \in Nat /\ UNCHANGED sent
      /\ packet_builder \in PacketBuilder /\ cur \in Nat /\ taken \in Nat
      /\ taken < sent[cur].len <=> packet_builder.in_progress
  BY Zenon, EndTyped DEF send_slice_next, Sender, Calls, TypeOK
<1>2. cur' = cur
  BY Zenon, <1>1 DEF cur
<1>3. CASE taken < sent[cur].len
  <2> PICK to : to = ChunkEnd(taken, sent[cur].len)
    BY Zenon
  <2> PICK last \in BOOLEAN : last = (to = sent[cur].len)
    BY Zenon
  <2>1. to \in Nat /\ taken <= to
    BY <1>1, <1>3, TransportAssumption DEF ChunkEnd
  <2>2. pack(packet_builder, cur, taken, to, last) /\ UNCHANGED <<call, result>>
    BY Zenon, <1>3 DEF send_slice_next
  <2>3. OneMore /\ (packet_builder'.in_progress <=> ~last) /\ (last => Ended(cur)')
    BY Zenon, <1>1, <1>2, <2>1, <2>2, LastEnds
  <2>4. AckedEnded'
    BY Zenon, <1>1, <2>2, <2>3, ResultOf, StillAcked
  <2>q. QED  BY Zenon, <1>1, <2>2, <2>3, <2>4 DEF Acked, AboutToReturn
<1>4. CASE ~(taken < sent[cur].len)
  <2>1. /\ call' = "idle" /\ result' = [result EXCEPT ![cur] = "ok"]
        /\ UNCHANGED frames
    BY Zenon, <1>4 DEF send_slice_next, Return
  <2>2. Ended(cur)
    BY Zenon, <1>1, <1>4 DEF Acked, AboutToReturn
  <2>3. Ended(cur)'
    BY Zenon, <1>2, <2>1, <2>2, EndedStays
  <2>4. AckedEnded'
    BY Zenon, <1>1, <2>1, <2>3, ResultOf, StillAcked
  <2>q. QED  BY Zenon, <2>1, <2>4 DEF Acked, AboutToReturn
<1>q. QED  BY Zenon, <1>3, <1>4

\* send_reader packs a full buffer, or what is in it at the end of the source, and
\* returns at once if that is nothing.
LEMMA ReaderAcked ==
    ASSUME TypeOK, Sender, Acked, Grows, send_reader_full \/ send_reader_eof
    PROVE  Acked'
<1>1. /\ call = "send_reader" /\ cur > 0 /\ UNCHANGED <<taken, sent>> /\ filled' = 0
      /\ packet_builder \in PacketBuilder /\ cur \in Nat /\ taken \in Nat
      /\ filled \in 0..MAX_PACKET_SIZE /\ filled <= taken /\ sent[cur].how = "reader"
  BY Zenon, EndTyped DEF send_reader_full, send_reader_eof, Sender, Calls, TypeOK
<1>2. cur' = cur /\ MAX_PACKET_SIZE \in Nat \ {0}
  BY Zenon, <1>1, TransportAssumption DEF cur
<1>3. taken - filled \in Nat /\ taken - filled <= taken
  BY <1>1, <1>2
<1> PICK k \in Nat : taken - filled = k * MAX_PACKET_SIZE
  BY Zenon, <1>1 DEF Acked, AboutToReturn
<1>4. CASE send_reader_full
  <2>1. /\ pack(packet_builder, cur, taken - filled, taken, FALSE)
        /\ filled = MAX_PACKET_SIZE /\ UNCHANGED <<call, result>>
    BY Zenon, <1>4 DEF send_reader_full
  <2>2. OneMore
    BY Zenon, <1>1, <1>3, <2>1, LastEnds
  <2>3. AckedEnded'
    BY Zenon, <1>1, <2>1, <2>2, ResultOf, StillAcked
  <2>4. k + 1 \in Nat /\ (k + 1) * MAX_PACKET_SIZE = k * MAX_PACKET_SIZE + MAX_PACKET_SIZE
    BY Zenon, <1>2, WholePackets
  <2>5. taken' - filled' = k * MAX_PACKET_SIZE + MAX_PACKET_SIZE
    BY <1>1, <1>2, <2>1
  <2>q. QED  BY Zenon, <1>1, <2>1, <2>3, <2>4, <2>5 DEF Acked, AboutToReturn
<1>5. CASE send_reader_eof /\ (filled > 0 \/ taken = 0)
  <2>1. /\ pack(packet_builder, cur, taken - filled, taken, TRUE)
        /\ call' = "closing" /\ UNCHANGED result
    BY Zenon, <1>5 DEF send_reader_eof
  <2>2. OneMore /\ Ended(cur)'
    BY Zenon, <1>1, <1>2, <1>3, <2>1, LastEnds
  <2>3. AckedEnded'
    BY Zenon, <1>1, <2>1, <2>2, ResultOf, StillAcked
  <2>q. QED  BY Zenon, <2>1, <2>2, <2>3 DEF Acked, AboutToReturn
<1>6. CASE send_reader_eof /\ ~(filled > 0 \/ taken = 0)
  <2>1. /\ call' = "idle" /\ result' = [result EXCEPT ![cur] = "ok"]
        /\ UNCHANGED frames /\ taken = sent[cur].len
    BY Zenon, <1>6 DEF send_reader_eof, Return
  <2>2. taken > 0 /\ taken = k * MAX_PACKET_SIZE
    BY <1>1, <1>6
  <2>3. (k * MAX_PACKET_SIZE) % MAX_PACKET_SIZE = 0
    BY Zenon, <1>2, WholePackets
  <2>4. Unterminated(cur)'
    BY Zenon, <1>1, <1>2, <2>1, <2>2, <2>3 DEF Unterminated
  <2>5. AckedEnded'
    BY Zenon, <1>1, <2>1, <2>4, ResultOf, StillAcked
  <2>q. QED  BY Zenon, <2>1, <2>5 DEF Acked, AboutToReturn
<1>q. QED  BY Zenon, <1>4, <1>5, <1>6

\* The other steps pack nothing of a message, and only send_reader_return among
\* them returns Ok.

\* send_reader's reads leave the whole packets taken from the source as they were.
LEMMA ReadAcked ==
    ASSUME TypeOK, Acked, Grows, send_reader_read
    PROVE  Acked'
<1> PICK n \in 1..(MAX_PACKET_SIZE - filled) : taken' = taken + n /\ filled' = filled + n
  BY Zenon DEF send_reader_read
<1>1. /\ call = "send_reader" /\ call' = call /\ UNCHANGED <<frames, result, sent>>
      /\ taken \in Nat /\ filled \in 0..MAX_PACKET_SIZE /\ MAX_PACKET_SIZE \in Nat
  BY Zenon, TransportAssumption DEF send_reader_read, TypeOK
<1>2. n \in Int /\ taken' - filled' = taken - filled
  BY <1>1
<1>3. AckedEnded'
  BY Zenon, <1>1, ResultOf, StillAcked
<1>q. QED  BY Zenon, <1>1, <1>2, <1>3 DEF Acked, AboutToReturn

\* A call that returns, with Ok only when the last packet is packed, or goes on as
\* it was; abort_message works on a message whose call has returned an error.
LEMMA OthersAcked ==
    ASSUME TypeOK, Sender, Acked, Grows,
           \/ send_reader_return \/ source_fails \/ abort_message \/ abort_message_return
           \/ write_frame \/ write_fails \/ drop_tx \/ drop_rx \/ UNCHANGED txVars
    PROVE  Acked'
<1>1. UNCHANGED sent /\ cur' = cur
  BY Zenon DEF send_reader_return, source_fails, abort_message, abort_message_return,
               write_frame, write_fails, drop_tx, drop_rx, txVars, cur
<1>2. CASE send_reader_return
  <2>1. /\ call = "closing" /\ call' = "idle" /\ UNCHANGED frames /\ cur > 0
        /\ result' = [result EXCEPT ![cur] = "ok"]
    BY Zenon, <1>2 DEF send_reader_return, Return, Sender, Calls
  <2>2. Ended(cur)
    BY Zenon, <2>1 DEF Acked, AboutToReturn
  <2>3. Ended(cur)'
    BY Zenon, <1>1, <2>1, <2>2, EndedStays
  <2>4. AckedEnded'
    BY Zenon, <1>1, <2>1, <2>3, ResultOf, StillAcked
  <2>q. QED  BY Zenon, <2>1, <2>4 DEF Acked, AboutToReturn
<1>3. CASE source_fails \/ write_fails
  <2>1. /\ call' = "idle" /\ UNCHANGED frames
        /\ result' = result \/ (cur > 0 /\ result' = [result EXCEPT ![cur] = "failed"])
    BY Zenon, <1>3 DEF source_fails, write_fails, Return, Sender, Calls
  <2>2. AckedEnded'
    BY Zenon, <1>1, <2>1, ResultOf, StillAcked
  <2>q. QED  BY Zenon, <2>1, <2>2 DEF Acked, AboutToReturn
<1>4. CASE abort_message
  <2>1. UNCHANGED result /\ call' = "abort_message"
    BY Zenon, <1>4 DEF abort_message
  <2>2. OneMore \/ UNCHANGED frames
    BY Zenon, <1>4, SenderSteps DEF TxStep, NoSend, Starts, Continues, GivesUp
  <2>3. AckedEnded'
    BY Zenon, <1>1, <2>1, <2>2, ResultOf, StillAcked
  <2>q. QED  BY Zenon, <2>1, <2>3 DEF Acked, AboutToReturn
<1>5. CASE abort_message_return \/ drop_tx
  <2>1. UNCHANGED <<frames, result>> /\ call' \in {"idle", "closed"}
    BY Zenon, <1>5 DEF abort_message_return, drop_tx
  <2>2. AckedEnded'
    BY Zenon, <1>1, <2>1, ResultOf, StillAcked
  <2>q. QED  BY Zenon, <2>1, <2>2 DEF Acked, AboutToReturn
<1>6. CASE write_frame \/ drop_rx \/ UNCHANGED txVars
  <2>1. UNCHANGED <<frames, result, call, taken, filled, packet_builder>>
    BY Zenon, <1>6 DEF write_frame, drop_rx, txVars
  <2>2. AckedEnded'
    BY Zenon, <1>1, <2>1, ResultOf, StillAcked
  <2>3. Ended(cur)' <=> Ended(cur)
    BY Zenon, <1>1, <2>1 DEF Ended, Kind
  <2>q. QED  BY Zenon, <2>1, <2>2, <2>3 DEF Acked, AboutToReturn
<1>q. QED  BY Zenon, <1>2, <1>3, <1>4, <1>5, <1>6

\* Every step preserves the sender's half.
LEMMA StepAcked ==
    ASSUME TypeOK, Sender, Acked, [Next]_vars
    PROVE  Acked'
<1>1. Grows
  BY Zenon, StepSender
<1>2. CASE RecvStep \/ message_dropped \/ read_cancelled \/ UNCHANGED vars
  <2>1. UNCHANGED txVars
    BY Zenon, <1>2 DEF RecvStep, read_message, read_bytes, into_packets, continue_message,
         packets_done, message_dropped, read_cancelled, vars, txVars
  <2>q. QED  BY Zenon, <1>1, <2>1, OthersAcked
<1>q. QED  BY Zenon, <1>1, <1>2, CallStarts, SliceAcked, ReaderAcked, ReadAcked, OthersAcked
          DEF Next, SendCall, SendStep, Fault

----------------------------------------------------------------------------
\* The receiver: what it has said stays true, from the steps of the channel alone.

\* A message is told of when it is settled.
LEMMA TellSettles ==
    ASSUME Settled, NEW e, Messages!Tell(e), e.m \in 1..cur,
           e.m = cur => ~packet_builder.in_progress,
           e.ev = "aborted" <=> e.m \in aborted_messages
    PROVE  Settled'
<1>1. /\ UNCHANGED sent /\ aborted_messages' = aborted_messages
      /\ packet_builder'.in_progress = packet_builder.in_progress
  BY Zenon DEF Messages!Tell
<1>2. cur' = cur
  BY Zenon, <1>1 DEF cur
<1> PICK t : told_messages' = told_messages \cup {[at |-> t, of |-> e]}
  BY Zenon DEF Messages!Tell
<1>3. [at |-> t, of |-> e].of = e
  BY Zenon
<1>q. QED  BY Zenon, <1>1, <1>2, <1>3 DEF Settled

\* The next message has a new number, and the one under way has not been told of.
LEMMA StepSettled ==
    ASSUME TypeOK, Settled, [Messages!Next]_Messages!vars,
           aborted_messages \subseteq 1..cur
    PROVE  Settled'
<1>1. cur \in Nat
  BY Zenon, EndTyped
<1>2. CASE UNCHANGED Messages!vars
  <2>1. /\ UNCHANGED sent /\ aborted_messages' = aborted_messages /\ told_messages' = told_messages
        /\ packet_builder'.in_progress = packet_builder.in_progress
    BY Zenon, <1>2 DEF Messages!vars
  <2>q. QED  BY Zenon, <2>1 DEF Settled, cur
<1>3. CASE Messages!Begin
  <2>1. aborted_messages' = aborted_messages /\ told_messages' = told_messages
    BY Zenon, <1>3 DEF Messages!Begin
  <2>2. cur' = cur + 1
    <3> PICK x : sent' = Append(sent, x)
      BY Zenon, <1>3 DEF Messages!Begin
    <3>q. QED  BY Zenon, AppendLen DEF TypeOK, cur
  <2>3. \A m \in 1..cur : m \in 1..cur' /\ m # cur'
    BY <1>1, <2>2
  <2>q. QED  BY Zenon, <2>1, <2>3 DEF Settled
<1>4. CASE Messages!Complete \/ Messages!Skip
  <2>1. /\ aborted_messages' = aborted_messages /\ told_messages' = told_messages /\ UNCHANGED sent
        /\ \/ packet_builder'.in_progress = packet_builder.in_progress
           \/ packet_builder'.in_progress = FALSE
    BY Zenon, <1>4 DEF Messages!Complete, Messages!Skip
  <2>2. cur' = cur
    BY Zenon, <2>1 DEF cur
  <2>q. QED  BY Zenon, <2>1, <2>2 DEF Settled
<1>5. CASE Messages!GiveUp
  <2>1. /\ aborted_messages' = aborted_messages \cup {cur} /\ told_messages' = told_messages
        /\ packet_builder.in_progress /\ packet_builder'.in_progress = FALSE /\ UNCHANGED sent
    BY Zenon, <1>5 DEF Messages!GiveUp, cur
  <2>2. cur' = cur
    BY Zenon, <2>1 DEF cur
  <2>q. QED  BY Zenon, <2>1, <2>2 DEF Settled
<1>6. CASE Messages!Deliver
  <2> PICK m \in DOMAIN sent \ aborted_messages :
         /\ Messages!Due(m)
         /\ \E from \in IF m \in dropped THEN 0..sent[m].len ELSE {0} :
               Messages!Tell([ev |-> "message", m |-> m, msg_type |-> sent[m].msg_type,
                              data |-> Messages!Bytes(m, from, sent[m].len)])
    BY Zenon, <1>6 DEF Messages!Deliver
  <2> PICK from : Messages!Tell([ev |-> "message", m |-> m, msg_type |-> sent[m].msg_type,
                                 data |-> Messages!Bytes(m, from, sent[m].len)])
    BY Zenon
  <2> DEFINE e == [ev |-> "message", m |-> m, msg_type |-> sent[m].msg_type,
                   data |-> Messages!Bytes(m, from, sent[m].len)]
  <2>1. m \in 1..cur /\ (m = cur => ~packet_builder.in_progress)
    BY Zenon, SeqDomain DEF TypeOK, cur, Messages!Due
  <2>2. e.ev = "message" /\ e.m = m /\ "message" # "aborted" /\ Messages!Tell(e)
    BY Zenon
  <2> HIDE DEF e
  <2>q. QED  BY Zenon, <2>1, <2>2, TellSettles
<1>7. CASE Messages!ReportAbort
  <2> PICK m \in aborted_messages : Messages!Due(m) /\ Messages!Tell([ev |-> "aborted", m |-> m])
    BY Zenon, <1>7 DEF Messages!ReportAbort
  <2> DEFINE e == [ev |-> "aborted", m |-> m]
  <2>1. m \in 1..cur /\ (m = cur => ~packet_builder.in_progress)
    BY Zenon DEF cur, Messages!Due
  <2>2. e.ev = "aborted" /\ e.m = m /\ Messages!Tell(e)
    BY Zenon
  <2> HIDE DEF e
  <2>q. QED  BY Zenon, <2>1, <2>2, TellSettles
<1>q. QED  BY Zenon, <1>2, <1>3, <1>4, <1>5, <1>6, <1>7 DEF Messages!Next, Messages!TellNext

\* Only a message that was begun has been aborted.
LEMMA AbortedBegun ==
    ASSUME IInv
    PROVE  aborted_messages \subseteq 1..cur
<1>1. DOMAIN frames = 1..Len(frames)
  BY Zenon, SeqDomain DEF IInv, TypeOK
<1>q. QED  BY Zenon, <1>1 DEF aborted_messages, IInv, Sender, FramesOk, FrameOk

----------------------------------------------------------------------------
\* Both halves.

AckedInv == IInv /\ Ordered /\ Acked /\ Settled

\* Nothing is acknowledged or told at the start.
LEMMA InitAcked == Init => Acked /\ Settled
<1> SUFFICES ASSUME Init
             PROVE  Acked /\ Settled
  BY Zenon
<1>1. call = "idle" /\ sent = <<>>
  BY Zenon DEF Init
<1>2. 1..cur = {}
  BY <1>1 DEF cur
<1>3. told_messages = {}
  BY Zenon, InitRefines DEF Messages!Init
<1>q. QED  BY Zenon, <1>1, <1>2, <1>3 DEF Acked, AckedEnded, AboutToReturn, Settled

\* The invariants of the connection, of its channel and of the acknowledgements.
LEMMA AckedInvariant == Spec => []AckedInv
<1>1. Init => Ordered /\ Acked /\ Settled
  BY InitRefines, InitAcked
<1>2. IInv /\ IInv' /\ Ordered /\ Acked /\ Settled /\ [Next]_vars => Ordered' /\ Acked' /\ Settled'
  BY Zenon, NextOrdered, StepRefines, StepAcked, StepSettled, AbortedBegun DEF IInv
<1>q. QED  BY <1>1, <1>2, Invariant, PTL DEF Spec, AckedInv

\* A message that ended was not aborted, and so has not been reported aborted; once
\* all frames are read, the application has heard of it.
LEMMA EndedIsKept ==
    ASSUME AckedInv, NEW m \in 1..cur, Ended(m)
    PROVE  /\ \A i \in Events({"aborted", "rejected"}) : seen[i].m # m
           /\ rx_nonce = Len(frames) /\ msg.at = "none" => Delivered(m) \/ m \in dropped
<1> PICK n \in 1..Len(frames) : frames[n].m = m /\ Kind(n) \in {Sole, Last}
  BY Zenon DEF Ended
<1>1. Kind(n) # Abort /\ ~Open(n)
  BY Zenon, Distinct DEF Open
<1>2. m \notin aborted_messages
  BY Zenon, <1>1, EndsOnce DEF AckedInv
<1>3. \A i \in Events({"aborted", "rejected"}) : seen[i].m # m
  <2> SUFFICES ASSUME NEW i \in Events({"aborted", "rejected"}), seen[i].m = m
               PROVE  FALSE
    BY Zenon
  <2>1. i \in Heard /\ seen[i].ev # "message"
    BY Zenon DEF Events, Heard
  <2>2. report(i, seen[i]) \in told_messages /\ report(i, seen[i]).of = told_of(seen[i])
    BY Zenon, <2>1, ToldAre
  <2>3. told_of(seen[i]) = [ev |-> "aborted", m |-> m]
    BY Zenon, <2>1 DEF told_of
  <2>4. told_of(seen[i]).ev = "aborted" /\ told_of(seen[i]).m = m
    <3>1. [ev |-> "aborted", m |-> m].ev = "aborted" /\ [ev |-> "aborted", m |-> m].m = m
      BY Zenon
    <3>q. QED  BY Zenon, <2>3, <3>1
  <2>q. QED  BY Zenon, <1>2, <2>2, <2>4 DEF AckedInv, Settled
<1>4. ASSUME rx_nonce = Len(frames), msg.at = "none", m \notin dropped
      PROVE  Delivered(m)
  <2> PICK N \in Nat : N = Len(frames)
    BY Zenon, FrameMsg DEF AckedInv, IInv
  <2>1. N \in 1..N /\ (n = N \/ n < N)
    OBVIOUS
  <2>2. Top = frames[N].m /\ frames[N].m \in Nat
    BY Zenon, <1>4, <2>1, FrameMsg DEF AckedInv, IInv, Top
  <2>3. n = N \/ (frames[n].m <= frames[N].m /\ frames[n].m # frames[N].m)
    BY Zenon, <1>1, <2>1 DEF AckedInv, Ordered
  <2>4. m \in Nat /\ m > 0
    BY Zenon, MsgNumber
  <2>5. m \in 1..Top
    BY <2>2, <2>3, <2>4
  <2>6. ~(m = Top /\ Busy)
    <3>1. ~Live
      BY Zenon, <1>4 DEF Live
    <3>q. QED  BY Zenon, <1>1, <1>4, <2>2, <2>3, <3>1 DEF Busy
  <2> PICK j \in Heard : seen[j].m = m
    BY Zenon, <1>4, <2>5, <2>6 DEF AckedInv, IInv, History, Covered
  <2>q. QED  BY Zenon, <1>3 DEF Heard, Events, Delivered
<1>q. QED  BY Zenon, <1>3, <1>4

\* Ok means sent: of a message whose send returned Ok the application is never told
\* that it was aborted or rejected, and it has been given the message, unless it
\* dropped it, by the time it has read all there is, whatever is called and
\* whatever fails later.
THEOREM OkMeansSent == Spec => []AckedIsKept
<1>1. ASSUME AckedInv
      PROVE  AckedIsKept
  <2>1. DOMAIN sent = 1..cur
    BY Zenon, <1>1, SeqDomain DEF AckedInv, IInv, TypeOK, cur
  <2>2. AckedEnded
    BY Zenon, <1>1 DEF AckedInv, Acked
  <2>q. QED  BY Zenon, <1>1, <2>1, <2>2, EndedIsKept DEF AckedEnded, AckedIsKept
<1>q. QED  BY <1>1, AckedInvariant, PTL
==============================================================================
