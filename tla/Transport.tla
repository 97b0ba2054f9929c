----------------------------- MODULE Transport -----------------------------
(***************************************************************************)
(* One direction of an established connection: a MessageTx on one node     *)
(* (src/messages.rs over PacketTx of src/packets.rs), the byte stream, and *)
(* the MessageRx on the other node.  The two directions share no protocol  *)
(* state: the TransportState both halves of a node lock keeps one nonce    *)
(* counter for sending and another for receiving.  They share the stream:  *)
(* it ends when a node has dropped both halves.                            *)
(*                                                                         *)
(* A frame is what one send_packet writes: a Noise ciphertext, known on    *)
(* the stream by the nonce it was encrypted under; `frames` has what each  *)
(* one holds, a header and a payload.  Byte number i of message number m   *)
(* is the pair <<m, i>>, so that a property can tell where every received  *)
(* byte came from.                                                         *)
(*                                                                         *)
(* `sent`, `result`, `lost`, `dropped` and `seen` are history (as are the  *)
(* fields m, the message number, of a packet and a handle, and to, how far *)
(* into the message a packet goes): no action reads them except to number  *)
(* a message, to look up its length, and to stop reading at the end of the *)
(* stream.                                                                 *)
(***************************************************************************)
EXTENDS PacketState, Sequences

CONSTANTS
    MAX_PACKET_SIZE,  \* payload bytes per packet, MAX_RAW_PACKET_SIZE - 2 in the code
    MsgTypes,         \* values a caller passes as msg_type (any u16)
    Lengths,          \* payload lengths a caller sends
    MaxMsgs,          \* bound: messages prepared in one behaviour
    Faults            \* what callers and the stream may do to an operation

FaultKinds == {"sendFails", "sourceFails", "readCancelled", "messageDropped", "closes"}

ASSUME TransportAssumption ==
    /\ MAX_PACKET_SIZE \in Nat \ {0} /\ MAX_PACKET_SIZE <= MAX_RAW_PACKET_SIZE - 2
    /\ MsgTypes \subseteq Nat
    /\ Lengths \subseteq Nat
    /\ MaxMsgs \in Nat
    /\ Faults \subseteq FaultKinds

VARIABLES
    packet_builder,   \* PacketTx::packet_builder
    frames,           \* TransportState: what was encrypted so far, by nonce
    call,             \* the MessageTx call running, "idle" between calls
    taken,            \* bytes taken so far from the payload or the source
    filled,           \* send_reader: bytes in `buf` not packed yet
    writing,          \* the write of the last frame is awaited
    rx_half,          \* the sending node has its own MessageRx, the stream's other half
    wire,             \* frames the stream holds
    rx_nonce,         \* TransportState: messages decrypted so far
    packet_reader,    \* PacketRx::packet_reader
    rx_torn,          \* a cancelled read_frame consumed part of a frame
    msg,              \* the Message or MessagePackets handle
    sent, result, lost, dropped, seen

txVars == <<packet_builder, frames, call, taken, filled, writing, sent, result, lost, rx_half>>
rxVars == <<rx_nonce, packet_reader, rx_torn, msg, dropped, seen>>
vars == <<txVars, wire, rxVars>>

Bytes(m, from, to) == [i \in 1..(to - from) |-> <<m, from + i>>]

Packet == [header : Nat, payload : Seq(Nat \X Nat), m : Nat, to : Nat]
Frame == [nonce : Nat, torn : BOOLEAN]

\* The nonce of the last frame.
last_nonce == Len(frames) - 1

\* What the application has: nothing, a Message, a read_bytes, a MessagePackets, or
\* a MessagePackets that has answered MessageAborted.
Handle == [at : {"none", "message", "bytes", "packets", "aborted", "panicked"},
           kind : PacketKind, msg_type : 0..TYPE_MASK, data : Seq(Nat \X Nat),
           done : BOOLEAN, m : Nat]

NoMessage == [at |-> "none", kind |-> Sole, msg_type |-> 0, data |-> <<>>,
              done |-> FALSE, m |-> 0]

\* What the receiving application observes of one call.
Event == [ev : {"message"}, m : Nat, msg_type : 0..TYPE_MASK, data : Seq(Nat \X Nat)]
         \cup [ev : {"aborted"}, m : Nat]
         \cup [ev : {"rejected"}, m : Nat, kind : Nat, err : PacketReadError]
         \cup [ev : {"noise", "eof"}]

\* The type invariant.
TypeOK ==
    /\ packet_builder \in PacketBuilder
    /\ frames \in Seq(Packet) /\ rx_nonce \in Nat
    /\ call \in {"idle", "send_message", "send_reader", "closing", "abort_message", "closed"}
    /\ taken \in Nat /\ filled \in 0..MAX_PACKET_SIZE
    /\ writing \in BOOLEAN /\ rx_half \in BOOLEAN
    /\ wire \in Seq(Frame)
    /\ packet_reader \in PacketReader
    /\ rx_torn \in BOOLEAN
    /\ msg \in Handle
    /\ sent \in Seq([msg_type : 0..TYPE_MASK, len : Nat, how : {"slice", "reader"}])
    /\ result \in Seq({"open", "ok", "failed"}) /\ Len(result) = Len(sent)
    /\ lost \subseteq Nat /\ dropped \subseteq Nat
    /\ seen \in Seq(Event)

Init ==
    /\ packet_builder = NewBuilder
    /\ frames = <<>> /\ rx_nonce = 0
    /\ call = "idle" /\ taken = 0 /\ filled = 0
    /\ writing = FALSE /\ rx_half = TRUE /\ wire = <<>>
    /\ packet_reader = NewReader
    /\ rx_torn = FALSE
    /\ msg = NoMessage
    /\ sent = <<>> /\ result = <<>> /\ lost = {} /\ dropped = {} /\ seen = <<>>

----------------------------------------------------------------------------
\* The sender.  A call runs from one await to the next as one step; the only
\* awaits are the write of a frame and the read of the source.

cur == Len(sent)
Return(r) == call' = "idle" /\ result' = [result EXCEPT ![cur] = r]

\* pack and encrypt one packet: the nonce is consumed before the frame is
\* written.
encrypt(m, header, from, to) ==
    /\ frames' = Append(frames, [header |-> header, payload |-> Bytes(m, from, to),
                                 m |-> m, to |-> to])
    /\ writing' = TRUE

\* The number of values of the u16 that a frame's length is cast to.
U16 == 65536

\* The length of a frame's ciphertext, and what the frame's prefix says it is.
ciphertext_len(f) == 2 + Len(f.payload) + CIPHER_OVERHEAD_SIZE
length_prefix(f) == ciphertext_len(f) % U16

pack(b, m, from, to, last) ==
    /\ b.in_progress
    /\ encrypt(m, PackHeader(b, last), from, to)
    /\ packet_builder' = Packed(b, last)

\* prepare_message, when it does not refuse (a refusal changes nothing).
prepare_message(how, msg_type, len) ==
    /\ call = "idle" /\ cur < MaxMsgs
    /\ PrepareOk(packet_builder, msg_type)
    /\ sent' = Append(sent, [msg_type |-> msg_type, len |-> len, how |-> how])
    /\ result' = Append(result, "open")

\* Mutant: a chunk that is not the last is one byte longer.
ChunkEnd_OneMore(from, len) ==
    IF from + MAX_PACKET_SIZE < len THEN from + MAX_PACKET_SIZE + 1 ELSE len

\* The end of the chunk that starts at byte `from` of a slice of len bytes.
ChunkEnd(from, len) ==
    IF from + MAX_PACKET_SIZE < len THEN from + MAX_PACKET_SIZE ELSE len

\* send_message up to its first write: send_slice packs the first chunk (the
\* empty chunk of an empty payload included) with no await after prepare.
send_message(msg_type, len) ==
    LET to == ChunkEnd(0, len) IN
    /\ prepare_message("slice", msg_type, len)
    /\ pack(Prepared(packet_builder, msg_type), cur + 1, 0, to, to = len)
    /\ call' = "send_message" /\ taken' = to
    /\ UNCHANGED <<filled, wire, lost, rx_half, rxVars>>

\* Mutant: the loop is over full chunks, and the rest of the payload is forgotten.
send_slice_next_exact ==
    LET to == ChunkEnd(taken, sent[cur].len) IN
    /\ call = "send_message" /\ ~writing
    /\ IF taken + MAX_PACKET_SIZE <= sent[cur].len
       THEN /\ pack(packet_builder, cur, taken, to, to = sent[cur].len)
            /\ taken' = to
            /\ UNCHANGED <<call, result>>
       ELSE /\ Return("ok")
            /\ UNCHANGED <<packet_builder, frames, writing, taken>>
    /\ UNCHANGED <<filled, sent, wire, lost, rx_half, rxVars>>

\* send_slice's loop: the next chunk, or the return after the last one.
send_slice_next ==
    LET to == ChunkEnd(taken, sent[cur].len) IN
    /\ call = "send_message" /\ ~writing
    /\ IF taken < sent[cur].len
       THEN /\ pack(packet_builder, cur, taken, to, to = sent[cur].len)
            /\ taken' = to
            /\ UNCHANGED <<call, result>>
       ELSE /\ Return("ok")
            /\ UNCHANGED <<packet_builder, frames, writing, taken>>
    /\ UNCHANGED <<filled, sent, wire, lost, rx_half, rxVars>>

\* send_reader up to its first read of the source.
send_reader(msg_type, len) ==
    /\ prepare_message("reader", msg_type, len)
    /\ packet_builder' = Prepared(packet_builder, msg_type)
    /\ call' = "send_reader" /\ taken' = 0 /\ filled' = 0
    /\ UNCHANGED <<frames, writing, wire, lost, rx_half, rxVars>>

\* send_reader's loop, when the buffer is full (space == 0).
send_reader_full ==
    /\ call = "send_reader" /\ ~writing /\ filled = MAX_PACKET_SIZE
    /\ pack(packet_builder, cur, taken - filled, taken, FALSE)
    /\ filled' = 0
    /\ UNCHANGED <<call, taken, sent, result, wire, lost, rx_half, rxVars>>

\* reader.read returns n > 0 bytes, at most what the buffer has room for.
send_reader_read ==
    /\ call = "send_reader" /\ ~writing
    /\ \E n \in 1..(MAX_PACKET_SIZE - filled) :
          /\ taken + n <= sent[cur].len
          /\ taken' = taken + n /\ filled' = filled + n
    /\ UNCHANGED <<packet_builder, frames, call, writing, sent, result, wire, lost, rx_half, rxVars>>

\* reader.read returns 0: the code after the loop.  sent_any is taken > 0.
send_reader_eof ==
    /\ call = "send_reader" /\ ~writing /\ filled < MAX_PACKET_SIZE
    /\ taken = sent[cur].len
    /\ IF filled > 0 \/ taken = 0
       THEN /\ pack(packet_builder, cur, taken - filled, taken, TRUE)
            /\ call' = "closing"
            /\ UNCHANGED result
       ELSE /\ Return("ok")
            /\ UNCHANGED <<packet_builder, frames, writing>>
    /\ filled' = 0
    /\ UNCHANGED <<taken, sent, wire, lost, rx_half, rxVars>>

\* The write of the last packet has been awaited: send_reader returns Ok.
send_reader_return ==
    /\ call = "closing" /\ ~writing
    /\ Return("ok")
    /\ UNCHANGED <<packet_builder, frames, taken, filled, writing, sent, wire, lost, rx_half, rxVars>>

\* reader.read fails, or the call is dropped while it awaits the source.  The
\* message stays open in the builder.
source_fails ==
    /\ "sourceFails" \in Faults
    /\ call = "send_reader" /\ ~writing /\ filled < MAX_PACKET_SIZE
    /\ Return("failed")
    /\ UNCHANGED <<packet_builder, frames, taken, filled, writing, sent, wire, lost, rx_half, rxVars>>

\* Mutant: abort_message packs an Abort whether or not a message is in progress.
abort_message_always ==
    /\ call = "idle"
    /\ encrypt(cur, AbortHeader(packet_builder), 0, 0)
    /\ packet_builder' = Aborted(packet_builder)
    /\ call' = "abort_message"
    /\ UNCHANGED <<taken, filled, sent, result, wire, lost, rx_half, rxVars>>

\* abort_message, a no-op unless the builder has a message in progress.
abort_message ==
    /\ call = "idle" /\ packet_builder.in_progress
    /\ encrypt(cur, AbortHeader(packet_builder), 0, 0)
    /\ packet_builder' = Aborted(packet_builder)
    /\ call' = "abort_message"
    /\ UNCHANGED <<taken, filled, sent, result, wire, lost, rx_half, rxVars>>

abort_message_return ==
    /\ call = "abort_message" /\ ~writing
    /\ call' = "idle"
    /\ UNCHANGED <<packet_builder, frames, taken, filled, writing, sent, result, wire, lost, rx_half, rxVars>>

\* The last frame has reached the stream, whole or in part.
Written(torn) == wire' = Append(wire, [nonce |-> last_nonce, torn |-> torn])

\* write_all and flush of the frame complete.
write_frame ==
    /\ writing /\ writing' = FALSE
    /\ Written(FALSE)
    /\ UNCHANGED <<packet_builder, frames, call, taken, filled, sent, result, lost, rx_half, rxVars>>

\* The write fails or the call is dropped while it awaits the write: none, a
\* part or all of the frame has reached the stream.
write_fails ==
    /\ "sendFails" \in Faults
    /\ writing /\ writing' = FALSE
    /\ \/ UNCHANGED wire /\ lost' = lost \cup {last_nonce}
       \/ Written(TRUE) /\ lost' = lost \cup {last_nonce}
       \/ Written(FALSE) /\ UNCHANGED lost
    /\ call' = "idle"
    /\ result' = IF call = "abort_message" THEN result ELSE [result EXCEPT ![cur] = "failed"]
    /\ UNCHANGED <<packet_builder, frames, taken, filled, sent, rx_half, rxVars>>

\* The MessageTx is dropped, and its half of the stream with it.  No destructor
\* shuts the stream down, ...
drop_tx ==
    /\ "closes" \in Faults
    /\ call = "idle" /\ call' = "closed"
    /\ UNCHANGED <<packet_builder, frames, taken, filled, writing, sent, result, wire, lost, rx_half, rxVars>>

\* ... which ends only when the node's MessageRx, the other half that
\* tokio::io::split made of it, is dropped too (before or after).
drop_rx ==
    /\ "closes" \in Faults
    /\ rx_half /\ rx_half' = FALSE
    /\ UNCHANGED <<packet_builder, frames, call, taken, filled, writing, sent, result, wire, lost, rxVars>>

StreamEnds == call = "closed" /\ ~rx_half

----------------------------------------------------------------------------
\* The receiver.  PacketRx::read_packet has three outcomes for the frame at
\* the head of the stream, and one at its end.

Events(kinds) == {i \in DOMAIN seen : seen[i].ev \in kinds}

\* Mutant: a frame is accepted under any nonce.
Decrypts_AnyNonce(f) == ~rx_torn /\ ~f.torn

Decrypts(f) == ~rx_torn /\ ~f.torn /\ f.nonce = rx_nonce

\* What the frame at the head of the stream holds, and what the reader says of it.
Opened == frames[Head(wire).nonce + 1]
FrameError == ReadError(packet_reader, 2 + Len(Opened.payload), Opened.header)

\* A torn or out-of-step frame fails its authentication tag; the receiving
\* nonce does not move.
read_packet_noise ==
    /\ wire # <<>> /\ ~Decrypts(Head(wire))
    /\ wire' = Tail(wire)
    /\ seen' = Append(seen, [ev |-> "noise"])
    /\ UNCHANGED <<rx_nonce, packet_reader>>

\* Mutant: the end of the stream is noticed between messages only.
read_packet_eof_between ==
    /\ wire = <<>> /\ StreamEnds /\ Events({"eof"}) = {} /\ msg.at = "none"
    /\ seen' = Append(seen, [ev |-> "eof"])
    /\ UNCHANGED <<wire, rx_nonce, packet_reader>>

\* read_frame meets the end of the stream; the application stops reading there.
read_packet_eof ==
    /\ wire = <<>> /\ StreamEnds /\ Events({"eof"}) = {}
    /\ seen' = Append(seen, [ev |-> "eof"])
    /\ UNCHANGED <<wire, rx_nonce, packet_reader>>

\* Decrypted, refused by PacketReader::read.
read_packet_rejected ==
    /\ wire # <<>> /\ Decrypts(Head(wire)) /\ FrameError # "none"
    /\ wire' = Tail(wire) /\ rx_nonce' = rx_nonce + 1
    /\ seen' = Append(seen, [ev |-> "rejected", m |-> Opened.m,
                             kind |-> HeaderKind(Opened.header),
                             err |-> FrameError])
    /\ UNCHANGED packet_reader

read_packet_ok ==
    /\ wire # <<>> /\ Decrypts(Head(wire)) /\ FrameError = "none"
    /\ wire' = Tail(wire) /\ rx_nonce' = rx_nonce + 1
    /\ packet_reader' = ReadNext(packet_reader, Opened.header)

Deliver(m, msg_type, data) ==
    seen' = Append(seen, [ev |-> "message", m |-> m, msg_type |-> msg_type, data |-> data])

\* read_message: whatever packet the reader accepts becomes a Message handle;
\* its kind is not looked at.
read_message ==
    /\ msg.at = "none"
    /\ \/ /\ read_packet_noise \/ read_packet_rejected \/ read_packet_eof
          /\ UNCHANGED msg
       \/ /\ read_packet_ok
          /\ msg' = [at |-> "message", kind |-> HeaderKind(Opened.header),
                     msg_type |-> HeaderType(Opened.header), data |-> Opened.payload,
                     done |-> FALSE, m |-> Opened.m]
          /\ UNCHANGED seen
    /\ UNCHANGED <<txVars, rx_torn, dropped>>

\* Mutant: read_bytes forgets the payload of the first packet.
read_bytes_forgets_first ==
    /\ msg.at = "message"
    /\ IF msg.kind = Sole
       THEN Deliver(msg.m, msg.msg_type, msg.data) /\ msg' = NoMessage
       ELSE msg' = [msg EXCEPT !.at = "bytes", !.data = <<>>] /\ UNCHANGED seen
    /\ UNCHANGED <<txVars, wire, rx_nonce, packet_reader, rx_torn, dropped>>

\* Mutant: read_bytes does not consume the handle.
read_bytes_keeps_handle ==
    /\ msg.at = "message"
    /\ IF msg.kind = Sole
       THEN Deliver(msg.m, msg.msg_type, msg.data) /\ UNCHANGED msg
       ELSE msg' = [msg EXCEPT !.at = "bytes"] /\ UNCHANGED seen
    /\ UNCHANGED <<txVars, wire, rx_nonce, packet_reader, rx_torn, dropped>>

\* read_bytes up to its first await: a Sole message is complete.
read_bytes ==
    /\ msg.at = "message"
    /\ IF msg.kind = Sole
       THEN /\ Deliver(msg.m, msg.msg_type, msg.data)
            /\ msg' = NoMessage
       ELSE /\ msg' = [msg EXCEPT !.at = "bytes"]
            /\ UNCHANGED seen
    /\ UNCHANGED <<txVars, wire, rx_nonce, packet_reader, rx_torn, dropped>>

\* Mutant: every message is taken to be done after its first packet.
into_packets_done_at_once ==
    /\ msg.at = "message"
    /\ msg' = [msg EXCEPT !.at = "packets", !.done = TRUE]
    /\ UNCHANGED <<txVars, wire, rx_nonce, packet_reader, rx_torn, dropped, seen>>

\* into_packets and the first call of next, which yields the buffered payload.
into_packets ==
    /\ msg.at = "message"
    /\ msg' = [msg EXCEPT !.at = "packets", !.done = (msg.kind = Sole)]
    /\ UNCHANGED <<txVars, wire, rx_nonce, packet_reader, rx_torn, dropped, seen>>

\* Mutant: next returns MessageAborted and does not set `done`.
message_aborted_not_done ==
    /\ \/ msg' = NoMessage
       \/ msg.at = "packets" /\ msg' = msg
    /\ seen' = Append(seen, [ev |-> "aborted", m |-> msg.m])

\* MessageAborted ends read_bytes; next sets `done`, and the application drops the
\* MessagePackets or keeps it.
message_aborted ==
    /\ \/ msg' = NoMessage
       \/ msg.at = "packets" /\ msg' = [msg EXCEPT !.at = "aborted", !.done = TRUE]
    /\ seen' = Append(seen, [ev |-> "aborted", m |-> msg.m])

\* The loop of read_bytes and the later calls of next.  An error ends
\* read_bytes; a MessagePackets survives it and may be dropped or called again.
continue_message ==
    /\ msg.at \in {"bytes", "packets"} /\ ~msg.done
    /\ \/ /\ read_packet_noise \/ read_packet_rejected \/ read_packet_eof
          /\ \/ msg' = NoMessage
             \/ msg.at = "packets" /\ msg' = msg
       \/ /\ read_packet_ok
          /\ LET kind == HeaderKind(Opened.header)
                 data == msg.data \o Opened.payload
             IN \/ kind = Abort /\ message_aborted
                \/ /\ kind = Last /\ msg.at = "bytes"
                   /\ msg' = NoMessage
                   /\ Deliver(msg.m, msg.msg_type, data)
                \/ /\ kind = Last /\ msg.at = "packets"
                   /\ msg' = [msg EXCEPT !.data = data, !.done = TRUE]
                   /\ UNCHANGED seen
                \/ /\ kind = Mid
                   /\ msg' = [msg EXCEPT !.data = data]
                   /\ UNCHANGED seen
                \/ /\ kind \in {Sole, First}
                   /\ msg' = [msg EXCEPT !.at = "panicked"]
                   /\ UNCHANGED seen
    /\ UNCHANGED <<txVars, rx_torn, dropped>>

\* next returns None: the application has the whole message, unless the call
\* before has told it that the message was aborted.
packets_done ==
    /\ msg.at \in {"packets", "aborted"} /\ msg.done
    /\ IF msg.at = "packets" THEN Deliver(msg.m, msg.msg_type, msg.data) ELSE UNCHANGED seen
    /\ msg' = NoMessage
    /\ UNCHANGED <<txVars, wire, rx_nonce, packet_reader, rx_torn, dropped>>

\* The application drops a handle before the message's last packet is read:
\* nothing in the type system or in a destructor reads the rest.
message_dropped ==
    /\ "messageDropped" \in Faults
    /\ msg.at \in {"message", "bytes", "packets"}
    /\ msg' = NoMessage /\ dropped' = dropped \cup {msg.m}
    /\ UNCHANGED <<txVars, wire, rx_nonce, packet_reader, rx_torn, seen>>

\* A read is cancelled after read_frame has consumed part of a frame: the
\* stream and the receiver are out of step from then on.
read_cancelled ==
    /\ "readCancelled" \in Faults
    /\ msg.at \in {"none", "bytes", "packets"} /\ ~msg.done
    /\ wire # <<>> \/ writing
    /\ rx_torn' = TRUE
    /\ msg' = NoMessage
    /\ UNCHANGED <<txVars, wire, rx_nonce, packet_reader, dropped, seen>>

----------------------------------------------------------------------------
SendCall == \E t \in MsgTypes, n \in Lengths : send_message(t, n) \/ send_reader(t, n)

\* What the sender's runtime does on its own once a call has been made.
SendStep ==
    \/ send_slice_next \/ send_reader_full \/ send_reader_read \/ send_reader_eof
    \/ send_reader_return \/ abort_message_return \/ write_frame

RecvStep == read_message \/ read_bytes \/ into_packets \/ continue_message \/ packets_done

Fault == source_fails \/ write_fails \/ message_dropped \/ read_cancelled \/ drop_tx \/ drop_rx

Next == SendCall \/ abort_message \/ SendStep \/ RecvStep \/ Fault

Spec == Init /\ [][Next]_vars

\* Calls that have started run on, and the receiving application keeps reading.
FairSpec == Spec /\ WF_vars(SendStep) /\ WF_vars(RecvStep)

----------------------------------------------------------------------------
\* Properties

Delivered(m) == \E i \in Events({"message"}) : seen[i].m = m

\* What read_bytes returns, or the calls of next add up to, is the whole payload
\* of one message that was sent, under the type it was sent with: no packet is
\* lost from it, repeated in it or taken from another message, whatever calls
\* failed or were cancelled on either side before.  Only of a message whose
\* handle the application has dropped half read may it be given less, the tail.
MessageIntact ==
    \A i \in Events({"message"}) :
        LET e == seen[i]
            len == sent[e.m].len
        IN /\ e.msg_type = sent[e.m].msg_type
           /\ e.data = Bytes(e.m, len - Len(e.data), len)
           /\ e.m \notin dropped => Len(e.data) = len

\* Messages are delivered, or reported aborted, in the order in which they were
\* sent, each at most once and never both, and none is passed over: when the
\* application hears of a message it has heard of all those before it, unless it
\* has dropped their handles itself.
InOrder ==
    LET heard == Events({"message", "aborted", "rejected"}) IN
    \A i \in heard :
        /\ \A j \in heard : i < j => seen[i].m < seen[j].m
        /\ \A m \in 1..(seen[i].m - 1) \ dropped : \E j \in heard : j < i /\ seen[j].m = m

\* PacketReader::read accepts every packet that PacketBuilder stamps, whatever
\* the order of calls, failures and cancellations on both sides, but one: the
\* Abort of a message of which no packet was sent.
OnlyBareAbortRejected ==
    \A i \in Events({"rejected"}) :
        seen[i].kind = Abort /\ seen[i].err = "MissingMessageStart"

\* A frame whose nonce was consumed but which did not reach the stream whole
\* stops the receiver for good: no frame encrypted after it is ever decrypted,
\* so a caller that goes on using the connection after a failed or cancelled
\* send cannot make the peer skip a packet.
LostFrameStops == \A n \in lost : rx_nonce <= n

\* The unreachable!() arms of read_bytes and next are unreachable.
NoPanic == msg.at # "panicked"

\* They are as long as the application reads every message to its end, also if it
\* goes on calling next after an error: after a MessageAborted next answers None
\* and does not read into the message that follows.
PanicOnlyAfterDrop == msg.at = "panicked" => dropped # {}

\* next answers None only between two messages: when the message is complete, or
\* aborted, the packet that ended it is the last one read, and read_message can be
\* called with nothing left unread.
NoneMeansOver == msg.done => ~packet_reader.in_progress

\* send_slice and send_reader never ask PacketBuilder::pack for a packet when no
\* message is in progress (the NoMessageInProgress error is never returned), and
\* send_message leaves no message in progress when it returns Ok.
PackNeverRefused ==
    /\ call = "send_message" /\ taken < sent[cur].len => packet_builder.in_progress
    /\ call = "send_reader" => packet_builder.in_progress
    /\ sent # <<>> /\ sent[cur].how = "slice" /\ result[cur] = "ok"
          => ~packet_builder.in_progress

\* However a payload is cut up, and however the source of a send_reader doles it
\* out, no packet is larger than MAX_PACKET_SIZE, so that the 16-bit length prefix
\* of its frame (`n as u16`) is the length of the ciphertext.
FramesFit ==
    \A n \in DOMAIN frames :
        /\ Len(frames[n].payload) <= MAX_PACKET_SIZE
        /\ length_prefix(frames[n]) = ciphertext_len(frames[n])

\* The payload of a send_reader whose source holds a positive multiple of
\* MAX_PACKET_SIZE bytes: its last packet leaves as a First or a Mid.
Unterminated(m) ==
    sent[m].how = "reader" /\ sent[m].len > 0 /\ sent[m].len % MAX_PACKET_SIZE = 0

\* Ok means sent: of a message whose send returned Ok the application is never told
\* that it was aborted or rejected, whatever is called and whatever fails later, and
\* it has been given the message, unless it dropped it, by the time it has read all
\* there is.  (Unterminated messages are the exception that AckedNeverAborted is
\* about.)
AckedIsKept ==
    \A m \in DOMAIN sent : result[m] = "ok" /\ ~Unterminated(m) =>
        /\ \A i \in Events({"aborted", "rejected"}) : seen[i].m # m
        /\ rx_nonce = Len(frames) /\ msg.at = "none" => Delivered(m) \/ m \in dropped

\* A message whose send returned Ok is eventually delivered, as long as the
\* receiving application keeps reading.  (Unterminated messages are the
\* exception that AckedNeverAborted is about.)
AckedIsDelivered ==
    \A m \in 1..MaxMsgs :
        (m \in DOMAIN sent /\ result[m] = "ok" /\ ~Unterminated(m)) ~> Delivered(m)

\* A node that has let go of a connection, of both halves of its stream in either
\* order, does not leave the peer waiting: whatever the peer was reading,
\* read_message, read_bytes or next comes to the end of the stream.  (A node that
\* drops its MessageTx and keeps its MessageRx does leave it waiting.)
ReaderFinishes == StreamEnds ~> Events({"eof"}) # {}

\* abort_message is "safe to call speculatively": once send_message or
\* send_reader has returned Ok for a message it is a no-op, so the peer never
\* sees that message aborted.
AckedNeverAborted == \A i \in Events({"aborted"}) : result[seen[i].m] # "ok"

\* An abandoned message surfaces at the peer as MessageAborted: the packets of a
\* connection whose sender uses only send_message, send_reader and abort_message
\* are never answered by a PacketReadError.
AbortNeverRejected == Events({"rejected"}) = {}
============================================================================
