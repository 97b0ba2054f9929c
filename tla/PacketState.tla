---------------------------- MODULE PacketState ----------------------------
(***************************************************************************)
(* The two packet state machines of src/packet_state.rs as operators on    *)
(* their states: PacketBuilder, which stamps a 2-byte header on every      *)
(* packet of a message, and PacketReader, which decodes the header and     *)
(* checks that packets arrive in an order that makes up messages.          *)
(*                                                                         *)
(* A builder or a reader is a record with the fields of the Rust struct    *)
(* (PacketBuilder::buf is scratch space and left out).  A header is the    *)
(* 16-bit integer that goes on the wire.                                   *)
(***************************************************************************)
EXTENDS Integers

Sole  == 0
First == 1
Mid   == 2
Last  == 3
Abort == 4
PacketKind == {Sole, First, Mid, Last, Abort}

KIND_UNIT == 4096      \* 1 << KIND_SHIFT
TYPE_MASK == 4095

\* A frame is a 16-bit length and a ciphertext of at most that length: a tag, the
\* two bytes of the header, and the payload.
MAX_CIPHERTEXT_SIZE == 65535
CIPHER_OVERHEAD_SIZE == 16
MAX_RAW_PACKET_SIZE == MAX_CIPHERTEXT_SIZE - CIPHER_OVERHEAD_SIZE

Header(kind, msg_type) == kind * KIND_UNIT + msg_type
HeaderKind(header) == header \div KIND_UNIT
HeaderType(header) == header % KIND_UNIT

----------------------------------------------------------------------------
\* PacketBuilder

PacketBuilder == [in_progress : BOOLEAN, is_first : BOOLEAN, msg_type : 0..TYPE_MASK]

NewBuilder == [in_progress |-> FALSE, is_first |-> FALSE, msg_type |-> 0]

\* Mutant: the type is not checked against TYPE_MASK.
PrepareOk_AnyType(b, msg_type) == ~b.in_progress

\* The two refusals of `prepare`; when neither applies it opens a message.
PrepareOk(b, msg_type) == msg_type <= TYPE_MASK /\ ~b.in_progress

Prepared(b, msg_type) ==
    [in_progress |-> TRUE, is_first |-> TRUE, msg_type |-> msg_type]

\* Mutant: the last packet of a longer message is not marked.
PackKind_NoLast(b, last) == IF ~b.is_first THEN Mid ELSE IF last THEN Sole ELSE First

\* The kind `pack` gives a packet of a message in progress.
PackKind(b, last) ==
    IF b.is_first THEN (IF last THEN Sole ELSE First)
                  ELSE (IF last THEN Last ELSE Mid)

PackHeader(b, last) == Header(PackKind(b, last), b.msg_type)

\* Mutant: every packet closes the message.
Packed_Closes(b, last) == [b EXCEPT !.is_first = FALSE, !.in_progress = FALSE]

Packed(b, last) == [b EXCEPT !.is_first = FALSE, !.in_progress = ~last]

\* `abort` of a message in progress: the packet's header and the new state.
AbortHeader(b) == Header(Abort, b.msg_type)

Aborted(b) == [b EXCEPT !.in_progress = FALSE, !.is_first = TRUE]

----------------------------------------------------------------------------
\* PacketReader

PacketReader == [in_progress : BOOLEAN, msg_type : 0..TYPE_MASK]

NewReader == [in_progress |-> FALSE, msg_type |-> 0]

PacketReadError == {"PacketTooShort", "UnknownKind", "UnexpectedMessageStart",
                    "MissingMessageStart", "MessageTypeChange"}

\* PacketReader::read, the error it returns ("none" when it accepts).  The
\* argument `header` is the first two bytes of the decrypted packet; `len` is
\* the packet's length.
ReadError(r, len, header) ==
    LET kind == HeaderKind(header) IN
    CASE len < 2 -> "PacketTooShort"
      [] len >= 2 /\ kind \notin PacketKind -> "UnknownKind"
      [] len >= 2 /\ kind \in {Sole, First} ->
            IF r.in_progress THEN "UnexpectedMessageStart" ELSE "none"
      [] OTHER ->
            IF ~r.in_progress THEN "MissingMessageStart"
            ELSE IF r.msg_type # HeaderType(header) THEN "MessageTypeChange"
            ELSE "none"

\* Mutant: an Abort leaves the reader in the message.
ReadNext_AbortStays(r, header) ==
    CASE HeaderKind(header) = First ->
            [in_progress |-> TRUE, msg_type |-> HeaderType(header)]
      [] HeaderKind(header) = Last -> NewReader
      [] OTHER -> r

\* PacketReader::read, the state after it accepts a packet.
ReadNext(r, header) ==
    CASE HeaderKind(header) = First ->
            [in_progress |-> TRUE, msg_type |-> HeaderType(header)]
      [] HeaderKind(header) \in {Last, Abort} -> NewReader
      [] OTHER -> r
============================================================================
