------------------------- MODULE PacketStateProofs -------------------------
(***************************************************************************)
(* PacketBuilder and PacketReader agree: a reader that sees every packet a *)
(* builder makes accepts it and stays in step with the builder.            *)
(***************************************************************************)
EXTENDS PacketState, TLAPS

\* Shifting a kind up by twelve bits and adding a 12-bit type loses neither.
LEMMA DivMod ==
    ASSUME NEW k \in Int, 0 <= k, k <= 4, NEW t \in Int, 0 <= t, t <= TYPE_MASK
    PROVE  /\ Header(k, t) \in Nat /\ Header(k, t) < 65536
           /\ HeaderKind(Header(k, t)) = k
           /\ HeaderType(Header(k, t)) = t
<1>1. t <= 4095  BY DEF TYPE_MASK
<1>2. Header(k, t) \in Nat  BY <1>1 DEF Header, KIND_UNIT
<1>3. Header(k, t) < 65536  BY <1>1 DEF Header, KIND_UNIT
<1>4. HeaderKind(Header(k, t)) = k  BY <1>1 DEF Header, HeaderKind, KIND_UNIT
<1>5. HeaderType(Header(k, t)) = t  BY <1>1 DEF Header, HeaderType, KIND_UNIT
<1>q. QED  BY <1>2, <1>3, <1>4, <1>5

\* What pack and abort write into the two header bytes, read decodes: for every
\* kind and every 12-bit type, the header fits in 16 bits and the shifts and
\* masks of read give back the kind and the type.
THEOREM HeaderRoundTrip ==
    ASSUME NEW kind \in PacketKind, NEW t \in 0..TYPE_MASK
    PROVE  /\ Header(kind, t) \in Nat /\ Header(kind, t) < 65536
           /\ HeaderKind(Header(kind, t)) = kind
           /\ HeaderType(Header(kind, t)) = t
<1>1. kind \in Int /\ 0 <= kind /\ kind <= 4
  BY DEF PacketKind, Sole, First, Mid, Last, Abort
<1>2. t \in Int /\ 0 <= t /\ t <= TYPE_MASK
  BY DEF TYPE_MASK
<1>q. QED  BY <1>1, <1>2, DivMod

\* What read does to its state, by the kind of the packet it accepts.
LEMMA ReadNextIs ==
    ASSUME NEW r, NEW h
    PROVE  /\ HeaderKind(h) = First =>
                ReadNext(r, h) = [in_progress |-> TRUE, msg_type |-> HeaderType(h)]
           /\ HeaderKind(h) \in {Last, Abort} => ReadNext(r, h) = NewReader
           /\ HeaderKind(h) \in {Sole, Mid} => ReadNext(r, h) = r
<1>1. HeaderKind(h) = First =>
        ReadNext(r, h) = [in_progress |-> TRUE, msg_type |-> HeaderType(h)]
  BY DEF ReadNext, First, Last, Abort
<1>2. HeaderKind(h) \in {Last, Abort} => ReadNext(r, h) = NewReader
  BY DEF ReadNext, First, Last, Abort
<1>3. HeaderKind(h) \in {Sole, Mid} => ReadNext(r, h) = r
  BY DEF ReadNext, Sole, First, Mid, Last, Abort
<1>q. QED  BY <1>1, <1>2, <1>3

\* The reader has a message open exactly when the builder has one open of which
\* it has made a packet, and it is the same one.
InStep(b, r) ==
    /\ r.in_progress <=> (b.in_progress /\ ~b.is_first)
    /\ r.in_progress => r.msg_type = b.msg_type

\* New halves of a connection are in step, and prepare keeps them so.
THEOREM InStepAtStart ==
    /\ InStep(NewBuilder, NewReader)
    /\ \A b \in PacketBuilder, r \in PacketReader, t \in 0..TYPE_MASK :
          InStep(b, r) /\ PrepareOk(b, t) => InStep(Prepared(b, t), r)
  BY DEF InStep, NewBuilder, NewReader, PrepareOk, Prepared, PacketBuilder, PacketReader

\* Every packet that pack makes is accepted by read, and the two are in step
\* afterwards, whatever the payload and wherever in the message the packet is.
THEOREM PackAccepted ==
    ASSUME NEW b \in PacketBuilder, NEW r \in PacketReader, NEW last \in BOOLEAN,
           NEW len \in Nat, len >= 2,
           InStep(b, r), b.in_progress
    PROVE  /\ ReadError(r, len, PackHeader(b, last)) = "none"
           /\ InStep(Packed(b, last), ReadNext(r, PackHeader(b, last)))
<1> DEFINE kind == PackKind(b, last)
           header == PackHeader(b, last)
<1>1. kind \in PacketKind /\ b.msg_type \in 0..TYPE_MASK
  BY DEF PackKind, PacketKind, PacketBuilder
<1>2. HeaderKind(header) = kind /\ HeaderType(header) = b.msg_type
  BY <1>1, HeaderRoundTrip DEF PackHeader
<1>3. /\ b.is_first => ~r.in_progress /\ kind \in {Sole, First}
      /\ ~b.is_first => r.in_progress /\ r.msg_type = b.msg_type /\ kind \in {Mid, Last}
  BY DEF InStep, PackKind, PacketBuilder
<1>4. Sole = 0 /\ First = 1 /\ Mid = 2 /\ Last = 3 /\ Abort = 4
  BY DEF Sole, First, Mid, Last, Abort
<1> HIDE DEF kind, header
<1>5. ReadError(r, len, header) = "none"
  <2>1. CASE b.is_first
    BY <1>1, <1>2, <1>3, <2>1 DEF ReadError
  <2>2. CASE ~b.is_first
    BY <1>1, <1>2, <1>3, <1>4, <2>2 DEF ReadError
  <2>q. QED  BY <2>1, <2>2
<1>6. InStep(Packed(b, last), ReadNext(r, header))
  <2>1. Packed(b, last).in_progress = ~last /\ Packed(b, last).is_first = FALSE
        /\ Packed(b, last).msg_type = b.msg_type
    BY DEF Packed, PacketBuilder
  <2>2. kind = IF b.is_first THEN (IF last THEN Sole ELSE First)
               ELSE (IF last THEN Last ELSE Mid)
    BY DEF kind, PackKind
  <2>3. CASE b.is_first /\ last
    BY Zenon, <1>2, <1>3, <2>1, <2>2, <2>3, ReadNextIs DEF InStep
  <2>4. CASE b.is_first /\ ~last
    <3>1. ReadNext(r, header) = [in_progress |-> TRUE, msg_type |-> b.msg_type]
      BY <1>2, <2>2, <2>4, ReadNextIs
    <3>2. /\ ReadNext(r, header).in_progress = TRUE
          /\ ReadNext(r, header).msg_type = b.msg_type
      BY <3>1
    <3>q. QED  BY Zenon, <2>1, <2>4, <3>2 DEF InStep
  <2>5. CASE ~b.is_first /\ last
    <3>1. ReadNext(r, header) = NewReader
      BY <1>2, <2>2, <2>5, ReadNextIs
    <3>2. ReadNext(r, header).in_progress = FALSE
      BY <3>1 DEF NewReader
    <3>q. QED  BY Zenon, <2>1, <2>5, <3>2 DEF InStep
  <2>6. CASE ~b.is_first /\ ~last
    BY Zenon, <1>2, <1>3, <2>1, <2>2, <2>6, ReadNextIs DEF InStep
  <2>q. QED  BY <2>3, <2>4, <2>5, <2>6
<1>q. QED  BY <1>5, <1>6 DEF header

\* An abort is accepted, and leaves the two in step, if and only if a packet of
\* the message was made before it; otherwise read answers MissingMessageStart.
THEOREM AbortAccepted ==
    ASSUME NEW b \in PacketBuilder, NEW r \in PacketReader, NEW len \in Nat, len >= 2,
           InStep(b, r), b.in_progress
    PROVE  /\ ~b.is_first => /\ ReadError(r, len, AbortHeader(b)) = "none"
                             /\ InStep(Aborted(b), ReadNext(r, AbortHeader(b)))
           /\ b.is_first => /\ ReadError(r, len, AbortHeader(b)) = "MissingMessageStart"
                            /\ InStep(Aborted(b), r)
<1>1. Abort \in PacketKind /\ b.msg_type \in 0..TYPE_MASK
  BY DEF PacketKind, PacketBuilder
<1>2. HeaderKind(AbortHeader(b)) = Abort /\ HeaderType(AbortHeader(b)) = b.msg_type
  BY <1>1, HeaderRoundTrip DEF AbortHeader
<1>3. Sole = 0 /\ First = 1 /\ Mid = 2 /\ Last = 3 /\ Abort = 4
  BY DEF Sole, First, Mid, Last, Abort
<1>4. ~Aborted(b).in_progress
  BY DEF Aborted, PacketBuilder
<1>5. ~b.is_first => r.in_progress /\ r.msg_type = b.msg_type
  BY DEF InStep
<1>6. b.is_first => ~r.in_progress
  BY DEF InStep
<1>7. ~b.is_first => ReadError(r, len, AbortHeader(b)) = "none"
  BY <1>1, <1>2, <1>3, <1>5 DEF ReadError
<1>8. ~b.is_first => InStep(Aborted(b), ReadNext(r, AbortHeader(b)))
  BY <1>2, <1>4, ReadNextIs DEF NewReader, InStep
<1>9. b.is_first => ReadError(r, len, AbortHeader(b)) = "MissingMessageStart"
  BY <1>1, <1>2, <1>3, <1>6 DEF ReadError
<1>10. b.is_first => InStep(Aborted(b), r)
  BY <1>4, <1>6 DEF InStep
<1>q. QED  BY <1>7, <1>8, <1>9, <1>10
============================================================================
