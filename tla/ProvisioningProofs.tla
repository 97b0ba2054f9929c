------------------------- MODULE ProvisioningProofs -------------------------
(***************************************************************************)
(* The safety of provisioning for any nodes, identities, key and signature *)
(* lengths, and any number of keys, signatures and mistakes.               *)
(***************************************************************************)
EXTENDS Provisioning, SequenceTheorems, TLAPS

----------------------------------------------------------------------------
\* Byte strings.

ByteString(s) == s \in Seq({s[i] : i \in DOMAIN s})

\* A sequence over any set is a byte string.
LEMMA StringOver ==
    ASSUME NEW S, NEW s \in Seq(S)
    PROVE  ByteString(s)
  BY DEF ByteString

\* Strings of one kind of byte, which keys and signatures are.
LEMMA RepeatIs ==
    ASSUME NEW kind, NEW of, NEW n \in Nat
    PROVE  /\ ByteString(Repeat(kind, of, n)) /\ Len(Repeat(kind, of, n)) = n
           /\ DOMAIN Repeat(kind, of, n) = 1..n
           /\ \A i \in 1..n : Repeat(kind, of, n)[i] = <<kind, of, i>>
<1> DEFINE S == {<<kind, of, i>> : i \in 1..n}
<1>1. Repeat(kind, of, n) \in Seq(S)
  BY DEF Repeat
<1>2. \A i \in 1..n : Repeat(kind, of, n)[i] = <<kind, of, i>>
  BY DEF Repeat
<1>3. DOMAIN Repeat(kind, of, n) = 1..n
  BY DEF Repeat
<1>4. Len(Repeat(kind, of, n)) = n
  BY <1>1, <1>3
<1>5. ByteString(Repeat(kind, of, n))
  BY Zenon, <1>1, StringOver
<1>q. QED  BY <1>2, <1>3, <1>4, <1>5

\* What a byte string has in any case.
LEMMA StringIs ==
    ASSUME NEW s, ByteString(s)
    PROVE  Len(s) \in Nat /\ DOMAIN s = 1..Len(s) /\ s \in Seq({s[i] : i \in 1..Len(s)})
<1>1. PICK S : s \in Seq(S)
  BY DEF ByteString
<1>q. QED  BY <1>1

\* Two strings, one after the other.
Joined(s, t, r) ==
    /\ ByteString(r) /\ Len(r) = Len(s) + Len(t)
    /\ \A i \in 1..Len(s) : r[i] = s[i]
    /\ \A i \in 1..Len(t) : r[Len(s) + i] = t[i]

\* That is what \o makes of them.
LEMMA JoinIs ==
    ASSUME NEW s, NEW t, ByteString(s), ByteString(t)
    PROVE  Joined(s, t, s \o t)
<1>1. PICK S : s \in Seq(S)
  BY DEF ByteString
<1>2. PICK T : t \in Seq(T)
  BY DEF ByteString
<1>3. s \in Seq(S \cup T) /\ t \in Seq(S \cup T)
  BY <1>1, <1>2
<1>4. s \o t \in Seq(S \cup T)
  BY <1>3
<1>5. /\ Len(s \o t) = Len(s) + Len(t)
      /\ \A i \in 1..(Len(s) + Len(t)) :
                (s \o t)[i] = IF i <= Len(s) THEN s[i] ELSE t[i - Len(s)]
  BY <1>3, ConcatProperties
<1>6. Len(s) \in Nat /\ Len(t) \in Nat
  BY <1>3
<1>7. /\ \A i \in 1..Len(s) : (s \o t)[i] = s[i]
      /\ \A i \in 1..Len(t) : (s \o t)[Len(s) + i] = t[i]
  BY <1>5, <1>6
<1>8. ByteString(s \o t)
  BY Zenon, <1>4, StringOver
<1>q. QED  BY Zenon, <1>5, <1>7, <1>8 DEF Joined

\* Part of a string.
LEMMA PartIs ==
    ASSUME NEW s, ByteString(s), NEW a \in 1..(Len(s) + 1), NEW b \in (a - 1)..Len(s)
    PROVE  /\ ByteString(SubSeq(s, a, b)) /\ Len(SubSeq(s, a, b)) = b - a + 1
           /\ \A i \in 1..(b - a + 1) : SubSeq(s, a, b)[i] = s[a + i - 1]
<1>1. PICK S : s \in Seq(S)
  BY DEF ByteString
<1>2. Len(s) \in Nat
  BY <1>1
<1>3. SubSeq(s, a, b) \in Seq(S)
  BY <1>1, <1>2, SubSeqProperties
<1>4. /\ Len(SubSeq(s, a, b)) = b - a + 1
      /\ \A i \in 1..(b - a + 1) : SubSeq(s, a, b)[i] = s[a + i - 1]
  BY <1>1, <1>2, SubSeqProperties
<1>q. QED  BY Zenon, <1>3, <1>4, StringOver

\* Strings with the same bytes are the same.
LEMMA SameString ==
    ASSUME NEW s, NEW t, ByteString(s), ByteString(t), Len(s) = Len(t),
           \A i \in 1..Len(s) : s[i] = t[i]
    PROVE  s = t
<1>1. PICK S : s \in Seq(S)
  BY DEF ByteString
<1>2. PICK T : t \in Seq(T)
  BY DEF ByteString
<1>3. s \in Seq(S \cup T) /\ t \in Seq(S \cup T)
  BY <1>1, <1>2
<1>q. QED  BY <1>3, SeqEqual

----------------------------------------------------------------------------
\* Keys.

\* The lengths in the code are no lengths of nothing.
LEMMA Lengths == KEY_LEN \in Nat /\ KEY_LEN > 0 /\ SIGNATURE_LEN \in Nat /\ SIGNATURE_LEN > 0
  BY AuthAssumption

\* The fields of results.
LEMMA ResultIs ==
    /\ \A v : Ok(v).ok /\ Ok(v).val = v
    /\ \A e : ~Err(e).ok
    /\ \A v, w : Ok(v) = Ok(w) => v = w
  BY DEF Ok, Err

\* Keys are byte strings of the right length.
LEMMA KeyIs ==
    ASSUME NEW private
    PROVE  /\ ByteString(x25519_public(private)) /\ Len(x25519_public(private)) = KEY_LEN
           /\ ByteString(ed25519_public(private)) /\ Len(ed25519_public(private)) = KEY_LEN
           /\ OnCurve(ed25519_public(private))
           /\ \A i \in 1..KEY_LEN : /\ x25519_public(private)[i] = <<"x25519", private, i>>
                                   /\ ed25519_public(private)[i] = <<"ed25519", private, i>>
<1>1. /\ ByteString(x25519_public(private)) /\ Len(x25519_public(private)) = KEY_LEN
      /\ ByteString(ed25519_public(private)) /\ Len(ed25519_public(private)) = KEY_LEN
      /\ \A i \in 1..KEY_LEN : /\ x25519_public(private)[i] = <<"x25519", private, i>>
                              /\ ed25519_public(private)[i] = <<"ed25519", private, i>>
  BY Zenon, RepeatIs, Lengths DEF x25519_public, ed25519_public
<1>2. OnCurve(ed25519_public(private))
  <2>1. \A i \in 1..Len(ed25519_public(private)) : ed25519_public(private)[i][1] = "ed25519"
    BY <1>1
  <2>q. QED  BY Zenon, <2>1 DEF OnCurve
<1>q. QED  BY Zenon, <1>1, <1>2

\* Secrets are byte strings of the right length, too.
LEMMA SecretIs ==
    ASSUME NEW n
    PROVE  /\ ByteString(OsRng(n)) /\ Len(OsRng(n)) = KEY_LEN
           /\ \A i \in 1..KEY_LEN : OsRng(n)[i] = <<"secret", n, i>>
  BY Zenon, RepeatIs, Lengths DEF OsRng

\* Whatever format a key of the right length is written in, it is read back.
LEMMA KeyRoundTrip ==
    ASSUME NEW key, Len(key) = KEY_LEN, NEW human \in BOOLEAN
    PROVE  KeyItem(to_item(human, key)) = Ok(key) /\ KeyText(hex_encode(key)) = Ok(key)
<1>1. KeyArray(key) = Ok(key)
  BY DEF KeyArray
<1>2. from_item(to_item(human, key)) = Ok(key)
  BY DEF from_item, to_item, hex_encode, raw_bytes, hex_decode
<1>3. hex_decode(hex_encode(key)) = Ok(key)
  BY DEF hex_encode, hex_decode
<1>4. KeyItem(to_item(human, key)) = Ok(key)
  BY Zenon, <1>1, <1>2, ResultIs DEF KeyItem, AndThen, map_err
<1>5. KeyText(hex_encode(key)) = Ok(key)
  BY Zenon, <1>1, <1>3, ResultIs DEF KeyText, AndThen, map_err
<1>q. QED  BY Zenon, <1>4, <1>5

\* So is a verification key that is a point of the curve.
LEMMA PointRoundTrip ==
    ASSUME NEW key, Len(key) = KEY_LEN, OnCurve(key), NEW human \in BOOLEAN
    PROVE  /\ SignatureVerificationKey_deserialize(SignatureVerificationKey_serialize(human, key)) = Ok(key)
           /\ SignatureVerificationKey_try_from(SignatureVerificationKey_to_string(key)) = Ok(key)
<1>1. SignatureVerificationKey_from(key) = Ok(key)
  BY Zenon DEF SignatureVerificationKey_from
<1>2. KeyItem(to_item(human, key)) = Ok(key) /\ KeyText(hex_encode(key)) = Ok(key)
  BY Zenon, KeyRoundTrip
<1>3. SignatureVerificationKey_deserialize(SignatureVerificationKey_serialize(human, key)) = Ok(key)
  BY Zenon, <1>1, <1>2, ResultIs
     DEF SignatureVerificationKey_deserialize, SignatureVerificationKey_serialize, AndThen, map_err
<1>4. SignatureVerificationKey_try_from(SignatureVerificationKey_to_string(key)) = Ok(key)
  BY Zenon, <1>1, <1>2, ResultIs
     DEF SignatureVerificationKey_try_from, SignatureVerificationKey_to_string, AndThen
<1>q. QED  BY Zenon, <1>3, <1>4

\* A file's text is read back whatever it is of.
LEMMA BytesRoundTrip ==
    ASSUME NEW data, NEW human \in BOOLEAN
    PROVE  /\ SignedAuthHeader_deserialize(SignedAuthHeader_serialize(human, data)) = Ok(data)
           /\ SignedAuthHeader_try_from(SignedAuthHeader_expose_to_human_string(data)) = Ok(data)
  BY DEF SignedAuthHeader_deserialize, SignedAuthHeader_serialize, SignedAuthHeader_try_from,
         SignedAuthHeader_expose_to_human_string, map_err, from_item, to_item, hex_encode, raw_bytes,
         hex_decode, Ok

\* Generating keypairs does not fail, and gives the two halves of a key.
LEMMA Generated ==
    ASSUME NEW n
    PROVE  /\ SignatureKeypair_generate(n) = Ok([public |-> ed25519_public(OsRng(n)), private |-> OsRng(n)])
           /\ TransportKeypair_generate(n) = Ok([public |-> x25519_public(OsRng(n)), private |-> OsRng(n)])
<1>1. SignatureVerificationKey_from(ed25519_public(OsRng(n))) = Ok(ed25519_public(OsRng(n)))
  BY Zenon, KeyIs DEF SignatureVerificationKey_from
<1>2. KeyArray(x25519_public(OsRng(n))) = Ok(x25519_public(OsRng(n)))
  BY Zenon, KeyIs DEF KeyArray
<1>3. SignatureKeypair_generate(n) = Ok([public |-> ed25519_public(OsRng(n)), private |-> OsRng(n)])
  BY Zenon, <1>1, ResultIs DEF SignatureKeypair_generate, map_err, AndThen
<1>4. KeyArray(OsRng(n)) = Ok(OsRng(n))
  BY Zenon, SecretIs DEF KeyArray
<1>5. TransportKeypair_generate(n) = Ok([public |-> x25519_public(OsRng(n)), private |-> OsRng(n)])
  BY Zenon, <1>2, <1>4, ResultIs DEF TransportKeypair_generate, map_err, AndThen
<1>q. QED  BY Zenon, <1>3, <1>5

----------------------------------------------------------------------------
\* Auth headers.

\* An optional role.
Role(role) == role = <<>> \/ role = <<role[1]>>

\* The frames a header is signed in: as to_yatlv makes them, and with the field of
\* a later version.
Later == <<field(TAG_ROLE + 1, <<>>)>>
Frames(h) == {to_yatlv(h), to_yatlv(h) \o Later, Later \o to_yatlv(h)}

\* The first field of a tag is the one get_data finds.
LEMMA FirstField ==
    ASSUME NEW data, Len(data) \in Nat, NEW tag, NEW i \in 1..Len(data), data[i][3] = tag,
           \A j \in 1..Len(data) : data[j][3] = tag => i <= j
    PROVE  get_data(data, tag) = Ok(data[i][2])
<1> DEFINE at == {j \in 1..Len(data) : data[j][3] = tag}
<1>1. i \in at /\ at # {}
  BY Zenon
<1>2. i = CHOOSE k \in at : \A j \in at : k <= j
  <2>1. i \in at /\ \A j \in at : i <= j
    BY Zenon, <1>1
  <2>2. \A k \in at : (\A j \in at : k <= j) => k = i
    BY <2>1
  <2> HIDE DEF at
  <2>q. QED  BY Zenon, <2>1, <2>2
<1>q. QED  BY Zenon, <1>1, <1>2 DEF get_data

\* A field that is not there is missing.
LEMMA NoField ==
    ASSUME NEW data, NEW tag, \A j \in 1..Len(data) : data[j][3] # tag
    PROVE  get_data(data, tag) = Err("MissingField")
<1>1. {j \in 1..Len(data) : data[j][3] = tag} = {}
  BY Zenon
<1>q. QED  BY Zenon, <1>1 DEF get_data

\* What to_yatlv makes of a header.
LEMMA YatlvIs ==
    ASSUME NEW h, Role(h.role)
    PROVE  /\ ByteString(to_yatlv(h))
           /\ to_yatlv(h)[1] = field(TAG_NODE_ID, h.node_id)
           /\ to_yatlv(h)[2] = field(TAG_PUBLIC_KEY, h.public_key)
           /\ h.role = <<>> => Len(to_yatlv(h)) = 2
           /\ h.role # <<>> => /\ Len(to_yatlv(h)) = 3 /\ h.role = <<h.role[1]>>
                              /\ to_yatlv(h)[3] = field(TAG_ROLE, h.role[1])
<1> DEFINE two == <<field(TAG_NODE_ID, h.node_id), field(TAG_PUBLIC_KEY, h.public_key)>>
           third == [i \in 1..Len(h.role) |-> field(TAG_ROLE, h.role[i])]
<1>1. to_yatlv(h) = two \o third
  BY Zenon DEF to_yatlv
<1>2. /\ two \in Seq({two[1], two[2]}) /\ Len(two) = 2
      /\ two[1] = field(TAG_NODE_ID, h.node_id) /\ two[2] = field(TAG_PUBLIC_KEY, h.public_key)
  OBVIOUS
<1>3. /\ third \in Seq({field(TAG_ROLE, h.role[1])}) /\ Len(third) = Len(h.role)
      /\ Len(h.role) \in {0, 1} /\ (Len(h.role) = 0 <=> h.role = <<>>)
      /\ h.role # <<>> => third[1] = field(TAG_ROLE, h.role[1])
  <2>1. CASE h.role = <<>>
    <3>1. Len(h.role) = 0
      BY <2>1
    <3>2. third = <<>>
      BY <3>1
    <3>q. QED  BY <2>1, <3>1, <3>2
  <2>2. CASE h.role # <<>>
    <3>1. h.role = <<h.role[1]>> /\ Len(h.role) = 1
      <4>1. h.role = <<h.role[1]>>
        BY Zenon, <2>2 DEF Role
      <4>2. \A x : Len(<<x>>) = 1
        OBVIOUS
      <4>q. QED  BY Zenon, <4>1, <4>2
    <3>2. /\ third = <<field(TAG_ROLE, h.role[1])>>
      BY <3>1
    <3>q. QED  BY <2>2, <3>1, <3>2
  <2>q. QED  BY Zenon, <2>1, <2>2
<1> HIDE DEF two, third
<1>4. ByteString(two) /\ ByteString(third)
  BY Zenon, <1>2, <1>3, StringOver
<1>5. /\ ByteString(two \o third) /\ Len(two \o third) = 2 + Len(third)
      /\ \A i \in 1..2 : (two \o third)[i] = two[i]
      /\ \A i \in 1..Len(third) : (two \o third)[2 + i] = third[i]
  <2>1. Joined(two, third, two \o third)
    BY Zenon, <1>4, JoinIs
  <2>2. Len(two) = 2
    BY Zenon, <1>2
  <2>q. QED  BY Zenon, <2>1, <2>2 DEF Joined
<1>6. /\ (two \o third)[1] = field(TAG_NODE_ID, h.node_id)
      /\ (two \o third)[2] = field(TAG_PUBLIC_KEY, h.public_key)
  BY <1>2, <1>5
<1>7. h.role = <<>> => Len(two \o third) = 2
  BY <1>3, <1>5
<1>8. ASSUME h.role # <<>>
      PROVE  Len(two \o third) = 3 /\ (two \o third)[3] = field(TAG_ROLE, h.role[1])
  <2>1. Len(third) = 1 /\ third[1] = field(TAG_ROLE, h.role[1])
    BY <1>3, <1>8
  <2>q. QED  BY <1>5, <2>1
<1>9. h.role # <<>> => h.role = <<h.role[1]>>
  BY Zenon DEF Role
<1>q. QED  BY Zenon, <1>1, <1>5, <1>6, <1>7, <1>8, <1>9

\* The fields of a header in a frame with o fields before them.
Layout(data, h, o) ==
    /\ Len(data) \in Nat /\ o + 1 \in 1..Len(data) /\ o + 2 \in 1..Len(data)
    /\ \A j \in 1..Len(data) : /\ data[j][1] = "field"
                               /\ data[j][3] = TAG_NODE_ID => j = o + 1
                               /\ data[j][3] = TAG_PUBLIC_KEY => j = o + 2
                               /\ data[j][3] = TAG_ROLE => h.role # <<>> /\ j = o + 3
    /\ data[o + 1][3] = TAG_NODE_ID /\ data[o + 1][2] = h.node_id
    /\ data[o + 2][3] = TAG_PUBLIC_KEY /\ data[o + 2][2] = h.public_key
    /\ h.role # <<>> => /\ o + 3 \in 1..Len(data) /\ data[o + 3][3] = TAG_ROLE
                       /\ h.role = <<data[o + 3][2]>>

\* Every frame a header is signed in is laid out like that.
LEMMA FrameLayout ==
    ASSUME NEW h, Role(h.role), NEW frame \in Frames(h)
    PROVE  ByteString(frame) /\ \E o \in {0, 1} : Layout(frame, h, o)
<1> DEFINE y == to_yatlv(h)
<1>y. /\ ByteString(y)
      /\ y[1] = field(TAG_NODE_ID, h.node_id) /\ y[2] = field(TAG_PUBLIC_KEY, h.public_key)
      /\ h.role = <<>> => Len(y) = 2
      /\ h.role # <<>> => /\ Len(y) = 3 /\ h.role = <<h.role[1]>>
                         /\ y[3] = field(TAG_ROLE, h.role[1])
  BY Zenon, YatlvIs
<1>l. ByteString(Later) /\ Len(Later) = 1 /\ Later[1] = field(TAG_ROLE + 1, <<>>)
  <2>1. Later \in Seq({Later[1]}) /\ Len(Later) = 1 /\ Later[1] = field(TAG_ROLE + 1, <<>>)
    BY DEF Later
  <2>q. QED  BY Zenon, <2>1, StringOver
<1> HIDE DEF y
<1>1. CASE frame = y
  <2>1. Layout(y, h, 0)
    <3>1. CASE h.role = <<>>
      BY <1>y, <3>1 DEF Layout, field, TAG_NODE_ID, TAG_PUBLIC_KEY, TAG_ROLE
    <3>2. CASE h.role # <<>>
      BY <1>y, <3>2 DEF Layout, field, TAG_NODE_ID, TAG_PUBLIC_KEY, TAG_ROLE
    <3>q. QED  BY Zenon, <3>1, <3>2
  <2>q. QED  BY Zenon, <1>1, <1>y, <2>1
<1>2. CASE frame = y \o Later
  <2>1. Joined(y, Later, frame)
    BY Zenon, <1>2, <1>y, <1>l, JoinIs
  <2>2. Layout(frame, h, 0)
    <3>1. CASE h.role = <<>>
      <4>0. Len(y) = 2
        BY Zenon, <1>y, <3>1
      <4>1. /\ Len(frame) = 2 + 1 /\ \A i \in 1..2 : frame[i] = y[i]
            /\ \A i \in 1..1 : frame[2 + i] = Later[i]
        BY Zenon, <1>l, <2>1, <4>0 DEF Joined
      <4>2. /\ Len(frame) = 3 /\ frame[1] = y[1] /\ frame[2] = y[2]
            /\ frame[3] = field(TAG_ROLE + 1, <<>>)
        BY <1>l, <4>1
      <4>q. QED  BY <1>y, <3>1, <4>2 DEF Layout, field, TAG_NODE_ID, TAG_PUBLIC_KEY, TAG_ROLE
    <3>2. CASE h.role # <<>>
      <4>0. Len(y) = 3
        BY Zenon, <1>y, <3>2
      <4>1. /\ Len(frame) = 3 + 1 /\ \A i \in 1..3 : frame[i] = y[i]
            /\ \A i \in 1..1 : frame[3 + i] = Later[i]
        BY Zenon, <1>l, <2>1, <4>0 DEF Joined
      <4>2. /\ Len(frame) = 4 /\ frame[1] = y[1] /\ frame[2] = y[2] /\ frame[3] = y[3]
            /\ frame[4] = field(TAG_ROLE + 1, <<>>)
        BY <1>l, <4>1
      <4>q. QED  BY <1>y, <3>2, <4>2 DEF Layout, field, TAG_NODE_ID, TAG_PUBLIC_KEY, TAG_ROLE
    <3>q. QED  BY Zenon, <3>1, <3>2
  <2>3. \E o \in {0, 1} : Layout(frame, h, o)
    BY Zenon, <2>2
  <2>q. QED  BY Zenon, <2>1, <2>3 DEF Joined
<1>3. CASE frame = Later \o y
  <2>1. Joined(Later, y, frame)
    BY Zenon, <1>3, <1>y, <1>l, JoinIs
  <2>2. Layout(frame, h, 1)
    <3>0. /\ Len(frame) = 1 + Len(y) /\ \A i \in 1..1 : frame[i] = Later[i]
          /\ \A i \in 1..Len(y) : frame[1 + i] = y[i]
      BY Zenon, <1>l, <2>1 DEF Joined
    <3>3. frame[1] = field(TAG_ROLE + 1, <<>>)
      BY <1>l, <3>0
    <3>1. CASE h.role = <<>>
      <4>0. Len(y) = 2
        BY Zenon, <1>y, <3>1
      <4>1. Len(frame) = 3 /\ frame[2] = y[1] /\ frame[3] = y[2]
        BY <3>0, <4>0
      <4>q. QED  BY <1>y, <3>1, <3>3, <4>1 DEF Layout, field, TAG_NODE_ID, TAG_PUBLIC_KEY, TAG_ROLE
    <3>2. CASE h.role # <<>>
      <4>0. Len(y) = 3
        BY Zenon, <1>y, <3>2
      <4>1. Len(frame) = 4 /\ frame[2] = y[1] /\ frame[3] = y[2] /\ frame[4] = y[3]
        BY <3>0, <4>0
      <4>q. QED  BY <1>y, <3>2, <3>3, <4>1 DEF Layout, field, TAG_NODE_ID, TAG_PUBLIC_KEY, TAG_ROLE
    <3>q. QED  BY Zenon, <3>1, <3>2
  <2>3. \E o \in {0, 1} : Layout(frame, h, o)
    BY Zenon, <2>2
  <2>q. QED  BY Zenon, <2>1, <2>3 DEF Joined
<1>q. QED  BY Zenon, <1>1, <1>2, <1>3 DEF Frames, y

\* Such a frame holds one header at most: the one it was made from, if its node id
\* and its key have lengths that from_yatlv takes.
LEMMA LayoutReads ==
    ASSUME NEW data, NEW h, NEW o \in {0, 1}, Layout(data, h, o)
    PROVE  from_yatlv(data) = IF NodeId_try_from_bytes(h.node_id).ok /\ Len(h.public_key) = KEY_LEN
                              THEN Ok(AuthHeader_new(h.node_id, h.role, h.public_key))
                              ELSE Err("MalformedAuthHeader")
<1> DEFINE first == o + 1
           second == o + 2
           third == o + 3
<1>1. first \in Int /\ second \in Int /\ third \in Int
  OBVIOUS
<1> HIDE DEF first, second, third
<1>2. /\ Len(data) \in Nat /\ first \in 1..Len(data) /\ second \in 1..Len(data)
      /\ \A j \in 1..Len(data) : /\ data[j][1] = "field"
                                 /\ data[j][3] = TAG_NODE_ID => j = first
                                 /\ data[j][3] = TAG_PUBLIC_KEY => j = second
                                 /\ data[j][3] = TAG_ROLE => h.role # <<>> /\ j = third
      /\ data[first][3] = TAG_NODE_ID /\ data[first][2] = h.node_id
      /\ data[second][3] = TAG_PUBLIC_KEY /\ data[second][2] = h.public_key
      /\ h.role # <<>> => /\ third \in 1..Len(data) /\ data[third][3] = TAG_ROLE
                         /\ h.role = <<data[third][2]>>
  BY Zenon DEF Layout, first, second, third
<1>3. /\ \A j \in 1..Len(data) : data[j][3] = TAG_NODE_ID => first <= j
      /\ \A j \in 1..Len(data) : data[j][3] = TAG_PUBLIC_KEY => second <= j
      /\ \A j \in 1..Len(data) : data[j][3] = TAG_ROLE => third <= j
  BY <1>1, <1>2
<1>4. get_data(data, TAG_NODE_ID) = Ok(h.node_id)
  <2>1. Len(data) \in Nat /\ first \in 1..Len(data) /\ data[first][3] = TAG_NODE_ID
    BY Zenon, <1>2
  <2>2. \A j \in 1..Len(data) : data[j][3] = TAG_NODE_ID => first <= j
    BY Zenon, <1>3
  <2>3. get_data(data, TAG_NODE_ID) = Ok(data[first][2])
    BY Zenon, <2>1, <2>2, FirstField
  <2>q. QED  BY Zenon, <1>2, <2>3
<1>5. get_data(data, TAG_PUBLIC_KEY) = Ok(h.public_key)
  <2>1. Len(data) \in Nat /\ second \in 1..Len(data) /\ data[second][3] = TAG_PUBLIC_KEY
    BY Zenon, <1>2
  <2>2. \A j \in 1..Len(data) : data[j][3] = TAG_PUBLIC_KEY => second <= j
    BY Zenon, <1>3
  <2>3. get_data(data, TAG_PUBLIC_KEY) = Ok(data[second][2])
    BY Zenon, <2>1, <2>2, FirstField
  <2>q. QED  BY Zenon, <1>2, <2>3
<1>6. LET role == get_data(data, TAG_ROLE)
      IN (IF role.ok THEN <<role.val>> ELSE <<>>) = h.role
  <2>1. CASE h.role = <<>>
    <3>1. get_data(data, TAG_ROLE) = Err("MissingField")
      BY Zenon, <1>2, <2>1, NoField
    <3>q. QED  BY Zenon, <2>1, <3>1, ResultIs
  <2>2. CASE h.role # <<>>
    <3>1. /\ Len(data) \in Nat /\ third \in 1..Len(data) /\ data[third][3] = TAG_ROLE
          /\ h.role = <<data[third][2]>>
      BY Zenon, <1>2, <2>2
    <3>2. \A j \in 1..Len(data) : data[j][3] = TAG_ROLE => third <= j
      BY Zenon, <1>3
    <3>3. get_data(data, TAG_ROLE) = Ok(data[third][2])
      BY Zenon, <3>1, <3>2, FirstField
    <3>4. get_data(data, TAG_ROLE).ok /\ get_data(data, TAG_ROLE).val = data[third][2]
      BY Zenon, <3>3, ResultIs
    <3>q. QED  BY Zenon, <3>1, <3>4
  <2>q. QED  BY Zenon, <2>1, <2>2
<1>7. IsFrame(data)
  BY Zenon, <1>2 DEF IsFrame
<1> DEFINE node_id == AndThen(get_data(data, TAG_NODE_ID), NodeId_try_from_bytes)
           public_key == AndThen(get_data(data, TAG_PUBLIC_KEY), KeyArray)
           role == get_data(data, TAG_ROLE)
<1>8. node_id = NodeId_try_from_bytes(h.node_id) /\ public_key = KeyArray(h.public_key)
  BY Zenon, <1>4, <1>5, ResultIs DEF AndThen
<1>9. /\ node_id.ok => node_id.val = h.node_id
      /\ public_key.ok <=> Len(h.public_key) = KEY_LEN
      /\ public_key.ok => public_key.val = h.public_key
  BY Zenon, <1>8, ResultIs DEF NodeId_try_from_bytes, KeyArray
<1>10. from_yatlv(data) =
          IF IsFrame(data) /\ node_id.ok /\ public_key.ok
          THEN Ok([node_id |-> node_id.val, role |-> IF role.ok THEN <<role.val>> ELSE <<>>,
                   public_key |-> public_key.val])
          ELSE Err("MalformedAuthHeader")
  BY Zenon DEF from_yatlv
<1>11. (IF role.ok THEN <<role.val>> ELSE <<>>) = h.role
  BY Zenon, <1>6
<1>12. node_id.ok <=> NodeId_try_from_bytes(h.node_id).ok
  BY Zenon, <1>8
<1> HIDE DEF node_id, public_key, role
<1>13. CASE NodeId_try_from_bytes(h.node_id).ok /\ Len(h.public_key) = KEY_LEN
  BY Zenon, <1>7, <1>9, <1>10, <1>11, <1>12, <1>13 DEF AuthHeader_new
<1>14. CASE ~(NodeId_try_from_bytes(h.node_id).ok /\ Len(h.public_key) = KEY_LEN)
  BY Zenon, <1>9, <1>10, <1>12, <1>14
<1>q. QED  BY Zenon, <1>13, <1>14

\* Records that are no headers.
Others == {<<>>, <<field(TAG_NODE_ID, NodeId_from_u32(1))>>}

\* They are not taken for headers: they have no public key.
LEMMA OthersRead ==
    ASSUME NEW data \in Others
    PROVE  ByteString(data) /\ ~from_yatlv(data).ok
<1>1. data = <<>> \/ data = <<field(TAG_NODE_ID, NodeId_from_u32(1))>>
  BY Zenon DEF Others
<1>2. ByteString(data)
  <2>1. \A x : <<>> \in Seq({x}) /\ <<x>> \in Seq({x})
    OBVIOUS
  <2>q. QED  BY Zenon, <1>1, <2>1, StringOver
<1>3. \A j \in 1..Len(data) : data[j][3] # TAG_PUBLIC_KEY
  BY <1>1 DEF field, TAG_NODE_ID, TAG_PUBLIC_KEY
<1>4. get_data(data, TAG_PUBLIC_KEY) = Err("MissingField")
  BY Zenon, <1>3, NoField
<1>5. ~AndThen(get_data(data, TAG_PUBLIC_KEY), KeyArray).ok
  BY Zenon, <1>4, ResultIs DEF AndThen
<1>q. QED  BY Zenon, <1>2, <1>5, ResultIs DEF from_yatlv

\* A signed payload is verified with the key it was signed with.
LEMMA SignedPayload ==
    ASSUME NEW key, NEW payload, ByteString(payload)
    PROVE  verify_payload(key, payload \o ed25519_signature(key, payload)) = Ok(payload)
<1> DEFINE signature == ed25519_signature(key, payload)
           record == payload \o signature
           len == Len(payload)
<1>1. ByteString(signature) /\ Len(signature) = SIGNATURE_LEN
  BY Zenon, RepeatIs, Lengths DEF ed25519_signature
<1> HIDE DEF signature
<1>2. Joined(payload, signature, record)
  BY Zenon, <1>1, JoinIs
<1>3. len \in Nat /\ SIGNATURE_LEN \in Nat /\ Len(record) = len + SIGNATURE_LEN
  BY Zenon, <1>1, <1>2, StringIs, Lengths DEF Joined
<1>4. /\ ByteString(record) /\ \A i \in 1..len : record[i] = payload[i]
      /\ \A i \in 1..SIGNATURE_LEN : record[len + i] = signature[i]
  BY Zenon, <1>1, <1>2 DEF Joined
<1> HIDE DEF record, len
<1>5. SubSeq(record, 1, len) = payload
  <2>1. 1 \in 1..(Len(record) + 1) /\ len \in (1 - 1)..Len(record) /\ len - 1 + 1 = len
        /\ \A i \in 1..len : 1 + i - 1 = i
    BY <1>3
  <2>2. /\ ByteString(SubSeq(record, 1, len)) /\ Len(SubSeq(record, 1, len)) = len
        /\ \A i \in 1..len : SubSeq(record, 1, len)[i] = record[i]
    BY <1>4, <2>1, PartIs
  <2>q. QED  BY Zenon, <1>4, <2>2, SameString DEF len
<1>6. SubSeq(record, len + 1, Len(record)) = signature
  <2>1. /\ len + 1 \in 1..(Len(record) + 1) /\ Len(record) \in ((len + 1) - 1)..Len(record)
        /\ Len(record) - (len + 1) + 1 = SIGNATURE_LEN
        /\ \A i \in 1..SIGNATURE_LEN : (len + 1) + i - 1 = len + i
    BY <1>3
  <2>2. /\ ByteString(SubSeq(record, len + 1, Len(record)))
        /\ Len(SubSeq(record, len + 1, Len(record))) = SIGNATURE_LEN
        /\ \A i \in 1..SIGNATURE_LEN : SubSeq(record, len + 1, Len(record))[i] = record[len + i]
    BY <1>4, <2>1, PartIs
  <2>q. QED  BY Zenon, <1>1, <1>4, <2>2, SameString
<1>7. Len(record) - SIGNATURE_LEN = len /\ ~(Len(record) < SIGNATURE_LEN)
  BY <1>3
<1>8. verify_payload(key, record) = Ok(payload)
  BY Zenon, <1>5, <1>6, <1>7 DEF verify_payload, signature
<1>q. QED  BY Zenon, <1>8 DEF record, signature

\* A payload is taken only with bytes of its signature.
LEMMA VerifiedHasSignature ==
    ASSUME NEW key, NEW record, ByteString(record), verify_payload(key, record).ok
    PROVE  \E j \in 1..Len(record) : /\ record[j][1] = "signature"
                                    /\ record[j][2] = <<key, verify_payload(key, record).val>>
<1> DEFINE len == Len(record) - SIGNATURE_LEN
           payload == SubSeq(record, 1, len)
           signature == SubSeq(record, len + 1, Len(record))
<1>1. /\ ~(Len(record) < SIGNATURE_LEN) /\ signature = ed25519_signature(key, payload)
      /\ verify_payload(key, record) = Ok(payload)
  BY Zenon, ResultIs DEF verify_payload
<1>2. Len(record) \in Nat /\ SIGNATURE_LEN \in Nat /\ SIGNATURE_LEN > 0
  BY Zenon, StringIs, Lengths
<1>3. /\ len + 1 \in 1..(Len(record) + 1) /\ Len(record) \in ((len + 1) - 1)..Len(record)
      /\ Len(record) - (len + 1) + 1 = SIGNATURE_LEN /\ (len + 1) + 1 - 1 = len + 1
      /\ len + 1 \in 1..Len(record) /\ 1 \in 1..SIGNATURE_LEN
  BY <1>1, <1>2
<1>4. signature[1] = record[len + 1]
  <2> HIDE DEF len
  <2>1. \A i \in 1..SIGNATURE_LEN : signature[i] = record[(len + 1) + i - 1]
    BY <1>3, PartIs
  <2>q. QED  BY Zenon, <1>3, <2>1
<1>5. signature[1] = <<"signature", <<key, payload>>, 1>>
  BY ZenonT(60), <1>1, <1>2, <1>3, RepeatIs DEF ed25519_signature
<1>6. verify_payload(key, record).val = payload
  BY Zenon, <1>1, ResultIs
<1> HIDE DEF len, payload, signature
<1>7. record[len + 1][1] = "signature" /\ record[len + 1][2] = <<key, payload>>
  BY <1>4, <1>5
<1>q. QED  BY Zenon, <1>3, <1>6, <1>7

----------------------------------------------------------------------------
\* The inductive invariant.

\* What the operator has signed, if I is what has been issued: headers that are
\* in I, under the key they were signed with, and other records.
Signed(I, p) ==
    \/ p[2] \in Others
    \/ \E i \in I : \E frame \in Frames(i.header) : p = <<i.by, frame>>

\* A byte string in which all bytes of signatures are the operator's.
Genuine(I, s) ==
    ByteString(s) /\ \A j \in 1..Len(s) : s[j][1] = "signature" => Signed(I, s[j][2])

\* A value of a file.
IsItem(I, item) ==
    /\ item = [human |-> item.human, hex |-> item.hex, bytes |-> item.bytes]
    /\ item.human \in BOOLEAN /\ Genuine(I, item.bytes)

Domains ==
    /\ keys = [n \in Nodes |-> keys[n]]
    /\ header = [n \in Nodes |-> header[n]] /\ file = [n \in Nodes |-> file[n]]
    /\ node = [n \in Nodes |-> node[n]] /\ written = [n \in Nodes |-> written[n]]

\* The operator's file has a signing key, whose other half is handed out.
VaultOk ==
    \E n \in Nat, human \in BOOLEAN :
       vault = to_item(human, OsRng(n)) /\ cluster = ed25519_public(OsRng(n))

KeysOk ==
    \A n \in Nodes : keys[n].ok =>
       \E k \in Nat : keys[n].val = [public |-> x25519_public(OsRng(k)), private |-> OsRng(k)]

\* Headers were issued for an identity and a key, and signed in one of their frames.
IssuedOk ==
    \A i \in issued :
       /\ i.header = AuthHeader_new(i.header.node_id, i.header.role, i.header.public_key)
       /\ \E id \in Identities : id.node_id.ok /\ i.header.node_id = id.node_id.val
       /\ Role(i.header.role) /\ Len(i.header.public_key) = KEY_LEN
       /\ \E frame \in Frames(i.header) : i.signed = frame \o ed25519_signature(i.by, frame)

HeadersOk == \A n \in Nodes : header[n].ok => Genuine(issued, header[n].val)
RecordsOk == \A r \in records : Genuine(issued, r)
RunningOk == \A n \in Nodes : node[n].ok => Genuine(issued, node[n].val.auth_header)

FilesOk ==
    \A n \in Nodes : file[n].ok =>
       /\ file[n] = Ok(file[n].val) /\ file[n].val = [f \in Field |-> file[n].val[f]]
       /\ \A f \in Field : IsItem(issued, file[n].val[f])

\* What save writes for Credentials.
Saved(human, c) ==
    [private_key |-> TransportPrivateKey_serialize(human, c.private_key),
     auth_header |-> SignedAuthHeader_serialize(human, c.auth_header),
     verification_key |-> SignatureVerificationKey_serialize(human, c.verification_key)]

\* A file nobody has touched is what save has written, of keys that can be read.
WrittenOk ==
    \A n \in Nodes : written[n].ok =>
       LET c == written[n].val IN
       /\ c = [private_key |-> c.private_key, auth_header |-> c.auth_header,
               verification_key |-> c.verification_key]
       /\ Len(c.private_key) = KEY_LEN
       /\ Len(c.verification_key) = KEY_LEN /\ OnCurve(c.verification_key)
       /\ \E human \in BOOLEAN : file[n] = Ok(Saved(human, c))

IInv ==
    /\ drawn \in Nat /\ Domains /\ VaultOk /\ KeysOk /\ IssuedOk
    /\ HeadersOk /\ RecordsOk /\ RunningOk /\ FilesOk /\ WrittenOk

----------------------------------------------------------------------------
\* What the invariant gives.

\* What verify_raw makes of a verified payload.
LEMMA VerifyRawIs ==
    ASSUME NEW key, NEW data
    PROVE  LET payload == verify_payload(key, data)
               h == from_yatlv(payload.val)
           IN verify_raw(key, data) = IF ~payload.ok THEN payload
                                      ELSE IF ~h.ok THEN Err("MalformedRecord") ELSE h
<1> DEFINE v == verify_payload(key, data).val
<1>1. [p \in {v} |-> from_yatlv(p)][v] = from_yatlv(v)
  BY Zenon
<1>q. QED  BY Zenon, <1>1 DEF verify_raw

\* What authenticate has found out when it succeeds.
LEMMA AuthenticateOk ==
    ASSUME NEW key, NEW static, NEW data, authenticate(key, static, data).ok
    PROVE  LET payload == verify_payload(key, data)
               h == from_yatlv(payload.val)
           IN /\ payload.ok /\ h.ok /\ h.val.public_key = static
              /\ authenticate(key, static, data).val = AuthDetails(h.val)
<1> DEFINE payload == verify_payload(key, data)
           h == from_yatlv(payload.val)
           raw == verify_raw(key, data)
           valid == AndThen(raw, LAMBDA x : validate_public_key(x, static))
<1>1. authenticate(key, static, data) = AndThen(valid, LAMBDA x : Ok(AuthDetails(x)))
  BY Zenon DEF authenticate
<1>2. valid.ok /\ authenticate(key, static, data).val = AuthDetails(valid.val)
  BY Zenon, <1>1, ResultIs DEF AndThen
<1>3. raw.ok /\ valid = validate_public_key(raw.val, static)
  BY Zenon, <1>2 DEF AndThen
<1>4. raw.val.public_key = static /\ valid.val = raw.val
  BY Zenon, <1>2, <1>3, ResultIs DEF validate_public_key
<1>5. payload.ok /\ h.ok /\ raw = h
  BY Zenon, <1>3, VerifyRawIs, ResultIs
<1>q. QED  BY Zenon, <1>2, <1>4, <1>5

\* authenticate succeeds when everything it asks for is there.
LEMMA AuthenticateAccepts ==
    ASSUME NEW key, NEW static, NEW data, NEW p, NEW h, verify_payload(key, data) = Ok(p),
           from_yatlv(p) = Ok(h), h.public_key = static
    PROVE  authenticate(key, static, data) = Ok(AuthDetails(h))
<1>0. verify_payload(key, data).ok /\ verify_payload(key, data).val = p /\ Ok(h).ok
  BY Zenon, ResultIs
<1>1. verify_raw(key, data) = Ok(h)
  BY Zenon, <1>0, VerifyRawIs
<1>2. validate_public_key(h, static) = Ok(h)
  BY Zenon DEF validate_public_key
<1>3. AndThen(verify_raw(key, data), LAMBDA x : validate_public_key(x, static)) = Ok(h)
  BY Zenon, <1>1, <1>2, ResultIs DEF AndThen
<1>q. QED  BY Zenon, <1>3, ResultIs DEF authenticate, AndThen

\* A header that a node is taken for was signed by the operator as one.
LEMMA IInvOnlyIssued == IInv => OnlyIssued
<1> SUFFICES ASSUME IInv, NEW n \in Running, NEW m \in Running, Accepts(n, m).ok
             PROVE  Issued(n, m, Accepts(n, m).val)
  BY Zenon DEF OnlyIssued
<1> DEFINE key == node[n].val.verification_key
           static == x25519_public(node[m].val.private_key)
           data == node[m].val.auth_header
           payload == verify_payload(key, data)
           h == from_yatlv(payload.val)
<1>1. m \in Nodes /\ node[m].ok
  BY Zenon DEF Running
<1>2. Genuine(issued, data)
  BY Zenon, <1>1 DEF IInv, RunningOk
<1>3. Accepts(n, m) = authenticate(key, static, data)
  BY Zenon DEF Accepts
<1> HIDE DEF key, static, data
<1>4. payload.ok /\ h.ok /\ h.val.public_key = static /\ Accepts(n, m).val = AuthDetails(h.val)
  <2>1. authenticate(key, static, data).ok
    BY Zenon, <1>3
  <2>2. /\ payload.ok /\ h.ok /\ h.val.public_key = static
        /\ authenticate(key, static, data).val = AuthDetails(h.val)
    BY <2>1, AuthenticateOk
  <2> HIDE DEF payload, h
  <2>q. QED  BY Zenon, <1>3, <2>2
<1>5. PICK j \in 1..Len(data) : data[j][1] = "signature" /\ data[j][2] = <<key, payload.val>>
  BY Zenon, <1>2, <1>4, VerifiedHasSignature DEF Genuine
<1>6. Signed(issued, <<key, payload.val>>)
  BY Zenon, <1>2, <1>5 DEF Genuine
<1>7. <<key, payload.val>>[2] = payload.val
  OBVIOUS
<1>8. payload.val \notin Others
  BY Zenon, <1>4, OthersRead
<1>9. PICK i \in issued : \E frame \in Frames(i.header) : <<key, payload.val>> = <<i.by, frame>>
  BY Zenon, <1>6, <1>7, <1>8 DEF Signed
<1>10. i.by = key /\ payload.val \in Frames(i.header)
  <2>1. PICK frame \in Frames(i.header) : <<key, payload.val>> = <<i.by, frame>>
    BY Zenon, <1>9
  <2>2. i.by = key /\ frame = payload.val
    BY <2>1
  <2>q. QED  BY Zenon, <2>2
<1>11. Role(i.header.role)
  BY Zenon DEF IInv, IssuedOk
<1>12. PICK o \in {0, 1} : Layout(payload.val, i.header, o)
  BY Zenon, <1>10, <1>11, FrameLayout
<1>13. h = Ok(AuthHeader_new(i.header.node_id, i.header.role, i.header.public_key))
  BY ZenonT(60), <1>4, <1>12, LayoutReads, ResultIs
<1>14. h.val = AuthHeader_new(i.header.node_id, i.header.role, i.header.public_key)
  BY Zenon, <1>13, ResultIs
<1> HIDE DEF h, payload
<1>15. h.val.public_key = i.header.public_key /\ AuthDetails(h.val) = AuthDetails(i.header)
  BY <1>14 DEF AuthHeader_new, AuthDetails
<1>16. /\ i.by = node[n].val.verification_key
       /\ i.header.public_key = x25519_public(node[m].val.private_key)
       /\ AuthDetails(i.header) = Accepts(n, m).val
  BY Zenon, <1>4, <1>10, <1>15 DEF key, static
<1>q. QED  BY Zenon, <1>16 DEF Issued

\* The ids that headers are issued for can be read back.  They cannot if a NodeId
\* was read from a file, which takes any bytes (SignedVerifies of Provisioning).
IdsInBounds == \A id \in Identities : id.node_id.ok => NodeId_try_from_bytes(id.node_id.val).ok

\* What was signed as a header is verified and read as that header.
LEMMA IssuedReads ==
    ASSUME IdsInBounds, IInv, NEW i \in issued
    PROVE  \E frame : verify_payload(i.by, i.signed) = Ok(frame) /\ from_yatlv(frame) = Ok(i.header)
<1>1. /\ i.header = AuthHeader_new(i.header.node_id, i.header.role, i.header.public_key)
      /\ \E id \in Identities : id.node_id.ok /\ i.header.node_id = id.node_id.val
      /\ Role(i.header.role) /\ Len(i.header.public_key) = KEY_LEN
      /\ \E frame \in Frames(i.header) : i.signed = frame \o ed25519_signature(i.by, frame)
  BY Zenon DEF IInv, IssuedOk
<1>2. PICK frame \in Frames(i.header) : i.signed = frame \o ed25519_signature(i.by, frame)
  BY Zenon, <1>1
<1>3. ByteString(frame) /\ \E o \in {0, 1} : Layout(frame, i.header, o)
  BY Zenon, <1>1, FrameLayout
<1>4. verify_payload(i.by, i.signed) = Ok(frame)
  BY Zenon, <1>2, <1>3, SignedPayload
<1>5. NodeId_try_from_bytes(i.header.node_id).ok
  BY Zenon, <1>1 DEF IdsInBounds
<1>6. from_yatlv(frame) = Ok(i.header)
  BY Zenon, <1>1, <1>3, <1>5, LayoutReads
<1>q. QED  BY Zenon, <1>4, <1>6

\* An issued header passes every check of a node that trusts its key.
LEMMA IInvIssuedAccepted == ASSUME IdsInBounds PROVE IInv => IssuedAccepted
<1> SUFFICES ASSUME IInv, NEW n \in Running, NEW m \in Running, NEW i \in issued,
                    i.by = node[n].val.verification_key,
                    i.header.public_key = x25519_public(node[m].val.private_key),
                    i.signed = node[m].val.auth_header
             PROVE  Accepts(n, m) = Ok(AuthDetails(i.header))
  BY Zenon DEF IssuedAccepted
<1>1. PICK frame : verify_payload(i.by, i.signed) = Ok(frame) /\ from_yatlv(frame) = Ok(i.header)
  BY Zenon, IssuedReads
<1>2. authenticate(i.by, i.header.public_key, i.signed) = Ok(AuthDetails(i.header))
  BY <1>1, AuthenticateAccepts
<1>q. QED  BY Zenon, <1>2 DEF Accepts

\* What save has written is read back, and is the text that Display prints.
LEMMA SavedLoads ==
    ASSUME NEW human \in BOOLEAN, NEW c,
           c = [private_key |-> c.private_key, auth_header |-> c.auth_header,
                verification_key |-> c.verification_key],
           Len(c.private_key) = KEY_LEN, Len(c.verification_key) = KEY_LEN, OnCurve(c.verification_key)
    PROVE  /\ Deserialized(Saved(human, c)) = Ok(c)
           /\ Saved(human, c).private_key.human =>
                 Saved(human, c) =
                    [private_key |-> TransportPrivateKey_expose_to_human_string(c.private_key),
                     auth_header |-> SignedAuthHeader_expose_to_human_string(c.auth_header),
                     verification_key |-> SignatureVerificationKey_to_string(c.verification_key)]
<1> DEFINE f == Saved(human, c)
<1>1. /\ f.private_key = TransportPrivateKey_serialize(human, c.private_key)
      /\ f.auth_header = SignedAuthHeader_serialize(human, c.auth_header)
      /\ f.verification_key = SignatureVerificationKey_serialize(human, c.verification_key)
  BY DEF Saved
<1> HIDE DEF f
<1>2. TransportPrivateKey_deserialize(f.private_key) = Ok(c.private_key)
  BY Zenon, <1>1, KeyRoundTrip DEF TransportPrivateKey_serialize, TransportPrivateKey_deserialize
<1>3. SignedAuthHeader_deserialize(f.auth_header) = Ok(c.auth_header)
  BY Zenon, <1>1, BytesRoundTrip
<1>4. SignatureVerificationKey_deserialize(f.verification_key) = Ok(c.verification_key)
  BY Zenon, <1>1, PointRoundTrip
<1>5. Deserialized(f) = Ok(c)
  BY Zenon, <1>2, <1>3, <1>4, ResultIs DEF Deserialized
<1>6. f.private_key.human => human
  <2>1. ~human => f.private_key = raw_bytes(c.private_key)
    BY Zenon, <1>1 DEF TransportPrivateKey_serialize, to_item
  <2>2. ~raw_bytes(c.private_key).human
    BY DEF raw_bytes
  <2>q. QED  BY Zenon, <2>1, <2>2
<1>7. human => f = [private_key |-> TransportPrivateKey_expose_to_human_string(c.private_key),
                    auth_header |-> SignedAuthHeader_expose_to_human_string(c.auth_header),
                    verification_key |-> SignatureVerificationKey_to_string(c.verification_key)]
  BY Zenon DEF f, Saved, TransportPrivateKey_expose_to_human_string, SignedAuthHeader_expose_to_human_string,
         SignatureVerificationKey_to_string, TransportPrivateKey_serialize, SignedAuthHeader_serialize,
         SignatureVerificationKey_serialize, to_item
<1>q. QED  BY Zenon, <1>5, <1>6, <1>7 DEF f

\* The format of an item is the one it was written in.
LEMMA ItemFormat ==
    ASSUME NEW human \in BOOLEAN, NEW bytes
    PROVE  to_item(human, bytes).human = human
<1>1. to_item(TRUE, bytes).human = TRUE
  BY DEF to_item, hex_encode
<1>2. to_item(FALSE, bytes).human = FALSE
  BY DEF to_item, raw_bytes
<1>q. QED  BY Zenon, <1>1, <1>2

\* The operator reads the signing key that goes with the key handed out.
LEMMA VaultReads ==
    ASSUME VaultOk
    PROVE  \E n \in Nat : /\ vault.human \in BOOLEAN /\ vault = to_item(vault.human, OsRng(n))
                          /\ SignatureSigningKey_deserialize(vault) = Ok(OsRng(n))
                          /\ cluster = ed25519_public(OsRng(n))
<1>1. PICK n \in Nat, human \in BOOLEAN :
         vault = to_item(human, OsRng(n)) /\ cluster = ed25519_public(OsRng(n))
  BY Zenon DEF VaultOk
<1>2. vault.human = human
  BY Zenon, <1>1, ItemFormat
<1>3. Len(OsRng(n)) = KEY_LEN
  BY Zenon, SecretIs
<1>4. SignatureSigningKey_deserialize(vault) = Ok(OsRng(n))
  BY Zenon, <1>1, <1>3, KeyRoundTrip DEF SignatureSigningKey_deserialize
<1>q. QED  BY Zenon, <1>1, <1>2, <1>4

\* Files nobody has touched are read back.
LEMMA IInvIntactFileLoads == IInv => IntactFileLoads
<1> SUFFICES ASSUME IInv PROVE IntactFileLoads
  OBVIOUS
<1> DEFINE
      texts(c) == [private_key |-> TransportPrivateKey_expose_to_human_string(c.private_key),
                   auth_header |-> SignedAuthHeader_expose_to_human_string(c.auth_header),
                   verification_key |-> SignatureVerificationKey_to_string(c.verification_key)]
      Intact(f, c) == /\ Deserialized(f) = Ok(c)
                      /\ f.private_key.human => f = texts(c)
                      /\ TransportPrivateKey_try_from(texts(c).private_key) = Ok(c.private_key)
                      /\ SignedAuthHeader_try_from(texts(c).auth_header) = Ok(c.auth_header)
                      /\ SignatureVerificationKey_try_from(texts(c).verification_key) =
                            Ok(c.verification_key)
<1>1. ASSUME NEW n \in Nodes, written[n].ok
      PROVE  Intact(file[n].val, written[n].val)
  <2> DEFINE c == written[n].val
  <2>1. /\ c = [private_key |-> c.private_key, auth_header |-> c.auth_header,
                verification_key |-> c.verification_key]
        /\ Len(c.private_key) = KEY_LEN
        /\ Len(c.verification_key) = KEY_LEN /\ OnCurve(c.verification_key)
        /\ \E human \in BOOLEAN : file[n] = Ok(Saved(human, c))
    BY Zenon, <1>1 DEF IInv, WrittenOk
  <2>2. PICK human \in BOOLEAN : file[n] = Ok(Saved(human, c))
    BY Zenon, <2>1
  <2> HIDE DEF c
  <2>3. file[n].val = Saved(human, c)
    BY Zenon, <2>2, ResultIs
  <2>4. /\ Deserialized(Saved(human, c)) = Ok(c)
        /\ Saved(human, c).private_key.human => Saved(human, c) = texts(c)
    BY <2>1, SavedLoads
  <2>5. /\ texts(c).private_key = hex_encode(c.private_key)
        /\ texts(c).auth_header = SignedAuthHeader_expose_to_human_string(c.auth_header)
        /\ texts(c).verification_key = SignatureVerificationKey_to_string(c.verification_key)
    BY DEF TransportPrivateKey_expose_to_human_string
  <2> HIDE DEF texts
  <2>6. TransportPrivateKey_try_from(texts(c).private_key) = Ok(c.private_key)
    BY Zenon, <2>1, <2>5, KeyRoundTrip DEF TransportPrivateKey_try_from
  <2>7. SignedAuthHeader_try_from(texts(c).auth_header) = Ok(c.auth_header)
    BY Zenon, <2>5, BytesRoundTrip
  <2>8. SignatureVerificationKey_try_from(texts(c).verification_key) = Ok(c.verification_key)
    BY Zenon, <2>1, <2>5, PointRoundTrip
  <2>q. QED  BY Zenon, <2>3, <2>4, <2>6, <2>7, <2>8 DEF c
<1>2. ASSUME NEW n \in Nodes, keys[n].ok
      PROVE  TransportPublicKey_try_from(TransportPublicKey_to_string(keys[n].val.public)) =
                Ok(keys[n].val.public)
  <2>1. PICK k \in Nat : keys[n].val = [public |-> x25519_public(OsRng(k)), private |-> OsRng(k)]
    BY Zenon, <1>2 DEF IInv, KeysOk
  <2>2. keys[n].val.public = x25519_public(OsRng(k))
    BY <2>1
  <2>3. Len(keys[n].val.public) = KEY_LEN
    BY Zenon, <2>2, KeyIs
  <2>q. QED  BY Zenon, <2>3, KeyRoundTrip DEF TransportPublicKey_try_from, TransportPublicKey_to_string
<1>3. LET private == SignatureSigningKey_deserialize(vault)
          text == SignatureSigningKey_expose_to_human_string(private.val)
      IN /\ private.ok /\ ed25519_public(private.val) = cluster
         /\ vault.human => vault = text
         /\ SignatureSigningKey_try_from(text) = private
  <2>1. PICK n \in Nat : /\ vault.human \in BOOLEAN /\ vault = to_item(vault.human, OsRng(n))
                        /\ SignatureSigningKey_deserialize(vault) = Ok(OsRng(n))
                        /\ cluster = ed25519_public(OsRng(n))
    BY Zenon, VaultReads DEF IInv
  <2>2. Ok(OsRng(n)).ok /\ Ok(OsRng(n)).val = OsRng(n)
    BY Zenon, ResultIs
  <2>3. vault.human => vault = hex_encode(OsRng(n))
    BY Zenon, <2>1 DEF to_item
  <2>4. KeyText(hex_encode(OsRng(n))) = Ok(OsRng(n))
    BY Zenon, SecretIs, KeyRoundTrip
  <2>q. QED  BY Zenon, <2>1, <2>2, <2>3, <2>4
                DEF SignatureSigningKey_expose_to_human_string, SignatureSigningKey_try_from
<1>q. QED  BY Zenon, <1>1, <1>2, <1>3 DEF IntactFileLoads

----------------------------------------------------------------------------
\* Genuine byte strings.

\* What has been signed stays signed.
LEMMA GenuineMore ==
    ASSUME NEW I, NEW J, I \subseteq J, NEW s, Genuine(I, s)
    PROVE  Genuine(J, s)
<1>1. \A p : Signed(I, p) => Signed(J, p)
  BY Zenon DEF Signed
<1>q. QED  BY Zenon, <1>1 DEF Genuine

\* Keys hold no signatures.
LEMMA GenuineKeys ==
    ASSUME NEW I, NEW n
    PROVE  Genuine(I, OsRng(n)) /\ Genuine(I, ed25519_public(OsRng(n)))
<1>1. \A i \in 1..KEY_LEN : OsRng(n)[i][1] # "signature"
  <2>1. \A i \in 1..KEY_LEN : OsRng(n)[i] = <<"secret", n, i>>
    BY Zenon, SecretIs
  <2>q. QED  BY <2>1
<1>2. \A i \in 1..KEY_LEN : ed25519_public(OsRng(n))[i][1] # "signature"
  <2>1. \A i \in 1..KEY_LEN : ed25519_public(OsRng(n))[i] = <<"ed25519", OsRng(n), i>>
    BY Zenon, KeyIs
  <2>q. QED  BY <2>1
<1>3. ByteString(OsRng(n)) /\ Len(OsRng(n)) = KEY_LEN
  BY Zenon, SecretIs
<1>4. ByteString(ed25519_public(OsRng(n))) /\ Len(ed25519_public(OsRng(n))) = KEY_LEN
  BY Zenon, KeyIs
<1>q. QED  BY Zenon, <1>1, <1>2, <1>3, <1>4 DEF Genuine

\* What SignatureSigningKey::sign makes of a frame is genuine once the frame counts
\* as signed: the frame itself holds no signatures.
LEMMA GenuineSigned ==
    ASSUME NEW I, NEW key, NEW p, ByteString(p), IsFrame(p), Signed(I, <<key, p>>)
    PROVE  Genuine(I, p \o ed25519_signature(key, p))
<1> DEFINE signature == ed25519_signature(key, p)
           record == p \o signature
<1>1. /\ ByteString(signature) /\ Len(signature) = SIGNATURE_LEN /\ SIGNATURE_LEN \in Nat
      /\ \A i \in 1..SIGNATURE_LEN : signature[i] = <<"signature", <<key, p>>, i>>
  BY Zenon, RepeatIs, Lengths DEF ed25519_signature
<1> HIDE DEF signature
<1>2. Joined(p, signature, record)
  BY Zenon, <1>1, JoinIs
<1>3. /\ ByteString(record) /\ Len(record) = Len(p) + SIGNATURE_LEN /\ Len(p) \in Nat
      /\ \A i \in 1..Len(p) : record[i] = p[i]
      /\ \A i \in 1..SIGNATURE_LEN : record[Len(p) + i] = signature[i]
  BY Zenon, <1>1, <1>2, StringIs DEF Joined
<1> HIDE DEF record
<1>4. ASSUME NEW j \in 1..Len(record), record[j][1] = "signature"
      PROVE  Signed(I, record[j][2])
  <2>1. j \notin 1..Len(p)
    <3>1. \A i \in 1..Len(p) : p[i][1] = "field"
      BY Zenon DEF IsFrame
    <3>2. \A i \in 1..Len(p) : record[i][1] = "field"
      BY Zenon, <1>3, <3>1
    <3>q. QED  BY <1>4, <3>2
  <2>2. j - Len(p) \in 1..SIGNATURE_LEN /\ Len(p) + (j - Len(p)) = j
    BY <1>1, <1>3, <2>1
  <2>3. record[j] = signature[j - Len(p)]
    BY Zenon, <1>3, <2>2
  <2>4. record[j] = <<"signature", <<key, p>>, j - Len(p)>>
    BY Zenon, <1>1, <2>2, <2>3
  <2>5. record[j][2] = <<key, p>>
    BY <2>4
  <2>q. QED  BY Zenon, <2>5
<1>5. Genuine(I, record)
  BY Zenon, <1>3, <1>4 DEF Genuine
<1>q. QED  BY Zenon, <1>5 DEF record, signature

\* What is written to a file of genuine bytes.
LEMMA GenuineItem ==
    ASSUME NEW I, NEW human \in BOOLEAN, NEW bytes, Genuine(I, bytes)
    PROVE  IsItem(I, to_item(human, bytes))
<1>1. IsItem(I, to_item(TRUE, bytes))
  BY DEF IsItem, to_item, hex_encode
<1>2. IsItem(I, to_item(FALSE, bytes))
  BY DEF IsItem, to_item, raw_bytes
<1>q. QED  BY Zenon, <1>1, <1>2

\* However a file is mishandled, its values stay genuine: cutting and mistyping
\* make no signature, and what is pasted was genuine where it came from.
LEMMA GenuineMishandled ==
    ASSUME FilesOk, RecordsOk, NEW n \in Nodes, file[n].ok, NEW f \in Field,
           NEW item \in Mishandled(n, f)
    PROVE  IsItem(issued, item)
<1> DEFINE old == file[n].val[f]
           short == [old EXCEPT !.bytes = SubSeq(@, 1, Len(@) - 1)]
           typo == [old EXCEPT !.bytes[1] = <<"byte", 0, 0>>]
           nohex == [old EXCEPT !.hex = FALSE]
           other == {[old EXCEPT !.bytes = r] : r \in records}
           pasted == UNION {{file[m].val[g] : g \in Field} : m \in {m \in Nodes : file[m].ok}}
<1>0. item \in {short, typo, nohex} \cup other \cup pasted
  BY Zenon DEF Mishandled
<1>1. /\ old = [human |-> old.human, hex |-> old.hex, bytes |-> old.bytes]
      /\ old.human \in BOOLEAN /\ Genuine(issued, old.bytes)
  BY Zenon DEF FilesOk, IsItem
<1> HIDE DEF old
<1>2. ASSUME NEW bytes, Genuine(issued, bytes)
      PROVE  IsItem(issued, [old EXCEPT !.bytes = bytes])
  <2> DEFINE new == [old EXCEPT !.bytes = bytes]
  <2>1. new = [human |-> old.human, hex |-> old.hex, bytes |-> bytes]
    BY <1>1
  <2> HIDE DEF new
  <2>2. new.human = old.human /\ new.hex = old.hex /\ new.bytes = bytes
    BY <2>1
  <2>3. IsItem(issued, new)
    BY Zenon, <1>1, <1>2, <2>1, <2>2 DEF IsItem
  <2>q. QED  BY Zenon, <2>3 DEF new
<1> DEFINE b == old.bytes
<1>3. ByteString(b) /\ Len(b) \in Nat /\ DOMAIN b = 1..Len(b)
  BY Zenon, <1>1, StringIs DEF Genuine
<1>4. CASE item = short
  <2>1. Genuine(issued, SubSeq(b, 1, Len(b) - 1))
    <3>1. CASE Len(b) = 0
      <4>1. SubSeq(b, 1, Len(b) - 1) = <<>>
        BY <1>3, <3>1 DEF ByteString
      <4>2. \A I : Genuine(I, <<>>)
        <5>1. <<>> \in Seq({}) /\ Len(<<>>) = 0 /\ 1..0 = {}
          OBVIOUS
        <5>2. ByteString(<<>>)
          BY Zenon, <5>1, StringOver
        <5>q. QED  BY Zenon, <5>1, <5>2 DEF Genuine
      <4>q. QED  BY Zenon, <4>1, <4>2
    <3>2. CASE Len(b) > 0
      <4> DEFINE k == Len(b) - 1
      <4>1. /\ 1 \in 1..(Len(b) + 1) /\ k \in (1 - 1)..Len(b) /\ k - 1 + 1 = k
            /\ \A i \in 1..k : 1 + i - 1 = i /\ i \in 1..Len(b)
        BY <1>3, <3>2
      <4> HIDE DEF k
      <4>2. /\ ByteString(SubSeq(b, 1, k)) /\ Len(SubSeq(b, 1, k)) = k
            /\ \A i \in 1..k : SubSeq(b, 1, k)[i] = b[i]
        BY <1>3, <4>1, PartIs
      <4>3. \A i \in 1..Len(b) : b[i][1] = "signature" => Signed(issued, b[i][2])
        BY Zenon, <1>1 DEF Genuine
      <4>4. Genuine(issued, SubSeq(b, 1, k))
        BY Zenon, <4>1, <4>2, <4>3 DEF Genuine
      <4>q. QED  BY Zenon, <4>4 DEF k
    <3>q. QED  BY <1>3, <3>1, <3>2
  <2>q. QED  BY Zenon, <1>2, <1>4, <2>1
<1>5. CASE item = typo
  <2> DEFINE t == [b EXCEPT ![1] = <<"byte", 0, 0>>]
  <2>1. item = [old EXCEPT !.bytes = t]
    BY Zenon, <1>5
  <2>2. DOMAIN t = 1..Len(b) /\ \A i \in 1..Len(b) : t[i] = IF i = 1 THEN <<"byte", 0, 0>> ELSE b[i]
    BY Zenon, <1>3
  <2>3. ByteString(t) /\ Len(t) = Len(b)
    <3>1. PICK S : b \in Seq(S)
      BY Zenon, <1>3 DEF ByteString
    <3> DEFINE T == S \cup {<<"byte", 0, 0>>}
    <3>2. \A i \in 1..Len(b) : t[i] \in T
      BY <2>2, <3>1
    <3> HIDE DEF T, t
    <3>3. t = [i \in 1..Len(b) |-> t[i]]
      BY Zenon, <2>2 DEF t
    <3>4. t \in [1..Len(b) -> T]
      BY Zenon, <3>2, <3>3
    <3>5. t \in Seq(T) /\ Len(t) = Len(b)
      BY <1>3, <3>4
    <3>q. QED  BY Zenon, <3>5, StringOver
  <2>4. <<"byte", 0, 0>>[1] # "signature"
    OBVIOUS
  <2>5. \A i \in 1..Len(b) : b[i][1] = "signature" => Signed(issued, b[i][2])
    BY Zenon, <1>1 DEF Genuine
  <2> HIDE DEF t
  <2>6. Genuine(issued, t)
    BY Zenon, <2>2, <2>3, <2>4, <2>5 DEF Genuine
  <2>q. QED  BY Zenon, <1>2, <2>1, <2>6
<1>6. CASE item = nohex
  <2>1. item = [human |-> old.human, hex |-> FALSE, bytes |-> old.bytes]
    BY Zenon, <1>1, <1>6
  <2>2. item.human = old.human /\ item.hex = FALSE /\ item.bytes = old.bytes
    BY <2>1
  <2>q. QED  BY Zenon, <1>1, <2>1, <2>2 DEF IsItem
<1>7. CASE item \in other
  <2>1. PICK r \in records : item = [old EXCEPT !.bytes = r]
    BY Zenon, <1>7
  <2>q. QED  BY Zenon, <1>2, <2>1 DEF RecordsOk
<1>8. CASE item \in pasted
  <2>1. PICK m \in Nodes : file[m].ok /\ item \in {file[m].val[g] : g \in Field}
    BY Zenon, <1>8
  <2>q. QED  BY Zenon, <2>1 DEF FilesOk
<1> HIDE DEF short, typo, nohex, other, pasted
<1>q. QED  BY Zenon, <1>0, <1>4, <1>5, <1>6, <1>7, <1>8

----------------------------------------------------------------------------
\* The invariant holds at the start and is kept.

\* A cluster begins with a keypair that can be read, and nothing signed.
LEMMA InitIInv == Init => IInv
<1> SUFFICES ASSUME Init PROVE IInv
  OBVIOUS
<1>1. drawn \in Nat
  BY DEF Init
<1>2. ~None.ok
  BY Zenon, ResultIs DEF None
<1>3. \A n \in Nodes : /\ keys[n] = None /\ header[n] = None /\ file[n] = None /\ node[n] = None
                       /\ written[n] = None
  BY Zenon DEF Init
<1>4. Domains
  BY Zenon, <1>3 DEF Init, Domains
<1>5. VaultOk
  <2>1. SignatureKeypair_generate(1).val =
           [public |-> ed25519_public(OsRng(1)), private |-> OsRng(1)]
    BY Zenon, Generated, ResultIs
  <2>2. /\ SignatureKeypair_generate(1).val.public = ed25519_public(OsRng(1))
        /\ SignatureKeypair_generate(1).val.private = OsRng(1)
    BY <2>1
  <2>3. PICK human \in BOOLEAN :
           vault = SignatureSigningKey_serialize(human, SignatureKeypair_generate(1).val.private)
    BY Zenon DEF Init
  <2>4. vault = to_item(human, OsRng(1)) /\ cluster = ed25519_public(OsRng(1))
    BY Zenon, <2>2, <2>3 DEF SignatureSigningKey_serialize, Init
  <2>5. 1 \in Nat
    OBVIOUS
  <2>q. QED  BY Zenon, <2>4, <2>5 DEF VaultOk
<1>6. KeysOk /\ HeadersOk /\ RunningOk /\ FilesOk
  BY Zenon, <1>2, <1>3 DEF KeysOk, HeadersOk, RunningOk, FilesOk
<1>7. IssuedOk /\ RecordsOk
  BY Zenon DEF Init, IssuedOk, RecordsOk
<1>8. WrittenOk
  BY Zenon, <1>2, <1>3 DEF WrittenOk
<1>q. QED  BY Zenon, <1>1, <1>4, <1>5, <1>6, <1>7, <1>8 DEF IInv

\* A new signature keypair goes to the operator's file and to the nodes, complete.
LEMMA NewClusterStep == ASSUME IInv, new_cluster PROVE IInv'
<1> DEFINE k == drawn + 1
           human == vault.human
<1>1. k \in Nat
  BY DEF IInv
<1>2. PICK n \in Nat : vault.human \in BOOLEAN
  BY Zenon, VaultReads DEF IInv
<1> HIDE DEF k
<1>3. SignatureKeypair_generate(k).val = [public |-> ed25519_public(OsRng(k)), private |-> OsRng(k)]
  BY Zenon, Generated, ResultIs
<1>4. /\ SignatureKeypair_generate(k).val.public = ed25519_public(OsRng(k))
      /\ SignatureKeypair_generate(k).val.private = OsRng(k)
  BY <1>3
<1>5. drawn' = k /\ vault' = to_item(human, OsRng(k))
  BY Zenon, <1>4 DEF new_cluster, SignatureSigningKey_serialize, k
<1>6. cluster' = ed25519_public(OsRng(k))
  <2>1. cluster' = SignatureVerificationKey_deserialize(
                      SignatureVerificationKey_serialize(human, ed25519_public(OsRng(k)))).val
    BY Zenon, <1>4 DEF new_cluster, k
  <2>2. SignatureVerificationKey_deserialize(
           SignatureVerificationKey_serialize(human, ed25519_public(OsRng(k)))) =
        Ok(ed25519_public(OsRng(k)))
    BY Zenon, <1>2, KeyIs, PointRoundTrip
  <2>q. QED  BY Zenon, <2>1, <2>2, ResultIs
<1>7. VaultOk'
  BY Zenon, <1>1, <1>2, <1>5, <1>6 DEF VaultOk
<1>8. /\ keys' = keys /\ header' = header /\ file' = file /\ node' = node /\ written' = written
      /\ issued' = issued /\ records' = records
  BY Zenon DEF new_cluster
<1>9. Domains' /\ KeysOk' /\ IssuedOk' /\ HeadersOk' /\ RecordsOk' /\ RunningOk' /\ FilesOk'
      /\ WrittenOk'
  BY ZenonT(60), <1>8 DEF IInv, Domains, KeysOk, IssuedOk, HeadersOk, RecordsOk, RunningOk, FilesOk, WrittenOk
<1>q. QED  BY Zenon, <1>1, <1>5, <1>7, <1>9 DEF IInv

\* Records that are no headers are signed as such.
LEMMA SignRecordStep == ASSUME IInv, sign_record PROVE IInv'
<1> DEFINE key == SignatureSigningKey_deserialize(vault)
<1>1. PICK payload \in Others : records' = records \cup {SignatureSigningKey_sign(key.val, payload)}
  BY Zenon DEF sign_record, Others
<1>2. ByteString(payload) /\ IsFrame(payload)
  <2>1. payload = <<>> \/ payload = <<field(TAG_NODE_ID, NodeId_from_u32(1))>>
    BY Zenon DEF Others
  <2>2. \A i \in 1..Len(payload) : payload[i][1] = "field"
    BY <2>1 DEF field
  <2>q. QED  BY Zenon, <2>2, OthersRead DEF IsFrame
<1>3. Signed(issued, <<ed25519_public(key.val), payload>>)
  <2>1. <<ed25519_public(key.val), payload>>[2] = payload
    OBVIOUS
  <2>q. QED  BY Zenon, <2>1 DEF Signed
<1>4. Genuine(issued, SignatureSigningKey_sign(key.val, payload))
  BY Zenon, <1>2, <1>3, GenuineSigned DEF SignatureSigningKey_sign
<1>5. /\ drawn' = drawn /\ vault' = vault /\ cluster' = cluster /\ keys' = keys /\ header' = header
      /\ file' = file /\ node' = node /\ written' = written /\ issued' = issued
  BY Zenon DEF sign_record
<1>6. RecordsOk'
  BY Zenon, <1>1, <1>4, <1>5 DEF IInv, RecordsOk
<1>7. Domains' /\ VaultOk' /\ KeysOk' /\ IssuedOk' /\ HeadersOk' /\ RunningOk' /\ FilesOk' /\ WrittenOk'
  BY ZenonT(60), <1>5 DEF IInv, Domains, VaultOk, KeysOk, IssuedOk, HeadersOk, RunningOk, FilesOk, WrittenOk
<1>q. QED  BY Zenon, <1>5, <1>6, <1>7 DEF IInv

\* A node's transport keypair.
LEMMA NewKeysStep == ASSUME IInv, NEW n \in Nodes, new_keys(n) PROVE IInv'
<1> DEFINE k == drawn + 1
<1>1. k \in Nat
  BY DEF IInv
<1> HIDE DEF k
<1>2. /\ drawn' = k /\ keys' = [keys EXCEPT ![n] = TransportKeypair_generate(k)]
      /\ vault' = vault /\ cluster' = cluster /\ header' = header /\ file' = file /\ node' = node
      /\ written' = written /\ issued' = issued /\ records' = records
  BY Zenon DEF new_keys, k
<1>3. keys = [m \in Nodes |-> keys[m]]
  BY Zenon DEF IInv, Domains
<1>4. /\ keys' = [m \in Nodes |-> keys'[m]] /\ keys'[n] = TransportKeypair_generate(k)
      /\ \A m \in Nodes : m # n => keys'[m] = keys[m]
  BY Zenon, <1>2, <1>3
<1>5. keys'[n].val = [public |-> x25519_public(OsRng(k)), private |-> OsRng(k)]
  BY ZenonT(60), <1>4, Generated, ResultIs
<1>6. KeysOk'
  BY Zenon, <1>1, <1>4, <1>5 DEF IInv, KeysOk
<1>7. Domains' /\ VaultOk' /\ IssuedOk' /\ HeadersOk' /\ RecordsOk' /\ RunningOk' /\ FilesOk' /\ WrittenOk'
  BY Zenon, <1>2, <1>4
     DEF IInv, Domains, VaultOk, IssuedOk, HeadersOk, RecordsOk, RunningOk, FilesOk, WrittenOk
<1>q. QED  BY Zenon, <1>1, <1>2, <1>6, <1>7 DEF IInv

\* What issuing a header does: the header is for a known identity and a key of the
\* right length, and is signed in one of its frames by the key in the operator's file.
LEMMA IssueIs ==
    ASSUME IInv, NEW n \in Nodes, NEW id \in Identities, issue(n, id)
    PROVE  \E by, h : \E frame \in Frames(h) :
              LET signed == frame \o ed25519_signature(by, frame) IN
              /\ h = AuthHeader_new(h.node_id, h.role, h.public_key)
              /\ h.node_id = id.node_id.val /\ id.node_id.ok
              /\ Role(h.role) /\ Len(h.public_key) = KEY_LEN
              /\ header' = [header EXCEPT ![n] = Ok(signed)]
              /\ issued' = issued \cup {[by |-> by, header |-> h, signed |-> signed]}
<1>1. PICK v \in Nat : /\ vault.human \in BOOLEAN
                      /\ SignatureSigningKey_deserialize(vault) = Ok(OsRng(v))
  BY Zenon, VaultReads DEF IInv
<1>2. SignatureSigningKey_deserialize(vault).val = OsRng(v)
  BY Zenon, <1>1, ResultIs
<1>3. keys[n].ok /\ id.node_id.ok
  BY Zenon DEF issue
<1>4. PICK k \in Nat : keys[n].val = [public |-> x25519_public(OsRng(k)), private |-> OsRng(k)]
  BY Zenon, <1>3 DEF IInv, KeysOk
<1> DEFINE public == x25519_public(OsRng(k))
           by == ed25519_public(OsRng(v))
           h == AuthHeader_new(id.node_id.val, id.role, public)
<1>5. keys[n].val.public = public
  BY <1>4
<1>6. Len(public) = KEY_LEN
  BY Zenon, KeyIs
<1>7. TransportPublicKey_deserialize(TransportPublicKey_serialize(vault.human, keys[n].val.public)).val =
         public
  BY Zenon, <1>1, <1>5, <1>6, KeyRoundTrip, ResultIs
     DEF TransportPublicKey_deserialize, TransportPublicKey_serialize
<1>8. PICK signed \in SignedHeaders(h, OsRng(v)) :
         /\ header' = [header EXCEPT ![n] = Ok(signed)]
         /\ issued' = issued \cup {[by |-> by, header |-> h, signed |-> signed]}
  BY Zenon, <1>2, <1>7 DEF issue
<1>9. h.node_id = id.node_id.val /\ h.role = id.role /\ h.public_key = public
  BY DEF AuthHeader_new
<1>10. Role(h.role)
  BY Zenon, <1>9, ProvisioningAssumption DEF Role
<1> HIDE DEF public, by, h
<1>11. PICK frame \in Frames(h) : signed = frame \o ed25519_signature(by, frame)
  BY Zenon, <1>8 DEF SignedHeaders, Frames, Later, sign, SignatureSigningKey_sign, by
<1>12. h = AuthHeader_new(h.node_id, h.role, h.public_key)
  BY Zenon, <1>9 DEF h
<1>13. Len(h.public_key) = KEY_LEN
  BY Zenon, <1>6, <1>9
<1>q. QED  BY Zenon, <1>3, <1>8, <1>9, <1>10, <1>11, <1>12, <1>13

\* A header that is issued counts as signed from then on; everything that was
\* genuine stays so.
LEMMA IssueStep == ASSUME IInv, NEW n \in Nodes, NEW id \in Identities, issue(n, id) PROVE IInv'
<1>1. PICK by, h : \E frame \in Frames(h) :
              LET signed == frame \o ed25519_signature(by, frame) IN
              /\ h = AuthHeader_new(h.node_id, h.role, h.public_key)
              /\ h.node_id = id.node_id.val /\ id.node_id.ok
              /\ Role(h.role) /\ Len(h.public_key) = KEY_LEN
              /\ header' = [header EXCEPT ![n] = Ok(signed)]
              /\ issued' = issued \cup {[by |-> by, header |-> h, signed |-> signed]}
  BY Zenon, IssueIs
<1>2. PICK frame \in Frames(h) :
              LET signed == frame \o ed25519_signature(by, frame) IN
              /\ h = AuthHeader_new(h.node_id, h.role, h.public_key)
              /\ h.node_id = id.node_id.val /\ id.node_id.ok
              /\ Role(h.role) /\ Len(h.public_key) = KEY_LEN
              /\ header' = [header EXCEPT ![n] = Ok(signed)]
              /\ issued' = issued \cup {[by |-> by, header |-> h, signed |-> signed]}
  BY Zenon, <1>1
<1> DEFINE signed == frame \o ed25519_signature(by, frame)
           i == [by |-> by, header |-> h, signed |-> signed]
<1>3. i.by = by /\ i.header = h /\ i.signed = signed
  OBVIOUS
<1>4. issued' = issued \cup {i} /\ header' = [header EXCEPT ![n] = Ok(signed)]
  BY Zenon, <1>2
<1> HIDE DEF i
<1>5. i \in issued' /\ issued \subseteq issued'
  BY Zenon, <1>4
<1>6. ByteString(frame) /\ IsFrame(frame)
  <2>1. ByteString(frame) /\ \E o \in {0, 1} : Layout(frame, h, o)
    BY Zenon, <1>2, FrameLayout
  <2>q. QED  BY Zenon, <2>1 DEF Layout, IsFrame
<1>7. Signed(issued', <<by, frame>>)
  BY Zenon, <1>3, <1>5 DEF Signed
<1>8. Genuine(issued', signed)
  BY Zenon, <1>6, <1>7, GenuineSigned
<1> HIDE DEF signed
<1>9. IssuedOk'
  <2>1. SUFFICES ASSUME NEW j \in issued'
                 PROVE  /\ j.header = AuthHeader_new(j.header.node_id, j.header.role, j.header.public_key)
                        /\ \E d \in Identities : d.node_id.ok /\ j.header.node_id = d.node_id.val
                        /\ Role(j.header.role) /\ Len(j.header.public_key) = KEY_LEN
                        /\ \E f \in Frames(j.header) : j.signed = f \o ed25519_signature(j.by, f)
    BY Zenon DEF IssuedOk
  <2>2. CASE j \in issued
    BY Zenon, <2>2 DEF IInv, IssuedOk
  <2>3. CASE j = i
    BY Zenon, <1>2, <1>3, <2>3 DEF signed
  <2>q. QED  BY Zenon, <1>4, <2>2, <2>3
<1>10. /\ drawn' = drawn /\ vault' = vault /\ cluster' = cluster /\ keys' = keys /\ file' = file
       /\ node' = node /\ written' = written /\ records' = records
  BY Zenon DEF issue
<1>11. header = [m \in Nodes |-> header[m]]
  BY Zenon DEF IInv, Domains
<1>12. /\ header' = [m \in Nodes |-> header'[m]] /\ header'[n] = Ok(signed)
       /\ \A m \in Nodes : m # n => header'[m] = header[m]
  BY Zenon, <1>4, <1>11
<1>13. HeadersOk'
  <2>1. ASSUME NEW m \in Nodes, header'[m].ok PROVE Genuine(issued', header'[m].val)
    <3>1. CASE m = n
      BY Zenon, <1>8, <1>12, <3>1, ResultIs
    <3>2. CASE m # n
      <4>1. Genuine(issued, header'[m].val)
        BY Zenon, <1>12, <2>1, <3>2 DEF IInv, HeadersOk
      <4>q. QED  BY Zenon, <1>5, <4>1, GenuineMore
    <3>q. QED  BY Zenon, <3>1, <3>2
  <2>q. QED  BY Zenon, <2>1 DEF HeadersOk
<1>14. RecordsOk' /\ RunningOk'
  BY Zenon, <1>5, <1>10, GenuineMore DEF IInv, RecordsOk, RunningOk
<1>15. FilesOk'
  <2>1. ASSUME NEW m \in Nodes, file[m].ok, NEW f \in Field PROVE IsItem(issued', file[m].val[f])
    <3>1. IsItem(issued, file[m].val[f])
      BY Zenon, <2>1 DEF IInv, FilesOk
    <3>2. Genuine(issued', file[m].val[f].bytes)
      BY ZenonT(60), <1>5, <3>1, GenuineMore DEF IsItem
    <3>q. QED  BY Zenon, <3>1, <3>2 DEF IsItem
  <2>2. \A m \in Nodes : file[m].ok =>
           file[m] = Ok(file[m].val) /\ file[m].val = [f \in Field |-> file[m].val[f]]
    BY Zenon DEF IInv, FilesOk
  <2>q. QED  BY Zenon, <1>10, <2>1, <2>2 DEF FilesOk
<1>16. Domains' /\ VaultOk' /\ KeysOk' /\ WrittenOk'
  BY Zenon, <1>10, <1>12 DEF IInv, Domains, VaultOk, KeysOk, WrittenOk
<1>q. QED  BY Zenon, <1>9, <1>10, <1>13, <1>14, <1>15, <1>16 DEF IInv

\* What save writes is genuine and can be read.
LEMMA SaveStep == ASSUME IInv, NEW n \in Nodes, save(n) PROVE IInv'
<1> DEFINE human == vault.human
           c == [private_key |-> keys[n].val.private, auth_header |-> header[n].val,
                 verification_key |-> cluster]
<1>1. PICK v \in Nat : human \in BOOLEAN /\ cluster = ed25519_public(OsRng(v))
  BY Zenon, VaultReads DEF IInv
<1>2. PICK k \in Nat : keys[n].val = [public |-> x25519_public(OsRng(k)), private |-> OsRng(k)]
  BY Zenon DEF save, IInv, KeysOk
<1>3. keys[n].val.private = OsRng(k)
  BY <1>2
<1>4. /\ c.private_key = OsRng(k) /\ c.auth_header = header[n].val
      /\ c.verification_key = ed25519_public(OsRng(v))
  BY <1>1, <1>3
<1>5. /\ Genuine(issued, c.private_key) /\ Genuine(issued, c.auth_header)
      /\ Genuine(issued, c.verification_key)
  BY Zenon, <1>4, GenuineKeys DEF save, IInv, HeadersOk
<1>6. /\ Len(c.private_key) = KEY_LEN /\ Len(c.verification_key) = KEY_LEN
      /\ OnCurve(c.verification_key)
  BY Zenon, <1>4, SecretIs, KeyIs
<1>7. /\ file' = [file EXCEPT ![n] = Ok(Saved(human, c))] /\ written' = [written EXCEPT ![n] = Ok(c)]
      /\ drawn' = drawn /\ vault' = vault /\ cluster' = cluster /\ keys' = keys /\ header' = header
      /\ node' = node /\ issued' = issued /\ records' = records
  BY Zenon DEF save, Saved
<1>8. c = [private_key |-> c.private_key, auth_header |-> c.auth_header,
           verification_key |-> c.verification_key]
  BY <1>4
<1> HIDE DEF c, human
<1> DEFINE f == Saved(human, c)
<1>9. file = [m \in Nodes |-> file[m]] /\ written = [m \in Nodes |-> written[m]]
  BY Zenon DEF IInv, Domains
<1>10. /\ file' = [m \in Nodes |-> file'[m]] /\ file'[n] = Ok(f)
       /\ \A m \in Nodes : m # n => file'[m] = file[m]
  BY Zenon, <1>7, <1>9
<1>11. /\ written' = [m \in Nodes |-> written'[m]] /\ written'[n] = Ok(c)
       /\ \A m \in Nodes : m # n => written'[m] = written[m]
  BY Zenon, <1>7, <1>9
<1>12. /\ f = [g \in Field |-> f[g]] /\ \A g \in Field : IsItem(issued, f[g])
  <2>1. /\ f["private_key"] = to_item(human, c.private_key)
        /\ f["auth_header"] = to_item(human, c.auth_header)
        /\ f["verification_key"] = to_item(human, c.verification_key)
        /\ f = [g \in Field |-> f[g]]
    BY DEF Saved, Field, TransportPrivateKey_serialize, SignedAuthHeader_serialize,
           SignatureVerificationKey_serialize
  <2> HIDE DEF f
  <2>2. /\ IsItem(issued, f["private_key"]) /\ IsItem(issued, f["auth_header"])
        /\ IsItem(issued, f["verification_key"])
    BY Zenon, <1>1, <1>5, <2>1, GenuineItem
  <2>q. QED  BY Zenon, <2>1, <2>2 DEF Field
<1> HIDE DEF f
<1>13. FilesOk'
  <2>1. ASSUME NEW m \in Nodes, file'[m].ok
        PROVE  /\ file'[m] = Ok(file'[m].val) /\ file'[m].val = [g \in Field |-> file'[m].val[g]]
               /\ \A g \in Field : IsItem(issued, file'[m].val[g])
    <3>1. CASE m = n
      BY Zenon, <1>10, <1>12, <3>1, ResultIs
    <3>2. CASE m # n
      BY Zenon, <1>10, <2>1, <3>2 DEF IInv, FilesOk
    <3>q. QED  BY Zenon, <3>1, <3>2
  <2>q. QED  BY Zenon, <1>7, <2>1 DEF FilesOk
<1>14. WrittenOk'
  <2>1. ASSUME NEW m \in Nodes, written'[m].ok
        PROVE  LET d == written'[m].val IN
               /\ d = [private_key |-> d.private_key, auth_header |-> d.auth_header,
                       verification_key |-> d.verification_key]
               /\ Len(d.private_key) = KEY_LEN
               /\ Len(d.verification_key) = KEY_LEN /\ OnCurve(d.verification_key)
               /\ \E h \in BOOLEAN : file'[m] = Ok(Saved(h, d))
    <3>1. CASE m = n
      <4>1. written'[m].val = c
        BY Zenon, <1>11, <3>1, ResultIs
      <4>2. \E h \in BOOLEAN : file'[m] = Ok(Saved(h, c))
        BY Zenon, <1>1, <1>10, <3>1 DEF f
      <4>q. QED  BY Zenon, <1>6, <1>8, <4>1, <4>2
    <3>2. CASE m # n
      <4>1. written'[m] = written[m] /\ file'[m] = file[m]
        BY Zenon, <1>10, <1>11, <3>2
      <4>q. QED  BY Zenon, <2>1, <4>1 DEF IInv, WrittenOk
    <3>q. QED  BY Zenon, <3>1, <3>2
  <2>q. QED  BY Zenon, <2>1 DEF WrittenOk
<1>15. Domains'
  BY Zenon, <1>7, <1>10, <1>11 DEF IInv, Domains
<1>16. VaultOk' /\ KeysOk' /\ IssuedOk' /\ HeadersOk' /\ RecordsOk' /\ RunningOk'
  BY Zenon, <1>7 DEF IInv, VaultOk, KeysOk, IssuedOk, HeadersOk, RecordsOk, RunningOk
<1>q. QED  BY Zenon, <1>7, <1>13, <1>14, <1>15, <1>16 DEF IInv

\* A node that starts runs with the header of its file.
LEMMA StartStep == ASSUME IInv, NEW n \in Nodes, start(n) PROVE IInv'
<1> DEFINE f == file[n].val
           r == Deserialized(f)
<1>1. /\ node' = [node EXCEPT ![n] = r]
      /\ drawn' = drawn /\ vault' = vault /\ cluster' = cluster /\ keys' = keys /\ header' = header
      /\ file' = file /\ written' = written /\ issued' = issued /\ records' = records
  BY Zenon DEF start
<1>2. ASSUME r.ok PROVE Genuine(issued, r.val.auth_header)
  <2> DEFINE a == SignedAuthHeader_deserialize(f.auth_header)
  <2>1. /\ a.ok
        /\ r.val = [private_key |-> TransportPrivateKey_deserialize(f.private_key).val,
                    auth_header |-> a.val,
                    verification_key |-> SignatureVerificationKey_deserialize(f.verification_key).val]
    BY Zenon, <1>2, ResultIs DEF Deserialized
  <2>2. r.val.auth_header = a.val
    <3> HIDE DEF a, r
    <3>q. QED  BY <2>1
  <2>3. a.val = f.auth_header.bytes
    BY Zenon, <2>1, ResultIs DEF SignedAuthHeader_deserialize, map_err, from_item, hex_decode
  <2>4. "auth_header" \in Field
    BY DEF Field
  <2>5. Genuine(issued, f["auth_header"].bytes)
    BY Zenon, <2>4 DEF start, IInv, FilesOk, IsItem
  <2>q. QED  BY Zenon, <2>2, <2>3, <2>5
<1>3. node = [m \in Nodes |-> node[m]]
  BY Zenon DEF IInv, Domains
<1> HIDE DEF r
<1>4. /\ node' = [m \in Nodes |-> node'[m]] /\ node'[n] = r
      /\ \A m \in Nodes : m # n => node'[m] = node[m]
  BY Zenon, <1>1, <1>3
<1>5. RunningOk'
  BY Zenon, <1>1, <1>2, <1>4 DEF IInv, RunningOk
<1>6. Domains'
  BY Zenon, <1>1, <1>4 DEF IInv, Domains
<1>7. VaultOk' /\ KeysOk' /\ IssuedOk' /\ HeadersOk' /\ RecordsOk' /\ FilesOk' /\ WrittenOk'
  BY Zenon, <1>1 DEF IInv, VaultOk, KeysOk, IssuedOk, HeadersOk, RecordsOk, FilesOk, WrittenOk
<1>q. QED  BY Zenon, <1>1, <1>5, <1>6, <1>7 DEF IInv

\* A mishandled file is no longer what was written, and stays genuine.
LEMMA MishandleStep == ASSUME IInv, NEW n \in Nodes, NEW f \in Field, mishandle(n, f) PROVE IInv'
<1>1. PICK item \in Mishandled(n, f) : file' = [file EXCEPT ![n].val[f] = item]
  BY Zenon DEF mishandle
<1>2. file[n].ok
  BY Zenon DEF mishandle
<1>3. IsItem(issued, item)
  BY Zenon, <1>2, GenuineMishandled DEF IInv
<1>4. /\ written' = [written EXCEPT ![n] = None]
      /\ drawn' = drawn /\ vault' = vault /\ cluster' = cluster /\ keys' = keys /\ header' = header
      /\ node' = node /\ issued' = issued /\ records' = records
  BY Zenon DEF mishandle
<1> DEFINE old == file[n].val
           new == [old EXCEPT ![f] = item]
<1>5. /\ file = [m \in Nodes |-> file[m]] /\ written = [m \in Nodes |-> written[m]]
      /\ file[n] = Ok(old) /\ old = [g \in Field |-> old[g]]
  BY Zenon, <1>2 DEF IInv, Domains, FilesOk
<1>6. file' = [file EXCEPT ![n] = [file[n] EXCEPT !.val = new]]
  BY Zenon, <1>1
<1>7. [file[n] EXCEPT !.val = new] = Ok(new)
  <2> DEFINE r == file[n]
  <2> HIDE DEF new, old, r
  <2>0. PICK ok : ok = TRUE
    BY Zenon
  <2>1. r = [ok |-> ok, val |-> old]
    BY Zenon, <1>5, <2>0 DEF Ok, r
  <2>2. [r EXCEPT !.val = new] = [ok |-> ok, val |-> new]
    BY <2>1
  <2>q. QED  BY Zenon, <2>0, <2>2 DEF Ok, r
<1>8. new = [g \in Field |-> new[g]] /\ new[f] = item /\ \A g \in Field : g # f => new[g] = old[g]
  BY Zenon, <1>5
<1>9. \A g \in Field : IsItem(issued, new[g])
  BY Zenon, <1>2, <1>3, <1>8 DEF IInv, FilesOk
<1> HIDE DEF new, old
<1>10. /\ file' = [m \in Nodes |-> file'[m]] /\ file'[n] = Ok(new)
       /\ \A m \in Nodes : m # n => file'[m] = file[m]
  BY Zenon, <1>5, <1>6, <1>7
<1>11. /\ written' = [m \in Nodes |-> written'[m]] /\ written'[n] = None
       /\ \A m \in Nodes : m # n => written'[m] = written[m]
  BY Zenon, <1>4, <1>5
<1>12. FilesOk'
  <2>1. ASSUME NEW m \in Nodes, file'[m].ok
        PROVE  /\ file'[m] = Ok(file'[m].val) /\ file'[m].val = [g \in Field |-> file'[m].val[g]]
               /\ \A g \in Field : IsItem(issued, file'[m].val[g])
    <3>1. CASE m = n
      BY Zenon, <1>8, <1>9, <1>10, <3>1, ResultIs
    <3>2. CASE m # n
      BY Zenon, <1>10, <2>1, <3>2 DEF IInv, FilesOk
    <3>q. QED  BY Zenon, <3>1, <3>2
  <2>q. QED  BY Zenon, <1>4, <2>1 DEF FilesOk
<1>13. WrittenOk'
  <2>1. ~None.ok
    BY Zenon, ResultIs DEF None
  <2>2. ASSUME NEW m \in Nodes, written'[m].ok PROVE written'[m] = written[m] /\ file'[m] = file[m]
    BY Zenon, <1>10, <1>11, <2>1, <2>2
  <2>q. QED  BY Zenon, <2>2 DEF IInv, WrittenOk
<1>14. Domains'
  BY Zenon, <1>4, <1>10, <1>11 DEF IInv, Domains
<1>15. VaultOk' /\ KeysOk' /\ IssuedOk' /\ HeadersOk' /\ RecordsOk' /\ RunningOk'
  BY Zenon, <1>4 DEF IInv, VaultOk, KeysOk, IssuedOk, HeadersOk, RecordsOk, RunningOk
<1>q. QED  BY Zenon, <1>4, <1>12, <1>13, <1>14, <1>15 DEF IInv

\* Every step keeps the invariant.
LEMMA StepIInv == IInv /\ [Next]_vars => IInv'
<1> SUFFICES ASSUME IInv, [Next]_vars PROVE IInv'
  OBVIOUS
<1>1. CASE new_cluster
  BY Zenon, <1>1, NewClusterStep
<1>2. CASE sign_record
  BY Zenon, <1>2, SignRecordStep
<1>3. ASSUME NEW n \in Nodes, new_keys(n) PROVE IInv'
  BY Zenon, <1>3, NewKeysStep
<1>4. ASSUME NEW n \in Nodes, save(n) PROVE IInv'
  BY Zenon, <1>4, SaveStep
<1>5. ASSUME NEW n \in Nodes, start(n) PROVE IInv'
  BY Zenon, <1>5, StartStep
<1>6. ASSUME NEW n \in Nodes, NEW id \in Identities, issue(n, id) PROVE IInv'
  BY Zenon, <1>6, IssueStep
<1>7. ASSUME NEW n \in Nodes, NEW f \in Field, mishandle(n, f) PROVE IInv'
  BY Zenon, <1>7, MishandleStep
<1>8. CASE UNCHANGED vars
  BY ZenonT(60), <1>8 DEF vars, IInv, Domains, VaultOk, KeysOk, IssuedOk, HeadersOk, RecordsOk, RunningOk,
                     FilesOk, WrittenOk
<1>q. QED  BY Zenon, <1>1, <1>2, <1>3, <1>4, <1>5, <1>6, <1>7, <1>8 DEF Next

----------------------------------------------------------------------------
\* Theorems

\* The inductive invariant holds.
THEOREM Invariance == Spec => []IInv
  BY PTL, InitIInv, StepIInv DEF Spec

\* authenticate (verify_raw, validate_public_key) takes a node only for who the
\* operator has said that the holder of its transport key is, under the
\* verification key of the node that asks: for any nodes and identities, however
\* often keys are replaced, whatever else is signed and however files are mishandled.
THEOREM OnlyIssuedHolds == Spec => []OnlyIssued
<1>1. IInv => OnlyIssued
  BY Zenon, IInvOnlyIssued
<1>q. QED  BY PTL, Invariance, <1>1

\* A node that runs with a header issued for its key is accepted, by all that trust
\* the key it was signed with, with the id and the role it was issued, whichever
\* version wrote the header; provided the id is one that from_yatlv takes.
THEOREM IssuedAcceptedHolds == ASSUME IdsInBounds PROVE Spec => []IssuedAccepted
<1>1. IInv => IssuedAccepted
  BY Zenon, IInvIssuedAccepted
<1>q. QED  BY PTL, Invariance, <1>1

\* Deserialize and TryFrom<&str> give back what Serialize, Display and
\* expose_to_human_string have written of Credentials and keys, in every format.
THEOREM IntactFileLoadsHolds == Spec => []IntactFileLoads
<1>1. IInv => IntactFileLoads
  BY Zenon, IInvIntactFileLoads
<1>q. QED  BY PTL, Invariance, <1>1

\* Every header an operator signs for an id that from_yatlv takes is verified as it
\* was: sign and verify_raw are inverse, also with fields of a later version.
THEOREM SignedVerifiesHolds == ASSUME IdsInBounds PROVE Spec => []SignedVerifies
<1>1. IInv => SignedVerifies
  <2> SUFFICES ASSUME IInv, NEW i \in issued PROVE verify_raw(i.by, i.signed) = Ok(i.header)
    BY Zenon DEF SignedVerifies
  <2>1. verify_payload(i.by, i.signed).ok /\ from_yatlv(verify_payload(i.by, i.signed).val) = Ok(i.header)
    BY Zenon, IssuedReads, ResultIs
  <2>2. Ok(i.header).ok
    BY Zenon, ResultIs
  <2>q. QED  BY Zenon, <2>1, <2>2, VerifyRawIs
<1>q. QED  BY PTL, Invariance, <1>1
=============================================================================
