-------------------------------- MODULE Auth --------------------------------
(***************************************************************************)
(* Keys, node ids and auth headers: the conversions and checks of          *)
(* src/sign.rs, src/noise.rs, src/node_id.rs and src/auth.rs.              *)
(*                                                                         *)
(* A byte string is a sequence of symbolic bytes <<kind, of, index>>; only *)
(* its length and its identity matter to the code.  Cryptography is ideal: *)
(* a public key determines its private key, a signature its key and its    *)
(* payload.  ed25519, x25519, the hex and yatlv crates and the serde data  *)
(* formats are external and modelled by what the code asks of them.        *)
(***************************************************************************)
EXTENDS Integers, Sequences

CONSTANTS
    KEY_LEN,          \* 32 in the code
    SIGNATURE_LEN,    \* 64 in the code
    MAX_NODE_ID_LEN,  \* 512 in the code
    LuckyPoints       \* byte strings that are curve points though no public key

ASSUME AuthAssumption ==
    /\ KEY_LEN \in Nat \ {0} /\ SIGNATURE_LEN \in Nat \ {0}
    /\ MAX_NODE_ID_LEN \in Nat /\ MAX_NODE_ID_LEN >= 8

\* Rust's Result.
Ok(v) == [ok |-> TRUE, val |-> v]
Err(e) == [ok |-> FALSE, err |-> e]
AndThen(r, f(_)) == IF r.ok THEN f(r.val) ELSE r
map_err(r, e) == IF r.ok THEN r ELSE Err(e)

----------------------------------------------------------------------------
\* The libraries.

Repeat(kind, of, n) == [i \in 1..n |-> <<kind, of, i>>]

\* Secrets drawn from the operating system's generator, numbered as drawn.
OsRng(n) == Repeat("secret", n, KEY_LEN)

\* The public half of a private key, on the curve of the signatures and on that
\* of the transport.
ed25519_public(private) == Repeat("ed25519", private, KEY_LEN)
x25519_public(private) == Repeat("x25519", private, KEY_LEN)
OnCurve(bytes) == bytes \in LuckyPoints \/ \A i \in 1..Len(bytes) : bytes[i][1] = "ed25519"

\* An ed25519 signature of a payload under the key with that public half.
ed25519_signature(public, payload) == Repeat("signature", <<public, payload>>, SIGNATURE_LEN)

\* What a configuration file holds for one value: hex text in a human-readable
\* format, the bytes themselves in a binary one.  A text need not be hex: it may
\* have an odd number of digits, or a character that is no digit.
hex_encode(bytes) == [human |-> TRUE, hex |-> TRUE, bytes |-> bytes]
raw_bytes(bytes) == [human |-> FALSE, hex |-> FALSE, bytes |-> bytes]
hex_decode(text) == IF text.hex THEN Ok(text.bytes) ELSE Err("FromHexError")

\* What serde writes for a byte string, and what it reads.
to_item(human, bytes) == IF human THEN hex_encode(bytes) ELSE raw_bytes(bytes)
from_item(item) == IF item.human THEN hex_decode(item) ELSE Ok(item.bytes)

\* bytes.try_into::<[u8; 32]>(), as the TryFrom<&str> conversions and as serde use it.
KeyArray(bytes) == IF Len(bytes) = KEY_LEN THEN Ok(bytes) ELSE Err("MalformedKeyError")
KeyText(text) == AndThen(map_err(hex_decode(text), "MalformedKeyError"), KeyArray)
KeyItem(item) == map_err(AndThen(from_item(item), KeyArray), "de::Error")

\* yatlv: a frame is a sequence of tagged fields; the first of a tag counts.
field(tag, data) == <<"field", data, tag>>
IsFrame(data) == \A i \in 1..Len(data) : data[i][1] = "field"
get_data(data, tag) ==
    LET at == {i \in 1..Len(data) : data[i][3] = tag}
    IN IF at = {} THEN Err("MissingField")
       ELSE Ok(data[CHOOSE i \in at : \A j \in at : i <= j][2])

----------------------------------------------------------------------------
\* sign.rs

\* What may be wrong with a signed record.
SignatureValidationErr == {"MalformedRecord", "BadSignature"}

\* A verification key is a point of the curve.
SignatureVerificationKey_from(bytes) ==
    IF OnCurve(bytes) THEN Ok(bytes) ELSE Err("MalformedKeyError")

SignatureVerificationKey_try_from(text) ==
    AndThen(KeyText(text), SignatureVerificationKey_from)

\* Display.
SignatureVerificationKey_to_string(key) == hex_encode(key)

SignatureVerificationKey_serialize(human, key) == to_item(human, key)

SignatureVerificationKey_deserialize(item) ==
    map_err(AndThen(KeyItem(item), SignatureVerificationKey_from), "de::Error")

\* SignatureVerificationKey::verify_payload.  The signature is the last bytes of
\* the record, the payload what comes before it.
verify_payload(key, record) ==
    LET payload_len == Len(record) - SIGNATURE_LEN
        payload == SubSeq(record, 1, payload_len)
        signature == SubSeq(record, payload_len + 1, Len(record))
    IN IF Len(record) < SIGNATURE_LEN THEN Err("MalformedRecord")
       ELSE IF signature = ed25519_signature(key, payload) THEN Ok(payload)
       ELSE Err("BadSignature")

SignatureSigningKey_expose_to_human_string(key) == hex_encode(key)

\* SignatureSigningKey::sign: the payload, then its signature.
SignatureSigningKey_sign(key, payload) ==
    payload \o ed25519_signature(ed25519_public(key), payload)

SignatureSigningKey_try_from(text) == KeyText(text)

SignatureSigningKey_serialize(human, key) == to_item(human, key)

SignatureSigningKey_deserialize(item) == KeyItem(item)

\* SignatureKeypair::generate, from the n-th secret of the generator.
SignatureKeypair_generate(n) ==
    LET public == map_err(SignatureVerificationKey_from(ed25519_public(OsRng(n))), "KeyGenError")
    IN AndThen(public, LAMBDA p : Ok([public |-> p, private |-> OsRng(n)]))

----------------------------------------------------------------------------
\* noise.rs

TransportPublicKey_try_from(text) == KeyText(text)

\* Display.
TransportPublicKey_to_string(key) == hex_encode(key)

TransportPublicKey_serialize(human, key) == to_item(human, key)

TransportPublicKey_deserialize(item) == KeyItem(item)

TransportPrivateKey_expose_to_human_string(key) == hex_encode(key)

TransportPrivateKey_try_from(text) == KeyText(text)

TransportPrivateKey_serialize(human, key) == to_item(human, key)

\* Mutant: every format is taken for a text.
TransportPrivateKey_deserialize_text(item) == map_err(AndThen(hex_decode(item), KeyArray), "de::Error")

TransportPrivateKey_deserialize(item) == KeyItem(item)

\* TransportKeypair::generate, from the n-th secret of the generator.
TransportKeypair_generate(n) ==
    LET public == map_err(KeyArray(x25519_public(OsRng(n))), "KeyGenError")
        private == map_err(KeyArray(OsRng(n)), "KeyGenError")
    IN AndThen(public, LAMBDA p : AndThen(private, LAMBDA q : Ok([public |-> p, private |-> q])))

----------------------------------------------------------------------------
\* node_id.rs

NodeId_try_from_bytes(bytes) ==
    IF Len(bytes) > MAX_NODE_ID_LEN THEN Err("NodeIdTooLong") ELSE Ok(bytes)

\* Integers are written big-endian over their whole width; values below 256 here.
BigEndian(value, width) == [i \in 1..width |-> <<"byte", IF i = width THEN value ELSE 0, 0>>]
NodeId_from_u64(value) == BigEndian(value, 8)
NodeId_from_u32(value) == BigEndian(value, 4)

\* The derived Deserialize takes any bytes.
NodeId_deserialize(bytes) == Ok(bytes)

----------------------------------------------------------------------------
\* auth.rs

TAG_NODE_ID == 1
TAG_PUBLIC_KEY == 2
TAG_ROLE == 3

\* AuthHeader::new.  An optional role is a sequence of at most one byte string.
AuthHeader_new(node_id, role, public_key) ==
    [node_id |-> node_id, role |-> role, public_key |-> public_key]

AuthDetails(header) == [node_id |-> header.node_id, role |-> header.role]

\* Mutant: the header need not be about the key that the other side holds.
validate_public_key_any(header, key) == Ok(header)

\* AuthHeader::validate_public_key.
validate_public_key(header, key) ==
    IF header.public_key = key THEN Ok(header) ELSE Err("PublicKeyMismatch")

\* AuthDetails::check_node_id.
check_details(details, expected) ==
    IF details.node_id = expected THEN Ok(details) ELSE Err("NodeIdMismatch")

\* AuthHeader::to_yatlv.
to_yatlv(header) ==
    <<field(TAG_NODE_ID, header.node_id), field(TAG_PUBLIC_KEY, header.public_key)>>
    \o [i \in 1..Len(header.role) |-> field(TAG_ROLE, header.role[i])]

\* Mutant: the role is lost.
from_yatlv_no_role(data) ==
    LET node_id == AndThen(get_data(data, TAG_NODE_ID), NodeId_try_from_bytes)
        public_key == AndThen(get_data(data, TAG_PUBLIC_KEY), KeyArray)
    IN IF IsFrame(data) /\ node_id.ok /\ public_key.ok
       THEN Ok([node_id |-> node_id.val, role |-> <<>>, public_key |-> public_key.val])
       ELSE Err("MalformedAuthHeader")

\* AuthHeader::from_yatlv.  Fields of other tags are ignored.
from_yatlv(data) ==
    LET node_id == AndThen(get_data(data, TAG_NODE_ID), NodeId_try_from_bytes)
        public_key == AndThen(get_data(data, TAG_PUBLIC_KEY), KeyArray)
        role == get_data(data, TAG_ROLE)
    IN IF IsFrame(data) /\ node_id.ok /\ public_key.ok
       THEN Ok([node_id |-> node_id.val,
                role |-> IF role.ok THEN <<role.val>> ELSE <<>>,
                public_key |-> public_key.val])
       ELSE Err("MalformedAuthHeader")

\* AuthHeader::sign.
sign(header, signing_key) == SignatureSigningKey_sign(signing_key, to_yatlv(header))

\* SignedAuthHeader::verify_raw.  from_yatlv is applied as a function so that TLC
\* evaluates the payload once.
verify_raw(key, data) ==
    LET payload == verify_payload(key, data)
        header == [p \in {payload.val} |-> from_yatlv(p)][payload.val]
    IN IF ~payload.ok THEN payload
       ELSE IF ~header.ok THEN Err("MalformedRecord")
       ELSE header

SignedAuthHeader_expose_to_human_string(data) == hex_encode(data)

SignedAuthHeader_try_from(text) ==
    map_err(hex_decode(text), "MalformedAuthHeader")

SignedAuthHeader_serialize(human, data) == to_item(human, data)

SignedAuthHeader_deserialize(item) == map_err(from_item(item), "de::Error")

\* The checks that connect and accept make of the other side's header, given the
\* static key that the Noise handshake has shown the other side to hold.
authenticate(verification_key, remote_static, data) ==
    AndThen(AndThen(verify_raw(verification_key, data),
                    LAMBDA header : validate_public_key(header, remote_static)),
            LAMBDA header : Ok(AuthDetails(header)))
============================================================================
