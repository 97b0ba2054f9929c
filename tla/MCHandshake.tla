---------------------------- MODULE MCHandshake ----------------------------
(***************************************************************************)
(* Handshake for TLC.  Each side has a transport key of its own.  Two      *)
(* cluster keys, two node ids and the two transport keys let every check   *)
(* of a header fail and succeed on each side independently; other payloads *)
(* are too short for a signature, signed but no header, or too long for    *)
(* message 2 or for either message.  Every pair of configurations is an    *)
(* initial state.                                                          *)
(***************************************************************************)
EXTENDS Handshake

Private == [initiator |-> OsRng(3), responder |-> OsRng(4)]

NodeId(value) == NodeId_try_from_bytes(BigEndian(value, 1)).val

MCTargets == {NodeId(1), NodeId(2)}

PlainHeaders(c) ==
    {sign(AuthHeader_new(id, <<>>, x25519_public(Private[s])), OsRng(c)) : id \in MCTargets, s \in Side}

RoleHeader(s) ==
    AuthHeader_new(NodeId(1), <<Repeat("role", 0, 1)>>, x25519_public(Private[s]))

OddPayloads(s) ==
    {<<>>, SignatureSigningKey_sign(OsRng(1), <<>>),
     sign(RoleHeader(s), OsRng(1)),
     SignatureSigningKey_sign(OsRng(1), to_yatlv(RoleHeader(s)) \o <<field(TAG_ROLE + 1, <<>>)>>)}

\* The two clusters are alike: the responder may as well trust the first.
Trusted == [initiator |-> {1, 2}, responder |-> {1}]

MCCredentials ==
    [s \in Side |->
        {[private_key |-> Private[s], auth_header |-> h, verification_key |-> ed25519_public(OsRng(c))] :
            h \in PlainHeaders(1) \cup PlainHeaders(2) \cup OddPayloads(s), c \in Trusted[s]}]

\* Message 2 has room for a header without a role, message 3 for one with it.
MCMaxPayload == [msg2 |-> 2 + SIGNATURE_LEN, msg3 |-> 3 + SIGNATURE_LEN]
============================================================================
