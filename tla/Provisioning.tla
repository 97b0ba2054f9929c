---------------------------- MODULE Provisioning ----------------------------
(***************************************************************************)
(* How a cluster gets its credentials: an operator generates the signature *)
(* keypair and signs auth headers, nodes generate transport keypairs, and  *)
(* Credentials travel through configuration files, which people copy, cut  *)
(* short and mistype.  Keys are replaced while old headers are around.     *)
(*                                                                         *)
(* What a node then makes of another one is authenticate of module Auth,   *)
(* the checks of connect and accept.                                       *)
(***************************************************************************)
EXTENDS Auth, FiniteSets

CONSTANTS
    Nodes,
    Identities,   \* the node ids (Results) and optional roles for headers
    MaxSecrets,   \* how many keypairs are generated
    MaxSigned,    \* how many records the operator signs
    MaxMistakes   \* how many times a file is mishandled

\* A header has one role at most.
ASSUME ProvisioningAssumption ==
    \A id \in Identities : id.role = <<>> \/ id.role = <<id.role[1]>>

VARIABLES
    drawn,    \* secrets drawn from the generator so far
    vault,    \* the operator's file with the signing key; all files share its format
    cluster,  \* the verification key handed out to nodes
    keys,     \* each node's transport keypair
    header,   \* the signed auth header each node was given last
    file,     \* each node's configuration file
    node,     \* the Credentials each node runs with, or why it does not run
    written,  \* history: what each file was made from, while it is untouched
    issued,   \* history: what the operator has signed as an auth header, and how
    records,  \* history: what else the operator has signed
    mistakes
vars == <<drawn, vault, cluster, keys, header, file, node, written, issued, records, mistakes>>

Field == {"private_key", "auth_header", "verification_key"}
None == Err("None")

\* A cluster begins with its signature keypair.
Init ==
    /\ drawn = 1
    /\ \E human \in BOOLEAN :
          vault = SignatureSigningKey_serialize(human, SignatureKeypair_generate(1).val.private)
    /\ cluster = SignatureKeypair_generate(1).val.public
    /\ keys = [n \in Nodes |-> None] /\ header = [n \in Nodes |-> None]
    /\ file = [n \in Nodes |-> None] /\ node = [n \in Nodes |-> None]
    /\ written = [n \in Nodes |-> None]
    /\ issued = {} /\ records = {} /\ mistakes = 0

----------------------------------------------------------------------------
\* The operator.

\* A new signature keypair replaces the cluster's.
new_cluster ==
    LET pair == SignatureKeypair_generate(drawn + 1)
        human == vault.human
    IN
    /\ drawn < MaxSecrets /\ pair.ok
    /\ drawn' = drawn + 1
    /\ vault' = SignatureSigningKey_serialize(human, pair.val.private)
    /\ cluster' = SignatureVerificationKey_deserialize(
                     SignatureVerificationKey_serialize(human, pair.val.public)).val
    /\ UNCHANGED <<keys, header, file, node, written, issued, records, mistakes>>

\* The signed header, as this version of the code makes it and as a later one
\* may, with a field more.
SignedHeaders(h, key) ==
    LET more == <<field(TAG_ROLE + 1, <<>>)>> IN
    {sign(h, key)}
    \cup {SignatureSigningKey_sign(key, frame) : frame \in {to_yatlv(h) \o more, more \o to_yatlv(h)}}

\* The operator loads the signing key and the node's public key, and signs a
\* header for the node.
issue(n, id) ==
    LET human == vault.human
        key == SignatureSigningKey_deserialize(vault)
        public == TransportPublicKey_deserialize(
                     TransportPublicKey_serialize(human, keys[n].val.public))
        h == AuthHeader_new(id.node_id.val, id.role, public.val)
    IN /\ Cardinality(issued) + Cardinality(records) < MaxSigned
       /\ keys[n].ok /\ key.ok /\ public.ok /\ id.node_id.ok
       /\ \E signed \in SignedHeaders(h, key.val) :
             /\ header' = [header EXCEPT ![n] = Ok(signed)]
             /\ issued' = issued \cup {[by |-> ed25519_public(key.val), header |-> h, signed |-> signed]}
       /\ UNCHANGED <<drawn, vault, cluster, keys, file, node, written, records, mistakes>>

\* The signing key also signs records that are no auth headers.
sign_record ==
    LET key == SignatureSigningKey_deserialize(vault) IN
    /\ Cardinality(issued) + Cardinality(records) < MaxSigned /\ key.ok
    /\ \E payload \in {<<>>, <<field(TAG_NODE_ID, NodeId_from_u32(1))>>} :
          records' = records \cup {SignatureSigningKey_sign(key.val, payload)}
    /\ UNCHANGED <<drawn, vault, cluster, keys, header, file, node, written, issued, mistakes>>

----------------------------------------------------------------------------
\* The nodes.

\* A node generates its transport keypair, or another one.
new_keys(n) ==
    LET pair == TransportKeypair_generate(drawn + 1) IN
    /\ drawn < MaxSecrets /\ pair.ok
    /\ drawn' = drawn + 1
    /\ keys' = [keys EXCEPT ![n] = pair]
    /\ UNCHANGED <<vault, cluster, header, file, node, written, issued, records, mistakes>>

\* A node's Credentials are written to its configuration file.
save(n) ==
    LET human == vault.human
        credentials == [private_key |-> keys[n].val.private, auth_header |-> header[n].val,
                        verification_key |-> cluster]
    IN /\ keys[n].ok /\ header[n].ok
       /\ file' = [file EXCEPT ![n] = Ok(
             [private_key |-> TransportPrivateKey_serialize(human, credentials.private_key),
              auth_header |-> SignedAuthHeader_serialize(human, credentials.auth_header),
              verification_key |->
                 SignatureVerificationKey_serialize(human, credentials.verification_key)])]
       /\ written' = [written EXCEPT ![n] = Ok(credentials)]
       /\ UNCHANGED <<drawn, vault, cluster, keys, header, node, issued, records, mistakes>>

\* Deserialize of the three fields of Credentials; one that fails, fails them all.
Deserialized(f) ==
    LET private_key == TransportPrivateKey_deserialize(f.private_key)
        auth_header == SignedAuthHeader_deserialize(f.auth_header)
        verification_key == SignatureVerificationKey_deserialize(f.verification_key)
    IN IF private_key.ok /\ auth_header.ok /\ verification_key.ok
       THEN Ok([private_key |-> private_key.val, auth_header |-> auth_header.val,
                verification_key |-> verification_key.val])
       ELSE Err("Malformed")

\* A node starts, or starts again, with what its file holds.
start(n) ==
    /\ file[n].ok
    /\ node' = [node EXCEPT ![n] = Deserialized(file[n].val)]
    /\ UNCHANGED <<drawn, vault, cluster, keys, header, file, written, issued, records, mistakes>>

----------------------------------------------------------------------------
\* People.

\* What may become of one value of a file.
Mishandled(n, f) ==
    LET item == file[n].val[f] IN
    {[item EXCEPT !.bytes = SubSeq(@, 1, Len(@) - 1)],       \* cut short
     [item EXCEPT !.bytes[1] = <<"byte", 0, 0>>],             \* mistyped
     [item EXCEPT !.hex = FALSE]}                             \* no longer hex
    \cup {[item EXCEPT !.bytes = r] : r \in records}          \* another signed record
    \cup UNION {{file[m].val[g] : g \in Field} : m \in {m \in Nodes : file[m].ok}}  \* pasted

mishandle(n, f) ==
    /\ mistakes < MaxMistakes /\ file[n].ok
    /\ \E item \in Mishandled(n, f) :
          /\ item # file[n].val[f] /\ item.human = file[n].val[f].human
          /\ file' = [file EXCEPT ![n].val[f] = item]
    /\ written' = [written EXCEPT ![n] = None]
    /\ mistakes' = mistakes + 1
    /\ UNCHANGED <<drawn, vault, cluster, keys, header, node, issued, records>>

Next ==
    \/ new_cluster \/ sign_record
    \/ \E n \in Nodes :
          \/ new_keys(n) \/ save(n) \/ start(n)
          \/ \E id \in Identities : issue(n, id)
          \/ \E f \in Field : mishandle(n, f)

Spec == Init /\ [][Next]_vars

----------------------------------------------------------------------------
\* Properties

Running == {n \in Nodes : node[n].ok}

\* The outcome of the checks that n makes of m when they meet.
Accepts(n, m) ==
    authenticate(node[n].val.verification_key, x25519_public(node[m].val.private_key),
                 node[m].val.auth_header)

\* The operator has given the key that m holds the identity d, under the cluster
\* key that n trusts.
Issued(n, m, d) ==
    \E i \in issued :
       /\ i.by = node[n].val.verification_key
       /\ i.header.public_key = x25519_public(node[m].val.private_key)
       /\ AuthDetails(i.header) = d

\* A node is taken only for who the operator says the holder of its key is,
\* whatever was pasted, cut or mistyped into the files of either, and whatever
\* else the operator has signed.
OnlyIssued ==
    \A n, m \in Running : Accepts(n, m).ok => Issued(n, m, Accepts(n, m).val)

\* A node that runs with a header issued for its present key is accepted by all
\* that trust the key it was signed with, with the id and the role it was issued,
\* also when the header has fields of a later version.
IssuedAccepted ==
    \A n, m \in Running, i \in issued :
       (/\ i.by = node[n].val.verification_key
        /\ i.header.public_key = x25519_public(node[m].val.private_key)
        /\ i.signed = node[m].val.auth_header)
       => Accepts(n, m) = Ok(AuthDetails(i.header))

\* A file nobody has touched gives back the Credentials it was made from, in
\* every format, and the operator's file the signing key that goes with the key
\* handed out; and what Display and expose_to_human_string print is what a
\* human-readable file holds, and is read back by TryFrom<&str>.
IntactFileLoads ==
    /\ \A n \in Nodes : written[n].ok =>
          LET f == file[n].val
              c == written[n].val
              texts == [private_key |-> TransportPrivateKey_expose_to_human_string(c.private_key),
                        auth_header |-> SignedAuthHeader_expose_to_human_string(c.auth_header),
                        verification_key |-> SignatureVerificationKey_to_string(c.verification_key)]
          IN /\ Deserialized(f) = Ok(c)
             /\ f.private_key.human => f = texts
             /\ TransportPrivateKey_try_from(texts.private_key) = Ok(c.private_key)
             /\ SignedAuthHeader_try_from(texts.auth_header) = Ok(c.auth_header)
             /\ SignatureVerificationKey_try_from(texts.verification_key) = Ok(c.verification_key)
    /\ \A n \in Nodes : keys[n].ok =>
          LET public == keys[n].val.public
          IN TransportPublicKey_try_from(TransportPublicKey_to_string(public)) = Ok(public)
    /\ LET private == SignatureSigningKey_deserialize(vault)
           text == SignatureSigningKey_expose_to_human_string(private.val)
       IN /\ private.ok /\ ed25519_public(private.val) = cluster
          /\ vault.human => vault = text
          /\ SignatureSigningKey_try_from(text) = private

\* node_id.rs:17-19: a NodeId is "Constructed from a raw byte vector via
\* [`NodeId::try_from_bytes`] (bounded to [`MAX_NODE_ID_LEN`] bytes), or from
\* integer types", so that every header an operator signs can be verified.
SignedVerifies == \A i \in issued : verify_raw(i.by, i.signed) = Ok(i.header)
============================================================================
