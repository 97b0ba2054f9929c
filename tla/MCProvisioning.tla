--------------------------- MODULE MCProvisioning ---------------------------
(***************************************************************************)
(* Provisioning for TLC.  Two nodes; ids that are the same number at       *)
(* different widths; keys and signatures of two symbolic bytes, so that    *)
(* each can be a byte short.                                               *)
(***************************************************************************)
EXTENDS Provisioning, TLC

MCIdentities == {[node_id |-> Ok(NodeId_from_u32(1)), role |-> <<>>],
                 [node_id |-> Ok(NodeId_from_u64(1)), role |-> <<Repeat("role", 0, 1)>>]}

\* A byte string a byte too long for a node id, given to try_from_bytes and read
\* from a file.
LongId == Repeat("id", 0, MAX_NODE_ID_LEN + 1)
MCLongIdentities == {[node_id |-> NodeId_try_from_bytes(LongId), role |-> <<>>],
                     [node_id |-> NodeId_deserialize(LongId), role |-> <<>>]}

\* A private key of a node that happens to be a point of the signatures' curve.
MCLuckyPoints == {OsRng(2)}

\* Nodes are alike.
NodeSymmetry == Permutations(Nodes)
============================================================================
