----------------------------- MODULE MCPeerLink -----------------------------
(***************************************************************************)
(* PeerLink for TLC.  Two identities for reconnect tasks are enough for a  *)
(* second task to show itself; a finished task's identity is used again.   *)
(***************************************************************************)
EXTENDS PeerLink, TLC

\* Clients are interchangeable, and so are task identities.
ClientSymmetry == Permutations(Clients) \cup Permutations(Tasks)
=============================================================================
