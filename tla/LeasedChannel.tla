--------------------------- MODULE LeasedChannel ---------------------------
(***************************************************************************)
(* What a Connection of the pool promises its clients (the documentation   *)
(* of Connection, Guard and ConnectionPool in src/pool.rs), without locks, *)
(* tasks or wake-ups: there is at most one channel to the peer; it is      *)
(* leased to one client at a time; a client returns it between exchanges   *)
(* or it is discarded; a discarded channel is replaced by a fresh one.     *)
(***************************************************************************)
CONSTANTS Clients, NoOne

VARIABLES
    channel,   \* "none", "free" or "leased"
    lessee,    \* the client that has it
    midway     \* an exchange is under way on it

vars == <<channel, lessee, midway>>

Init == channel = "none" /\ lessee = NoOne /\ midway = FALSE

\* The background task supplies a channel, only where there is none.
Establish ==
    /\ channel = "none"
    /\ channel' = "free"
    /\ UNCHANGED <<lessee, midway>>

Lease(c) ==
    /\ channel = "free"
    /\ channel' = "leased" /\ lessee' = c
    /\ UNCHANGED midway

Exchange(c) ==
    /\ lessee = c
    /\ midway' = ~midway
    /\ UNCHANGED <<channel, lessee>>

Commit(c) ==
    /\ lessee = c /\ ~midway
    /\ channel' = "free" /\ lessee' = NoOne
    /\ UNCHANGED midway

Discard(c) ==
    /\ lessee = c
    /\ channel' = "none" /\ lessee' = NoOne /\ midway' = FALSE

Next == Establish \/ \E c \in Clients : Lease(c) \/ Exchange(c) \/ Commit(c) \/ Discard(c)

Spec == Init /\ [][Next]_vars
=============================================================================
