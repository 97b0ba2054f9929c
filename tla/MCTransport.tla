---------------------------- MODULE MCTransport ----------------------------
(***************************************************************************)
(* Transport for TLC: payloads of 0 to 5 bytes with two bytes to a packet, *)
(* so that a message is empty, fits in one packet, fills two packets or    *)
(* spills into a third, on each side of both packet boundaries.            *)
(***************************************************************************)
EXTENDS MessageRefinement

\* The least and the greatest valid type, and the first one that is refused.
MCMsgTypes == {0, TYPE_MASK, TYPE_MASK + 1}

\* For the run with liveness, which types do not matter to.
MCLiveTypes == {TYPE_MASK, TYPE_MASK + 1}

MCLengths == 0..(2 * MAX_PACKET_SIZE + 1)

\* For the run with many faults: messages of one full packet and of three packets.
MCBoundaryLengths == {MAX_PACKET_SIZE, 2 * MAX_PACKET_SIZE + 1}
============================================================================
