----------------------------- MODULE Handshake -----------------------------
(***************************************************************************)
(* One Noise XX handshake: `connect` (the initiator, as the pool's         *)
(* try_connect calls it) and `accept` (the responder) of src/packets.rs,   *)
(* each under its own HANDSHAKE_TIMEOUT, over a stream that may break.     *)
(*                                                                         *)
(* The Noise layer (the snow crate, external) is modelled by what the code *)
(* relies on: messages 2 and 3 carry their sender's static key, which the  *)
(* receiver learns as remote_static, and a payload, of limited size.       *)
(* Nodes are honest but may be misconfigured: their Credentials are any    *)
(* three byte strings of the right types, as module Provisioning has them  *)
(* come out of a configuration file.                                       *)
(***************************************************************************)
EXTENDS Auth

CONSTANTS
    Credentials,  \* the configurations that each side may have
    Targets,      \* the node ids that the initiator may be looking for
    MaxPayload,   \* the longest payload that fits message 2, and message 3
    Faults        \* which failures may happen, a subset of FaultKinds

FaultKinds == {"timeout", "network"}
Side == {"initiator", "responder"}
other(s) == IF s = "initiator" THEN "responder" ELSE "initiator"

ASSUME HandshakeAssumption ==
    /\ Faults \subseteq FaultKinds
    /\ DOMAIN Credentials = Side
    /\ MaxPayload \in [{"msg2", "msg3"} -> Nat]

VARIABLES
    node,      \* the Credentials of the two sides
    target,    \* the node id that try_connect expects
    pc,        \* where each side is, "ok" or "failed" once it has returned
    result,    \* the AuthDetails each side has found, or the error it returned
    stream,    \* frames on their way to each side
    open,      \* each side still has its end of the stream
    network    \* "up", "reset" (both ends notice) or "silent" (neither does)
vars == <<node, target, pc, result, stream, open, network>>
config == <<node, target>>

\* The messages: the static key and the payload that the other side reads.
\* Message 1 carries neither.
msg1 == [static |-> <<>>, payload |-> <<>>]
AuthMessage(s) == [static |-> x25519_public(node[s].private_key), payload |-> node[s].auth_header]

\* The errors that connect and accept return; those of BadAuth are about the
\* other side's header.
BadAuth == SignatureValidationErr \cup {"PublicKeyMismatch", "NodeIdMismatch"}
ConnectionError ==
    {"Io", "Noise", "Packet", "PacketBuilder", "PacketOverflow", "MissingRemoteStatic",
     "RemoteStaticKeyLength", "HandshakeTimeout", "InvalidNodeId", "MessageAborted"} \cup BadAuth
Pending == Err("Pending")

\* The type invariant.
TypeOK ==
    /\ \A s \in Side : node[s] \in Credentials[s]
    /\ target \in Targets
    /\ pc \in [Side -> {"start", "sent", "flush", "authenticated", "ok", "failed"}]
    /\ DOMAIN result = Side /\ DOMAIN stream = Side
    /\ \A s \in Side : result[s].ok <=> pc[s] \in {"flush", "authenticated", "ok"}
    /\ \A s \in Side : pc[s] = "failed" => result[s].err \in ConnectionError
    /\ stream["initiator"] \in {<<>>, <<AuthMessage("responder")>>}
    /\ stream["responder"] \in {<<>>, <<msg1>>, <<AuthMessage("initiator")>>}
    /\ open \in [Side -> BOOLEAN]
    /\ network \in {"up", "reset", "silent"}

Init ==
    /\ node \in [Side -> UNION {Credentials[s] : s \in Side}]
    /\ \A s \in Side : node[s] \in Credentials[s]
    /\ target \in Targets
    /\ pc = [s \in Side |-> "start"]
    /\ result = [s \in Side |-> Pending]
    /\ stream = [s \in Side |-> <<>>]
    /\ open = [s \in Side |-> TRUE]
    /\ network = "up"

----------------------------------------------------------------------------
\* Mutant: any parsable header is taken, whoever signed it.
Authenticated_Unsigned(s, f) ==
    LET header == from_yatlv(SubSeq(f.payload, 1, Len(f.payload) - SIGNATURE_LEN))
    IN IF header.ok /\ header.val.public_key = f.static THEN Ok(AuthDetails(header.val))
       ELSE Err("BadSignature")

\* Mutant: a header is not tied to the transport key of its sender.
Authenticated_AnyKey(s, f) ==
    AndThen(verify_raw(node[s].verification_key, f.payload), LAMBDA h : Ok(AuthDetails(h)))

\* Mutant: the header is compared with the key of the wrong side.
Authenticated_OwnKey(s, f) ==
    authenticate(node[s].verification_key, x25519_public(node[s].private_key), f.payload)

\* The checks side s makes of a frame that carries the other side's header.
Authenticated(s, f) == authenticate(node[s].verification_key, f.static, f.payload)

Running(s) == pc[s] \in {"start", "sent", "flush", "authenticated"}

\* HandshakeContext::send of an auth header: snow refuses a payload that does not
\* fit the message.
Fits(s, m) == Len(node[s].auth_header) <= MaxPayload[m]

\* HandshakeContext::send.  A frame to a side that has let go of the stream, or
\* into a network that has failed, is lost.
SendTo(s, taken, f) ==
    stream' = IF open[s] /\ network = "up" THEN [taken EXCEPT ![s] = Append(@, f)] ELSE taken

\* HandshakeContext::recv takes the next frame.
Take(s) == [stream EXCEPT ![s] = Tail(@)]

\* Mutant: a failed handshake keeps the stream open.
Fail_KeepsStream(s, e) ==
    /\ pc' = [pc EXCEPT ![s] = "failed"] /\ result' = [result EXCEPT ![s] = Err(e)]
    /\ UNCHANGED <<config, open, network>>

\* A call returns an error; its future, and the stream with it, is dropped.
Fail(s, e) ==
    /\ pc' = [pc EXCEPT ![s] = "failed"]
    /\ result' = [result EXCEPT ![s] = Err(e)]
    /\ open' = [open EXCEPT ![s] = FALSE]
    /\ UNCHANGED <<config, network>>

----------------------------------------------------------------------------
\* The initiator.

\* connect: message 1 is written.
connect_msg1 ==
    /\ pc["initiator"] = "start"
    /\ SendTo("responder", stream, msg1)
    /\ pc' = [pc EXCEPT !["initiator"] = "sent"]
    /\ UNCHANGED <<config, result, open, network>>

\* connect: message 2 is read and checked; message 3 is written, if it passes.
connect_msg2 ==
    LET s == "initiator"
        found == Authenticated(s, Head(stream[s]))
    IN /\ pc[s] = "sent" /\ stream[s] # <<>>
       /\ IF found.ok /\ Fits(s, "msg3")
          THEN /\ SendTo("responder", Take(s), AuthMessage(s))
               /\ pc' = [pc EXCEPT ![s] = "flush"]
               /\ result' = [result EXCEPT ![s] = found]
               /\ UNCHANGED <<config, open, network>>
          ELSE /\ Fail(s, IF found.ok THEN "Noise" ELSE found.err)
               /\ stream' = Take(s)

\* connect: message 3 has been flushed, connect returns Ok.
connect_return ==
    /\ pc["initiator"] = "flush"
    /\ pc' = [pc EXCEPT !["initiator"] = "authenticated"]
    /\ UNCHANGED <<config, result, stream, open, network>>

\* try_connect: check_node_id of the details that connect returned.
check_node_id ==
    LET s == "initiator"
        checked == check_details(result[s].val, target)
    IN /\ pc[s] = "authenticated"
       /\ IF checked.ok
          THEN pc' = [pc EXCEPT ![s] = "ok"] /\ UNCHANGED <<config, result, open, network>>
          ELSE Fail(s, checked.err)
       /\ UNCHANGED stream

----------------------------------------------------------------------------
\* The responder.

\* Mutant: message 2 carries no auth header.
accept_msg1_no_header ==
    LET s == "responder" IN
    /\ pc[s] = "start" /\ stream[s] # <<>>
    /\ SendTo("initiator", Take(s), [AuthMessage(s) EXCEPT !.payload = <<>>])
    /\ pc' = [pc EXCEPT ![s] = "sent"]
    /\ UNCHANGED <<config, result, open, network>>

\* accept: message 1 is read and message 2 written.
accept_msg1 ==
    LET s == "responder" IN
    /\ pc[s] = "start" /\ stream[s] # <<>>
    /\ IF Fits(s, "msg2")
       THEN /\ SendTo("initiator", Take(s), AuthMessage(s))
            /\ pc' = [pc EXCEPT ![s] = "sent"]
            /\ UNCHANGED <<config, result, open, network>>
       ELSE Fail(s, "Noise") /\ stream' = Take(s)

\* Mutant: a bad header is passed over and another one awaited.
accept_msg3_awaits_another ==
    LET s == "responder"
        found == Authenticated(s, Head(stream[s]))
    IN /\ pc[s] = "sent" /\ stream[s] # <<>>
       /\ IF found.ok
          THEN /\ pc' = [pc EXCEPT ![s] = "ok"]
               /\ result' = [result EXCEPT ![s] = found]
          ELSE UNCHANGED <<pc, result>>
       /\ stream' = Take(s)
       /\ UNCHANGED <<config, open, network>>

\* accept: message 3 is read and checked; accept returns.
accept_msg3 ==
    LET s == "responder"
        found == Authenticated(s, Head(stream[s]))
    IN /\ pc[s] = "sent" /\ stream[s] # <<>>
       /\ IF found.ok
          THEN /\ pc' = [pc EXCEPT ![s] = "ok"]
               /\ result' = [result EXCEPT ![s] = found]
               /\ UNCHANGED <<config, open, network>>
          ELSE Fail(s, found.err)
       /\ stream' = Take(s)

----------------------------------------------------------------------------
\* Either side.

\* Mutant: the responder's timeout starts with message 1.
handshake_timeout_late(s) ==
    /\ "timeout" \in Faults
    /\ Running(s) /\ pc[s] # "authenticated" /\ <<s, pc[s]>> # <<"responder", "start">>
    /\ Fail(s, "HandshakeTimeout")
    /\ UNCHANGED stream

\* The timeout around the handshake elapses at an await.  (check_node_id comes
\* after it and awaits nothing.)
handshake_timeout(s) ==
    /\ "timeout" \in Faults
    /\ Running(s) /\ pc[s] # "authenticated"
    /\ Fail(s, "HandshakeTimeout")
    /\ UNCHANGED stream

\* Mutant: a side that has returned Ok is taken for one that is gone.
stream_error_any_return(s) ==
    /\ Running(s) /\ pc[s] # "authenticated"
    /\ \/ network = "reset"
       \/ network = "up" /\ ~Running(other(s)) /\ (stream[s] = <<>> \/ pc[s] = "flush")
    /\ Fail(s, "Io")
    /\ UNCHANGED stream

\* A read meets the end of the stream, or a read or write meets a reset.
stream_error(s) ==
    /\ Running(s) /\ pc[s] # "authenticated"
    /\ \/ network = "reset"
       \/ network = "up" /\ ~open[other(s)] /\ (stream[s] = <<>> \/ pc[s] = "flush")
    /\ Fail(s, "Io")
    /\ UNCHANGED stream

\* The network loses the connection and what is in it.
network_fails ==
    /\ "network" \in Faults
    /\ network = "up" /\ network' \in {"reset", "silent"}
    /\ stream' = [s \in Side |-> <<>>]
    /\ UNCHANGED <<config, pc, result, open>>

InitiatorStep == connect_msg1 \/ connect_msg2 \/ connect_return \/ check_node_id
                 \/ stream_error("initiator")
ResponderStep == accept_msg1 \/ accept_msg3 \/ stream_error("responder")

Next == InitiatorStep \/ ResponderStep \/ network_fails
        \/ \E s \in Side : handshake_timeout(s)

Spec == Init /\ [][Next]_vars

\* The runtime polls both futures and fires their timers.
FairSpec ==
    /\ Spec
    /\ WF_vars(InitiatorStep) /\ WF_vars(ResponderStep)
    /\ \A s \in Side : WF_vars(handshake_timeout(s))

----------------------------------------------------------------------------
\* Properties

\* What s presents satisfies the other side: its header is signed by the key the
\* other side verifies with, and names the transport key that s really uses.
Recognised(s) ==
    authenticate(node[other(s)].verification_key, x25519_public(node[s].private_key),
                 node[s].auth_header)

GoodPair ==
    /\ \A s \in Side : Recognised(s).ok
    /\ Fits("responder", "msg2") /\ Fits("initiator", "msg3")
    /\ Recognised("responder").val.node_id = target

\* A side that returns Ok has authenticated the peer it talks to: the peer's
\* header is good and the AuthDetails are those of that peer; and the pool only
\* keeps a connection to the node it meant to reach.
Authentic ==
    /\ \A s \in Side : pc[s] = "ok" => Recognised(other(s)) = result[s]
    /\ pc["initiator"] = "ok" => result["initiator"].val.node_id = target

\* The initiator reveals its header (message 3) only to a responder it has
\* authenticated, so accept never returns Ok to an initiator that turned it down.
RevealedOnlyToVerified ==
    (\/ pc["responder"] = "ok"
     \/ pc["responder"] = "sent" /\ stream["responder"] # <<>>) => Recognised("responder").ok

\* Properly configured nodes are never turned away: only the stream or the timer
\* can fail their handshake.
GoodPeersNotRefused ==
    GoodPair => \A s \in Side : pc[s] = "failed" => result[s].err \in {"Io", "HandshakeTimeout"}

\* The error that s returned names its real cause: a BadAuth error is what is wrong
\* with the other side's header (or with its id, which only try_connect looks at),
\* Noise a header of one's own that does not fit, and Io a network that failed or
\* another side that failed before.
Explained(s) ==
    LET e == result[s].err IN
    \/ e = "HandshakeTimeout" /\ "timeout" \in Faults
    \/ e = "Io" /\ (network # "up" \/ pc[other(s)] = "failed")
    \/ e = "Noise" /\ ~Fits(s, IF s = "initiator" THEN "msg3" ELSE "msg2")
    \/ e \in BadAuth /\ Recognised(other(s)) = result[s]
    \/ /\ e = "NodeIdMismatch" /\ s = "initiator"
       /\ Recognised("responder").ok /\ Recognised("responder").val.node_id # target

\* Every failure is explained.  So one that starts with a bad header is reported as
\* such by the side that read it, and by the other side as the end of the stream.
FailuresExplained == \A s \in Side : pc[s] = "failed" => Explained(s)

\* What a side's call needs in order to go on, timers apart: it has something to
\* write or to check, or a frame, the end of the stream or a reset to read.
Ready(s) ==
    \/ s = "initiator" /\ pc[s] = "start"
    \/ pc[s] \in {"flush", "authenticated"}
    \/ pc[s] \in {"start", "sent"} /\ stream[s] # <<>>
    \/ pc[s] \in {"start", "sent"} /\ network = "reset"
    \/ pc[s] \in {"start", "sent"} /\ network = "up" /\ ~open[other(s)]

\* While the network is up nobody depends on a timer: as long as a side is at it,
\* one of the two can go on, because a side that gives up drops the stream and so
\* releases the other.
NeverStuck ==
    (network = "up" /\ \E s \in Side : Running(s)) => \E s \in Side : Ready(s)

\* How many steps connect, accept and the network can take at most from here.
Ahead(s, p) == CASE p = "start" -> IF s = "initiator" THEN 4 ELSE 2
                 [] p = "sent"  -> IF s = "initiator" THEN 3 ELSE 1
                 [] p = "flush" -> 2
                 [] p = "authenticated" -> 1
                 [] OTHER -> 0
Remaining == Ahead("initiator", pc["initiator"]) + Ahead("responder", pc["responder"])
             + (IF network = "up" THEN 1 ELSE 0)

\* Neither call ever goes back or waits for the same message again, whatever it
\* reads and whatever fails: a handshake is over after seven steps at most.
StepsRunOut == [][Remaining' < Remaining]_vars

\* Both calls return, whatever the configurations and whatever fails.
BothReturn == <>[](\A s \in Side : ~Running(s))

\* Properly configured nodes end up connected, both of them, unless the network
\* fails or a timer fires.
GoodPeersConnect ==
    GoodPair ~> \/ \A s \in Side : pc[s] = "ok"
                \/ network # "up"
                \/ \E s \in Side : result[s] = Err("HandshakeTimeout")

\* README.md:16-17: "an unrecognised peer cannot connect".  For the side that
\* connects: an initiator that the responder refuses has no connection.
UnrecognisedCannotConnect ==
    pc["responder"] = "failed" /\ result["responder"].err \in BadAuth => pc["initiator"] # "ok"
============================================================================
