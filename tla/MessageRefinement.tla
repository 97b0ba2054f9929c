------------------------- MODULE MessageRefinement -------------------------
(***************************************************************************)
(* How the state of Transport, with its packets, frames and handles, is a  *)
(* state of MessageChannel.                                                *)
(***************************************************************************)
EXTENDS Transport

\* The messages of which an Abort was packed.
aborted_messages ==
    {frames[n].m : n \in {k \in DOMAIN frames : HeaderKind(frames[k].header) = Abort}}

\* What event e tells the application of a message; the error of a rejected
\* packet stands for the end of its message, as MessageAborted does.
told_of(e) == IF e.ev = "message" THEN e ELSE [ev |-> "aborted", m |-> e.m]
report(i, e) == [at |-> i, of |-> told_of(e)]
told_messages == {report(i, seen[i]) : i \in Events({"message", "aborted", "rejected"})}

Messages == INSTANCE MessageChannel WITH
    Message <- [msg_type : MsgTypes, len : Lengths, how : {"slice", "reader"}],
    open <- packet_builder.in_progress,
    aborted <- aborted_messages,
    told <- told_messages,
    skipped <- dropped

\* Packets, nonces, frames and handles together implement the channel of
\* MessageChannel: a message is delivered only when the sender has completed it,
\* reported aborted only when the sender has aborted it, each once and in order,
\* and what the application was told is never taken back, whatever writes, reads
\* and sources fail on the way.
ImplementsMessages == Messages!Spec
============================================================================
