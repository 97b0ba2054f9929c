-------------------------- MODULE MessageChannel --------------------------
(***************************************************************************)
(* What a connection promises the two applications at its ends (the        *)
(* documentation of MessageTx, MessageRx and abort_message), without       *)
(* packets, frames, nonces or handles: the sender works on one message at  *)
(* a time and completes or aborts it; the receiver is told of every        *)
(* message once, in order, of a completed one with all its bytes, of an    *)
(* aborted one that it was aborted, and of none before it is one or the    *)
(* other.  The connection may stop at any moment, and nothing is told from *)
(* then on.  A message that the receiving application gives up half read   *)
(* is the exception: it may be told of what is left, or not at all.        *)
(***************************************************************************)
EXTENDS Naturals, Sequences

CONSTANT Message   \* what a sender may send: records with a msg_type and a len

VARIABLES
    sent,      \* the messages begun
    open,      \* the last of them is still under way
    aborted,   \* those the sender gave up
    told,      \* what the receiving application has been told, and when
    skipped    \* messages it has given up half read

vars == <<sent, open, aborted, told, skipped>>

\* Bytes from + 1 to `to` of message m.
Bytes(m, from, to) == [i \in 1..(to - from) |-> <<m, from + i>>]

Init == sent = <<>> /\ open = FALSE /\ aborted = {} /\ told = {} /\ skipped = {}

\* A message begins when there is none under way; a short one is complete at once.
Begin ==
    /\ ~open /\ open' \in BOOLEAN
    /\ \E x \in Message : sent' = Append(sent, x)
    /\ UNCHANGED <<aborted, told, skipped>>

Complete ==
    /\ open /\ open' = FALSE
    /\ UNCHANGED <<sent, aborted, told, skipped>>

GiveUp ==
    /\ open /\ open' = FALSE
    /\ aborted' = aborted \cup {Len(sent)}
    /\ UNCHANGED <<sent, told, skipped>>

\* Message m is the next one to tell of, and what became of it is settled.
Due(m) ==
    /\ m = Len(sent) => ~open
    /\ \A x \in told : x.of.m < m
    /\ \A k \in 1..(m - 1) \ skipped : \E x \in told : x.of.m = k

\* A report bears a later time than all before it, so that telling the same twice
\* is a step, and one that Due forbids.
Tell(e) ==
    /\ \E t \in {x.at : x \in told'} :
          /\ told' = told \cup {[at |-> t, of |-> e]}
          /\ \A x \in told : x.at < t
    /\ UNCHANGED <<sent, open, aborted, skipped>>

Deliver ==
    \E m \in DOMAIN sent \ aborted :
        /\ Due(m)
        /\ \E from \in IF m \in skipped THEN 0..sent[m].len ELSE {0} :
              Tell([ev |-> "message", m |-> m, msg_type |-> sent[m].msg_type,
                    data |-> Bytes(m, from, sent[m].len)])

ReportAbort == \E m \in aborted : Due(m) /\ Tell([ev |-> "aborted", m |-> m])

\* The first conjunct follows from the second, in which nothing is told twice.
TellNext == told' # told /\ (Deliver \/ ReportAbort)

Skip ==
    /\ \E m \in DOMAIN sent : skipped' = skipped \cup {m}
    /\ UNCHANGED <<sent, open, aborted, told>>

Next == Begin \/ Complete \/ GiveUp \/ TellNext \/ Skip

Spec == Init /\ [][Next]_vars
===========================================================================
