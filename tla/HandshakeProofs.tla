--------------------------- MODULE HandshakeProofs ---------------------------
(***************************************************************************)
(* The safety of the handshake for all credentials, targets, payload       *)
(* limits and faults.  The checks of an auth header (authenticate of       *)
(* module Auth) are left opaque: the argument is about which header is     *)
(* checked against which key, and when.                                    *)
(***************************************************************************)
EXTENDS Handshake, TLAPS

I == "initiator"
R == "responder"
Past == {"flush", "authenticated", "ok"}

\* Where the two sides can be with respect to each other: what is in the streams
\* at each point, and what has been checked by then.
Position ==
    /\ pc[I] = "start" => stream[R] = <<>> /\ stream[I] = <<>> /\ pc[R] \in {"start", "failed"}
    /\ pc[R] = "start" => /\ stream[R] \in {<<>>, <<msg1>>} /\ stream[I] = <<>>
                          /\ pc[I] \in {"start", "sent", "failed"}
    /\ pc[R] = "sent" => stream[R] \in {<<>>, <<AuthMessage(I)>>}
    /\ (stream[I] # <<>> /\ pc[I] = "sent") => stream[R] = <<>>
    /\ (pc[R] = "sent" /\ stream[R] # <<>>) => Recognised(R).ok
    /\ pc[I] \in Past => result[I] = Recognised(R) /\ Recognised(R).ok
    /\ pc[I] = "ok" => result[I].val.node_id = target
    /\ pc[R] = "ok" => result[R] = Recognised(I) /\ Recognised(R).ok

\* The inductive invariant.
IInv == TypeOK /\ Position

\* What keeps the two sides going: only a side that failed has let go of the stream,
\* and while the network is up a side that waits has been sent what it waits for, or
\* will be by a side that is at it.
Progress ==
    /\ \A s \in Side : open[s] <=> pc[s] # "failed"
    /\ pc[I] = "sent" => pc[R] # "ok" /\ (pc[R] = "sent" => stream[R] = <<>>)
    /\ network = "up" => /\ pc[I] = "sent" /\ pc[R] = "start" => stream[R] # <<>>
                         /\ pc[I] = "sent" /\ pc[R] = "sent" => stream[I] # <<>>
                         /\ pc[I] \in Past /\ pc[R] = "sent" => stream[R] # <<>>

\* The handshake starts in the invariant.
LEMMA InitInv == Init => IInv
  BY DEF Init, IInv, TypeOK, Position, Side, I, R, Past, Pending, Err

\* A frame with the other side's header is checked as Recognised says.
LEMMA ChecksThePeer ==
    /\ Authenticated(I, AuthMessage(R)) = Recognised(R)
    /\ Authenticated(R, AuthMessage(I)) = Recognised(I)
  BY DEF Authenticated, AuthMessage, Recognised, other, I, R

\* No step touches the configuration, so what is good about it stays good.
LEMMA ConfigFixed ==
    ASSUME [Next]_vars
    PROVE  /\ TypeOK => (\A s \in Side : node[s] \in Credentials[s])' /\ (target \in Targets)'
           /\ Recognised(I)' = Recognised(I) /\ Recognised(R)' = Recognised(R)
           /\ AuthMessage(I)' = AuthMessage(I) /\ AuthMessage(R)' = AuthMessage(R)
           /\ GoodPair' <=> GoodPair
           /\ node' = node /\ target' = target
           /\ \A s, m : Fits(s, m)' <=> Fits(s, m)
  <1>1. node' = node /\ target' = target
    BY DEF Next, InitiatorStep, ResponderStep, vars, config, connect_msg1, connect_msg2, connect_return,
           check_node_id, accept_msg1, accept_msg3, stream_error, handshake_timeout, network_fails, Fail
  <1>2. /\ Recognised(I)' = Recognised(I) /\ Recognised(R)' = Recognised(R)
        /\ AuthMessage(I)' = AuthMessage(I) /\ AuthMessage(R)' = AuthMessage(R)
    BY <1>1 DEF Recognised, AuthMessage
  <1>3. GoodPair' <=> GoodPair
    BY <1>1 DEF GoodPair, Recognised, Fits
  <1>4. \A s, m : Fits(s, m)' <=> Fits(s, m)
    BY <1>1 DEF Fits
  <1> QED
    BY <1>1, <1>2, <1>3, <1>4 DEF TypeOK

\* What GoodPair says of the checks.
LEMMA GoodMeans ==
    GoodPair => /\ Recognised(I).ok /\ Recognised(R).ok
                /\ Fits(R, "msg2") /\ Fits(I, "msg3")
                /\ Recognised(R).val.node_id = target
  BY DEF GoodPair, Side, I, R

\* Streams hold one frame at most.
LEMMA OneFrame ==
    ASSUME NEW f
    PROVE  /\ Append(<<>>, f) = <<f>> /\ <<f>> # <<>>
           /\ Head(<<f>>) = f /\ Tail(<<f>>) = <<>>
  OBVIOUS

\* The fields of an error result.
LEMMA ErrFields == \A e : ~Err(e).ok /\ Err(e).err = e
  BY DEF Err

\* AuthDetails::check_node_id passes the expected node only.
LEMMA CheckOk ==
    \A d, x : /\ check_details(d, x).ok <=> d.node_id = x
              /\ ~check_details(d, x).ok => check_details(d, x).err \in ConnectionError
  BY DEF check_details, Ok, Err, ConnectionError, BadAuth

\* The errors of connect and accept that are not about the other side's header.
LEMMA OwnErrors == {"Io", "Noise", "HandshakeTimeout"} \subseteq ConnectionError
  BY DEF ConnectionError

\* SignatureVerificationKey::verify_payload fails with its own errors.
LEMMA PayloadError ==
    ASSUME NEW key, NEW record
    PROVE  LET v == verify_payload(key, record) IN ~v.ok => v = Err(v.err) /\ v.err \in SignatureValidationErr
  BY Zenon DEF verify_payload, SignatureValidationErr, Ok, Err

\* So does SignedAuthHeader::verify_raw.
LEMMA HeaderError ==
    ASSUME NEW key, NEW data
    PROVE  LET v == verify_raw(key, data) IN ~v.ok => v = Err(v.err) /\ v.err \in SignatureValidationErr
  BY Zenon, PayloadError DEF verify_raw, SignatureValidationErr, Err

\* A header that connect or accept does not take is refused with one of the
\* errors of BadAuth.
LEMMA RefusedWith ==
    ASSUME NEW key, NEW remote_static, NEW data
    PROVE  LET a == authenticate(key, remote_static, data) IN ~a.ok => a = Err(a.err) /\ a.err \in BadAuth
  <1> DEFINE v == verify_raw(key, data)
             w == IF v.ok THEN validate_public_key(v.val, remote_static) ELSE v
  <1>1. authenticate(key, remote_static, data) = IF w.ok THEN Ok(AuthDetails(w.val)) ELSE w
    BY DEF authenticate, AndThen
  <1>2. ~w.ok => w = Err(w.err) /\ w.err \in BadAuth
    BY Zenon, HeaderError DEF validate_public_key, Ok, Err, BadAuth
  <1> QED
    BY <1>1, <1>2 DEF Ok

\* What the other side may say of one's header.
LEMMA RecognisedError ==
    \A s \in Side : ~Recognised(s).ok => Recognised(s).err \in ConnectionError
  BY RefusedWith DEF Recognised, ConnectionError

\* A call that fails leaves a well-typed state, if the streams are.
LEMMA FailTyped ==
    ASSUME TypeOK, [Next]_vars, NEW s \in Side, NEW e \in ConnectionError, Fail(s, e), DOMAIN stream' = Side,
           stream'[I] \in {<<>>, <<AuthMessage(R)>>}, stream'[R] \in {<<>>, <<msg1>>, <<AuthMessage(I)>>}
    PROVE  TypeOK'
  <1>1. \A t \in Side : result'[t].ok <=> pc'[t] \in {"flush", "authenticated", "ok"}
    <2> SUFFICES ASSUME NEW t \in Side
                 PROVE  result'[t].ok <=> pc'[t] \in {"flush", "authenticated", "ok"}
      OBVIOUS
    <2>1. CASE t = s
      <3>1. result'[t] = Err(e) /\ pc'[t] = "failed"
        BY <2>1 DEF Fail, TypeOK
      <3> QED
        BY <3>1, ErrFields
    <2>2. CASE t # s
      <3>1. result'[t] = result[t] /\ pc'[t] = pc[t]
        BY <2>2 DEF Fail, TypeOK
      <3> QED
        BY <3>1 DEF TypeOK
    <2> QED
      BY <2>1, <2>2
  <1>3. \A t \in Side : pc'[t] = "failed" => result'[t].err \in ConnectionError
    <2> SUFFICES ASSUME NEW t \in Side, pc'[t] = "failed" PROVE result'[t].err \in ConnectionError
      OBVIOUS
    <2>1. CASE t = s
      <3>1. result'[t] = Err(e)
        BY <2>1 DEF Fail, TypeOK
      <3> QED
        BY <3>1, ErrFields
    <2>2. CASE t # s
      <3>1. result'[t] = result[t] /\ pc'[t] = pc[t]
        BY <2>2 DEF Fail, TypeOK
      <3> QED
        BY <3>1 DEF TypeOK
    <2> QED
      BY <2>1, <2>2
  <1>2. DOMAIN result' = Side /\ open' \in [Side -> BOOLEAN]
        /\ network' \in {"up", "reset", "silent"}
        /\ pc' \in [Side -> {"start", "sent", "flush", "authenticated", "ok", "failed"}]
    BY DEF Fail, TypeOK
  <1> QED
    BY <1>1, <1>2, <1>3, ConfigFixed DEF TypeOK, I, R

\* Every step of connect, accept, try_connect, the timers and the network keeps it.
LEMMA StepInv == IInv /\ [Next]_vars => IInv'
  <1> SUFFICES ASSUME IInv, [Next]_vars PROVE IInv'
    OBVIOUS
  <1> USE ConfigFixed, ChecksThePeer, GoodMeans, ErrFields, OwnErrors, RecognisedError
          DEF I, R, IInv, TypeOK, Position, Side, Past, config, Fail, Take
  <1>1. CASE connect_msg1
    <2>1. stream[R] = <<>> /\ pc[I] = "start"
      BY <1>1 DEF connect_msg1
    <2>2. stream'[R] \in {<<>>, <<msg1>>} /\ stream'[I] = stream[I] /\ DOMAIN stream' = Side
      BY <1>1, <2>1, OneFrame DEF connect_msg1, SendTo
    <2> QED
      BY <1>1, <2>1, <2>2 DEF connect_msg1
  <1>2. CASE connect_msg2
    <2> DEFINE found == Authenticated(I, Head(stream[I]))
    <2>1. /\ pc[I] = "sent" /\ stream[I] = <<AuthMessage(R)>> /\ stream[R] = <<>> /\ pc[R] # "start"
      BY <1>2 DEF connect_msg2
    <2>2. found = Recognised(R) /\ Take(I)[I] = <<>> /\ Take(I)[R] = <<>> /\ DOMAIN Take(I) = Side
      BY <2>1, OneFrame
    <2>3. CASE found.ok /\ Fits(I, "msg3")
      <3>1. SendTo(R, Take(I), AuthMessage(I))
        BY <1>2, <2>3 DEF connect_msg2
      <3>2. stream'[R] \in {<<>>, <<AuthMessage(I)>>} /\ stream'[I] = <<>> /\ DOMAIN stream' = Side
        BY ZenonT(60), <3>1, <2>2, OneFrame DEF SendTo
      <3> QED
        <4>1. TypeOK'
          BY <1>2, <2>1, <2>2, <2>3, <3>2 DEF connect_msg2
        <4>2. Position'
          BY <1>2, <2>1, <2>2, <2>3, <3>2 DEF connect_msg2
        <4> QED
          BY <4>1, <4>2
    <2>4. CASE ~(found.ok /\ Fits(I, "msg3"))
      <3>1. TypeOK'
        BY <1>2, <2>1, <2>2, <2>4, FailTyped DEF connect_msg2
      <3>2. Position'
        BY <1>2, <2>1, <2>2, <2>4 DEF connect_msg2
      <3> QED
        BY <3>1, <3>2
    <2> QED
      BY <2>3, <2>4
  <1>3. CASE connect_return
    BY <1>3 DEF connect_return
  <1>4. CASE check_node_id
    <2> DEFINE checked == check_details(result[I].val, target)
    <2>1. /\ pc[I] = "authenticated" /\ UNCHANGED stream
          /\ result[I] = Recognised(R) /\ Recognised(R).ok
      BY <1>4 DEF check_node_id
    <2>2. CASE checked.ok
      BY <1>4, <2>1, <2>2, CheckOk DEF check_node_id
    <2>3. CASE ~checked.ok
      <3>1. Fail(I, checked.err) /\ ~GoodPair /\ checked.err \in ConnectionError
        BY <1>4, <2>1, <2>3, CheckOk DEF check_node_id
      <3>2. TypeOK'
        BY <2>1, <3>1, FailTyped
      <3> QED
        BY <2>1, <3>1, <3>2
    <2> QED
      BY <2>2, <2>3
  <1>5. CASE accept_msg1
    <2>1. pc[R] = "start" /\ stream[R] = <<msg1>> /\ stream[I] = <<>>
      BY <1>5 DEF accept_msg1
    <2>2. Take(R)[R] = <<>> /\ Take(R)[I] = <<>> /\ DOMAIN Take(R) = Side
      BY <2>1, OneFrame
    <2>3. CASE Fits(R, "msg2")
      <3>1. SendTo(I, Take(R), AuthMessage(R))
        BY <1>5, <2>3 DEF accept_msg1
      <3>2. stream' \in {Take(R), [Take(R) EXCEPT ![I] = Append(<<>>, AuthMessage(R))]}
        BY Zenon, <3>1, <2>2 DEF SendTo
      <3>3. stream'[I] \in {<<>>, <<AuthMessage(R)>>} /\ stream'[R] = <<>> /\ DOMAIN stream' = Side
        BY ZenonT(60), <3>2, <2>2, OneFrame
      <3> QED
        BY <1>5, <2>1, <2>2, <2>3, <3>3 DEF accept_msg1
    <2>4. CASE ~Fits(R, "msg2")
      <3>1. TypeOK'
        BY <1>5, <2>1, <2>2, <2>4, FailTyped DEF accept_msg1
      <3>2. Position'
        BY <1>5, <2>1, <2>2, <2>4 DEF accept_msg1
      <3> QED
        BY <3>1, <3>2
    <2> QED
      BY <2>3, <2>4
  <1>6. CASE accept_msg3
    <2> DEFINE found == Authenticated(R, Head(stream[R]))
    <2>1. pc[R] = "sent" /\ stream[R] = <<AuthMessage(I)>> /\ Recognised(R).ok
      BY <1>6 DEF accept_msg3
    <2>2. found = Recognised(I) /\ stream'[R] = <<>> /\ stream'[I] = stream[I] /\ DOMAIN stream' = Side
      BY <1>6, <2>1, OneFrame DEF accept_msg3
    <2>3. CASE found.ok
      BY <1>6, <2>1, <2>2, <2>3 DEF accept_msg3
    <2>4. CASE ~found.ok
      <3>1. TypeOK'
        BY <1>6, <2>1, <2>2, <2>4, FailTyped DEF accept_msg3
      <3>2. Position'
        BY <1>6, <2>1, <2>2, <2>4 DEF accept_msg3
      <3> QED
        BY <3>1, <3>2
    <2> QED
      BY <2>3, <2>4
  <1>7. ASSUME NEW s \in Side, stream_error(s) PROVE IInv'
    BY <1>7 DEF stream_error, Running
  <1>8. ASSUME NEW s \in Side, handshake_timeout(s) PROVE IInv'
    BY <1>8 DEF handshake_timeout, Running
  <1>9. CASE network_fails
    BY <1>9 DEF network_fails
  <1>10. CASE UNCHANGED vars
    BY <1>10 DEF vars
  <1> QED
    BY Zenon, <1>1, <1>2, <1>3, <1>4, <1>5, <1>6, <1>7, <1>8, <1>9, <1>10
       DEF Next, InitiatorStep, ResponderStep

\* In every behaviour, whatever the configurations and whatever fails.
THEOREM Invariant == Spec => []IInv
  BY InitInv, StepInv, PTL DEF Spec

\* The types of the handshake's state, streams that hold one frame at most
\* included, are kept by connect, accept and try_connect.
THEOREM TypeCorrect == Spec => []TypeOK
  BY Invariant, PTL DEF IInv

\* connect (with try_connect) and accept return Ok only for a peer that they have
\* authenticated, with its own details.
THEOREM AlwaysAuthentic == Spec => []Authentic
  <1>1. IInv => Authentic
    BY DEF IInv, Position, Authentic, Side, other, I, R, Past
  <1> QED
    BY <1>1, Invariant, PTL

\* connect sends its header only after both checks of the responder's.
THEOREM Revealed == Spec => []RevealedOnlyToVerified
  <1>1. IInv => RevealedOnlyToVerified
    BY DEF IInv, Position, RevealedOnlyToVerified, I, R
  <1> QED
    BY <1>1, Invariant, PTL

----------------------------------------------------------------------------
\* Why nobody waits in vain.

\* Nothing is sent yet, and nobody has let go of the stream.
LEMMA InitProgress == Init => Progress
  BY DEF Init, Progress, Side, I, R, Past

\* A side that fails lets go of the stream, and nobody waits for it after that.
LEMMA FailProgress ==
    ASSUME IInv, Progress, NEW s \in Side, NEW e, Fail(s, e),
           stream' = stream \/ stream' = Take(s)
    PROVE  Progress'
  <1>1. pc' = [pc EXCEPT ![s] = "failed"] /\ open' = [open EXCEPT ![s] = FALSE] /\ network' = network
    BY DEF Fail
  <1>2. \A t \in Side : t # s => stream'[t] = stream[t]
    BY DEF Take, IInv, TypeOK
  <1>3. \A t \in Side : open'[t] <=> pc'[t] # "failed"
    BY <1>1 DEF Progress, IInv, TypeOK
  <1>4. CASE s = I
    BY <1>1, <1>3, <1>4 DEF Progress, IInv, TypeOK, Side, I, R, Past
  <1>5. CASE s = R
    BY <1>1, <1>3, <1>5 DEF Progress, IInv, TypeOK, Side, I, R, Past
  <1> QED
    BY <1>4, <1>5 DEF Side, I, R

\* Every step of connect, accept, try_connect, the timers and the network keeps it.
LEMMA StepProgress ==
    ASSUME IInv, Progress, [Next]_vars
    PROVE  Progress'
  <1> USE DEF I, R, IInv, TypeOK, Side, Past, config
  <1>1. CASE connect_msg1
    <2>1. stream[R] = <<>> /\ stream[I] = <<>> /\ pc[R] \in {"start", "failed"}
      BY <1>1 DEF connect_msg1, Position
    <2>2. network = "up" /\ open[R] => stream'[R] # <<>>
      BY <1>1, <2>1, OneFrame DEF connect_msg1, SendTo
    <2> QED
      BY <1>1, <2>1, <2>2 DEF connect_msg1, Progress
  <1>2. CASE connect_msg2
    <2> DEFINE found == Authenticated(I, Head(stream[I]))
    <2>1. CASE found.ok /\ Fits(I, "msg3")
      <3>1. pc[I] = "sent" /\ stream[R] = <<>> /\ pc[R] # "start"
        BY <1>2 DEF connect_msg2, Position
      <3>2. SendTo(R, Take(I), AuthMessage(I)) /\ pc' = [pc EXCEPT ![I] = "flush"]
            /\ UNCHANGED <<open, network>>
        BY <1>2, <2>1 DEF connect_msg2
      <3>3. Take(I)[R] = <<>> /\ DOMAIN Take(I) = Side
        BY <3>1 DEF Take
      <3>4. network = "up" /\ open[R] => stream'[R] # <<>>
        BY <3>2, <3>3, OneFrame DEF SendTo
      <3> QED
        BY <3>1, <3>2, <3>4 DEF Progress
    <2>2. CASE ~(found.ok /\ Fits(I, "msg3"))
      BY Zenon, <1>2, <2>2, FailProgress DEF connect_msg2
    <2> QED
      BY <2>1, <2>2
  <1>3. CASE connect_return
    BY <1>3 DEF connect_return, Progress
  <1>4. CASE check_node_id
    <2> DEFINE checked == check_details(result[I].val, target)
    <2>1. CASE checked.ok
      BY <1>4, <2>1 DEF check_node_id, Progress
    <2>2. CASE ~checked.ok
      BY Zenon, <1>4, <2>2, FailProgress DEF check_node_id
    <2> QED
      BY <2>1, <2>2
  <1>5. CASE accept_msg1
    <2>1. CASE Fits(R, "msg2")
      <3>1. pc[R] = "start" /\ stream[I] = <<>> /\ stream[R] = <<msg1>>
            /\ pc[I] \in {"start", "sent", "failed"}
        BY <1>5 DEF accept_msg1, Position
      <3>2. SendTo(I, Take(R), AuthMessage(R)) /\ pc' = [pc EXCEPT ![R] = "sent"]
            /\ UNCHANGED <<open, network>>
        BY <1>5, <2>1 DEF accept_msg1
      <3>3. Take(R)[I] = <<>> /\ Take(R)[R] = <<>> /\ DOMAIN Take(R) = Side
        BY <3>1, OneFrame DEF Take
      <3>4. (network = "up" /\ open[I] => stream'[I] # <<>>) /\ stream'[R] = <<>>
        BY <3>2, <3>3, OneFrame DEF SendTo
      <3> QED
        BY <3>1, <3>2, <3>4 DEF Progress
    <2>2. CASE ~Fits(R, "msg2")
      BY Zenon, <1>5, <2>2, FailProgress DEF accept_msg1
    <2> QED
      BY <2>1, <2>2
  <1>6. CASE accept_msg3
    <2> DEFINE found == Authenticated(R, Head(stream[R]))
    <2>1. CASE found.ok
      <3>1. pc[R] = "sent" /\ stream[R] # <<>> /\ pc' = [pc EXCEPT ![R] = "ok"]
            /\ UNCHANGED <<open, network>>
        BY <1>6, <2>1 DEF accept_msg3
      <3> QED
        BY <3>1 DEF Progress
    <2>2. CASE ~found.ok
      BY Zenon, <1>6, <2>2, FailProgress DEF accept_msg3
    <2> QED
      BY <2>1, <2>2
  <1>7. ASSUME NEW s \in Side, stream_error(s) PROVE Progress'
    BY Zenon, <1>7, FailProgress DEF stream_error
  <1>8. ASSUME NEW s \in Side, handshake_timeout(s) PROVE Progress'
    BY Zenon, <1>8, FailProgress DEF handshake_timeout
  <1>9. CASE network_fails
    BY <1>9 DEF network_fails, Progress
  <1>10. CASE UNCHANGED vars
    BY <1>10 DEF vars, Progress
  <1> QED
    BY Zenon, <1>1, <1>2, <1>3, <1>4, <1>5, <1>6, <1>7, <1>8, <1>9, <1>10
       DEF Next, InitiatorStep, ResponderStep

----------------------------------------------------------------------------
\* Why a side fails.

\* A call that returned does not return again, and a network that failed does not
\* come back.
LEMMA FailedStays ==
    ASSUME IInv, [Next]_vars
    PROVE  /\ \A s \in Side : pc[s] = "failed" => pc'[s] = "failed" /\ result'[s] = result[s]
           /\ network # "up" => network' # "up"
  <1> USE DEF IInv, TypeOK, Side, I, R, Fail
  <1>1. CASE connect_msg1 \/ connect_msg2 \/ connect_return \/ check_node_id
    BY <1>1 DEF connect_msg1, connect_msg2, connect_return, check_node_id
  <1>2. CASE accept_msg1 \/ accept_msg3
    BY <1>2 DEF accept_msg1, accept_msg3
  <1>3. CASE \E s \in Side : stream_error(s) \/ handshake_timeout(s)
    BY <1>3 DEF stream_error, handshake_timeout, Running
  <1>4. CASE network_fails \/ UNCHANGED vars
    BY <1>4 DEF network_fails, vars
  <1> QED
    BY Zenon, <1>1, <1>2, <1>3, <1>4 DEF Next, InitiatorStep, ResponderStep

\* The configuration does not change, so neither does the cause of a failure.
LEMMA ExplainedKept ==
    ASSUME IInv, [Next]_vars, NEW s \in Side, pc[s] = "failed", Explained(s)
    PROVE  Explained(s)'
  <1>1. /\ result'[s] = result[s]
        /\ network # "up" => network' # "up"
        /\ pc[other(s)] = "failed" => pc'[other(s)] = "failed"
    BY FailedStays DEF Side, other
  <1>2. Recognised(other(s))' = Recognised(other(s))
    BY ConfigFixed DEF Recognised
  <1>3. Recognised("responder")' = Recognised("responder") /\ target' = target
    BY ConfigFixed DEF R
  <1>4. \A m : Fits(s, m)' <=> Fits(s, m)
    BY ConfigFixed
  <1> QED
    BY Zenon, <1>1, <1>2, <1>3, <1>4 DEF Explained

\* What remains to be shown of a step on which s fails with the error e.
LEMMA FailResult ==
    ASSUME IInv, NEW s \in Side, NEW e, Fail(s, e)
    PROVE  /\ result'[s] = Err(e) /\ result'[s].err = e
           /\ \A t \in Side : pc'[t] = "failed" <=> t = s \/ pc[t] = "failed"
  BY ErrFields DEF Fail, IInv, TypeOK

\* A step on which a call fails gives it an error that is true.
LEMMA NewlyExplained ==
    ASSUME IInv, Progress, [Next]_vars, NEW s \in Side, pc[s] # "failed", pc'[s] = "failed"
    PROVE  Explained(s)'
  <1>7. CASE connect_msg1 \/ connect_return \/ network_fails \/ UNCHANGED vars
    BY <1>7 DEF connect_msg1, connect_return, network_fails, vars, IInv, TypeOK, Side
  <1> USE ConfigFixed
  <1>1. CASE connect_msg2
    <2>1. pc[I] = "sent" /\ stream[I] = <<AuthMessage(R)>>
      BY <1>1 DEF connect_msg2, IInv, TypeOK, I, R
    <2>2. Authenticated(I, Head(stream[I])) = Recognised(R)
      BY Zenon, <2>1, OneFrame, ChecksThePeer
    <2>3. s = I /\ ~(Recognised(R).ok /\ Fits(I, "msg3"))
      BY <1>1, <2>2 DEF connect_msg2, I, IInv, TypeOK, Side, Fail
    <2>4. CASE Recognised(R).ok
      <3>1. Fail(I, "Noise") /\ ~Fits(I, "msg3")
        BY Zenon, <1>1, <2>2, <2>3, <2>4 DEF connect_msg2, I
      <3> QED
        BY Zenon, <3>1, <2>3, FailResult DEF Explained, I
    <2>5. CASE ~Recognised(R).ok
      <3>1. Fail(I, Recognised(R).err)
        BY Zenon, <1>1, <2>2, <2>5 DEF connect_msg2, I
      <3>2. Recognised(R).err \in BadAuth /\ Recognised(R) = Err(Recognised(R).err)
        BY Zenon, <2>5, RefusedWith DEF Recognised
      <3>3. other(I) = R
        BY DEF other, I, R
      <3> QED
        BY Zenon, <3>1, <3>2, <3>3, <2>3, FailResult DEF Explained
    <2> QED
      BY <2>4, <2>5
  <1>2. CASE check_node_id
    <2> DEFINE checked == check_details(result[I].val, target)
    <2>1. result[I] = Recognised(R) /\ Recognised(R).ok
      BY <1>2 DEF check_node_id, IInv, Position, Past, I
    <2>2. s = I /\ ~checked.ok /\ Fail(I, checked.err)
      BY <1>2 DEF check_node_id, I, IInv, TypeOK, Side, Fail
    <2>3. checked.err = "NodeIdMismatch" /\ Recognised(R).val.node_id # target
      BY <2>1, <2>2 DEF check_details, Ok, Err
    <2> QED
      BY Zenon, <2>1, <2>2, <2>3, FailResult DEF Explained, I, R
  <1>3. CASE accept_msg1
    <2>1. s = R /\ Fail(R, "Noise") /\ ~Fits(R, "msg2")
      BY <1>3 DEF accept_msg1, R, IInv, TypeOK, Side, Fail
    <2>2. R # "initiator"
      BY DEF R
    <2> QED
      BY Zenon, <2>1, <2>2, FailResult DEF Explained
  <1>4. CASE accept_msg3
    <2>1. pc[R] = "sent" /\ stream[R] = <<AuthMessage(I)>>
      BY <1>4 DEF accept_msg3, IInv, Position, R
    <2>2. Authenticated(R, Head(stream[R])) = Recognised(I)
      BY Zenon, <2>1, OneFrame, ChecksThePeer
    <2>3. s = R /\ ~Recognised(I).ok /\ Fail(R, Recognised(I).err)
      BY <1>4, <2>2 DEF accept_msg3, R, IInv, TypeOK, Side, Fail
    <2>4. Recognised(I).err \in BadAuth /\ Recognised(I) = Err(Recognised(I).err)
      BY Zenon, <2>3, RefusedWith DEF Recognised
    <2>5. other(R) = I
      BY DEF other, I, R
    <2> QED
      BY Zenon, <2>3, <2>4, <2>5, FailResult DEF Explained
  <1>5. ASSUME NEW t \in Side, stream_error(t) PROVE Explained(s)'
    <2>1. Fail(t, "Io") /\ s = t
      BY Zenon, <1>5, FailResult DEF stream_error
    <2>2. other(s) \in Side /\ (network # "up" \/ pc[other(s)] = "failed")
      BY Zenon, <1>5, <2>1 DEF stream_error, Progress, other, Side
    <2>3. network' = network
      BY Zenon, <2>1 DEF Fail
    <2> QED
      BY Zenon, <2>1, <2>2, <2>3, FailResult DEF Explained
  <1>6. ASSUME NEW t \in Side, handshake_timeout(t) PROVE Explained(s)'
    <2>1. Fail(t, "HandshakeTimeout") /\ s = t /\ "timeout" \in Faults
      BY Zenon, <1>6, FailResult DEF handshake_timeout
    <2> QED
      BY Zenon, <2>1, FailResult DEF Explained
  <1> QED
    BY Zenon, <1>1, <1>2, <1>3, <1>4, <1>5, <1>6, <1>7 DEF Next, InitiatorStep, ResponderStep, Side

\* The three together, in every behaviour.
THEOREM Accountable == Spec => [](Progress /\ FailuresExplained)
  <1>1. Init => Progress /\ FailuresExplained
    BY InitProgress DEF Init, FailuresExplained, Side
  <1>2. IInv /\ Progress /\ FailuresExplained /\ [Next]_vars => (Progress /\ FailuresExplained)'
    BY Zenon, StepProgress, ExplainedKept, NewlyExplained DEF FailuresExplained
  <1> QED
    BY <1>1, <1>2, Invariant, PTL DEF Spec

\* Whatever error connect, accept or try_connect returns, it is true.
THEOREM ErrorsAreTrue == Spec => []FailuresExplained
  BY Accountable, PTL

\* No check of connect, accept or try_connect turns away a well-configured node.
THEOREM NotRefused == Spec => []GoodPeersNotRefused
  <1>1. IInv /\ FailuresExplained => GoodPeersNotRefused
    <2> SUFFICES ASSUME IInv, FailuresExplained, GoodPair, NEW s \in Side, pc[s] = "failed"
                 PROVE  result[s].err \in {"Io", "HandshakeTimeout"}
      BY DEF GoodPeersNotRefused
    <2>1. Explained(s) /\ ~result[s].ok
      BY DEF FailuresExplained, IInv, TypeOK
    <2>2. Recognised(other(s)).ok
      BY DEF GoodPair, other, Side
    <2>3. Fits(s, IF s = "initiator" THEN "msg3" ELSE "msg2")
      BY DEF GoodPair, Side
    <2> QED
      BY Zenon, <2>1, <2>2, <2>3 DEF Explained, GoodPair
  <1> QED
    BY <1>1, Invariant, ErrorsAreTrue, PTL

\* While the network is up, connect and accept are never both waiting for the other
\* side, nor is one of them for a side that has gone.
THEOREM NobodyStuck == Spec => []NeverStuck
  <1>1. IInv /\ Progress => NeverStuck
    <2> SUFFICES ASSUME IInv, Progress, network = "up", NEW s \in Side, Running(s)
                 PROVE  \E t \in Side : Ready(t)
      BY Zenon DEF NeverStuck
    <2>1. I \in Side /\ R \in Side /\ other(I) = R /\ other(R) = I
      BY DEF Side, other, I, R
    <2>2. CASE pc[I] \in {"start", "flush", "authenticated"}
      BY <2>1, <2>2 DEF Ready, I
    <2>3. CASE pc[I] = "sent" /\ pc[R] = "start"
      BY <2>1, <2>3 DEF Ready, Progress
    <2>4. CASE pc[I] = "sent" /\ pc[R] = "sent"
      BY <2>1, <2>4 DEF Ready, Progress
    <2>5. CASE pc[I] = "sent" /\ pc[R] = "failed"
      BY <2>1, <2>5 DEF Ready, Progress
    <2>6. CASE pc[I] = "failed" /\ pc[R] \in {"start", "sent"}
      BY <2>1, <2>6 DEF Ready, Progress
    <2>7. CASE pc[I] = "ok" /\ pc[R] = "sent"
      BY <2>1, <2>7 DEF Ready, Progress, Past
    <2>8. /\ pc[I] \in {"start", "sent", "flush", "authenticated", "ok", "failed"}
          /\ pc[R] \in {"start", "sent", "flush", "authenticated", "ok", "failed"}
      BY <2>1 DEF IInv, TypeOK
    <2>9. pc[I] \in {"start", "sent", "flush", "authenticated"} \/ pc[R] \in {"start", "sent", "flush", "authenticated"}
      BY DEF Running, Side, I, R
    <2>10. CASE pc[R] \in {"flush", "authenticated"}
      BY <2>1, <2>10 DEF Ready
    <2>11. (pc[I] = "sent" => pc[R] # "ok") /\ (pc[I] = "ok" => pc[R] # "start")
      BY DEF Progress, IInv, Position
    <2> QED
      BY <2>2, <2>3, <2>4, <2>5, <2>6, <2>7, <2>8, <2>9, <2>10, <2>11
  <1> QED
    BY <1>1, Invariant, Accountable, PTL

----------------------------------------------------------------------------
\* Why the handshake comes to an end.

\* A side gets on only by its own steps.
LEMMA AheadFalls ==
    /\ \A s, p : Ahead(s, p) \in Nat
    /\ \A s \in Side, p \in {"start", "sent", "flush", "authenticated"} : Ahead(s, p) > Ahead(s, "failed")
    /\ Ahead(I, "start") > Ahead(I, "sent") /\ Ahead(I, "sent") > Ahead(I, "flush")
    /\ Ahead(I, "flush") > Ahead(I, "authenticated") /\ Ahead(I, "authenticated") > Ahead(I, "ok")
    /\ Ahead(R, "start") > Ahead(R, "sent") /\ Ahead(R, "sent") > Ahead(R, "ok")
  BY DEF Ahead, I, R, Side

\* So a step that takes one side, and nothing else, on leaves fewer steps to come.
LEMMA SideGetsOn ==
    ASSUME TypeOK, NEW s \in Side, NEW p, pc' = [pc EXCEPT ![s] = p], network' = network,
           Ahead(s, pc[s]) > Ahead(s, p)
    PROVE  Remaining' < Remaining
  <1>1. pc'[s] = p /\ \A t \in Side : t # s => pc'[t] = pc[t]
    BY DEF TypeOK
  <1>2. CASE s = I
    BY <1>1, <1>2, AheadFalls DEF Remaining, I, Side
  <1>3. CASE s = R
    BY <1>1, <1>3, AheadFalls DEF Remaining, R, Side
  <1> QED
    BY <1>2, <1>3 DEF Side, I, R

\* No step of connect, accept, try_connect, a timer or the network is ever repeated.
THEOREM Finite == Spec => StepsRunOut
  <1>1. IInv /\ [Next]_vars => [Remaining' < Remaining]_vars
    <2> SUFFICES ASSUME TypeOK, Next PROVE Remaining' < Remaining
      BY DEF IInv
    <2>8. CASE network_fails
      <3>1. network = "up" /\ network' # "up" /\ pc' = pc
        BY <2>8 DEF network_fails
      <3> QED
        BY <3>1, AheadFalls DEF Remaining
    <2> USE AheadFalls, SideGetsOn DEF I, R, Side
    <2>1. CASE connect_msg1
      BY Zenon, <2>1 DEF connect_msg1
    <2>2. CASE connect_msg2
      BY Zenon, <2>2 DEF connect_msg2, Fail
    <2>3. CASE connect_return
      BY Zenon, <2>3 DEF connect_return
    <2>4. CASE check_node_id
      BY Zenon, <2>4 DEF check_node_id, Fail
    <2>5. CASE accept_msg1
      BY Zenon, <2>5 DEF accept_msg1, Fail
    <2>6. CASE accept_msg3
      BY Zenon, <2>6 DEF accept_msg3, Fail
    <2>7. ASSUME NEW s \in Side, stream_error(s) \/ handshake_timeout(s) PROVE Remaining' < Remaining
      BY Zenon, <2>7 DEF stream_error, handshake_timeout, Running, Fail
    <2> QED
      BY Zenon, <2>1, <2>2, <2>3, <2>4, <2>5, <2>6, <2>7, <2>8
         DEF Next, InitiatorStep, ResponderStep
  <1> QED
    BY <1>1, Invariant, PTL DEF Spec, StepsRunOut
==============================================================================
