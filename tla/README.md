# TLA+ models of snowpack

snowpack is an authenticated, encrypted transport between the nodes of a
cluster: keys and signed auth headers that say who a node is, a Noise XX handshake
that checks them, a framed message transport on top of it, and a connection pool
that keeps one connection per peer. This directory holds TLA+ modules that model
those four layers, TLC configurations that check them on small instances, and TLAPS
proofs of their safety properties.

`PROJECT.json` is the index: components, runs, which definition models which
lines of the source, findings, hazards and theorems.

## The system

| part | source | state | operations |
|---|---|---|---|
| packet state machines | `packet_state.rs` | `PacketBuilder {in_progress, is_first, msg_type}`, `PacketReader {in_progress, msg_type}` | `prepare`, `pack`, `abort`; `read` |
| packet transport | `packets.rs` | the two halves `PacketTx`, `PacketRx` and the cipher state they share (one nonce for each direction) | `send_packet`, `send_slice`, `send_reader`, `abort_message`; `read_packet` |
| message layer | `messages.rs` | handles `Message`, `MessagePackets` that borrow the receiver | `send_message`, `send_reader`, `abort_message`; `read_message`, `read_bytes`, `into_packets`, `next`, and dropping a handle |
| handshake | `packets.rs`, `lib.rs` | position in the XX pattern, the peer's static key | `connect`, `accept`, both under `HANDSHAKE_TIMEOUT` |
| auth headers | `auth.rs` | none | `sign`, `verify_raw`, `validate_public_key`, `check_node_id`, conversions |
| keys, node ids | `sign.rs`, `noise.rs`, `node_id.rs` | none | generation, signing and verifying, conversions |
| connection pool | `pool.rs` | map of links; for each link a `LinkState` behind an async mutex, a `Notify`, reconnect tasks | `peer`, `acquire`, `Guard::{transport, commit, drop}`, `wait_connected`, `reconnect_task` |

The pool's `reconnect_task` dials a peer through its `Connector`, runs `connect` on
the stream, checks the peer's node id, and installs the resulting `MessageTx` and
`MessageRx` in the link. A client acquires the link's lock, exchanges messages through
the two halves, and commits; if it is cancelled or fails, the guard's destructor
throws the halves away and starts a new reconnect task.

What is hard about it:

- **cancellation**: every `await` is a place where a call can be dropped. A
  send that is dropped has consumed a nonce and written none, a part or all of a
  frame; a read may have consumed a part of one; a lock future may already
  own the permit; a guard may be in the middle of an exchange;
- **call sequences**: the builder remembers an open message across calls, so
  what a call does depends on how the ones before it ended;
- **packet boundaries**: payloads that end exactly at one, and frames whose length
  must fit 16 bits;
- **two ends that decide separately**: the initiator is done one message before
  the responder, and each side has its own timer;
- **configuration**: keys and headers are made in one place, pass through files that
  people handle, and are replaced while old ones are still around;
- **threads**: a spawned reconnect task runs while the guard that spawned it
  is still being dropped; a connection is installed while a client is between
  checking the state and waiting for the notification.

What should hold, by part: packets a builder makes are accepted by the reader;
messages arrive whole, in order and once, or not at all; nothing is decrypted past
a lost frame; a node is only ever taken for who the operator says it is; who completes a
handshake has authenticated the peer it talks to; both sides of a handshake return; a link that
is down has one task working on it; a guard means a connected link, used by one client, with no
exchange half done; calls on a link return and a lost connection comes back.

## The modules

**`PacketState`** has the two state machines as operators on records with the
fields of the Rust structs. A header is the 16-bit integer on the wire. `Prepared`,
`Packed`, `Aborted` and `ReadNext` are the states after the calls; `PrepareOk` and
`ReadError` say when they are refused.

**`Transport`** is one direction of an established connection. The two directions share the mutex around the cipher state,
which is held across no `await` and has a nonce for each direction, and the stream, which
`tokio::io::split` has cut in two halves. A sender's call runs from one `await` to the next as
one step: `send_message` and `send_slice_next`, `send_reader` with `_full`, `_read`,
`_eof` and `_return`, `abort_message`; `write_frame` completes the awaited write. The
source may return any number of bytes that fits. The receiver is `read_message`,
`read_bytes`, `into_packets`, `continue_message` (the loop of `read_bytes` and the later
calls of `next`) and `packets_done`. `read_packet` is an operator with its four outcomes:
the frame does not decrypt, the packet is refused, the packet is accepted, the stream has ended.
`frames` has what was encrypted, by nonce, and `wire` the nonces of the frames in
the stream. Byte *i* of message *m* is the pair `<<m, i>>`, so a property can see
where each received byte came from. The constant `Faults` says what may happen: a
send fails or is dropped (`write_fails`), the source fails (`source_fails`), a read is
cancelled within a frame (`read_cancelled`), the receiver drops a handle
(`message_dropped`), the sending node drops its `MessageTx` (`drop_tx`) or its `MessageRx`
(`drop_rx`). No destructor shuts the stream down, so it ends when both halves are gone (`StreamEnds`) and not before. After
`MessageAborted` the application may drop its `MessagePackets` or call `next` once more
(`message_aborted`, `packets_done`); after any other error of `next` it may drop it or read on. `snow` is modelled by what the
code relies on: a frame decrypts only whole and under the next nonce, and a failed
decryption does not move the nonce.

**`MessageChannel`** is what a connection promises the applications at its two ends, without packets,
frames or handles: the sender completes or aborts one message at a time; the receiver is told of each, once and
in order, with all the bytes of a completed one, and of none that is still under way; the channel may stop at
any moment. The exception is a message the application gives up half read: it may be told of the tail, or not at all. **`MessageRefinement`** maps the state of `Transport` to it, and `ImplementsMessages` says that every
step of `Transport` is a step of the channel or none: a message is `open` while `PacketBuilder` has it in progress and `aborted` once an
Abort was packed for it, `told` is what the events in `seen` say of messages, each with its place in `seen` (without it, a second report of the same
message would be no step of the channel at all), and `skipped` are the messages whose handle was
dropped. An Abort that the reader refuses (the divergence of `transport_bare_abort`) counts as the report of the abort: the
application learns from an error that the message will not come. A message of `transport_exact_multiple` is
open for the channel although its send has returned Ok.

**`Auth`** has keys, node ids and auth headers as operators: every conversion between
bytes, text and serde's formats, key generation, `sign`, `verify_payload`, `verify_raw`,
`validate_public_key`, `check_node_id`. A byte string is a sequence of symbolic bytes
that remember what they belong to; a `Result` is a record. The cryptography is ideal (a
public key determines its private key, a signature its key and payload); hex, yatlv and the
serde formats are modelled by what the code asks of them, so text may be no hex, a
byte string may have the wrong length, and a frame may have fields this version does not know.

**`Provisioning`** is how a cluster gets its credentials, with the operators of `Auth`: an
operator makes the signature keypair and signs headers (and other records) with the
key in a file; nodes make transport keypairs; `Credentials` are saved to files and loaded
when a node starts; keys are replaced at any time; values in files are cut short, mistyped, or
pasted in from elsewhere (`mishandle`). What one node then makes of another is
`authenticate`, the checks of `connect` and `accept`. Nobody forges anything: the mistakes are those
people make with configuration files.

**`Handshake`** is one `connect` (as `try_connect` calls it, with the node-id check) and
one `accept`, checking headers with the operators of `Auth`. Every pair of configurations
from a set is an initial state: a header signed by another key, made for another transport
key or another node, bytes that are no header, or a header that does not fit message 2, or
either message. All nodes follow the protocol. A side that fails drops its stream; the
other side sees the frames that were already under way and then the end of the stream. The
network may fail so that both ends notice (`reset`) or neither does (`silent`). A write that is
cut off half way is, to the other side, a frame that never came.

**`PeerLink`** is one link of the pool with any number of clients and tasks (links of
different peers share only the map). The async mutex is modelled as tokio documents it:
first come first served, the permit handed to the first waiter, a dropped lock future leaves
the queue or hands the permit on. `notified[c]` is whether the client's `Notified` future
has been woken; such a future receives every `notify_waiters` from its creation on. Two
writes under the lock in `reconnect_task` (`install`, `notify_waiters`) and the two parts of
dropping a guard (the destructor's body `drop_guard`, the release of the lock `drop_unlock`) are
separate steps, and so are the two awaits of `try_connect`: `connector_connect` opens a stream and
`connect_ok` completes the handshake on it; if the peer has gone in between, it fails or, with the last handshake
frame already there, succeeds all the same. `dirty` is whether an exchange was begun on the installed channel
and not completed. There is no variable for the state of an installed stream, because no line of `pool.rs` looks at it.

**`LeasedChannel`** is what the pool's documentation promises its clients, without locks,
tasks or wake-ups. `PeerLink` implements it (`ImplementsLease`) under the mapping `channel`,
`lessee <- guard_owner`, `midway <- dirty`.

`MCTransport`, `MCHandshake`, `MCProvisioning` and `MCPeerLink` instantiate the modules for TLC.
`PacketStateProofs`, `TransportProofs`, `MessageChannelProofs`, `AckedProofs`, `HandshakeProofs`, `ProvisioningProofs` and `PeerLinkProofs` hold the proofs. Definitions
whose comment begins with "Mutant" are variants with one deliberate mistake, used in place of the
definition that follows them to see that a property notices; no specification refers to them.

## The runs

Deadlock is checked in the PeerLink runs. The Transport runs stop when all `MaxMsgs`
messages are through, the Handshake runs when both calls have returned, and the Provisioning
runs when their bounds are used up, so there it is not.

| run | result | shows |
|---|---|---|
| `transport_live` | pass | `TypeOK`, `PackNeverRefused`; `AckedIsDelivered`: a message whose send returned Ok is delivered (except the case of `transport_exact_multiple`); `ReaderFinishes`: a receiver whose peer has dropped both halves of its stream, even within a message, comes to the end of the stream |
| `transport_faults` | pass | with failing and cancelled sends and reads and handles dropped half read: `MessageIntact`, `InOrder`, `OnlyBareAbortRejected`, `LostFrameStops`, `FramesFit`; `PanicOnlyAfterDrop`: `next` may be called again after any error without running into the following message; `NoneMeansOver`: it answers `None` only when nothing of its message is left unread; `AckedIsKept`: a message whose send returned Ok is never reported aborted or rejected, and once all is read it was delivered or dropped (same exception); `ImplementsMessages`: the connection implements `MessageChannel` |
| `handshake_faults` | pass | timers and network failures at any point: `TypeOK`, `Authentic`, `RevealedOnlyToVerified`, `GoodPeersNotRefused`; `FailuresExplained`: every error has the cause it names; `NeverStuck`: one side can always go on; `StepsRunOut`: a handshake is over after seven steps at most; `BothReturn`, `GoodPeersConnect` |
| `provisioning` | pass | `OnlyIssued`: a node is taken only for whom the operator gave its key to; `IssuedAccepted`: a header issued for the key a node holds is accepted, role and all; `IntactFileLoads`: untouched files load, in text and binary formats, and agree with what is printed |
| `peerlink_safe` | pass | `TypeOK`, `OneReconnector`, `GuardMeansConnected`, `NoInheritedExchange`, `NoLostWakeup`; `NobodyForgotten`: the mutex's permit is not lost and each waiter queues for it once; `ImplementsLease` |
| `peerlink_live` | pass | `AcquireReturns`, `WaitReturns`; `LinkComesBack`: a link that was reset is Connected again once the peer stays up |
| `transport_exact_multiple` | violation | `send_reader` of a positive multiple of `MAX_PACKET_SIZE` bytes returns Ok with no last packet sent; the message can then be aborted |
| `transport_bare_abort` | violation | an abort before the first packet reaches the peer as `MissingMessageStart` |
| `transport_dropped_handle` | violation | after a dropped handle, `read_bytes` and `next` can reach `unreachable!()` |
| `handshake_half_open` | violation | `connect` succeeds for an initiator that the responder refuses |
| `provisioning_node_id` | violation | a node id above the limit comes out of a file and is signed into a header that nobody can verify |
| `peerlink_timeout` | violation | `wait_connected` waits for the lock past its timeout |

Each violation contradicts a sentence of the repository, quoted in `PROJECT.json` under
`findings`. Four more divergences have no run of their own:

- `README.md:45-46` speaks of packets of up to 65519 bytes and of 64 message types; the code
  has 65517 (`packet_state.rs:311`) and 4096;
- the comment at `pool.rs:283-284` says that the guard's lock is released "before the spawned
  task runs". On a multi-threaded runtime the task may run first and queue for the lock. It does
  no harm: `OneReconnector` and `AcquireReturns` are checked with both orders;
- `pool.rs:137-138` promises a reconnect "whenever a link drops". Nothing in the pool watches a stream: one that drops
  on an idle link is noticed by the next client that uses it, whose guard, dropped without a commit, starts the reconnect;
- `messages.rs:188` says that `next` yields `None` "if the message is complete". After it has returned
  `MessageAborted` it yields `None`, too (`messages.rs:193-195`, `207`). The abort has been reported by then; an application that skips the
  error and looks only for the `None` takes the message for complete.

## Bounds

**Transport.** Two bytes per packet and payloads of 0 to 5 bytes, so that every split into one, two or
three packets occurs on both sides of both boundaries. `transport_faults` takes two of those
lengths, a message that fills one packet exactly and one that needs three. Two messages, because
the builder and the reader keep state across one message boundary and nothing else
survives it. Three types: the least and the greatest valid one and the first invalid one (`transport_live`: the last two). The frame
size that `FramesFit` is about is far from its limit in the runs; the proof covers it.

**Handshake.** Two cluster keys, two node ids and two transport keys, so that each check can fail and
succeed on each side independently; headers of three sizes, with limits between them. Every
pair of configurations is an initial state.

**Provisioning.** Two nodes, three keypairs (two for transport and one for signing, or a replacement),
two signed records, one mishandled file. Four keypairs pass too (1.7 million states, five minutes). Node
ids are the same number at two widths, which are different ids; keys and signatures have two symbolic
bytes, so that each can be one byte short. `LuckyPoints` holds a byte string that is a point
of the ED25519 curve though it is nobody's public key: the code can tell a mistyped key only if it is not on
the curve.

**PeerLink.** Three clients (one inside, two waiting) for safety and two for liveness. Two task
identities, one more than the code should need at a time; a task that returned frees its
identity. Backoffs 1 to 3 for safety: doubling once below the maximum and once across it. In
`peerlink_live` the backoff is only a number that nothing waits for, and has one value.

## Fairness

Weak fairness only. `SendStep`, `RecvStep`, `InitiatorStep`, `ResponderStep`, `ClientStep`, `TaskStep`: the
runtime polls a future that is ready. `WaitClock`, `handshake_timeout`: timers fire. `RecvStep` is also an
assumption on the receiving application, which keeps reading, and `GuardsReleased` one on the
clients, which let go of guards in the end; without the latter nothing on a link can be
expected to return. No fairness is assumed of the peer, of faults, or of the start of any
call: `LinkComesBack` is conditional on a peer that stays up, `ReaderFinishes` on a node that drops both
halves, `GoodPeersConnect` on calls that are not cut off. `WaitReturns` is conditional on a link that
settles: on one that flaps for ever, `wait_connected` may be woken each time only to find the connection
reset again, and its timeout is only looked at when it was not woken.

## The proofs

**`PacketStateProofs`** shows, for every type, payload length and position in a message:

- `HeaderRoundTrip`: the header encoding loses neither kind nor type;
- `InStepAtStart`, `PackAccepted`, `AbortAccepted`: builder and reader start in step (`InStep`:
  the reader has a message open exactly when the builder has one open of which a packet was made, and it is the
  same type), every packet `pack` makes is accepted and keeps them in step, and so is an Abort exactly
  when a packet of its message went before it.

**`TransportProofs`** shows every safety property of the two transport runs (`TypeCorrect`, `NeverRefused`, `Intactness`,
`Ordering`, `OnlyBareAbort`, `Stops`, `Panics`, `NoneIsTheEnd`, `PrefixesFit`) for any `MAX_PACKET_SIZE` up to the one that Noise allows,
any types and lengths, any number of messages, and all faults. From `TransportAssumption`: the
packet size is positive and at most `MAX_RAW_PACKET_SIZE - 2`; types, lengths and `MaxMsgs` are
natural numbers. The inductive invariant is
`IInv == TypeOK /\ Sender /\ Channel /\ Receiver /\ History`, because what the application is handed now was decided by
calls of the sender several frames ago, and has to be followed through each place:

- `Sender` says of every frame what it holds of its message: it continues where the frame before it
  stopped, its kind is Sole, First, Mid or Last according to where it stands, and an Abort ends
  a message (`FrameOk`). It relates the builder (`Builder`) and the call under way (`Calls`) to the last frame;
- `Channel`: as long as the receiver can decrypt anything, the stream holds the frames from its nonce on,
  without a gap up to the first one that was lost, and that one stops it;
- `Receiver` relates the reader (`ReaderOk`) and the open handle (`HandleOk`) to the last frame that was decrypted:
  `read` has a message open exactly when that frame is not the last of its message, and a handle
  holds a run of the bytes of one message, from its start unless it is a leftover of a dropped one, and is `done` only
  when that frame was the end of its message;
- `History`: `MessageIntact`, `InOrder` and `OnlyBareAbortRejected`, with what makes them inductive: what was reported
  is bounded by the message being read (`Bounded`), and every message before that was reported or
  dropped (`Covered`).

`StepSender`, `StepChannel` and `StepReceiver` show that each part is preserved, with one lemma for each group of actions.
`PrefixesFit` is an invariant by itself, given `IInv`: a packet holds at most `MAX_PACKET_SIZE` bytes, so the
length of its ciphertext, cast to `u16`, is still the length.

**`MessageChannelProofs`** shows `Refinement`: `Spec => ImplementsMessages`, from the same assumptions. `IInv` says that
what is told is intact and in order, but not that the sender is done with the message: an Abort might still follow
its last packet, or precede it. What is missing is `Ordered`, an invariant of the frames: they go through the messages in
order, and no frame of a message follows the one that ends it. With it `EndsOnce` shows that the message of a Sole or
Last packet has no Abort, that of an Abort has no other end, and the builder is not at work on either.
`SenderSteps` reduces the sender's actions to four cases (nothing, a message begins, a packet is added, an Abort is
added), `ReportsAbort` and `Delivers` are the two steps in which something is told, and `SenderRefines` and `ReceiverRefines`
go through the actions.

**`AckedProofs`** shows `OkMeansSent`: `Spec => []AckedIsKept`, what an Ok of `send_message` or `send_reader` is worth, from the
same assumptions. The sender's half is an invariant of its own, `Acked`: a call that has returned Ok, or is about to, has
packed a Sole or a Last. For `send_reader` that rests on the bytes it has packed being a multiple of `MAX_PACKET_SIZE`
until the source ends, so that the only way to return without a last packet is a source of such a length
(`Unterminated`, the finding of `transport_exact_multiple`): the theorem says that there is no other. The receiver's half, `Settled` (what was
told of a message is so, and stays so), uses no action of the receiver: `StepSettled` derives it from the steps of
`MessageChannel`, which `MessageChannelProofs` has shown those actions to be. By `EndsOnce` a message with a Sole or a Last has no Abort, and by
`Covered` the application has heard of every message before the end of what it has read.

**`HandshakeProofs`** shows the safety properties of `handshake_faults` (`TypeCorrect`, `AlwaysAuthentic`, `Revealed`, `ErrorsAreTrue`, `NotRefused`,
`NobodyStuck`) and its action property (`Finite`) for any configurations, node ids and size limits. From `HandshakeAssumption`: each side has a set of
credentials, and the limits are natural numbers. The inductive invariant is
`IInv == TypeOK /\ Position`. `Position` says for each side's place in the pattern what is
in the two streams and what the side has already verified. `ErrorsAreTrue` and `NobodyStuck` need one more, `Progress`: a side's
stream is open exactly as long as it has not failed, and while the network is up the frame that the two places in the pattern call for is
under way. Then an end of the stream is always the other side's failure or the network's
(`NewlyExplained`), an explanation stays one (`ExplainedKept`), and two sides cannot both wait for a frame. `NotRefused` follows:
between good peers only the timer and the stream are left as explanations. `Finite` is a variant: every step
moves one side on in the pattern, or the network out of `up`, so `Remaining` falls (`SideGetsOn`). The proof uses of `authenticate` only that it returns a
header or one of the errors of `BadAuth`: what the checks mean is the subject of `ProvisioningProofs`.

**`ProvisioningProofs`** shows the three invariants of `provisioning` (`OnlyIssuedHolds`, `IssuedAcceptedHolds`, `IntactFileLoadsHolds`) for any nodes
and identities, any lengths of keys and signatures, and any number of keys, signed records and mistakes. From
`AuthAssumption` (keys and signatures are not empty) and `ProvisioningAssumption` (a header has one role at most).
`IssuedAcceptedHolds` and `SignedVerifiesHolds` (whatever is signed as a header verifies as that header) assume `IdsInBounds` in
addition: the ids that headers are issued for are within `MAX_NODE_ID_LEN`. That is what `provisioning_node_id` shows the code not to
enforce; the theorem says that nothing else can go wrong. The inductive invariant `IInv` says

- of every byte string in a file, a header or a running node that it is `Genuine`: a byte of a signature in it, wherever it stands,
  is of a signature that the operator made, over one of the frames of an issued header or over one of the `Others` that
  are no headers. Cutting, mistyping and pasting keep that, and `verify_payload` accepts nothing without such a byte
  (`VerifiedHasSignature`); hence `OnlyIssued`;
- of issued headers (`IssuedOk`) that they are signed in one of their `Frames`, from which `from_yatlv` reads that header and no
  other, and from the `Others` none (`FrameLayout`, `LayoutReads`, `OthersRead`);
- of the operator's and the nodes' keys and of untouched files (`VaultOk`, `KeysOk`, `WrittenOk`) that they are what generation and `save` made
  of them; the conversions are inverse on such values (`KeyRoundTrip`, `PointRoundTrip`, `BytesRoundTrip`).

**`PeerLinkProofs`** shows, for any sets of clients and tasks and any backoff bounds that satisfy
`PeerLinkAssumption` (positive first backoff, not above the maximum; clients, tasks and `NoOne` are
different things):

- `TypeCorrect`, `ExactlyOneReconnector`, `GuardsAreSafe`, `ChannelsAreClean`, `WakeupsAreKept`, `PermitIsKept`: the invariants of `peerlink_safe`;
- `Refinement`: `Spec => ImplementsLease`.

None of these invariants is inductive alone: that a guard means a connected link rests on the mutex
excluding a task's `install`, which rests on the queue and the permit agreeing with where
everybody is. The inductive invariant is `IInv == TypeOK /\ LockInv /\ LinkInv`. `LockInv` says that the permit is
free only when nobody queues, that whoever is inside owns it, and that each waiter owns it or
queues exactly once; `LinkInv` relates `state` to the tasks and to the guards. Four lemmas on the mutex alone
(`LockTaken`, `LockEntered`, `LockReleased`, `LockAbandoned`) are cited by every action that touches it; `TypeStep`, `LockInvStep` and
`LinkInvStep` go through the actions one by one.

**Only model-checked**: the liveness properties, because the prover handles neither liveness under
fairness nor `ENABLED`. `NeverStuck` is therefore stated with `Ready`, which says outright what a call needs to go on. While the network is up, `NeverStuck` and `Finite` are
what `BothReturn` rests on. The prover cannot do induction over data and does not work with `RECURSIVE`
operators; no module here uses one. (`get_data` picks the first field of a tag with `CHOOSE` and not with
`SelectSeq`, which is recursive.)

## Not modelled

- Metrics and log lines, which nothing reads, the `Debug` formats that redact keys, and the benchmarks.
- `TcpConnector`: socket calls. A connector is a step that yields a stream or an error (`connector_connect`).
- The byte layout of yatlv and of the serde formats: external, and used through the fields they keep.
- The pool's map with several peers: links share nothing else, and `peer` creates each entry under one lock.
- The two directions of a connection together: their halves share a cipher state with one nonce each, and the stream, of
  which `Transport` has what the other direction can do to this one (`rx_half`).
- Time: a timer fires after some other steps or before them, but nothing says how long a backoff is.
- Panics in user code (a connector, a source) and a runtime that shuts down.

The last two are listed under `hazards` where they matter.

## Plan

1. `PeerLink` over two message channels, one for each direction: that after a commit both ends are between messages, and what a
   cancelled exchange leaves behind at the peer.
2. `PeerLink` composed with `Handshake`: the reconnect cycle of an initiator that the responder refuses.
