------------------------------ MODULE PeerLink ------------------------------
(***************************************************************************)
(* The link of a ConnectionPool to one peer (src/pool.rs): the LinkState   *)
(* behind its async mutex, the background reconnect tasks, and the clients *)
(* that hold a Connection and call acquire, commit, drop and               *)
(* wait_connected on it.  Links to different peers share only the map that *)
(* `peer` consults, so one link is modelled.                               *)
(*                                                                         *)
(* Every step runs a client or a task from one await to the next, or to    *)
(* the next point at which another thread can see a difference: the two    *)
(* writes of reconnect_task under the lock, and the body of Guard::drop    *)
(* and the release that follows it, are steps of their own.                *)
(***************************************************************************)
EXTENDS Integers, Sequences

CONSTANTS
    Clients,         \* tasks of the application
    Tasks,           \* identities for spawned reconnect tasks
    NoOne,           \* the lock is free
    INITIAL_BACKOFF, \* 50 ms
    MAX_BACKOFF      \* 30 s

ASSUME PeerLinkAssumption ==
    /\ INITIAL_BACKOFF \in Nat \ {0} /\ MAX_BACKOFF \in Nat
    /\ INITIAL_BACKOFF <= MAX_BACKOFF
    /\ Clients \cap Tasks = {}
    /\ NoOne \notin Clients \cup Tasks

VARIABLES
    state,       \* LinkState, "absent" before the first call of `peer`
    dirty,       \* an exchange was begun on (tx, rx) and not completed
    holder,      \* owner of the mutex's permit
    queue,       \* the mutex's waiters, in the order in which they will own it
    pc,          \* where each client is
    notified,    \* the client's Notified future has been woken
    expired,     \* the client's wait_connected deadline has passed
    task,        \* where each reconnect task is
    backoff,     \* the `backoff` of each reconnect task
    pending,     \* the stream a task is shaking hands on: "up" or "down"
    peer_up      \* environment: the peer is there and takes connections

lockVars == <<holder, queue>>
linkVars == <<state, dirty>>
clientVars == <<pc, notified, expired>>
taskVars == <<task, backoff, pending>>
vars == <<linkVars, lockVars, clientVars, taskVars, peer_up>>

Procs == Clients \cup Tasks

ClientPc == {"none", "idle", "acquire", "guard", "dropped", "check", "parked"}
TaskPc == {"none", "spawned", "connecting", "handshaking", "sleeping", "locking", "installed"}

\* The type invariant; it includes that `backoff` stays within its bounds.
TypeOK ==
    /\ state \in {"absent", "Reconnecting", "Connected"}
    /\ dirty \in BOOLEAN
    /\ holder \in Procs \cup {NoOne}
    /\ queue \in Seq(Procs)
    /\ pc \in [Clients -> ClientPc]
    /\ notified \in [Clients -> BOOLEAN]
    /\ expired \in [Clients -> BOOLEAN]
    /\ task \in [Tasks -> TaskPc]
    /\ backoff \in [Tasks -> INITIAL_BACKOFF..MAX_BACKOFF]
    /\ pending \in [Tasks -> {"up", "down"}]
    /\ peer_up \in BOOLEAN

Init ==
    /\ state = "absent" /\ dirty = FALSE
    /\ holder = NoOne /\ queue = <<>>
    /\ pc = [c \in Clients |-> "none"]
    /\ notified = [c \in Clients |-> FALSE]
    /\ expired = [c \in Clients |-> FALSE]
    /\ task = [t \in Tasks |-> "none"]
    /\ backoff = [t \in Tasks |-> INITIAL_BACKOFF]
    /\ pending = [t \in Tasks |-> "down"]
    /\ peer_up \in BOOLEAN

----------------------------------------------------------------------------
\* tokio's async mutex: first come, first served, and a release hands the
\* permit straight to the first waiter.

lock(p) ==
    IF holder = NoOne THEN holder' = p /\ UNCHANGED queue
                      ELSE queue' = Append(queue, p) /\ UNCHANGED holder

unlock ==
    IF queue = <<>> THEN holder' = NoOne /\ UNCHANGED queue
                    ELSE holder' = Head(queue) /\ queue' = Tail(queue)

\* Mutant: a lock future dropped after the permit was handed to it keeps it.
cancel_lock_keeps_permit(p) ==
    IF holder = p THEN UNCHANGED lockVars
    ELSE \E i \in 1..Len(queue) :
            /\ queue[i] = p
            /\ queue' = SubSeq(queue, 1, i - 1) \o SubSeq(queue, i + 1, Len(queue))
            /\ UNCHANGED holder

\* A lock future that is dropped gives up its place, or the permit it was given.
cancel_lock(p) ==
    IF holder = p THEN unlock
    ELSE \E i \in 1..Len(queue) :
            /\ queue[i] = p
            /\ queue' = [j \in 1..(Len(queue) - 1) |-> IF j < i THEN queue[j] ELSE queue[j + 1]]
            /\ UNCHANGED holder

\* tokio::spawn(reconnect_task(..)); the task may run at once on another thread.
spawn ==
    \E t \in Tasks :
        /\ task[t] = "none"
        /\ task' = [task EXCEPT ![t] = "spawned"]
        /\ backoff' = [backoff EXCEPT ![t] = INITIAL_BACKOFF]
        /\ UNCHANGED pending

----------------------------------------------------------------------------
\* ConnectionPool and Connection

\* ConnectionPool::peer, atomic under the map's mutex: the first call creates
\* the link (PeerLink::new) and starts its first reconnect task.
peer(c) ==
    /\ pc[c] = "none"
    /\ pc' = [pc EXCEPT ![c] = "idle"]
    /\ IF state = "absent" THEN state' = "Reconnecting" /\ spawn
                           ELSE UNCHANGED <<state, taskVars>>
    /\ UNCHANGED <<dirty, lockVars, notified, expired, peer_up>>

\* acquire, up to lock_owned().await.
acquire(c) ==
    /\ pc[c] = "idle"
    /\ pc' = [pc EXCEPT ![c] = "acquire"]
    /\ lock(c)
    /\ UNCHANGED <<linkVars, notified, expired, taskVars, peer_up>>

\* Mutant: acquire does not look at the LinkState.
acquire_locked_unchecked(c) ==
    /\ pc[c] = "acquire" /\ holder = c
    /\ pc' = [pc EXCEPT ![c] = "guard"]
    /\ UNCHANGED <<linkVars, lockVars, notified, expired, taskVars, peer_up>>

\* acquire, once it owns the lock: a Guard, or NotReady and the lock released.
acquire_locked(c) ==
    /\ pc[c] = "acquire" /\ holder = c
    /\ IF state = "Connected"
       THEN pc' = [pc EXCEPT ![c] = "guard"] /\ UNCHANGED lockVars
       ELSE pc' = [pc EXCEPT ![c] = "idle"] /\ unlock
    /\ UNCHANGED <<linkVars, notified, expired, taskVars, peer_up>>

\* The guard's owner starts to send or receive through Guard::transport, ...
exchange_begin(c) ==
    /\ pc[c] = "guard" /\ ~dirty
    /\ dirty' = TRUE
    /\ UNCHANGED <<state, lockVars, clientVars, taskVars, peer_up>>

\* ... and completes the exchange.  Nothing here depends on the peer: its last
\* bytes may be read, and ours written, after it has gone.
exchange_end(c) ==
    /\ pc[c] = "guard" /\ dirty
    /\ dirty' = FALSE
    /\ UNCHANGED <<state, lockVars, clientVars, taskVars, peer_up>>

\* Guard::commit, called as documented when no exchange is left half done.
commit(c) ==
    /\ pc[c] = "guard" /\ ~dirty
    /\ pc' = [pc EXCEPT ![c] = "idle"]
    /\ unlock
    /\ UNCHANGED <<linkVars, notified, expired, taskVars, peer_up>>

\* Mutant: a dropped guard starts no reconnect task.
drop_guard_no_spawn(c) ==
    /\ pc[c] = "guard"
    /\ pc' = [pc EXCEPT ![c] = "dropped"]
    /\ state' = "Reconnecting" /\ dirty' = FALSE
    /\ UNCHANGED <<lockVars, notified, expired, taskVars, peer_up>>

\* Mutant: a dropped guard hands the channel back as a committed one does.
drop_guard_keeps_channel(c) ==
    /\ pc[c] = "guard"
    /\ pc' = [pc EXCEPT ![c] = "dropped"]
    /\ UNCHANGED <<linkVars, lockVars, notified, expired, taskVars, peer_up>>

\* The body of Guard::drop without commit: error, panic or cancellation.
drop_guard(c) ==
    /\ pc[c] = "guard"
    /\ pc' = [pc EXCEPT ![c] = "dropped"]
    /\ state' = "Reconnecting" /\ dirty' = FALSE
    /\ spawn
    /\ UNCHANGED <<lockVars, notified, expired, peer_up>>

\* The guard's field `inner` is dropped after the body.
drop_unlock(c) ==
    /\ pc[c] = "dropped"
    /\ pc' = [pc EXCEPT ![c] = "idle"]
    /\ unlock
    /\ UNCHANGED <<linkVars, notified, expired, taskVars, peer_up>>

\* wait_connected: create the Notified future, then lock().await.  The future
\* receives every notify_waiters from its creation on.
wait_connected(c) ==
    /\ pc[c] = "idle"
    /\ pc' = [pc EXCEPT ![c] = "check"]
    /\ notified' = [notified EXCEPT ![c] = FALSE]
    /\ expired' = [expired EXCEPT ![c] = FALSE]
    /\ lock(c)
    /\ UNCHANGED <<linkVars, taskVars, peer_up>>

\* wait_connected, once it owns the lock: Ok, or release it and await the future.
wait_check(c) ==
    /\ pc[c] = "check" /\ holder = c
    /\ pc' = [pc EXCEPT ![c] = IF state = "Connected" THEN "idle" ELSE "parked"]
    /\ unlock
    /\ UNCHANGED <<linkVars, notified, expired, taskVars, peer_up>>

\* Mutant: the loop of wait_connected goes on with the future it already has.
wait_woken_same_future(c) ==
    /\ pc[c] = "parked" /\ notified[c]
    /\ pc' = [pc EXCEPT ![c] = "check"]
    /\ lock(c)
    /\ UNCHANGED <<linkVars, notified, expired, taskVars, peer_up>>

\* The future is woken: round the loop with a new one.
wait_woken(c) ==
    /\ pc[c] = "parked" /\ notified[c]
    /\ pc' = [pc EXCEPT ![c] = "check"]
    /\ notified' = [notified EXCEPT ![c] = FALSE]
    /\ lock(c)
    /\ UNCHANGED <<linkVars, expired, taskVars, peer_up>>

\* tokio's timeout polls the future before the timer: NotReady only if it has
\* not been woken.
wait_timeout(c) ==
    /\ pc[c] = "parked" /\ ~notified[c] /\ expired[c]
    /\ pc' = [pc EXCEPT ![c] = "idle"]
    /\ UNCHANGED <<linkVars, lockVars, notified, expired, taskVars, peer_up>>

\* The deadline of a wait_connected passes.
deadline(c) ==
    /\ pc[c] \in {"check", "parked"} /\ ~expired[c]
    /\ expired' = [expired EXCEPT ![c] = TRUE]
    /\ UNCHANGED <<linkVars, lockVars, pc, notified, taskVars, peer_up>>

\* The future of an acquire or a wait_connected is dropped at its await.
cancel(c) ==
    /\ pc[c] \in {"acquire", "check", "parked"}
    /\ pc' = [pc EXCEPT ![c] = "idle"]
    /\ IF pc[c] = "parked" THEN UNCHANGED lockVars ELSE cancel_lock(c)
    /\ UNCHANGED <<linkVars, notified, expired, taskVars, peer_up>>

----------------------------------------------------------------------------
\* reconnect_task

task_step(t, from, to) == task[t] = from /\ task' = [task EXCEPT ![t] = to]

\* The spawned task is polled for the first time, or wakes up after a sleep.
task_connect(t) ==
    /\ task_step(t, "spawned", "connecting")
    /\ UNCHANGED <<linkVars, lockVars, clientVars, backoff, pending, peer_up>>

\* try_connect: the Connector yields a stream, the handshake on it begins.
connector_connect(t) ==
    /\ peer_up
    /\ task_step(t, "connecting", "handshaking")
    /\ pending' = [pending EXCEPT ![t] = "up"]
    /\ UNCHANGED <<linkVars, lockVars, clientVars, backoff, peer_up>>

\* try_connect returns Ok (handshake and node id): lock().await.  The peer may
\* have gone since, its last handshake frame being there already.
connect_ok(t) ==
    /\ task_step(t, "handshaking", "locking")
    /\ lock(t)
    /\ UNCHANGED <<linkVars, clientVars, backoff, pending, peer_up>>

\* Mutant: the task gives up after a failed attempt.
connect_err_gives_up(t) ==
    /\ ~peer_up
    /\ task_step(t, "connecting", "none")
    /\ UNCHANGED <<linkVars, lockVars, clientVars, backoff, pending, peer_up>>

\* try_connect returns Err, from the Connector or from a handshake whose stream
\* went down: sleep for `backoff`.
connect_err(t) ==
    /\ \/ ~peer_up /\ task_step(t, "connecting", "sleeping")
       \/ pending[t] = "down" /\ task_step(t, "handshaking", "sleeping")
    /\ UNCHANGED <<linkVars, lockVars, clientVars, backoff, pending, peer_up>>

\* Mutant: the backoff has no maximum.
backoff_elapsed_unbounded(t) ==
    /\ task_step(t, "sleeping", "connecting")
    /\ backoff' = [backoff EXCEPT ![t] = 2 * @]
    /\ UNCHANGED <<linkVars, lockVars, clientVars, pending, peer_up>>

\* The sleep ends: the next one is twice as long, up to the maximum.
backoff_elapsed(t) ==
    /\ task_step(t, "sleeping", "connecting")
    /\ backoff' = [backoff EXCEPT ![t] = IF 2 * @ < MAX_BACKOFF THEN 2 * @ ELSE MAX_BACKOFF]
    /\ UNCHANGED <<linkVars, lockVars, clientVars, pending, peer_up>>

\* The task owns the lock: *state = Connected { tx, rx }.
install(t) ==
    /\ holder = t
    /\ task_step(t, "locking", "installed")
    /\ state' = "Connected" /\ dirty' = FALSE
    /\ UNCHANGED <<lockVars, clientVars, backoff, pending, peer_up>>

\* Mutant: notify_one in place of notify_waiters.
notify_one(t) ==
    LET waiting == {c \in Clients : pc[c] \in {"check", "parked"} /\ ~notified[c]} IN
    /\ task_step(t, "installed", "none")
    /\ IF waiting = {} THEN UNCHANGED notified
       ELSE \E c \in waiting : notified' = [notified EXCEPT ![c] = TRUE]
    /\ unlock
    /\ UNCHANGED <<linkVars, pc, expired, backoff, pending, peer_up>>

\* notify_waiters wakes every Notified future there is; the task returns and
\* its MutexGuard is dropped.
notify_waiters(t) ==
    /\ task_step(t, "installed", "none")
    /\ notified' = [c \in Clients |-> notified[c] \/ pc[c] \in {"check", "parked"}]
    /\ unlock
    /\ UNCHANGED <<linkVars, pc, expired, backoff, pending, peer_up>>

----------------------------------------------------------------------------
\* The environment: the peer goes away, and a handshake with it may fail, or
\* returns.  The LinkState does not change: nothing in the pool watches the
\* stream of a Connected link.

peer_down ==
    /\ peer_up
    /\ peer_up' = FALSE
    /\ pending' = [t \in Tasks |-> "down"]
    /\ UNCHANGED <<linkVars, lockVars, clientVars, task, backoff>>

peer_back ==
    /\ ~peer_up
    /\ peer_up' = TRUE
    /\ UNCHANGED <<linkVars, lockVars, clientVars, taskVars>>

ClientCall(c) == peer(c) \/ acquire(c) \/ wait_connected(c) \/ cancel(c) \/ exchange_begin(c)
FinishExchange(c) == exchange_end(c) \/ commit(c) \/ drop_guard(c)
ClientStep(c) == acquire_locked(c) \/ drop_unlock(c) \/ wait_check(c) \/ wait_woken(c)
WaitClock(c) == deadline(c) \/ wait_timeout(c)
TaskStep(t) ==
    \/ task_connect(t) \/ connector_connect(t) \/ connect_ok(t) \/ connect_err(t)
    \/ backoff_elapsed(t) \/ install(t) \/ notify_waiters(t)

Next ==
    \/ \E c \in Clients : \/ ClientCall(c) \/ FinishExchange(c) \/ ClientStep(c) \/ WaitClock(c)
    \/ \E t \in Tasks : TaskStep(t)
    \/ peer_down \/ peer_back

Spec == Init /\ [][Next]_vars

\* The runtime polls what can make progress and timers fire.  Nothing is assumed
\* of the application or of the peer.
RuntimeFairness ==
    /\ \A c \in Clients : WF_vars(ClientStep(c)) /\ WF_vars(WaitClock(c))
    /\ \A t \in Tasks : WF_vars(TaskStep(t))

\* The application, too, lets go of every guard in the end.
GuardsReleased == \A c \in Clients : WF_vars(commit(c) \/ drop_guard(c))

RuntimeSpec == Spec /\ RuntimeFairness
FairSpec == RuntimeSpec /\ GuardsReleased

----------------------------------------------------------------------------
\* Properties

\* A reconnect task that has not installed its connection yet.
Active(t) == task[t] \in {"spawned", "connecting", "handshaking", "sleeping", "locking"}

\* A link that is Reconnecting has exactly one reconnect task working for it and
\* a link that is Connected has none, however drops, cancellations and installs
\* interleave: the link is never abandoned, no task replaces a connection that
\* another one established, and the peer never sees two dialers.
OneReconnector ==
    /\ state = "Reconnecting" <=> \E t \in Tasks : Active(t)
    /\ \A t, u \in Tasks : Active(t) /\ Active(u) => t = u

\* The unreachable!("Guard only exists when Connected") of Guard::transport is
\* unreachable: while a client has a Guard the link stays Connected, and no
\* other client has one.
GuardMeansConnected ==
    \A c \in Clients : pc[c] = "guard" =>
        /\ state = "Connected"
        /\ \A d \in Clients : pc[d] = "guard" => d = c

\* A half-done exchange is never inherited: a channel on which an exchange was
\* begun and not completed belongs to the client that began it, and is gone
\* before anyone else can acquire the link.
NoInheritedExchange == dirty => \E c \in Clients : pc[c] = "guard"

\* wait_connected misses no connection: a client that sleeps on its Notified
\* future sleeps because the link is not Connected, or because the task that
\* connected it is about to call notify_waiters.
NoLostWakeup ==
    \A c \in Clients : pc[c] = "parked" /\ ~notified[c] =>
        \/ state = "Reconnecting"
        \/ \E t \in Tasks : task[t] = "installed"

\* Who waits for the mutex (or has just been handed it and has not run yet),
\* and who is inside.
Waiting == {c \in Clients : pc[c] \in {"acquire", "check"}}
           \cup {t \in Tasks : task[t] = "locking"}
Holding == {c \in Clients : pc[c] \in {"guard", "dropped"}}
           \cup {t \in Tasks : task[t] = "installed"}

\* The permit is never lost and no waiter forgotten, however guards, cancelled
\* futures and tasks come and go: whoever waits and does not own the mutex queues
\* for it, nobody else does, and then its owner is somebody who will let go of it.
NobodyForgotten ==
    /\ Waiting \ {holder} = {queue[i] : i \in 1..Len(queue)}
    /\ \A i, j \in 1..Len(queue) : queue[i] = queue[j] => i = j
    /\ queue # <<>> => holder # NoOne
    /\ holder \in Waiting \cup Holding \cup {NoOne}
    /\ Holding \subseteq {holder}

\* The client that has a Guard, if there is one.
guard_owner == IF \E c \in Clients : c = holder /\ pc[c] = "guard" THEN holder ELSE NoOne

Lease == INSTANCE LeasedChannel WITH
    channel <- IF state # "Connected" THEN "none"
               ELSE IF guard_owner = NoOne THEN "free" ELSE "leased",
    lessee <- guard_owner,
    midway <- dirty

\* The mutex, the reconnect tasks and the destructor of Guard together implement
\* the channel of LeasedChannel: it is leased to one client at a time, always
\* between exchanges, and replaced only after it was discarded.
ImplementsLease == Lease!Spec

\* Every acquire returns if guards are let go of: the lock is handed on in order
\* and a cancelled waiter does not take the permit with it.
AcquireReturns == \A c \in Clients : pc[c] = "acquire" ~> pc[c] \in {"guard", "idle"}

\* Every wait_connected returns if guards are let go of and the link settles,
\* connected or not.  (Each time round its loop it may find that the connection
\* it was woken for has been reset again; on a link that flaps for ever it may
\* go round for ever, whatever its timeout.)
WaitReturns ==
    (<>[](state = "Connected") \/ <>[](state # "Connected")) =>
        \A c \in Clients : pc[c] \in {"check", "parked"} ~> pc[c] = "idle"

\* Once the peer is there to stay, a link that lost its connection gets it back.
LinkComesBack == <>[]peer_up => (state = "Reconnecting" ~> state = "Connected")

\* wait_connected returns once its timeout has elapsed.
TimeoutBoundsWait ==
    \A c \in Clients : (pc[c] \in {"check", "parked"} /\ expired[c]) ~> pc[c] = "idle"
============================================================================
