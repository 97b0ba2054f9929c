--------------------------- MODULE PeerLinkProofs ---------------------------
(***************************************************************************)
(* Proofs about PeerLink, for any number of clients and of reconnect       *)
(* tasks.  The safety properties of PeerLink follow from the inductive     *)
(* invariant IInv: the mutex's bookkeeping agrees with where the clients   *)
(* and tasks are (LockInv), and the link's state agrees with the tasks     *)
(* that work on it and the clients that use it (LinkInv).                  *)
(***************************************************************************)
EXTENDS PeerLink, TLAPS

\* The mutex with owner h and queue q, waiters W and processes H inside: the
\* permit is free only when nobody queues, whoever is inside owns it, and every
\* waiter that does not own it queues exactly once.
LockOK(h, q, W, H) ==
    /\ q \in Seq(W)
    /\ h \in W \cup H \cup {NoOne}
    /\ h = NoOne => q = <<>>
    /\ H \subseteq {h}
    /\ NoOne \notin W \cup H
    /\ W \cap H = {}
    /\ \A i, j \in 1..Len(q) : q[i] = q[j] => i = j
    /\ \A i \in 1..Len(q) : q[i] # h
    /\ \A p \in W : p = h \/ \E i \in 1..Len(q) : q[i] = p

LockInv == LockOK(holder, queue, Waiting, Holding)

LinkInv ==
    /\ state = "absent" => \A c \in Clients : pc[c] = "none"
    /\ OneReconnector
    /\ \A t \in Tasks : task[t] = "installed" => state = "Connected"
    /\ \A c \in Clients : pc[c] = "guard" => state = "Connected"
    /\ NoInheritedExchange
    /\ NoLostWakeup

IInv == TypeOK /\ LockInv /\ LinkInv

----------------------------------------------------------------------------
\* The mutex on its own.

\* A process that calls lock() becomes a waiter.
LEMMA LockTaken ==
    ASSUME NEW h, NEW q, NEW W, NEW H, LockOK(h, q, W, H),
           NEW p, p \notin W \cup H, p # NoOne,
           NEW h2, NEW q2,
           IF h = NoOne THEN h2 = p /\ q2 = q ELSE q2 = Append(q, p) /\ h2 = h
    PROVE  LockOK(h2, q2, W \cup {p}, H)
<1>1. CASE h = NoOne
  BY <1>1 DEF LockOK
<1>2. CASE h # NoOne
  <2>1. q2 = Append(q, p) /\ h2 = h
    BY <1>2
  <2>2. q2 \in Seq(W \cup {p}) /\ Len(q2) = Len(q) + 1
    BY <2>1 DEF LockOK
  <2>3. \A i \in 1..Len(q) : q2[i] = q[i] /\ q[i] \in W
    BY <2>1 DEF LockOK
  <2>4. q2[Len(q) + 1] = p
    BY <2>1 DEF LockOK
  <2>5. \A i, j \in 1..Len(q2) : q2[i] = q2[j] => i = j
    BY <2>2, <2>3, <2>4 DEF LockOK
  <2>6. \A i \in 1..Len(q2) : q2[i] # h2
    BY <1>2, <2>1, <2>2, <2>3, <2>4 DEF LockOK
  <2>7. \A r \in W \cup {p} : r = h2 \/ \E i \in 1..Len(q2) : q2[i] = r
    <3>1. TAKE r \in W \cup {p}
    <3>2. CASE r = p
      BY <3>2, <2>2, <2>4, Len(q2) \in 1..Len(q2) DEF LockOK
    <3>3. CASE r \in W
      BY <3>3, <2>1, <2>2, <2>3 DEF LockOK
    <3> QED BY <3>2, <3>3
  <2> QED BY <1>2, <2>1, <2>2, <2>5, <2>6, <2>7 DEF LockOK
<1> QED BY <1>1, <1>2

\* A waiter that owns the permit enters.
LEMMA LockEntered ==
    ASSUME NEW q, NEW W, NEW H, NEW p \in W, LockOK(p, q, W, H)
    PROVE  LockOK(p, q, W \ {p}, H \cup {p})
<1>1. q \in Seq(W \ {p})
  <2>1. \A i \in 1..Len(q) : q[i] \in W \ {p}
    BY DEF LockOK
  <2> QED BY <2>1 DEF LockOK
<1> QED BY <1>1 DEF LockOK

\* Its owner lets go of the mutex, from inside or before it entered.
LEMMA LockReleased ==
    ASSUME NEW h, NEW q, NEW W, NEW H, LockOK(h, q, W, H), h # NoOne,
           NEW h2, NEW q2,
           IF q = <<>> THEN h2 = NoOne /\ q2 = q ELSE h2 = Head(q) /\ q2 = Tail(q)
    PROVE  LockOK(h2, q2, W \ {h}, H \ {h})
<1>1. CASE q = <<>>
  BY <1>1 DEF LockOK
<1>2. CASE q # <<>>
  <2>1. h2 = q[1] /\ q2 = Tail(q) /\ Len(q) > 0 /\ Len(q2) = Len(q) - 1
    BY <1>2 DEF LockOK
  <2>2. \A i \in 1..Len(q2) : q2[i] = q[i + 1]
    BY <2>1 DEF LockOK
  <2>3. \A i \in 1..Len(q) : q[i] \in W \ {h}
    BY DEF LockOK
  <2>4. q2 \in Seq(W \ {h})
    BY <2>1, <2>2, <2>3 DEF LockOK
  <2>5. \A i, j \in 1..Len(q2) : q2[i] = q2[j] => i = j
    BY <2>1, <2>2 DEF LockOK
  <2>6. \A i \in 1..Len(q2) : q2[i] # h2
    BY <2>1, <2>2 DEF LockOK
  <2>7. \A r \in W \ {h} : r = h2 \/ \E i \in 1..Len(q2) : q2[i] = r
    <3>1. TAKE r \in W \ {h}
    <3>2. PICK i \in 1..Len(q) : q[i] = r
      BY DEF LockOK
    <3>3. CASE i = 1
      BY <3>2, <3>3, <2>1
    <3>4. CASE i # 1
      <4>1. i - 1 \in 1..Len(q2) /\ q2[i - 1] = r
        BY <3>2, <3>4, <2>1, <2>2 DEF LockOK
      <4> QED BY <4>1
    <3> QED BY <3>3, <3>4
  <2>8. h2 \in W \ {h}
    BY <2>1, <2>3
  <2>9. /\ h2 \in (W \ {h}) \cup (H \ {h}) \cup {NoOne}
        /\ NoOne \notin (W \ {h}) \cup (H \ {h}) /\ (W \ {h}) \cap (H \ {h}) = {}
    BY Zenon, <2>8 DEF LockOK
  <2>10. h2 # NoOne
    BY Zenon, <2>8 DEF LockOK
  <2>11. H \ {h} \subseteq {h2}
    BY Zenon DEF LockOK
  <2> QED BY Zenon, <2>4, <2>5, <2>6, <2>7, <2>9, <2>10, <2>11 DEF LockOK
<1> QED BY <1>1, <1>2

\* A waiter in the queue gives up.
LEMMA LockAbandoned ==
    ASSUME NEW h, NEW q, NEW W, NEW H, LockOK(h, q, W, H),
           NEW k \in 1..Len(q), NEW q2,
           q2 = [j \in 1..(Len(q) - 1) |-> IF j < k THEN q[j] ELSE q[j + 1]]
    PROVE  LockOK(h, q2, W \ {q[k]}, H)
<1>1. Len(q) \in Nat /\ Len(q) > 0
  BY DEF LockOK
<1>2. \A j \in 1..(Len(q) - 1) :
        q2[j] = (IF j < k THEN q[j] ELSE q[j + 1]) /\ q2[j] \in W \ {q[k]}
  BY <1>1 DEF LockOK
<1>3. q2 \in Seq(W \ {q[k]}) /\ Len(q2) = Len(q) - 1
  BY <1>1, <1>2
<1>4. \A i, j \in 1..Len(q2) : q2[i] = q2[j] => i = j
  BY <1>1, <1>2, <1>3 DEF LockOK
<1>5. \A i \in 1..Len(q2) : q2[i] # h
  BY <1>1, <1>2, <1>3 DEF LockOK
<1>6. \A r \in W \ {q[k]} : r = h \/ \E i \in 1..Len(q2) : q2[i] = r
  <2>1. SUFFICES ASSUME NEW r \in W \ {q[k]}, r # h
                 PROVE  \E i \in 1..Len(q2) : q2[i] = r
    BY Zenon
  <2>2. PICK i \in 1..Len(q) : q[i] = r
    BY <2>1 DEF LockOK
  <2>3. CASE i < k
    BY <1>1, <1>2, <1>3, <2>2, <2>3
  <2>4. CASE i > k
    <3>1. i - 1 \in 1..Len(q2) /\ q2[i - 1] = r
      BY <1>1, <1>2, <1>3, <2>2, <2>4
    <3> QED BY <3>1
  <2>5. i < k \/ i > k
    <3>1. i # k
      BY <2>1, <2>2
    <3> QED BY <1>1, <3>1
  <2> QED BY Zenon, <2>3, <2>4, <2>5
<1>7. h \in (W \ {q[k]}) \cup H \cup {NoOne} /\ h # NoOne
  BY <1>1 DEF LockOK
<1> QED BY ZenonT(60), <1>3, <1>4, <1>5, <1>6, <1>7 DEF LockOK

----------------------------------------------------------------------------
\* The invariant.

\* Before the first call of `peer` nobody waits for the mutex and no task runs.
LEMMA InitIInv == Init => IInv
<1> SUFFICES ASSUME Init PROVE IInv
  OBVIOUS
<1> USE PeerLinkAssumption
<1>1. TypeOK
  <2>1. INITIAL_BACKOFF \in INITIAL_BACKOFF..MAX_BACKOFF /\ <<>> \in Seq(Procs)
    OBVIOUS
  <2> QED BY Zenon, <2>1 DEF Init, TypeOK, ClientPc, TaskPc
<1>2. Waiting = {} /\ Holding = {}
  BY DEF Init, Waiting, Holding
<1>3. LockInv
  BY <1>2 DEF Init, LockInv, LockOK
<1>4. LinkInv
  BY DEF Init, LinkInv, OneReconnector, NoInheritedExchange, NoLostWakeup, Active
<1> QED BY <1>1, <1>3, <1>4 DEF IInv

\* What the four ways of touching the mutex do to its bookkeeping, in the terms
\* of PeerLink's actions.
LEMMA LockStep ==
    ASSUME IInv, NEW p \in Procs, p \notin Waiting \cup Holding, lock(p),
           Waiting' = Waiting \cup {p}, Holding' = Holding
    PROVE  LockInv'
<1>1. p # NoOne
  BY PeerLinkAssumption DEF Procs
<1>2. LockOK(holder', queue', Waiting \cup {p}, Holding)
  BY <1>1, LockTaken DEF IInv, LockInv, lock
<1> QED BY <1>2 DEF LockInv

\* unlock: the permit passes to the first waiter.
LEMMA UnlockStep ==
    ASSUME IInv, holder # NoOne, unlock,
           Waiting' = Waiting \ {holder}, Holding' = Holding \ {holder}
    PROVE  LockInv'
<1>1. LockOK(holder', queue', Waiting \ {holder}, Holding \ {holder})
  BY LockReleased DEF IInv, LockInv, unlock
<1> QED BY <1>1 DEF LockInv

\* acquire_locked, install: the owner of the permit enters.
LEMMA EnterStep ==
    ASSUME IInv, holder \in Waiting, UNCHANGED lockVars,
           Waiting' = Waiting \ {holder}, Holding' = Holding \cup {holder}
    PROVE  LockInv'
<1>1. LockOK(holder, queue, Waiting \ {holder}, Holding \cup {holder})
  BY LockEntered DEF IInv, LockInv
<1> QED BY <1>1 DEF LockInv, lockVars

\* cancel_lock: a waiter leaves the queue or hands on the permit.
LEMMA CancelStep ==
    ASSUME IInv, NEW p \in Waiting, cancel_lock(p),
           Waiting' = Waiting \ {p}, Holding' = Holding
    PROVE  LockInv'
<1>1. p \notin Holding /\ p # NoOne
  BY DEF IInv, LockInv, LockOK
<1>2. CASE holder = p
  <2>1. unlock /\ Holding' = Holding \ {holder}
    BY <1>1, <1>2 DEF cancel_lock
  <2> QED BY <1>1, <1>2, <2>1, UnlockStep
<1>3. CASE holder # p
  <2>1. PICK k \in 1..Len(queue) :
            /\ queue[k] = p
            /\ queue' = [j \in 1..(Len(queue) - 1) |-> IF j < k THEN queue[j] ELSE queue[j + 1]]
            /\ holder' = holder
    BY <1>3 DEF cancel_lock
  <2>2. LockOK(holder, queue', Waiting \ {queue[k]}, Holding)
    BY <2>1, LockAbandoned DEF IInv, LockInv
  <2> QED BY <2>1, <2>2 DEF LockInv
<1> QED BY <1>2, <1>3

\* A step that leaves the mutex and everyone's place at it alone.
LEMMA NoLockStep ==
    ASSUME IInv, UNCHANGED lockVars, Waiting' = Waiting, Holding' = Holding
    PROVE  LockInv'
BY DEF IInv, LockInv, lockVars

\* The mutex's variables keep their types, whichever way it is touched.
LEMMA LockType ==
    ASSUME TypeOK, NEW p \in Procs, lock(p) \/ unlock \/ cancel_lock(p) \/ UNCHANGED lockVars
    PROVE  holder' \in Procs \cup {NoOne} /\ queue' \in Seq(Procs)
<1>1. holder \in Procs \cup {NoOne} /\ queue \in Seq(Procs)
  BY DEF TypeOK
<1>2. CASE lock(p)
  BY <1>1, <1>2 DEF lock
<1>3. unlock => holder' \in Procs \cup {NoOne} /\ queue' \in Seq(Procs)
  BY <1>1 DEF unlock
<1>4. CASE cancel_lock(p)
  <2>1. CASE holder = p
    BY <1>3, <1>4, <2>1 DEF cancel_lock
  <2>2. CASE holder # p
    <3>1. PICK k \in 1..Len(queue) :
            /\ queue' = [j \in 1..(Len(queue) - 1) |-> IF j < k THEN queue[j] ELSE queue[j + 1]]
            /\ holder' = holder
      BY Zenon, <1>4, <2>2 DEF cancel_lock
    <3>2. \A j \in 1..(Len(queue) - 1) :
            (IF j < k THEN queue[j] ELSE queue[j + 1]) \in Procs
      BY <1>1
    <3>3. Len(queue) - 1 \in Nat
      BY <1>1
    <3> QED BY <1>1, <3>1, <3>2, <3>3
  <2> QED BY <2>1, <2>2
<1>5. CASE UNCHANGED lockVars
  BY <1>1, <1>5 DEF lockVars
<1> QED BY <1>2, <1>3, <1>4, <1>5

\* tokio::spawn gives a task identity its first state and backoff.
LEMMA SpawnType ==
    ASSUME TypeOK, spawn
    PROVE  /\ task' \in [Tasks -> TaskPc]
           /\ backoff' \in [Tasks -> INITIAL_BACKOFF..MAX_BACKOFF]
           /\ pending' \in [Tasks -> {"up", "down"}]
<1>1. INITIAL_BACKOFF \in INITIAL_BACKOFF..MAX_BACKOFF
  BY PeerLinkAssumption
<1> QED BY <1>1 DEF spawn, TypeOK, TaskPc

\* Every step keeps the types.
LEMMA TypeStep == TypeOK /\ [Next]_vars => TypeOK'
<1> SUFFICES ASSUME TypeOK, [Next]_vars PROVE TypeOK'
  OBVIOUS
<1> USE DEF linkVars, clientVars, taskVars
<1>1. ASSUME NEW c \in Clients, ClientCall(c) PROVE TypeOK'
  <2>1. c \in Procs
    BY DEF Procs
  <2>2. CASE peer(c)
    BY SMTT(30), <2>1, <2>2, LockType, SpawnType DEF peer, TypeOK, ClientPc
  <2>3. CASE acquire(c)
    BY <2>1, <2>3, LockType DEF acquire, TypeOK, ClientPc
  <2>4. CASE wait_connected(c)
    BY <2>1, <2>4, LockType DEF wait_connected, TypeOK, ClientPc
  <2>5. CASE cancel(c)
    BY <2>1, <2>5, LockType DEF cancel, TypeOK, ClientPc
  <2>6. CASE exchange_begin(c)
    BY <2>1, <2>6, LockType DEF exchange_begin, TypeOK, ClientPc
  <2> QED BY <1>1, <2>2, <2>3, <2>4, <2>5, <2>6 DEF ClientCall
<1>2. ASSUME NEW c \in Clients, FinishExchange(c) PROVE TypeOK'
  <2>1. c \in Procs
    BY DEF Procs
  <2>2. CASE exchange_end(c)
    BY Zenon, <2>1, <2>2, LockType DEF exchange_end, TypeOK
  <2>3. CASE commit(c)
    BY <2>1, <2>3, LockType DEF commit, TypeOK, ClientPc
  <2>4. CASE drop_guard(c)
    BY Zenon, <2>1, <2>4, LockType, SpawnType DEF drop_guard, TypeOK, ClientPc
  <2> QED BY <1>2, <2>2, <2>3, <2>4 DEF FinishExchange
<1>3. ASSUME NEW c \in Clients, ClientStep(c) \/ WaitClock(c) PROVE TypeOK'
  <2>1. c \in Procs
    BY DEF Procs
  <2>2. CASE acquire_locked(c)
    BY <2>1, <2>2, LockType DEF acquire_locked, TypeOK, ClientPc
  <2>3. CASE drop_unlock(c)
    BY <2>1, <2>3, LockType DEF drop_unlock, TypeOK, ClientPc
  <2>4. CASE wait_check(c)
    BY <2>1, <2>4, LockType DEF wait_check, TypeOK, ClientPc
  <2>5. CASE wait_woken(c)
    BY <2>1, <2>5, LockType DEF wait_woken, TypeOK, ClientPc
  <2>6. CASE deadline(c)
    BY <2>1, <2>6, LockType DEF deadline, TypeOK
  <2>7. CASE wait_timeout(c)
    BY <2>1, <2>7, LockType DEF wait_timeout, TypeOK, ClientPc
  <2> QED BY <1>3, <2>2, <2>3, <2>4, <2>5, <2>6, <2>7 DEF ClientStep, WaitClock
<1>4. ASSUME NEW t \in Tasks, TaskStep(t) PROVE TypeOK'
  <2>1. t \in Procs
    BY DEF Procs
  <2>2. CASE task_connect(t)
    BY <2>1, <2>2, LockType DEF task_connect, task_step, TypeOK, TaskPc
  <2>3. CASE connect_ok(t)
    BY <2>1, <2>3, LockType DEF connect_ok, task_step, TypeOK, TaskPc
  <2>8. CASE connector_connect(t)
    BY <2>1, <2>8, LockType DEF connector_connect, task_step, TypeOK, TaskPc
  <2>4. CASE connect_err(t)
    BY Zenon, <2>1, <2>4, LockType DEF connect_err, task_step, TypeOK, TaskPc
  <2>5. CASE backoff_elapsed(t)
    <3>1. (IF 2 * backoff[t] < MAX_BACKOFF THEN 2 * backoff[t] ELSE MAX_BACKOFF)
             \in INITIAL_BACKOFF..MAX_BACKOFF
      BY PeerLinkAssumption DEF TypeOK
    <3> QED BY <2>1, <2>5, <3>1, LockType DEF backoff_elapsed, task_step, TypeOK, TaskPc
  <2>6. CASE install(t)
    BY Zenon, <2>1, <2>6, LockType DEF install, task_step, TypeOK, TaskPc
  <2>7. CASE notify_waiters(t)
    BY <2>1, <2>7, LockType DEF notify_waiters, task_step, TypeOK, TaskPc
  <2> QED BY <1>4, <2>2, <2>3, <2>4, <2>5, <2>6, <2>7, <2>8 DEF TaskStep
<1>5. CASE peer_down \/ peer_back
  BY Zenon, <1>5 DEF peer_down, peer_back, lockVars, TypeOK
<1>6. CASE UNCHANGED vars
  BY <1>6 DEF vars, lockVars, TypeOK
<1> QED BY <1>1, <1>2, <1>3, <1>4, <1>5, <1>6 DEF Next

\* The mutex's bookkeeping follows the clients and the tasks.
LEMMA LockInvStep == IInv /\ [Next]_vars => LockInv'
<1> SUFFICES ASSUME IInv, [Next]_vars PROVE LockInv'
  OBVIOUS
<1> USE DEF linkVars, clientVars, taskVars
<1>a. /\ pc \in [Clients -> ClientPc] /\ task \in [Tasks -> TaskPc]
      /\ Clients \cap Tasks = {} /\ NoOne \notin Procs
      /\ Holding \subseteq {holder} /\ Waiting \cap Holding = {}
      /\ holder \in Waiting \cup Holding \cup {NoOne}
  BY PeerLinkAssumption DEF IInv, TypeOK, LockInv, LockOK, Procs
<1>b. ASSUME spawn, pc' \in [Clients -> ClientPc],
             {c \in Clients : pc'[c] \in {"acquire", "check"}}
                = {c \in Clients : pc[c] \in {"acquire", "check"}},
             {c \in Clients : pc'[c] \in {"guard", "dropped"}}
                = {c \in Clients : pc[c] \in {"guard", "dropped"}}
      PROVE  Waiting' = Waiting /\ Holding' = Holding
  <2>1. PICK t \in Tasks : task[t] = "none" /\ task' = [task EXCEPT ![t] = "spawned"]
    BY Zenon, <1>b DEF spawn
  <2>2. {u \in Tasks : task'[u] = "locking"} = {u \in Tasks : task[u] = "locking"}
    BY <1>a, <2>1
  <2>3. {u \in Tasks : task'[u] = "installed"} = {u \in Tasks : task[u] = "installed"}
    BY <1>a, <2>1
  <2> QED BY <1>b, <2>2, <2>3 DEF Waiting, Holding
<1>1. ASSUME NEW c \in Clients, ClientCall(c) PROVE LockInv'
  <2>1. CASE peer(c)
    <3>1. CASE state = "absent"
      BY <1>a, <1>b, <2>1, <3>1, NoLockStep DEF peer, ClientPc
    <3>2. CASE state # "absent"
      BY <1>a, <2>1, <3>2, NoLockStep DEF peer, Waiting, Holding
    <3> QED BY <3>1, <3>2
  <2>2. CASE acquire(c)
    BY <1>a, <2>2, LockStep DEF acquire, Waiting, Holding, Procs
  <2>3. CASE wait_connected(c)
    BY <1>a, <2>3, LockStep DEF wait_connected, Waiting, Holding, Procs
  <2>4. CASE cancel(c)
    <3>1. CASE pc[c] = "parked"
      BY <1>a, <2>4, <3>1, NoLockStep DEF cancel, Waiting, Holding
    <3>2. CASE pc[c] # "parked"
      BY <1>a, <2>4, <3>2, CancelStep DEF cancel, Waiting, Holding
    <3> QED BY <3>1, <3>2
  <2>5. CASE exchange_begin(c)
    BY <1>a, <2>5, NoLockStep DEF exchange_begin, Waiting, Holding
  <2> QED BY <1>1, <2>1, <2>2, <2>3, <2>4, <2>5 DEF ClientCall
<1>2. ASSUME NEW c \in Clients, FinishExchange(c) PROVE LockInv'
  <2>1. CASE exchange_end(c)
    BY <1>a, <2>1, NoLockStep DEF exchange_end, Waiting, Holding
  <2>2. CASE commit(c)
    <3>1. c = holder /\ holder # NoOne
      BY <1>a, <2>2 DEF commit, Holding, Procs
    <3>2. Waiting' = Waiting \ {holder} /\ Holding' = Holding \ {holder}
      BY <1>a, <2>2, <3>1 DEF commit, Waiting, Holding
    <3> QED BY <2>2, <3>1, <3>2, UnlockStep DEF commit
  <2>3. CASE drop_guard(c)
    BY <1>a, <1>b, <2>3, NoLockStep DEF drop_guard, ClientPc
  <2> QED BY <1>2, <2>1, <2>2, <2>3 DEF FinishExchange
<1>3. ASSUME NEW c \in Clients, ClientStep(c) PROVE LockInv'
  <2>1. CASE acquire_locked(c)
    <3>1. c = holder /\ holder # NoOne /\ holder \in Waiting
      BY <1>a, <2>1 DEF acquire_locked, Waiting, Procs
    <3>2. CASE state = "Connected"
      BY <1>a, <2>1, <3>1, <3>2, EnterStep DEF acquire_locked, Waiting, Holding
    <3>3. CASE state # "Connected"
      <4>1. Waiting' = Waiting \ {holder} /\ Holding' = Holding \ {holder}
        BY <1>a, <2>1, <3>1, <3>3 DEF acquire_locked, Waiting, Holding
      <4> QED BY <2>1, <3>1, <3>3, <4>1, UnlockStep DEF acquire_locked
    <3> QED BY <3>2, <3>3
  <2>2. CASE drop_unlock(c)
    <3>1. c = holder /\ holder # NoOne
      BY <1>a, <2>2 DEF drop_unlock, Holding, Procs
    <3>2. Waiting' = Waiting \ {holder} /\ Holding' = Holding \ {holder}
      BY <1>a, <2>2, <3>1 DEF drop_unlock, Waiting, Holding
    <3> QED BY <2>2, <3>1, <3>2, UnlockStep DEF drop_unlock
  <2>3. CASE wait_check(c)
    <3>1. c = holder /\ holder # NoOne /\ holder \in Waiting
      BY <1>a, <2>3 DEF wait_check, Waiting, Procs
    <3>2. Waiting' = Waiting \ {holder} /\ Holding' = Holding \ {holder}
      BY <1>a, <2>3, <3>1 DEF wait_check, Waiting, Holding
    <3> QED BY <2>3, <3>1, <3>2, UnlockStep DEF wait_check
  <2>4. CASE wait_woken(c)
    BY <1>a, <2>4, LockStep DEF wait_woken, Waiting, Holding, Procs
  <2> QED BY <1>3, <2>1, <2>2, <2>3, <2>4 DEF ClientStep
<1>4. ASSUME NEW c \in Clients, WaitClock(c) PROVE LockInv'
  <2>1. CASE deadline(c)
    BY <1>a, <2>1, NoLockStep DEF deadline, Waiting, Holding
  <2>2. CASE wait_timeout(c)
    BY <1>a, <2>2, NoLockStep DEF wait_timeout, Waiting, Holding
  <2> QED BY <1>4, <2>1, <2>2 DEF WaitClock
<1>5. ASSUME NEW t \in Tasks, TaskStep(t) PROVE LockInv'
  <2>1. CASE task_connect(t) \/ connector_connect(t) \/ connect_err(t) \/ backoff_elapsed(t)
    BY <1>a, <2>1, NoLockStep
       DEF task_connect, connector_connect, connect_err, backoff_elapsed, task_step, Waiting, Holding
  <2>2. CASE connect_ok(t)
    BY <1>a, <2>2, LockStep DEF connect_ok, task_step, Waiting, Holding, Procs
  <2>3. CASE install(t)
    BY <1>a, <2>3, EnterStep DEF install, task_step, Waiting, Holding
  <2>4. CASE notify_waiters(t)
    <3>1. t = holder /\ holder # NoOne
      BY <1>a, <2>4 DEF notify_waiters, task_step, Holding, Procs
    <3>2. Waiting' = Waiting \ {holder} /\ Holding' = Holding \ {holder}
      BY <1>a, <2>4, <3>1 DEF notify_waiters, task_step, Waiting, Holding
    <3> QED BY <2>4, <3>1, <3>2, UnlockStep DEF notify_waiters
  <2> QED BY <1>5, <2>1, <2>2, <2>3, <2>4 DEF TaskStep
<1>6. CASE peer_down \/ peer_back
  BY <1>6, NoLockStep DEF peer_down, peer_back, Waiting, Holding
<1>7. CASE UNCHANGED vars
  BY <1>7, NoLockStep DEF vars, Waiting, Holding
<1> QED BY <1>1, <1>2, <1>3, <1>4, <1>5, <1>6, <1>7 DEF Next

\* Spawning on a link that has no active task leaves exactly one.
LEMMA SpawnOne ==
    ASSUME TypeOK, spawn, \A t \in Tasks : ~Active(t)
    PROVE  /\ \E t \in Tasks : Active(t)'
           /\ \A t, u \in Tasks : Active(t)' /\ Active(u)' => t = u
           /\ \A t \in Tasks : task'[t] = "installed" <=> task[t] = "installed"
<1>1. PICK t \in Tasks : task[t] = "none" /\ task' = [task EXCEPT ![t] = "spawned"]
  BY Zenon DEF spawn
<1> QED BY <1>1 DEF TypeOK, Active

\* The link's state follows the tasks that work on it and the clients that use it.
LEMMA LinkInvStep == IInv /\ [Next]_vars => LinkInv'
<1> SUFFICES ASSUME IInv, [Next]_vars PROVE LinkInv'
  OBVIOUS
<1> USE DEF linkVars, clientVars, taskVars
<1>a. /\ pc \in [Clients -> ClientPc] /\ task \in [Tasks -> TaskPc]
      /\ Clients \cap Tasks = {}
      /\ notified \in [Clients -> BOOLEAN]
      /\ state \in {"absent", "Reconnecting", "Connected"} /\ TypeOK
  BY PeerLinkAssumption DEF IInv, TypeOK
<1>b. /\ \A c \in Clients : pc[c] \in {"guard", "dropped"} => c = holder
      /\ \A t \in Tasks : task[t] = "installed" => t = holder
  BY DEF IInv, LockInv, LockOK, Holding
<1>c. LinkInv
  BY DEF IInv
<1> USE DEF LinkInv, OneReconnector, NoInheritedExchange, NoLostWakeup, Active
<1>1. ASSUME NEW c \in Clients, ClientCall(c) PROVE LinkInv'
  <2>1. CASE peer(c)
    <3>1. CASE state = "absent"
      BY <1>a, <1>c, <2>1, <3>1, SpawnOne DEF peer
    <3>2. CASE state # "absent"
      BY <1>a, <1>c, <2>1, <3>2 DEF peer
    <3> QED BY <3>1, <3>2
  <2>2. CASE acquire(c) \/ wait_connected(c) \/ cancel(c)
    BY <1>a, <1>c, <2>2 DEF acquire, wait_connected, cancel
  <2>3. CASE exchange_begin(c)
    BY <1>a, <1>c, <2>3 DEF exchange_begin
  <2> QED BY <1>1, <2>1, <2>2, <2>3 DEF ClientCall
<1>2. ASSUME NEW c \in Clients, FinishExchange(c) PROVE LinkInv'
  <2>1. CASE exchange_end(c)
    BY <1>a, <1>c, <2>1 DEF exchange_end
  <2>2. CASE commit(c)
    BY <1>a, <1>c, <2>2 DEF commit
  <2>3. CASE drop_guard(c)
    <3>1. state = "Connected" /\ \A t \in Tasks : ~Active(t) /\ task[t] # "installed"
      BY <1>a, <1>b, <1>c, <2>3 DEF drop_guard
    <3>2. \A d \in Clients : pc'[d] # "guard"
      BY <1>a, <1>b, <2>3 DEF drop_guard
    <3> QED BY <1>a, <1>c, <2>3, <3>1, <3>2, SpawnOne DEF drop_guard
  <2> QED BY <1>2, <2>1, <2>2, <2>3 DEF FinishExchange
<1>3. ASSUME NEW c \in Clients, ClientStep(c) PROVE LinkInv'
  <2>1. CASE acquire_locked(c)
    BY <1>a, <1>c, <2>1 DEF acquire_locked
  <2>2. CASE drop_unlock(c)
    BY <1>a, <1>c, <2>2 DEF drop_unlock
  <2>3. CASE wait_check(c)
    BY <1>a, <1>c, <2>3 DEF wait_check
  <2>4. CASE wait_woken(c)
    BY <1>a, <1>c, <2>4 DEF wait_woken
  <2> QED BY <1>3, <2>1, <2>2, <2>3, <2>4 DEF ClientStep
<1>4. ASSUME NEW c \in Clients, WaitClock(c) PROVE LinkInv'
  BY <1>a, <1>c, <1>4 DEF WaitClock, deadline, wait_timeout
<1>5. ASSUME NEW t \in Tasks, TaskStep(t) PROVE LinkInv'
  <2>1. CASE task_connect(t)
    BY <1>a, <1>c, <2>1 DEF task_connect, task_step
  <2>2. CASE connect_ok(t)
    BY <1>a, <1>c, <2>2 DEF connect_ok, task_step
  <2>7. CASE connector_connect(t)
    BY <1>a, <1>c, <2>7 DEF connector_connect, task_step
  <2>3. CASE connect_err(t)
    BY <1>a, <1>c, <2>3 DEF connect_err, task_step
  <2>4. CASE backoff_elapsed(t)
    BY <1>a, <1>c, <2>4 DEF backoff_elapsed, task_step
  <2>5. CASE install(t)
    BY <1>a, <1>b, <1>c, <2>5 DEF install, task_step
  <2>6. CASE notify_waiters(t)
    BY Zenon, <1>a, <1>b, <1>c, <2>6 DEF notify_waiters, task_step
  <2> QED BY Zenon, <1>5, <2>1, <2>2, <2>3, <2>4, <2>5, <2>6, <2>7 DEF TaskStep
<1>6. CASE peer_down \/ peer_back
  BY <1>c, <1>6 DEF peer_down, peer_back
<1>7. CASE UNCHANGED vars
  BY <1>c, <1>7 DEF vars
<1> QED BY <1>1, <1>2, <1>3, <1>4, <1>5, <1>6, <1>7 DEF Next

----------------------------------------------------------------------------
\* The invariant is inductive.
THEOREM Invariance == Spec => []IInv
<1>1. IInv /\ [Next]_vars => IInv'
  BY TypeStep, LockInvStep, LinkInvStep DEF IInv
<1> QED BY InitIInv, <1>1, PTL DEF Spec

\* Every variable of the link keeps its type, and a reconnect task never sleeps
\* for less than the first or more than the longest backoff.
THEOREM TypeCorrect == Spec => []TypeOK
<1>1. IInv => TypeOK
  BY DEF IInv
<1> QED BY <1>1, Invariance, PTL

\* A Reconnecting link has exactly one reconnect task, a Connected link none.
THEOREM ExactlyOneReconnector == Spec => []OneReconnector
<1>1. IInv => OneReconnector
  BY DEF IInv, LinkInv
<1> QED BY <1>1, Invariance, PTL

\* Guard::transport never reaches its unreachable!(), and guards exclude each
\* other.
THEOREM GuardsAreSafe == Spec => []GuardMeansConnected
<1>1. IInv => GuardMeansConnected
  BY DEF IInv, LinkInv, GuardMeansConnected, LockInv, LockOK, Holding
<1> QED BY <1>1, Invariance, PTL

\* No client is handed a channel that another left in the middle of an exchange.
THEOREM ChannelsAreClean == Spec => []NoInheritedExchange
<1>1. IInv => NoInheritedExchange
  BY DEF IInv, LinkInv
<1> QED BY <1>1, Invariance, PTL

\* wait_connected never sleeps through a connection.
THEOREM WakeupsAreKept == Spec => []NoLostWakeup
<1>1. IInv => NoLostWakeup
  BY DEF IInv, LinkInv
<1> QED BY <1>1, Invariance, PTL

----------------------------------------------------------------------------
\* PeerLink implements LeasedChannel.

OwnerOK ==
    /\ guard_owner \in Clients \cup {NoOne} /\ NoOne \notin Clients
    /\ \A c \in Clients : pc[c] = "guard" <=> guard_owner = c
    /\ guard_owner # NoOne => state = "Connected"

\* guard_owner is the client that has a Guard.
LEMMA OwnerHasGuard == IInv => OwnerOK
<1> SUFFICES ASSUME IInv PROVE OwnerOK
  OBVIOUS
<1>1. NoOne \notin Clients
  BY PeerLinkAssumption
<1>2. \A c \in Clients : pc[c] = "guard" => c = holder /\ state = "Connected"
  BY DEF IInv, LinkInv, LockInv, LockOK, Holding
<1> QED BY <1>1, <1>2 DEF guard_owner, OwnerOK

\* A step that changes neither the guards nor the state nor `dirty` is invisible.
LEMMA InvisibleStep ==
    ASSUME OwnerOK, OwnerOK', UNCHANGED <<state, dirty>>,
           \A c \in Clients : pc'[c] = "guard" <=> pc[c] = "guard"
    PROVE  UNCHANGED Lease!vars
<1>1. guard_owner' = guard_owner
  BY DEF OwnerOK
<1> QED BY <1>1 DEF Lease!vars

\* Every step of the link is a step of the leased channel or invisible to it.
LEMMA LeaseStep == IInv /\ IInv' /\ [Next]_vars => [Lease!Next]_Lease!vars
<1> SUFFICES ASSUME IInv, IInv', [Next]_vars PROVE [Lease!Next]_Lease!vars
  OBVIOUS
<1>a. OwnerOK /\ OwnerOK' /\ pc \in [Clients -> ClientPc]
  BY OwnerHasGuard, PTL DEF IInv, TypeOK
<1>b. LinkInv
  BY DEF IInv
<1> USE DEF linkVars, clientVars, taskVars
<1>1. ASSUME NEW c \in Clients, ClientCall(c) PROVE [Lease!Next]_Lease!vars
  <2>1. CASE peer(c) /\ state = "absent"
    <3>1. \A d \in Clients : pc[d] # "guard" /\ pc'[d] # "guard"
      BY <1>a, <1>b, <2>1 DEF peer, LinkInv
    <3> QED BY <1>a, <2>1, <3>1 DEF peer, OwnerOK, Lease!vars
  <2>2. CASE peer(c) /\ state # "absent"
    BY <1>a, <2>2, InvisibleStep DEF peer
  <2>3. CASE acquire(c) \/ wait_connected(c) \/ cancel(c)
    BY <1>a, <2>3, InvisibleStep DEF acquire, wait_connected, cancel
  <2>4. CASE exchange_begin(c)
    <3>1. guard_owner = c /\ guard_owner' = c /\ dirty' = ~dirty /\ state' = state
      BY Zenon, <1>a, <2>4 DEF exchange_begin, OwnerOK
    <3>2. Lease!Exchange(c)
      BY <3>1 DEF Lease!Exchange
    <3> QED BY <3>2 DEF Lease!Next
  <2> QED BY <1>1, <2>1, <2>2, <2>3, <2>4 DEF ClientCall
<1>2. ASSUME NEW c \in Clients, FinishExchange(c) PROVE [Lease!Next]_Lease!vars
  <2>0. guard_owner = c /\ c # NoOne /\ state = "Connected"
    BY <1>a, <1>2 DEF FinishExchange, exchange_end, commit, drop_guard, OwnerOK
  <2>1. CASE exchange_end(c)
    <3>1. guard_owner' = c /\ dirty' = ~dirty /\ state' = state
      BY Zenon, <1>a, <2>1 DEF exchange_end, OwnerOK
    <3>2. Lease!Exchange(c)
      BY <2>0, <3>1 DEF Lease!Exchange
    <3> QED BY <3>2 DEF Lease!Next
  <2>2. CASE commit(c)
    <3>1. guard_owner' = NoOne /\ dirty' = dirty /\ ~dirty /\ state' = state
      BY <1>a, <2>0, <2>2 DEF commit, OwnerOK
    <3>2. Lease!Commit(c)
      BY <2>0, <3>1 DEF Lease!Commit
    <3> QED BY <3>2 DEF Lease!Next
  <2>3. CASE drop_guard(c)
    <3>1. guard_owner' = NoOne /\ dirty' = FALSE /\ state' = "Reconnecting"
      BY <1>a, <2>0, <2>3 DEF drop_guard, OwnerOK
    <3>2. Lease!Discard(c)
      BY <2>0, <3>1 DEF Lease!Discard
    <3> QED BY <3>2 DEF Lease!Next
  <2> QED BY <1>2, <2>1, <2>2, <2>3 DEF FinishExchange
<1>3. ASSUME NEW c \in Clients, ClientStep(c) PROVE [Lease!Next]_Lease!vars
  <2>1. CASE acquire_locked(c) /\ state = "Connected"
    <3>1. c = holder /\ pc[c] # "guard" /\ c # NoOne
      BY <1>a, <2>1 DEF acquire_locked, OwnerOK
    <3>2. guard_owner = NoOne /\ guard_owner' = c /\ UNCHANGED <<state, dirty>>
      BY <1>a, <2>1, <3>1 DEF acquire_locked, OwnerOK, guard_owner
    <3>3. Lease!Lease(c)
      BY <2>1, <3>1, <3>2 DEF Lease!Lease
    <3> QED BY <3>3 DEF Lease!Next
  <2>2. CASE acquire_locked(c) /\ state # "Connected"
    BY <1>a, <2>2, InvisibleStep DEF acquire_locked
  <2>3. CASE drop_unlock(c) \/ wait_check(c) \/ wait_woken(c)
    BY <1>a, <2>3, InvisibleStep DEF drop_unlock, wait_check, wait_woken
  <2> QED BY <1>3, <2>1, <2>2, <2>3 DEF ClientStep
<1>4. ASSUME NEW c \in Clients, WaitClock(c) PROVE [Lease!Next]_Lease!vars
  BY <1>a, <1>4, InvisibleStep DEF WaitClock, deadline, wait_timeout
<1>5. ASSUME NEW t \in Tasks, TaskStep(t) PROVE [Lease!Next]_Lease!vars
  <2>1. CASE install(t)
    <3>1. Active(t)
      BY <2>1 DEF install, task_step, Active
    <3>2. state = "Reconnecting"
      BY <1>b, <3>1 DEF LinkInv, OneReconnector
    <3>3. guard_owner = NoOne /\ guard_owner' = NoOne /\ ~dirty /\ ~dirty'
      BY <1>a, <1>b, <2>1, <3>2 DEF install, OwnerOK, LinkInv, NoInheritedExchange
    <3>4. dirty = FALSE /\ dirty' = FALSE
      BY <2>1, <3>3 DEF install, IInv, TypeOK
    <3>5. Lease!Establish
      BY Zenon, <2>1, <3>2, <3>3, <3>4 DEF install, Lease!Establish
    <3> QED BY <3>5 DEF Lease!Next
  <2>2. CASE task_connect(t) \/ connector_connect(t) \/ connect_ok(t) \/ connect_err(t)
                \/ backoff_elapsed(t) \/ notify_waiters(t)
    BY <1>a, <2>2, InvisibleStep
       DEF task_connect, connector_connect, connect_ok, connect_err, backoff_elapsed, notify_waiters
  <2> QED BY <1>5, <2>1, <2>2 DEF TaskStep
<1>6. CASE peer_down \/ peer_back
  BY <1>a, <1>6, InvisibleStep DEF peer_down, peer_back
<1>7. CASE UNCHANGED vars
  BY <1>a, <1>7, InvisibleStep DEF vars
<1> QED BY <1>1, <1>2, <1>3, <1>4, <1>5, <1>6, <1>7 DEF Next

\* The permit of the link's mutex is never lost and nobody who waits for it is
\* forgotten, whatever futures of acquire and wait_connected are dropped.
THEOREM PermitIsKept == Spec => []NobodyForgotten
<1>1. IInv => NobodyForgotten
  <2> SUFFICES ASSUME LockOK(holder, queue, Waiting, Holding) PROVE NobodyForgotten
    BY DEF IInv, LockInv
  <2>1. \A i \in 1..Len(queue) : queue[i] \in Waiting \ {holder}
    BY DEF LockOK
  <2>2. \A p \in Waiting \ {holder} : \E i \in 1..Len(queue) : queue[i] = p
    BY Zenon DEF LockOK
  <2>3. Waiting \ {holder} = {queue[i] : i \in 1..Len(queue)}
    BY Zenon, <2>1, <2>2
  <2> QED BY Zenon, <2>3 DEF NobodyForgotten, LockOK
<1> QED BY <1>1, Invariance, PTL

\* Every behaviour of the link is, seen through guard_owner, a behaviour of the
\* leased channel that the pool's documentation describes.
THEOREM Refinement == Spec => ImplementsLease
<1>1. Init => Lease!Init
  BY DEF Init, Lease!Init, guard_owner
<1> QED BY <1>1, LeaseStep, Invariance, PTL DEF Spec, ImplementsLease, Lease!Spec
=============================================================================
