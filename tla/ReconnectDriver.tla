-------------------------- MODULE ReconnectDriver --------------------------
(***************************************************************************)
(* The router binary's connection driver (crates/dlep-router/src/lib.rs    *)
(* and connect.rs), composed with the daemon's connection registry.        *)
(*                                                                         *)
(* One task runs run_event_loop.  Each turn reads the registry's snapshot  *)
(* if it changed, starts the static peers there is room for, and waits in  *)
(* a select for the first of its branches.  The connection attempts are    *)
(* futures of this task: they advance only while it waits, and registering *)
(* a new session and completing its attempt are one step of it.  Session   *)
(* tasks and the registry's reaper run beside it, on other threads.        *)
(*                                                                         *)
(* Deadlines are not numbers: an entry of the retry queue is waiting until *)
(* its deadline passes and then overdue, in the order of the deadlines.    *)
(***************************************************************************)
EXTENDS ConnectionRegistry, Sequences, SequencesExt

CONSTANTS
  StaticMode,            \* DiscoveryMode::Static, with Pinned as static_peers
  Offers,                \* the endpoints of the offers that may come in
  MAX_CONNECT_ATTEMPTS,
  max_sessions,
  MaxTries               \* bound: beyond it the backoff is RECONNECT_MAX

ASSUME DriverConstants ==
  /\ StaticMode \in BOOLEAN
  /\ Offers \subseteq Seq(Peer) /\ <<>> \notin Offers
  /\ MAX_CONNECT_ATTEMPTS \in Nat \ {0}
  /\ max_sessions \in Nat \ {0}
  /\ MaxTries \in Nat

VARIABLES
  closing,     \* trackers whose session has reported SessionDown
  ending,      \* those its task has then dropped, while it still has its slot
  unread,      \* whether the driver has events of sessions to read
  changed,     \* whether the snapshot changed since the driver last read it
  pc,          \* where the driver is in its loop
  refresh,
  establishments,
  connected,
  reconnect,   \* the retry queue
  attempts,    \* ConnectAttempts
  startup,     \* static peers not tried yet
  armed,       \* whether the retry branch of this select has a deadline
  awaiting     \* whether its capacity branch is enabled

loopVars == <<refresh, establishments, connected, reconnect, attempts, startup,
              armed, awaiting>>
taskVars == <<closing, ending, unread>>
driverVars == <<registryVars, taskVars, changed, pc, loopVars>>

pinned == IF StaticMode THEN Pinned ELSE {}

DriverInit ==
  /\ RegistryInit
  /\ closing = {} /\ ending = {}
  /\ unread = FALSE
  /\ changed = FALSE
  /\ pc = "top"
  /\ refresh = TRUE
  /\ establishments = [p \in {} |-> 0]
  /\ connected = {}
  /\ reconnect = [tries |-> [p \in {} |-> 0], waiting |-> {}, overdue |-> <<>>]
  /\ attempts = {}
  /\ startup = SetToSeq(pinned)
  /\ armed = FALSE
  /\ awaiting = FALSE

-----------------------------------------------------------------------------
(* ReconnectQueue.  Each operation is given a set of peers.                 *)

Queued(q) == DOMAIN q.tries
Runnable(q) == q.waiting \cup ToSet(q.overdue)

\* Mutant: the count goes too.
suspend_Forgets(q, peers) ==
  [tries |-> Restrict(q.tries, Queued(q) \ peers), waiting |-> q.waiting \ peers,
   overdue |-> SelectSeq(q.overdue, LAMBDA p : p \notin peers)]

suspend(q, peers) ==
  [q EXCEPT !.waiting = @ \ peers,
            !.overdue = SelectSeq(@, LAMBDA p : p \notin peers)]

forget(q, peers) ==
  [suspend(q, peers) EXCEPT !.tries = Restrict(@, DOMAIN @ \ peers)]

schedule(q, peers) ==
  [q EXCEPT !.tries = [p \in DOMAIN @ \cup peers |-> IF p \in DOMAIN @ THEN @[p] ELSE 0],
            !.waiting = @ \cup (peers \ Runnable(q))]

\* The oldest due peers.
TakenOf(q, limit) == SubSeq(q.overdue, 1, IF Len(q.overdue) < limit
                                          THEN Len(q.overdue) ELSE limit)

\* take_due_limited; the driver suspends each peer it was given.
take_due_limited(q, taken) ==
  [suspend(q, taken) EXCEPT
     !.tries = [p \in DOMAIN @ |->
                  IF p \in taken /\ @[p] < MaxTries THEN @[p] + 1 ELSE @[p]]]

-----------------------------------------------------------------------------
(* ConnectAttempts, and the slots of the daemon.                            *)

Reserved(running) == UNION {a.endpoints : a \in running}

Room(running) == MAX_CONNECT_ATTEMPTS - Cardinality(running)

start_static(peer) ==
  [endpoints |-> {peer}, todo |-> <<peer>>, retry_peer |-> peer, slot |-> FALSE]

start_offer(endpoints) ==
  [endpoints |-> ToSet(endpoints), todo |-> endpoints, retry_peer |-> NoPeer, slot |-> FALSE]

connection_capacity ==
  max_sessions - Cardinality({a \in attempts : a.slot})
    - Cardinality({t \in Tracker : trackers[t] # NoPeer}) - Cardinality(ending)

retain_retries(running, kept) ==
  {a \in running : a.retry_peer = NoPeer \/ a.retry_peer \in kept}

-----------------------------------------------------------------------------
(* The top of the loop.                                                     *)

prune_reconnect_state(q) ==
  forget(q, Queued(q) \ (DOMAIN published \cup pinned))

Seen(peer) == IF peer \in DOMAIN establishments THEN establishments[peer] ELSE 0

Established == {p \in DOMAIN published : published[p].establishment_count # Seen(p)}

Active == {p \in DOMAIN published : published[p].active_sessions > 0}

reconcile_connections(q) ==
  schedule(suspend(forget(q, Established), Active), DOMAIN published \ Active)

\* How many static peers are taken off startup to fill the given room.
Popped(room, startable) ==
  Min({n \in 0..Len(startup) : Cardinality({i \in startable : i <= n}) = room}
        \cup {Len(startup)})

Top ==
  LET look == refresh \/ changed
      left == IF look THEN retain_retries(attempts, DOMAIN published \cup pinned) ELSE attempts
      reconciled == IF look THEN reconcile_connections(prune_reconnect_state(reconnect))
                    ELSE reconnect
      queue == suspend(reconciled, Reserved(left))
      up == IF look THEN Active ELSE connected
      capacity == connection_capacity + Cardinality({a \in attempts \ left : a.slot})
      startable == {i \in DOMAIN startup : startup[i] \notin up \cup Queued(queue) \cup Reserved(left)}
      n == Popped(Min({Room(left), capacity}), startable)
      running == left \cup {start_static(startup[i]) : i \in {j \in startable : j <= n}}
  IN  /\ pc = "top"
      /\ pc' = "enter"
      /\ refresh' = FALSE
      /\ changed' = IF look THEN FALSE ELSE changed
      /\ establishments' = IF look THEN [p \in DOMAIN published |-> published[p].establishment_count]
                           ELSE establishments
      /\ connected' = up
      /\ reconnect' = queue
      /\ attempts' = running
      /\ startup' = SubSeq(startup, n + 1, Len(startup))
      /\ armed' = (Room(running) > 0 /\ capacity > 0)
      /\ UNCHANGED <<registryVars, taskVars, awaiting>>

\* The condition on the capacity branch is evaluated on the way into select.
EnterSelect ==
  /\ pc = "enter"
  /\ pc' = "select"
  /\ awaiting' = (connection_capacity = 0)
  /\ UNCHANGED <<registryVars, taskVars, changed, refresh, establishments, connected,
                 reconnect, attempts, startup, armed>>

-----------------------------------------------------------------------------
(* The branches of select.                                                  *)

CapacityFreed ==
  /\ pc = "select" /\ awaiting /\ connection_capacity > 0
  /\ pc' = "top"
  /\ UNCHANGED <<registryVars, taskVars, changed, loopVars>>

StatesChanged ==
  /\ pc = "select" /\ changed
  /\ pc' = "top" /\ changed' = FALSE /\ refresh' = TRUE
  /\ UNCHANGED <<registryVars, taskVars, establishments, connected, reconnect, attempts,
                 startup, armed, awaiting>>

Advance(a, to) == attempts' = (attempts \ {a}) \cup {to}

\* An attempt is polled for the first time and gets a slot.
Begin(a) ==
  /\ pc = "select"
  /\ ~a.slot /\ connection_capacity > 0
  /\ Advance(a, [a EXCEPT !.slot = TRUE])
  /\ UNCHANGED <<registryVars, taskVars, changed, pc, refresh, establishments, connected,
                 reconnect, startup, armed, awaiting>>

\* Mutant: a failed retry is not queued again.
Failed_Unqueued(a) == reconnect

Failed(a) ==
  IF a.retry_peer = NoPeer THEN reconnect ELSE schedule(reconnect, {a.retry_peer})

\* Its endpoint cannot be connected to; it goes on to its next one, or completes.
NextEndpoint(a) ==
  \/ /\ a.slot /\ Len(a.todo) > 1
     /\ Advance(a, [a EXCEPT !.todo = Tail(@)])
     /\ UNCHANGED <<pc, reconnect>>
  \/ /\ ~a.slot \/ Len(a.todo) = 1
     /\ attempts' = attempts \ {a}
     /\ reconnect' = Failed(a)
     /\ pc' = "top"

\* There is no slot for it, or the connection fails, or the history is full.
Fail(a) ==
  /\ pc = "select"
  /\ \/ /\ a.slot \/ connection_capacity = 0
        /\ UNCHANGED <<registryVars, changed>>
     \/ /\ a.slot
        /\ RegisterRefused(Head(a.todo))
        /\ changed' = TRUE
  /\ NextEndpoint(a)
  /\ UNCHANGED <<taskVars, refresh, establishments, connected, startup, armed, awaiting>>

\* Mutant: the driver does not look at the snapshot again.
Succeed_NoRefresh(a) ==
  /\ pc = "select"
  /\ a.slot
  /\ \E t \in Tracker \ ending : register(Head(a.todo), t)
  /\ attempts' = attempts \ {a}
  /\ pc' = "top"
  /\ UNCHANGED <<taskVars, changed, refresh, establishments, connected, reconnect,
                 startup, armed, awaiting>>

Succeed(a) ==
  /\ pc = "select"
  /\ a.slot
  /\ \E t \in Tracker \ ending : register(Head(a.todo), t)
  /\ attempts' = attempts \ {a}
  /\ refresh' = TRUE /\ changed' = TRUE
  /\ pc' = "top"
  /\ UNCHANGED <<taskVars, establishments, connected, reconnect, startup, armed, awaiting>>

RetryTick ==
  LET taken == ToSet(TakenOf(reconnect, Min({Room(attempts), connection_capacity})))
      free == taken \ (connected \cup Reserved(attempts))
  IN  /\ pc = "select"
      /\ armed /\ reconnect.overdue # <<>>
      /\ reconnect' = take_due_limited(reconnect, taken)
      /\ attempts' = attempts \cup {start_static(p) : p \in free}
      /\ pc' = "top"
      /\ UNCHANGED <<registryVars, taskVars, changed, refresh, establishments, connected,
                     startup, armed, awaiting>>

\* The retry queue owns the endpoints in it.
Eligible(endpoints) == SelectSeq(endpoints, LAMBDA p : p \notin Queued(reconnect))

PeerDiscovered(endpoints) ==
  LET eligible == Eligible(endpoints)
      wanted == /\ connection_capacity > 0
                /\ ToSet(endpoints) \cap (connected \cup Reserved(attempts)) = {}
                /\ eligible # <<>> /\ Room(attempts) > 0
  IN  /\ pc = "select" /\ ~StaticMode
      /\ attempts' = IF wanted THEN attempts \cup {start_offer(eligible)} ELSE attempts
      /\ pc' = "top"
      /\ UNCHANGED <<registryVars, taskVars, changed, refresh, establishments, connected,
                     reconnect, startup, armed, awaiting>>

\* SessionUp and SessionDown are only logged, but they wake the loop.
SessionEvent ==
  /\ pc = "select" /\ unread
  /\ unread' = FALSE
  /\ pc' = "top"
  /\ UNCHANGED <<registryVars, closing, ending, changed, loopVars>>

-----------------------------------------------------------------------------
(* Time, and the tasks beside the driver.                                   *)

DeadlinePasses(p) ==
  /\ p \in reconnect.waiting
  /\ reconnect' = [reconnect EXCEPT !.waiting = @ \ {p}, !.overdue = Append(@, p)]
  /\ UNCHANGED <<registryVars, taskVars, changed, pc, refresh, establishments, connected,
                 attempts, startup, armed, awaiting>>

Initialized(t) ==
  /\ established(t) /\ t \notin closing
  /\ changed' = TRUE /\ unread' = TRUE
  /\ UNCHANGED <<closing, ending, pc, loopVars>>

\* The end of a session, in three steps of its task: SessionDown is sent, the
\* session future is dropped and its tracker with it, and then the slot.
SessionDown(t) ==
  /\ trackers[t] # NoPeer /\ t \notin closing
  /\ closing' = closing \cup {t}
  /\ unread' = TRUE
  /\ UNCHANGED <<registryVars, ending, changed, pc, loopVars>>

SessionDropped(t) ==
  /\ t \in closing
  /\ DropTracker(t)
  /\ changed' = TRUE
  /\ closing' = closing \ {t} /\ ending' = ending \cup {t}
  /\ UNCHANGED <<unread, pc, loopVars>>

SlotFreed(t) ==
  /\ t \in ending
  /\ ending' = ending \ {t}
  /\ UNCHANGED <<registryVars, closing, unread, changed, pc, loopVars>>

Reap ==
  /\ prune
  /\ changed' = TRUE
  /\ UNCHANGED <<taskVars, pc, loopVars>>

Time == Tick /\ UNCHANGED <<taskVars, changed, pc, loopVars>>

DriverNext ==
  \/ Top \/ EnterSelect
  \/ CapacityFreed \/ StatesChanged \/ RetryTick \/ SessionEvent
  \/ \E a \in attempts : Begin(a) \/ Fail(a) \/ Succeed(a)
  \/ \E endpoints \in Offers : PeerDiscovered(endpoints)
  \/ \E p \in Peer : DeadlinePasses(p)
  \/ \E t \in Tracker : Initialized(t) \/ SessionDown(t) \/ SessionDropped(t) \/ SlotFreed(t)
  \/ Reap \/ Time

DriverSpec == DriverInit /\ [][DriverNext]_driverVars

AttemptStep(p) == \E a \in attempts : p \in a.endpoints /\ (Begin(a) \/ Fail(a) \/ Succeed(a))

\* The driver's task runs; select picks among its ready branches at random, so
\* none of them is passed over for ever; connection attempts end; and a task
\* whose session is down finishes.  Nothing says that a session ends.
DriverFairSpec ==
  /\ DriverSpec
  /\ WF_driverVars(Top) /\ WF_driverVars(EnterSelect)
  /\ SF_driverVars(CapacityFreed) /\ SF_driverVars(StatesChanged)
  /\ SF_driverVars(RetryTick) /\ SF_driverVars(SessionEvent)
  /\ \A p \in Peer : SF_driverVars(AttemptStep(p)) /\ WF_driverVars(DeadlinePasses(p))
  /\ \A t \in Tracker : WF_driverVars(SessionDropped(t)) /\ WF_driverVars(SlotFreed(t))

-----------------------------------------------------------------------------
(* Properties.                                                              *)

Dialling(p) == \E a \in attempts : p \in a.endpoints

\* No two live sessions or pending attempts of an endpoint, and no offer that
\* bypasses its backoff.
OneDialPerEndpoint ==
  /\ \A p \in Peer :
       Cardinality(Holders(p)) + Cardinality({a \in attempts : p \in a.endpoints}) <= 1
  /\ \A a \in attempts : a.retry_peer = NoPeer => a.endpoints \cap Queued(reconnect) = {}

\* The driver has read the latest snapshot and waits.
Settled == pc = "select" /\ ~changed

\* The driver is responsible for the static peers and those in the registry's
\* history, and for no others.
Known == pinned \cup DOMAIN states

\* Each of these waits for its first attempt, has one, has a session, or has a
\* deadline.
NoPeerIsForgotten ==
  Settled =>
    /\ \A p \in Known :
         p \in ToSet(startup) \cup Runnable(reconnect) \/ Dialling(p) \/ Holders(p) # {}
    /\ Queued(reconnect) \subseteq Known
    /\ \A a \in attempts : a.retry_peer \in Known \cup {NoPeer}

\* No modem is dialled twice: an endpoint has at most one live session or
\* pending attempt, whatever order offers, retry deadlines, completions and the
\* ends of sessions come in (the comment on run_event_loop), and an offer never
\* bypasses the backoff of an endpoint in the retry queue.  Nor is one forgotten:
\* each static peer and each one in the history is on its way to being
\* connected; a queue entry whose deadline was suspended never stays behind
\* without the attempt or session it was suspended for; peers that expired or
\* were evicted from the history stop being retried.
EachPeerOnce == OneDialPerEndpoint /\ NoPeerIsForgotten

\* Only a successful initialization, or the end of a peer's history, sets its
\* backoff back: not a transport that connects, nor a session that fails to
\* initialize, nor a deadline that is suspended.
BackoffNeverRewinds ==
  [][\A p \in Queued(reconnect) :
       (p \in Queued(reconnect') => reconnect'.tries[p] < reconnect.tries[p]) =>
         \/ p \notin pinned \cup DOMAIN published
         \/ establishments'[p] # Seen(p)]_driverVars

\* "Static peers stay eligible for retries": again and again each one is being
\* dialled or has a session.
StaticPeersAreRetried ==
  \A p \in Pinned : []<>(Dialling(p) \/ Holders(p) # {})
=============================================================================
