---------------------------- MODULE RouterDaemon ----------------------------
(***************************************************************************)
(* The router daemon (crates/dlep-daemon/src/router.rs): attempts to       *)
(* connect, which their caller may drop at any await, the sessions they    *)
(* become, the start of discovery, the budget of connections, and          *)
(* shutdown.  shutdown consumes the daemon, so no attempt is under way     *)
(* then.  The lists are sets: nothing depends on their order.              *)
(***************************************************************************)
EXTENDS Naturals, FiniteSets

CONSTANTS
  Attempt,      \* calls of connect_static, each of which may become a session
  Starter,      \* calls of start_discovery
  MaxSessions   \* limits.max_sessions

ASSUME RouterDaemonConstants ==
  /\ IsFiniteSet(Attempt)
  /\ MaxSessions \in Nat \ {0}

VARIABLES
  attempt,             \* where each attempt, or the session it became, is
  session_slots,       \* free permits
  waiter,              \* a call of wait_for_connection_capacity
  session_cmds,        \* senders to the sessions
  tasks,               \* handles of the sessions' tasks
  starter,             \* where each call of start_discovery is
  discovery_shutdown,  \* whether this slot is filled
  discovery_task,      \* whether this one is
  discovery,           \* the discovery tasks running
  shutdown,            \* where the shutdown is
  toTell, told, toJoin

attempts == <<attempt, session_slots, waiter, session_cmds, tasks>>
starting == <<starter, discovery_shutdown, discovery_task, discovery>>
ending == <<shutdown, toTell, told, toJoin>>
daemonVars == <<attempts, starting, ending>>

DaemonInit ==
  /\ attempt = [a \in Attempt |-> "idle"]
  /\ session_slots = MaxSessions /\ waiter = "idle"
  /\ session_cmds = {} /\ tasks = {}
  /\ starter = [s \in Starter |-> "idle"]
  /\ discovery_shutdown = FALSE /\ discovery_task = FALSE /\ discovery = 0
  /\ shutdown = "none" /\ toTell = {} /\ told = {} /\ toJoin = {}

Owned == shutdown = "none"

-----------------------------------------------------------------------------
(* connect_static.                                                          *)

Move(a, where) == attempt' = [attempt EXCEPT ![a] = where]

connect_static(a) ==
  /\ Owned /\ attempt[a] = "idle"
  /\ IF session_slots > 0
     THEN Move(a, "connecting") /\ session_slots' = session_slots - 1
     ELSE Move(a, "refused") /\ UNCHANGED session_slots
  /\ UNCHANGED <<waiter, session_cmds, tasks, starting, ending>>

Connected(a) ==
  /\ attempt[a] = "connecting"
  /\ Move(a, "connected")
  /\ UNCHANGED <<session_slots, waiter, session_cmds, tasks, starting, ending>>

\* Mutant: the slot is not given back.
GiveUp_KeepsSlot(a) ==
  /\ attempt[a] \in {"connecting", "connected"}
  /\ Move(a, "refused")
  /\ UNCHANGED <<session_slots, waiter, session_cmds, tasks, starting, ending>>

\* Connecting fails, the registry is full, or the caller drops the attempt.
GiveUp(a) ==
  /\ attempt[a] \in {"connecting", "connected"}
  /\ Move(a, "refused")
  /\ session_slots' = session_slots + 1
  /\ UNCHANGED <<waiter, session_cmds, tasks, starting, ending>>

Open(a) == attempt[a] = "session"

\* With both locks, and no await from here on: register, spawn, list.
SpawnSession(a) ==
  /\ attempt[a] = "connected"
  /\ Move(a, "session")
  /\ session_cmds' = {b \in session_cmds : Open(b)} \cup {a}
  /\ tasks' = {t \in tasks : Open(t)} \cup {a}
  /\ UNCHANGED <<session_slots, waiter, starting, ending>>

\* The session's task ends or is aborted, and drops its permit.
SessionEnds(a) ==
  /\ Open(a)
  /\ Move(a, "ended")
  /\ session_slots' = session_slots + 1
  /\ UNCHANGED <<waiter, session_cmds, tasks, starting, ending>>

\* wait_for_connection_capacity takes a permit and drops it.
WaitForCapacity ==
  /\ Owned /\ waiter = "idle"
  /\ waiter' = "waiting"
  /\ UNCHANGED <<attempt, session_slots, session_cmds, tasks, starting, ending>>

CapacityFound ==
  /\ waiter = "waiting" /\ session_slots > 0
  /\ waiter' = "holding"
  /\ session_slots' = session_slots - 1
  /\ UNCHANGED <<attempt, session_cmds, tasks, starting, ending>>

WaitOver ==
  /\ waiter = "holding"
  /\ waiter' = "idle"
  /\ session_slots' = session_slots + 1
  /\ UNCHANGED <<attempt, session_cmds, tasks, starting, ending>>

WaitDropped ==
  /\ waiter = "waiting"
  /\ waiter' = "idle"
  /\ UNCHANGED <<attempt, session_slots, session_cmds, tasks, starting, ending>>

-----------------------------------------------------------------------------
(* start_discovery.                                                         *)

\* The lock on discovery_shutdown is held from here to the end of the call.
SlotLocked == \E s \in Starter : starter[s] = "binding"

start_discovery(s) ==
  /\ Owned /\ starter[s] = "idle" /\ ~SlotLocked
  /\ starter' = [starter EXCEPT ![s] = IF discovery_shutdown THEN "refused" ELSE "binding"]
  /\ UNCHANGED <<attempts, discovery_shutdown, discovery_task, discovery, ending>>

\* The socket cannot be bound, or the caller drops the call.
StartFails(s) ==
  /\ starter[s] = "binding"
  /\ starter' = [starter EXCEPT ![s] = "refused"]
  /\ UNCHANGED <<attempts, discovery_shutdown, discovery_task, discovery, ending>>

\* Mutant: the task is spawned before the second lock is there.
SpawnDiscovery_Early(s) ==
  /\ starter[s] = "binding"
  /\ starter' = [starter EXCEPT ![s] = "started"]
  /\ discovery' = discovery + 1
  /\ discovery_shutdown' \in BOOLEAN
  /\ discovery_task' = discovery_shutdown'
  /\ UNCHANGED <<attempts, ending>>

\* With both locks: spawn, fill both slots.
SpawnDiscovery(s) ==
  /\ starter[s] = "binding"
  /\ starter' = [starter EXCEPT ![s] = "started"]
  /\ discovery' = discovery + 1
  /\ discovery_shutdown' = TRUE
  /\ discovery_task' = TRUE
  /\ UNCHANGED <<attempts, ending>>

\* On an I/O error, or when it is asked to; its slots stay as they are.
DiscoveryEnds ==
  /\ discovery > 0
  /\ discovery' = discovery - 1
  /\ UNCHANGED <<attempts, starter, discovery_shutdown, discovery_task, ending>>

-----------------------------------------------------------------------------
(* shutdown.                                                                *)

InFlight == {a \in Attempt : attempt[a] \in {"connecting", "connected"}}

Shutdown ==
  /\ Owned /\ InFlight = {} /\ ~SlotLocked /\ waiter = "idle"
  /\ shutdown' = "discovery"
  /\ UNCHANGED <<attempts, starting, toTell, told, toJoin>>

\* Ask the discovery task to stop and join it; then take the senders.
TakeSenders ==
  /\ shutdown = "discovery"
  /\ discovery_task => discovery = 0
  /\ discovery_shutdown' = FALSE /\ discovery_task' = FALSE
  /\ toTell' = session_cmds
  /\ session_cmds' = {}
  /\ shutdown' = "telling"
  /\ UNCHANGED <<attempt, session_slots, waiter, tasks, starter, discovery, told, toJoin>>

\* Mutant: the first session that is gone ends the round.
Tell_Stops ==
  /\ shutdown = "telling"
  /\ \E a \in toTell : /\ told' = IF Open(a) THEN told \cup {a} ELSE told
                       /\ toTell' = IF Open(a) THEN toTell \ {a} ELSE {}
  /\ UNCHANGED <<attempts, starting, shutdown, toJoin>>

Tell ==
  /\ shutdown = "telling"
  /\ \E a \in toTell : /\ told' = IF Open(a) THEN told \cup {a} ELSE told
                       /\ toTell' = toTell \ {a}
  /\ UNCHANGED <<attempts, starting, shutdown, toJoin>>

TakeTasks ==
  /\ shutdown = "telling" /\ toTell = {}
  /\ toJoin' = tasks
  /\ tasks' = {}
  /\ shutdown' = "joining"
  /\ UNCHANGED <<attempt, session_slots, waiter, session_cmds, starting, toTell, told>>

Join ==
  /\ shutdown = "joining"
  /\ \E a \in toJoin : ~Open(a) /\ toJoin' = toJoin \ {a}
  /\ UNCHANGED <<attempts, starting, shutdown, toTell, told>>

Return ==
  /\ shutdown = "joining" /\ toJoin = {}
  /\ shutdown' = "returned"
  /\ UNCHANGED <<attempts, starting, toTell, told, toJoin>>

Stop == TakeSenders \/ Tell \/ TakeTasks \/ Join \/ Return

DaemonNext ==
  \/ \E a \in Attempt :
       connect_static(a) \/ Connected(a) \/ GiveUp(a) \/ SpawnSession(a) \/ SessionEnds(a)
  \/ WaitForCapacity \/ CapacityFound \/ WaitOver \/ WaitDropped
  \/ \E s \in Starter : start_discovery(s) \/ StartFails(s) \/ SpawnDiscovery(s)
  \/ DiscoveryEnds
  \/ Shutdown \/ Stop

DaemonSpec == DaemonInit /\ [][DaemonNext]_daemonVars

\* A session that was told to shut down ends (NothingWaitsForEver of
\* SessionRuntime), and so does the discovery task.
DaemonFairSpec ==
  /\ DaemonSpec
  /\ \A a \in Attempt : WF_daemonVars(SessionEnds(a) /\ a \in told)
  /\ WF_daemonVars(DiscoveryEnds /\ shutdown = "discovery")
  /\ WF_daemonVars(Stop)

-----------------------------------------------------------------------------
(* Properties.                                                              *)

Sessions == {a \in Attempt : Open(a)}

\* Attempts and sessions share one budget, and every way an attempt or a
\* session ends gives its slot back ("Connections being established and
\* registered sessions share this budget").
SlotsAreAccounted ==
  session_slots + Cardinality(InFlight \cup Sessions) + (IF waiter = "holding" THEN 1 ELSE 0)
    = MaxSessions

\* Whatever its caller dropped, a session that runs can be told to stop and
\* joined ("spawned sessions are always registered for graceful shutdown before
\* this future can yield again"), and so can discovery, of which there is one
\* task at most ("Cancellation must not leave a running task that shutdown
\* cannot find and join").  When shutdown returns nothing runs any more, and
\* every slot is free.
TasksAreFindable ==
  /\ Sessions \subseteq session_cmds \cup toTell \cup told
  /\ Sessions \subseteq tasks \cup toJoin
  /\ discovery <= 1 /\ (discovery > 0 => discovery_shutdown /\ discovery_task)
  /\ shutdown = "returned" => Sessions = {} /\ discovery = 0 /\ session_slots = MaxSessions

\* shutdown returns.
RouterShutdownReturns == shutdown = "discovery" ~> shutdown = "returned"
=============================================================================
