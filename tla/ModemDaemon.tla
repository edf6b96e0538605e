---------------------------- MODULE ModemDaemon ----------------------------
(***************************************************************************)
(* The modem daemon (crates/dlep-daemon/src/modem.rs): its accept loop,    *)
(* the task of each connection from the handshake to the end of its        *)
(* session, the connected routers it keeps for discovery (ConnectedRouters,*)
(* connections.rs), and shutdown, which runs while connections are in any  *)
(* of their states.  Its lists are sets: nothing depends on their order.   *)
(***************************************************************************)
EXTENDS Naturals, FiniteSets

CONSTANTS
  Conn,      \* connections routers make
  Address,   \* of routers
  router_address(_),  \* where a connection comes from
  MaxSessions,        \* handshakes and sessions at once
  NoConn

ASSUME ModemDaemonConstants ==
  /\ IsFiniteSet(Conn) /\ NoConn \notin Conn
  /\ \A c \in Conn : router_address(c) \in Address
  /\ MaxSessions \in Nat \ {0}

VARIABLES
  conn,          \* where each connection's task is
  listen,        \* the accept loop: accepting, spawning or ended
  pending,       \* the connection it is about to spawn a task for
  aborting,      \* whether it is to be aborted
  permits,       \* free places
  peers,         \* ConnectedRouters: how many connections of each address
  session_cmds,  \* senders to the sessions
  tasks,         \* handles of the connections' tasks
  stopping,      \* the watch all tasks look at
  discovery,     \* the discovery task
  shutdown,      \* where the shutdown is
  toTell,        \* senders shutdown has taken and not used
  told,          \* sessions that were sent Shutdown
  toJoin         \* handles shutdown waits for

connection == <<conn, permits, peers, session_cmds>>
loop == <<listen, pending, aborting, tasks>>
ending == <<stopping, discovery, shutdown, toTell, told, toJoin>>
daemonVars == <<connection, loop, ending>>

\* discovery is "none" when its socket could not be bound.
DaemonInit ==
  /\ conn = [c \in Conn |-> "new"]
  /\ listen = "accepting" /\ pending = NoConn /\ aborting = FALSE
  /\ permits = MaxSessions
  /\ peers = [a \in Address |-> 0]
  /\ session_cmds = {} /\ tasks = {}
  /\ stopping = FALSE /\ discovery \in {"none", "running"}
  /\ shutdown = "none" /\ toTell = {} /\ told = {} /\ toJoin = {}

\* Taking a place and registering the router, and giving both back, which
\* every way out of the task does by dropping its guards.
Hold(c) ==
  /\ permits' = permits - 1
  /\ peers' = [peers EXCEPT ![router_address(c)] = @ + 1]

Release(c) ==
  /\ permits' = permits + 1
  /\ peers' = [peers EXCEPT ![router_address(c)] = @ - 1]

Move(c, where) == conn' = [conn EXCEPT ![c] = where]

Finish(c) == Move(c, "done") /\ Release(c)

-----------------------------------------------------------------------------
(* The accept loop.                                                         *)

Accept(c) ==
  /\ listen = "accepting" /\ conn[c] = "new"
  /\ permits > 0
  /\ Hold(c) /\ Move(c, "accepted")
  /\ listen' = "spawning" /\ pending' = c
  /\ UNCHANGED <<session_cmds, aborting, tasks, ending>>

\* There is no place, or the connection is gone already.
Refuse(c) ==
  /\ listen = "accepting" /\ conn[c] = "new"
  /\ Move(c, "done")
  /\ UNCHANGED <<permits, peers, session_cmds, loop, ending>>

Finished(c) == conn[c] = "done"

\* With the lock on the handles: spawn the task and add its handle.
Spawn ==
  /\ listen = "spawning"
  /\ Move(pending, "spawned")
  /\ tasks' = {c \in tasks : ~Finished(c)} \cup {pending}
  /\ listen' = "accepting" /\ pending' = NoConn
  /\ UNCHANGED <<permits, peers, session_cmds, aborting, ending>>

\* Mutant: the connection the loop held when it was aborted keeps its place.
ListenEnds_Leaks ==
  /\ aborting /\ listen # "ended"
  /\ listen' = "ended" /\ pending' = NoConn
  /\ IF pending = NoConn THEN UNCHANGED conn ELSE Move(pending, "done")
  /\ UNCHANGED <<permits, peers, session_cmds, aborting, tasks, ending>>

\* The abort takes effect at an await: in accept, or waiting for the lock.
ListenEnds ==
  /\ aborting /\ listen # "ended"
  /\ listen' = "ended" /\ pending' = NoConn
  /\ IF pending = NoConn THEN UNCHANGED <<conn, permits, peers>> ELSE Finish(pending)
  /\ UNCHANGED <<session_cmds, aborting, tasks, ending>>

-----------------------------------------------------------------------------
(* The task of a connection.                                                *)

Begin(c) ==
  /\ conn[c] = "spawned"
  /\ IF stopping THEN Finish(c) ELSE Move(c, "handshake") /\ UNCHANGED <<permits, peers>>
  /\ UNCHANGED <<session_cmds, loop, ending>>

\* Mutant: the handshake is not given up.
StopHandshake_Waits(c) ==
  /\ conn[c] = "handshake" /\ stopping
  /\ UNCHANGED daemonVars

StopHandshake(c) ==
  /\ conn[c] = "handshake" /\ stopping
  /\ Finish(c)
  /\ UNCHANGED <<session_cmds, loop, ending>>

HandshakeFails(c) ==
  /\ conn[c] = "handshake"
  /\ Finish(c)
  /\ UNCHANGED <<session_cmds, loop, ending>>

\* Also just after the task last looked at stopping.
HandshakeDone(c) ==
  /\ conn[c] = "handshake"
  /\ Move(c, "shaken")
  /\ UNCHANGED <<permits, peers, session_cmds, loop, ending>>

Open(c) == conn[c] = "session"

\* With the lock on the senders: look at stopping, add the sender.
Enlist(c) ==
  /\ conn[c] = "shaken"
  /\ IF stopping
     THEN Finish(c) /\ UNCHANGED session_cmds
     ELSE /\ Move(c, "session")
          /\ session_cmds' = {d \in session_cmds : Open(d)} \cup {c}
          /\ UNCHANGED <<permits, peers>>
  /\ UNCHANGED <<loop, ending>>

\* run_session_tracked returns: see SessionRuntime.
SessionEnds(c) ==
  /\ conn[c] = "session"
  /\ Move(c, "ended")
  /\ UNCHANGED <<permits, peers, session_cmds, loop, ending>>

Delist(c) ==
  /\ conn[c] = "ended"
  /\ session_cmds' = {d \in session_cmds : Open(d)}
  /\ Finish(c)
  /\ UNCHANGED <<loop, ending>>

DiscoveryEnds ==
  /\ discovery \in {"running", "stopping"}
  /\ discovery' = "ended"
  /\ UNCHANGED <<connection, loop, stopping, shutdown, toTell, told, toJoin>>

-----------------------------------------------------------------------------
(* shutdown, step by step.                                                  *)

Shutdown ==
  /\ shutdown = "none"
  /\ stopping' = TRUE
  /\ discovery' = IF discovery = "running" THEN "stopping" ELSE discovery
  /\ shutdown' = "discovery"
  /\ UNCHANGED <<connection, loop, toTell, told, toJoin>>

\* The discovery task is joined; then the accept loop is aborted.
AbortListen ==
  /\ shutdown = "discovery" /\ discovery \in {"none", "ended"}
  /\ aborting' = TRUE
  /\ shutdown' = "listen"
  /\ UNCHANGED <<connection, listen, pending, tasks, stopping, discovery, toTell, told, toJoin>>

\* Mutant: the accept loop is not joined.
TakeSenders_NoJoin ==
  /\ shutdown = "listen"
  /\ toTell' = session_cmds
  /\ session_cmds' = {}
  /\ shutdown' = "telling"
  /\ UNCHANGED <<conn, permits, peers, loop, stopping, discovery, told, toJoin>>

\* The accept loop is joined; then the senders are taken from their list.
TakeSenders ==
  /\ shutdown = "listen" /\ listen = "ended"
  /\ toTell' = session_cmds
  /\ session_cmds' = {}
  /\ shutdown' = "telling"
  /\ UNCHANGED <<conn, permits, peers, loop, stopping, discovery, told, toJoin>>

\* Sending to a session that has ended fails, and is ignored.
Tell ==
  /\ shutdown = "telling"
  /\ \E c \in toTell : /\ told' = IF Open(c) THEN told \cup {c} ELSE told
                       /\ toTell' = toTell \ {c}
  /\ UNCHANGED <<connection, loop, stopping, discovery, shutdown, toJoin>>

TakeTasks ==
  /\ shutdown = "telling" /\ toTell = {}
  /\ toJoin' = tasks
  /\ tasks' = {}
  /\ shutdown' = "joining"
  /\ UNCHANGED <<connection, listen, pending, aborting, stopping, discovery, toTell, told>>

Join ==
  /\ shutdown = "joining"
  /\ \E c \in toJoin : Finished(c) /\ toJoin' = toJoin \ {c}
  /\ UNCHANGED <<connection, loop, stopping, discovery, shutdown, toTell, told>>

Return ==
  /\ shutdown = "joining" /\ toJoin = {}
  /\ shutdown' = "returned"
  /\ UNCHANGED <<connection, loop, stopping, discovery, toTell, told, toJoin>>

Advance(c) == Begin(c) \/ StopHandshake(c) \/ Enlist(c) \/ Delist(c)

Stop == AbortListen \/ TakeSenders \/ Tell \/ TakeTasks \/ Join \/ Return

DaemonNext ==
  \/ \E c \in Conn :
       \/ Accept(c) \/ Refuse(c)
       \/ Advance(c) \/ HandshakeFails(c) \/ HandshakeDone(c) \/ SessionEnds(c)
  \/ Spawn \/ ListenEnds \/ DiscoveryEnds
  \/ Shutdown \/ Stop

DaemonSpec == DaemonInit /\ [][DaemonNext]_daemonVars

\* The runtime polls every task that can go on; a session that was told to
\* shut down ends (NothingWaitsForEver of SessionRuntime); the discovery task
\* ends when it is asked to.  Nothing is assumed of handshakes.
DaemonFairness ==
  /\ \A c \in Conn :
       /\ WF_daemonVars(Advance(c))
       /\ WF_daemonVars(SessionEnds(c) /\ c \in told)
  /\ WF_daemonVars(ListenEnds)
  /\ WF_daemonVars(DiscoveryEnds /\ discovery = "stopping")
  /\ WF_daemonVars(Stop)

DaemonFairSpec == DaemonSpec /\ DaemonFairness

-----------------------------------------------------------------------------
(* Properties.                                                              *)

ConnState == {"new", "accepted", "spawned", "handshake", "shaken", "session", "ended", "done"}

\* The state of ModemDaemon's accept task, lists, permits and connections.
DaemonTypeOK ==
  /\ conn \in [Conn -> ConnState]
  /\ listen \in {"accepting", "spawning", "ended"}
  /\ pending \in Conn \cup {NoConn}
  /\ aborting \in BOOLEAN /\ stopping \in BOOLEAN
  /\ permits \in 0..MaxSessions
  /\ peers \in [Address -> Nat]
  /\ session_cmds \subseteq Conn /\ toTell \subseteq Conn /\ told \subseteq Conn
  /\ tasks \subseteq Conn /\ toJoin \subseteq Conn
  /\ discovery \in {"none", "running", "stopping", "ended"}
  /\ shutdown \in {"none", "discovery", "listen", "telling", "joining", "returned"}

Live == {c \in Conn : conn[c] \notin {"new", "done"}}

\* Whichever way connections end, the places taken are those of the connections
\* still there, and so are the counts by router that discovery, which does not
\* answer a connected router, looks at ("Cancellation and error exits release
\* registration without relying on events"); the unwrap in RouterConnection's
\* drop cannot fail.
PlacesAreAccounted ==
  /\ permits + Cardinality(Live) = MaxSessions
  /\ \A a \in Address : peers[a] = Cardinality({c \in Live : router_address(c) = a})

\* A session that runs can be told to stop: its sender is in the list, or
\* shutdown has it, or has used it, and none joins the list once it was taken.
\* When shutdown returns no task of the daemon is left, and none will be.
ShutdownLeavesNothing ==
  /\ \A c \in Conn : Open(c) =>
       \/ shutdown \in {"none", "discovery", "listen"} /\ c \in session_cmds
       \/ c \in toTell \cup told
  /\ shutdown = "returned" =>
       Live = {} /\ listen = "ended" /\ discovery \in {"none", "ended"}

\* shutdown returns, in whatever state it found the connections, without
\* waiting for a handshake ("Shutdown cancels handshakes without waiting for
\* their deadline").
ShutdownReturns == stopping ~> shutdown = "returned"
=============================================================================
