----------------------------- MODULE ModemProofs ----------------------------
(***************************************************************************)
(* Proofs about the modem daemon, for any number of connections, routers   *)
(* and places, and about the programs, for any configuration and machine.  *)
(*                                                                         *)
(* PlacesAreAccounted is inductive with the types and with what the accept *)
(* loop holds (LoopInv).  ShutdownLeavesNothing needs in addition that the *)
(* task of every live connection is one shutdown will join (TasksInv), and *)
(* what each stage of shutdown has behind it (StageInv).  The programs'    *)
(* CheckAgreesWithStart needs what a start has checked on the way to each  *)
(* stage (VerdictInv), ExitsLeaveNothing what it has started (OutcomeInv). *)
(***************************************************************************)
EXTENDS ModemDaemon, Binaries, TimerSet, FiniteSetTheorems, TLAPS

\* A leaf that names no prover is for Zenon.
USE ZenonT(60)

\* Only the connection the accept loop holds has no task yet.
LoopInv ==
  /\ listen = "spawning" <=> pending # NoConn
  /\ \A c \in Conn : conn[c] = "accepted" <=> c = pending

\* Every other live connection has its task among those shutdown joins.
TasksInv == \A c \in Live : c # pending => c \in tasks \cup toJoin

\* What is done by the time shutdown has reached a stage.
StageInv ==
  /\ stopping = (shutdown # "none")
  /\ shutdown \notin {"none", "discovery"} => discovery \in {"none", "ended"}
  /\ shutdown \in {"telling", "joining", "returned"} => listen = "ended"
  /\ shutdown \in {"none", "discovery", "listen"} => toTell = {}
  /\ shutdown \notin {"joining", "returned"} => toJoin = {}
  /\ shutdown \in {"joining", "returned"} => tasks = {}
  /\ shutdown = "returned" => toJoin = {}

\* Every session has its sender where shutdown will use it, or has been told.
ToldInv ==
  \A c \in Conn : Open(c) =>
    \/ shutdown \in {"none", "discovery", "listen"} /\ c \in session_cmds
    \/ c \in toTell \cup told

DaemonInv ==
  /\ DaemonTypeOK
  /\ PlacesAreAccounted
  /\ LoopInv
  /\ TasksInv
  /\ StageInv
  /\ ToldInv

LiveAt(a) == {c \in Live : router_address(c) = a}

-----------------------------------------------------------------------------
(* Counting.                                                                *)

\* Sets of connections are finite.
LEMMA ConnsAreFinite ==
  ASSUME NEW S \in SUBSET Conn
  PROVE  IsFiniteSet(S) /\ Cardinality(S) \in Nat
  BY ModemDaemonConstants, FS_Subset, FS_CardinalityType

\* A new connection takes a place and is counted for its router.
LEMMA HoldIsAccounted ==
  ASSUME DaemonTypeOK, PlacesAreAccounted, NEW c \in Conn, conn[c] = "new", permits > 0,
         Hold(c), Move(c, "accepted")
  PROVE  /\ PlacesAreAccounted'
         /\ permits' \in 0..MaxSessions /\ peers' \in [Address -> Nat]
         /\ Live' = Live \cup {c}
  <1>1. Live' = Live \cup {c} /\ c \notin Live
    BY DEF Live, Move, DaemonTypeOK, ConnState
  <1>2. \A a \in Address : /\ a = router_address(c) => LiveAt(a)' = LiveAt(a) \cup {c}
                           /\ a # router_address(c) => LiveAt(a)' = LiveAt(a)
                           /\ c \notin LiveAt(a)
    BY <1>1 DEF LiveAt
  <1>3. /\ IsFiniteSet(Live) /\ Cardinality(Live) \in Nat
        /\ \A a \in Address : IsFiniteSet(LiveAt(a)) /\ Cardinality(LiveAt(a)) \in Nat
    BY ConnsAreFinite DEF Live, LiveAt
  <1>4. Cardinality(Live') = Cardinality(Live) + 1
    BY <1>1, <1>3, FS_AddElement
  <1>5. \A a \in Address : a = router_address(c) =>
                             Cardinality(LiveAt(a)') = Cardinality(LiveAt(a)) + 1
    BY <1>2, <1>3, FS_AddElement, SMTT(30)
  <1>6. permits' + Cardinality(Live') = MaxSessions /\ permits' \in 0..MaxSessions
    BY <1>3, <1>4, ModemDaemonConstants, SMTT(30)
    DEF Hold, PlacesAreAccounted, DaemonTypeOK
  <1>7. \A a \in Address : peers[a] = Cardinality(LiveAt(a))
    BY DEF PlacesAreAccounted, LiveAt
  <1>8. \A a \in Address : peers'[a] = Cardinality(LiveAt(a)')
    BY <1>2, <1>3, <1>4, <1>5, <1>7 DEF Hold, DaemonTypeOK
  <1>9. peers' \in [Address -> Nat]
    BY ModemDaemonConstants, SMTT(30) DEF Hold, DaemonTypeOK
  <1>10. QED
    BY <1>1, <1>6, <1>8, <1>9 DEF PlacesAreAccounted, LiveAt

\* A connection that ends gives both back.
LEMMA FinishIsAccounted ==
  ASSUME DaemonTypeOK, PlacesAreAccounted, NEW c \in Live, Finish(c)
  PROVE  /\ PlacesAreAccounted'
         /\ permits' \in 0..MaxSessions /\ peers' \in [Address -> Nat]
         /\ Live' = Live \ {c}
  <1>1. Live' = Live \ {c} /\ c \in Conn
    BY DEF Live, Finish, Move, DaemonTypeOK, ConnState
  <1>2. \A a \in Address : /\ a = router_address(c) => LiveAt(a)' = LiveAt(a) \ {c} /\ c \in LiveAt(a)
                           /\ a # router_address(c) => LiveAt(a)' = LiveAt(a)
    BY <1>1 DEF LiveAt
  <1>3. /\ IsFiniteSet(Live) /\ Cardinality(Live) \in Nat /\ Cardinality(Live') \in Nat
        /\ \A a \in Address : /\ IsFiniteSet(LiveAt(a)) /\ Cardinality(LiveAt(a)) \in Nat
                              /\ Cardinality(LiveAt(a)') \in Nat
    BY ConnsAreFinite, <1>1, <1>2 DEF Live, LiveAt
  <1>4. Cardinality(Live') = Cardinality(Live) - 1
    BY <1>1, <1>3, FS_RemoveElement
  <1>5. \A a \in Address : a = router_address(c) =>
                             Cardinality(LiveAt(a)') = Cardinality(LiveAt(a)) - 1
    BY <1>2, <1>3, FS_RemoveElement
  <1>6. permits' + Cardinality(Live') = MaxSessions /\ permits' \in 0..MaxSessions
    BY <1>3, <1>4, ModemDaemonConstants, SMTT(30)
    DEF Finish, Release, PlacesAreAccounted, DaemonTypeOK
  <1>7. \A a \in Address : peers[a] = Cardinality(LiveAt(a))
    BY DEF PlacesAreAccounted, LiveAt
  <1>8. \A a \in Address : peers'[a] = Cardinality(LiveAt(a)')
    BY <1>2, <1>3, <1>4, <1>5, <1>7 DEF Finish, Release, DaemonTypeOK
  <1>9. \A a \in Address : peers'[a] \in Nat
    BY <1>3, <1>8
  <1>10. peers' \in [Address -> Nat]
    BY <1>9 DEF Finish, Release, DaemonTypeOK
  <1>11. QED
    BY <1>1, <1>6, <1>8, <1>10 DEF PlacesAreAccounted, LiveAt

\* Where the same connections are live, nothing changes.
LEMMA StayIsAccounted ==
  ASSUME DaemonTypeOK, PlacesAreAccounted, Live' = Live, UNCHANGED <<permits, peers>>
  PROVE  /\ PlacesAreAccounted'
         /\ permits' \in 0..MaxSessions /\ peers' \in [Address -> Nat]
  BY DEF PlacesAreAccounted, DaemonTypeOK

-----------------------------------------------------------------------------
(* One step.                                                                *)

\* What a connection's own task does to the list of senders.
KeepsSenders(c) ==
  /\ session_cmds' \subseteq Conn
  /\ \A d \in Conn \ {c} : Open(d) /\ d \in session_cmds => d \in session_cmds'

\* The end of a connection's task, from wherever it was.
LEMMA FinishKeepsInv ==
  ASSUME DaemonInv, NEW c \in Conn, conn[c] \notin {"new", "accepted", "done"},
         Finish(c), KeepsSenders(c), UNCHANGED <<loop, ending>>
  PROVE  DaemonInv'
  <1>1. c \in Live /\ c # pending
    BY DEF Live, DaemonInv, LoopInv
  <1>2. /\ PlacesAreAccounted' /\ permits' \in 0..MaxSessions /\ peers' \in [Address -> Nat]
        /\ Live' = Live \ {c}
    BY <1>1, FinishIsAccounted DEF DaemonInv
  <1>3. conn' = [conn EXCEPT ![c] = "done"] /\ conn \in [Conn -> ConnState]
    BY DEF Finish, Move, DaemonInv, DaemonTypeOK
  <1>4. DaemonTypeOK'
    BY <1>2, <1>3 DEF DaemonInv, DaemonTypeOK, ConnState, KeepsSenders, loop, ending
  <1>5. LoopInv'
    BY <1>1, <1>3 DEF DaemonInv, LoopInv, loop
  <1>6. TasksInv' /\ StageInv'
    BY <1>2 DEF DaemonInv, TasksInv, StageInv, loop, ending
  <1>7. ToldInv'
    BY <1>3 DEF DaemonInv, ToldInv, Open, KeepsSenders, ending
  <1>8. QED
    BY <1>2, <1>4, <1>5, <1>6, <1>7 DEF DaemonInv

\* A step of a connection's task that goes on.
LEMMA MoveKeepsInv ==
  ASSUME DaemonInv, NEW c \in Conn, conn[c] \notin {"new", "accepted", "done"},
         NEW where \in ConnState \ {"new", "accepted", "done"},
         where = "session" => shutdown = "none" /\ c \in session_cmds',
         Move(c, where), KeepsSenders(c), UNCHANGED <<permits, peers, loop, ending>>
  PROVE  DaemonInv'
  <1>1. conn' = [conn EXCEPT ![c] = where] /\ conn \in [Conn -> ConnState]
    BY DEF Move, DaemonInv, DaemonTypeOK
  <1>2. Live' = Live /\ c # pending
    BY <1>1 DEF Live, DaemonInv, LoopInv
  <1>3. PlacesAreAccounted' /\ permits' \in 0..MaxSessions /\ peers' \in [Address -> Nat]
    BY <1>2, StayIsAccounted DEF DaemonInv
  <1>4. DaemonTypeOK'
    BY <1>1, <1>3 DEF DaemonInv, DaemonTypeOK, ConnState, KeepsSenders, loop, ending
  <1>5. LoopInv'
    BY <1>1, <1>2 DEF DaemonInv, LoopInv, loop
  <1>6. TasksInv' /\ StageInv'
    BY <1>2 DEF DaemonInv, TasksInv, StageInv, loop, ending
  <1>7. ToldInv'
    BY <1>1 DEF DaemonInv, ToldInv, Open, KeepsSenders, ending
  <1>8. QED
    BY <1>3, <1>4, <1>5, <1>6, <1>7 DEF DaemonInv

\* A step that moves no connection.
LEMMA StillKeepsInv ==
  ASSUME DaemonInv, UNCHANGED <<conn, permits, peers, listen, pending>>,
         DaemonTypeOK', TasksInv', StageInv', ToldInv'
  PROVE  DaemonInv'
  <1>1. PlacesAreAccounted'
    BY StayIsAccounted DEF DaemonInv, Live
  <1>2. LoopInv'
    BY DEF DaemonInv, LoopInv
  <1>3. QED
    BY <1>1, <1>2 DEF DaemonInv

\* Every step of a connection's task keeps the invariant.
LEMMA ConnectionStep ==
  ASSUME DaemonInv, NEW c \in Conn,
         Advance(c) \/ HandshakeFails(c) \/ HandshakeDone(c) \/ SessionEnds(c)
  PROVE  DaemonInv'
  <1> USE DEF KeepsSenders
  <1>0. session_cmds \subseteq Conn /\ stopping = (shutdown # "none")
    BY DEF DaemonInv, DaemonTypeOK, StageInv
  <1>1. CASE Begin(c)
    <2>1. CASE stopping
      BY <1>0, <1>1, <2>1, FinishKeepsInv DEF Begin
    <2>2. CASE ~stopping
      BY <1>0, <1>1, <2>2, MoveKeepsInv DEF Begin, ConnState
    <2>3. QED
      BY <2>1, <2>2
  <1>2. CASE StopHandshake(c) \/ HandshakeFails(c)
    BY <1>0, <1>2, FinishKeepsInv DEF StopHandshake, HandshakeFails
  <1>3. CASE Enlist(c)
    <2>1. CASE stopping
      BY <1>0, <1>3, <2>1, FinishKeepsInv DEF Enlist
    <2>2. CASE ~stopping
      BY <1>0, <1>3, <2>2, MoveKeepsInv DEF Enlist, ConnState, Open
    <2>3. QED
      BY <2>1, <2>2
  <1>4. CASE Delist(c)
    BY <1>0, <1>4, FinishKeepsInv DEF Delist, Open
  <1>5. CASE HandshakeDone(c)
    BY <1>0, <1>5, MoveKeepsInv DEF HandshakeDone, ConnState
  <1>6. CASE SessionEnds(c)
    BY <1>0, <1>6, MoveKeepsInv DEF SessionEnds, ConnState
  <1>7. QED
    BY <1>1, <1>2, <1>3, <1>4, <1>5, <1>6 DEF Advance

\* Every step of the accept loop keeps the invariant.
LEMMA LoopStep ==
  ASSUME DaemonInv, (\E c \in Conn : Accept(c) \/ Refuse(c)) \/ Spawn \/ ListenEnds
  PROVE  DaemonInv'
  <1>0. conn \in [Conn -> ConnState] /\ NoConn \notin Conn
    BY ModemDaemonConstants DEF DaemonInv, DaemonTypeOK
  <1>1. ASSUME NEW c \in Conn, Accept(c) PROVE DaemonInv'
    <2>1. /\ PlacesAreAccounted' /\ permits' \in 0..MaxSessions /\ peers' \in [Address -> Nat]
          /\ Live' = Live \cup {c}
      BY <1>1, HoldIsAccounted DEF DaemonInv, Accept
    <2>2. conn' = [conn EXCEPT ![c] = "accepted"]
      BY <1>1 DEF Accept, Move
    <2>3. DaemonTypeOK'
      BY <1>0, <1>1, <2>1, <2>2 DEF DaemonInv, DaemonTypeOK, ConnState, Accept, ending
    <2>4. LoopInv'
      BY <1>0, <1>1, <2>2 DEF DaemonInv, LoopInv, Accept
    <2>5. TasksInv' /\ StageInv'
      BY <1>0, <1>1, <2>1 DEF DaemonInv, DaemonTypeOK, TasksInv, StageInv, LoopInv, Accept, Live, ending
    <2>6. ToldInv'
      BY <1>0, <1>1, <2>2 DEF DaemonInv, ToldInv, Open, Accept, ending
    <2>7. QED
      BY <2>1, <2>3, <2>4, <2>5, <2>6 DEF DaemonInv
  <1>2. ASSUME NEW c \in Conn, Refuse(c) PROVE DaemonInv'
    <2>1. conn' = [conn EXCEPT ![c] = "done"] /\ conn[c] = "new"
      BY <1>2 DEF Refuse, Move
    <2>2. Live' = Live
      BY <1>0, <2>1 DEF Live
    <2>3. PlacesAreAccounted' /\ permits' \in 0..MaxSessions /\ peers' \in [Address -> Nat]
      BY <1>2, <2>2, StayIsAccounted DEF DaemonInv, Refuse
    <2>4. DaemonTypeOK'
      BY <1>0, <1>2, <2>1, <2>3 DEF DaemonInv, DaemonTypeOK, ConnState, Refuse, loop, ending
    <2>5. LoopInv'
      BY <1>0, <1>2, <2>1 DEF DaemonInv, LoopInv, Refuse, loop
    <2>6. TasksInv' /\ StageInv'
      BY <1>2, <2>2 DEF DaemonInv, TasksInv, StageInv, Refuse, loop, ending
    <2>7. ToldInv'
      BY <1>0, <1>2, <2>1 DEF DaemonInv, ToldInv, Open, Refuse, ending
    <2>8. QED
      BY <2>3, <2>4, <2>5, <2>6, <2>7 DEF DaemonInv
  <1>3. CASE Spawn
    <2>1. pending \in Conn /\ conn[pending] = "accepted"
      BY <1>3 DEF Spawn, DaemonInv, LoopInv, DaemonTypeOK
    <2>2. conn' = [conn EXCEPT ![pending] = "spawned"]
      BY <1>3 DEF Spawn, Move
    <2>3. Live' = Live
      BY <1>0, <2>1, <2>2 DEF Live
    <2>4. PlacesAreAccounted' /\ permits' \in 0..MaxSessions /\ peers' \in [Address -> Nat]
      BY <1>3, <2>3, StayIsAccounted DEF DaemonInv, Spawn
    <2>5. DaemonTypeOK'
      BY <1>0, <1>3, <2>1, <2>2, <2>4 DEF DaemonInv, DaemonTypeOK, ConnState, Spawn, ending
    <2>6. LoopInv'
      BY <1>0, <1>3, <2>1, <2>2 DEF DaemonInv, LoopInv, Spawn
    <2>7. TasksInv' /\ StageInv'
      BY <1>3, <2>1, <2>3 DEF DaemonInv, DaemonTypeOK, TasksInv, StageInv, Spawn, Live, Finished, ending
    <2>8. ToldInv'
      BY <1>0, <1>3, <2>1, <2>2 DEF DaemonInv, ToldInv, Open, Spawn, ending
    <2>9. QED
      BY <2>4, <2>5, <2>6, <2>7, <2>8 DEF DaemonInv
  <1>4. CASE ListenEnds
    <2>1. listen' = "ended" /\ pending' = NoConn /\ UNCHANGED <<session_cmds, aborting, tasks, ending>>
      BY <1>4 DEF ListenEnds
    <2>2. CASE pending = NoConn
      <3>1. UNCHANGED <<conn, permits, peers>> /\ Live' = Live
        BY <1>4, <2>2 DEF ListenEnds, Live
      <3>2. PlacesAreAccounted' /\ permits' \in 0..MaxSessions /\ peers' \in [Address -> Nat]
        BY <3>1, StayIsAccounted DEF DaemonInv
      <3>3. DaemonTypeOK' /\ LoopInv'
        BY <2>1, <2>2, <3>1, <3>2 DEF DaemonInv, DaemonTypeOK, LoopInv, ending
      <3>4. TasksInv' /\ StageInv' /\ ToldInv'
        BY <2>1, <2>2, <3>1 DEF DaemonInv, TasksInv, StageInv, ToldInv, Open, ending
      <3>5. QED
        BY <3>2, <3>3, <3>4 DEF DaemonInv
    <2>3. CASE pending # NoConn
      <3>1. pending \in Live /\ conn[pending] = "accepted"
        BY <2>3 DEF DaemonInv, DaemonTypeOK, LoopInv, Live
      <3>2. Finish(pending)
        BY <1>4, <2>3 DEF ListenEnds
      <3>3. /\ PlacesAreAccounted' /\ permits' \in 0..MaxSessions /\ peers' \in [Address -> Nat]
            /\ Live' = Live \ {pending}
        BY <3>1, <3>2, FinishIsAccounted DEF DaemonInv
      <3>4. conn' = [conn EXCEPT ![pending] = "done"]
        BY <3>2 DEF Finish, Move
      <3>5. DaemonTypeOK' /\ LoopInv'
        BY <1>0, <2>1, <3>1, <3>3, <3>4 DEF DaemonInv, DaemonTypeOK, LoopInv, ConnState, ending
      <3>6. TasksInv' /\ StageInv'
        BY <2>1, <3>3 DEF DaemonInv, TasksInv, StageInv, ending
      <3>7. ToldInv'
        BY <1>0, <2>1, <3>4 DEF DaemonInv, ToldInv, Open, ending
      <3>8. QED
        BY <3>3, <3>5, <3>6, <3>7 DEF DaemonInv
    <2>4. QED
      BY <2>2, <2>3
  <1>5. QED
    BY <1>1, <1>2, <1>3, <1>4

\* Every step of shutdown, and the end of discovery, keeps the invariant.
LEMMA ShutdownStep ==
  ASSUME DaemonInv, DiscoveryEnds \/ Shutdown \/ Stop
  PROVE  DaemonInv'
  <1> USE DEF DaemonInv, TasksInv, StageInv, ToldInv, Live, Open, connection, loop
  <1>1. CASE DiscoveryEnds
    BY <1>1, StillKeepsInv DEF DiscoveryEnds, DaemonTypeOK
  <1>2. CASE Shutdown
    BY <1>2, StillKeepsInv DEF Shutdown, DaemonTypeOK
  <1>3. CASE AbortListen
    BY <1>3, StillKeepsInv DEF AbortListen, DaemonTypeOK
  <1>4. CASE TakeSenders
    <2>1. DaemonTypeOK'
      BY <1>4 DEF TakeSenders, DaemonTypeOK
    <2>2. TasksInv' /\ StageInv' /\ ToldInv'
      BY <1>4 DEF TakeSenders
    <2>3. QED
      BY <1>4, <2>1, <2>2, StillKeepsInv DEF TakeSenders
  <1>5. CASE Tell
    BY <1>5, StillKeepsInv DEF Tell, DaemonTypeOK
  <1>6. CASE TakeTasks
    BY <1>6, StillKeepsInv DEF TakeTasks, DaemonTypeOK
  <1>7. CASE Join
    BY <1>7, StillKeepsInv DEF Join, DaemonTypeOK, Finished
  <1>8. CASE Return
    BY <1>8, StillKeepsInv DEF Return, DaemonTypeOK
  <1>9. QED
    BY <1>1, <1>2, <1>3, <1>4, <1>5, <1>6, <1>7, <1>8 DEF Stop

-----------------------------------------------------------------------------
(* The theorems.                                                            *)

\* The invariant holds in every state of the daemon.
LEMMA DaemonInvariant == DaemonSpec => []DaemonInv
  <1>1. DaemonInit => DaemonInv
    <2> SUFFICES ASSUME DaemonInit PROVE DaemonInv
      OBVIOUS
    <2>1. Live = {} /\ \A a \in Address : {c \in Live : router_address(c) = a} = {}
      BY DEF DaemonInit, Live
    <2>2. PlacesAreAccounted
      BY <2>1, FS_EmptySet, ModemDaemonConstants, SMTT(30)
      DEF DaemonInit, PlacesAreAccounted
    <2>3. DaemonTypeOK
      <3>1. permits \in 0..MaxSessions /\ peers \in [Address -> Nat]
        BY ModemDaemonConstants, SMTT(30) DEF DaemonInit
      <3>2. aborting \in BOOLEAN /\ stopping \in BOOLEAN
        BY DEF DaemonInit
      <3>3. conn \in [Conn -> ConnState]
        BY DEF DaemonInit, ConnState
      <3>4. QED
        BY <3>1, <3>2, <3>3 DEF DaemonInit, DaemonTypeOK
    <2>4. LoopInv
      BY ModemDaemonConstants DEF DaemonInit, LoopInv
    <2>5. TasksInv /\ StageInv /\ ToldInv
      BY <2>1 DEF DaemonInit, TasksInv, StageInv, ToldInv, Open
    <2>6. QED
      BY <2>2, <2>3, <2>4, <2>5 DEF DaemonInv
  <1>2. DaemonInv /\ [DaemonNext]_daemonVars => DaemonInv'
    <2> SUFFICES ASSUME DaemonInv, [DaemonNext]_daemonVars PROVE DaemonInv'
      OBVIOUS
    <2>1. CASE DaemonNext
      BY <2>1, ConnectionStep, LoopStep, ShutdownStep DEF DaemonNext
    <2>2. CASE UNCHANGED daemonVars
      BY <2>2, StillKeepsInv
      DEF daemonVars, connection, loop, ending, DaemonInv, DaemonTypeOK,
          TasksInv, StageInv, ToldInv, Live, Open
    <2>3. QED
      BY <2>1, <2>2
  <1>3. QED
    BY <1>1, <1>2, PTL DEF DaemonSpec

\* The variables of the daemon keep their types; there are never more sessions
\* than places.
THEOREM DaemonTypeCorrect == DaemonSpec => []DaemonTypeOK
  BY DaemonInvariant, PTL DEF DaemonInv

\* However handshakes, sessions, aborts and shutdown interleave, the semaphore
\* and ConnectedRouters count exactly the connections that are still there.
THEOREM PlacesCorrect == DaemonSpec => []PlacesAreAccounted
  BY DaemonInvariant, PTL DEF DaemonInv

\* ModemDaemon::shutdown reaches every session and returns with no task left.
THEOREM ShutdownCorrect == DaemonSpec => []ShutdownLeavesNothing
  <1>1. DaemonInv => ShutdownLeavesNothing
    <2> SUFFICES ASSUME DaemonInv PROVE ShutdownLeavesNothing
      OBVIOUS
    <2>1. ASSUME shutdown = "returned"
          PROVE  Live = {} /\ listen = "ended" /\ discovery \in {"none", "ended"}
      <3>1. listen = "ended" /\ discovery \in {"none", "ended"} /\ tasks = {} /\ toJoin = {}
        BY <2>1 DEF DaemonInv, StageInv
      <3>2. \A c \in Live : c # pending
        BY <3>1, ModemDaemonConstants DEF DaemonInv, LoopInv, Live
      <3>3. QED
        BY <3>1, <3>2 DEF DaemonInv, TasksInv
    <2>2. QED
      BY <2>1 DEF DaemonInv, ShutdownLeavesNothing, ToldInv
  <1>2. QED
    BY <1>1, DaemonInvariant, PTL

-----------------------------------------------------------------------------
(* What the start has checked by the time it has reached a stage, as long   *)
(* as the machine is the one --check-config looked at.                      *)

AfterTls == {"tls", "adapter", "driver", "runs"}
AfterAdapter == {"adapter", "driver", "runs"}
AfterBuild == {"driver", "runs"}

Material ==
  IF IsModem THEN server_config(Config.tls, host) ELSE client_config(Config.tls, host)

CheckedSoFar ==
  /\ stage \in AfterTls /\ Config.network.use_tls => Material
  /\ stage \in AfterAdapter /\ IsModem /\ Config.radio # Absent =>
       RadioValid(Config.radio) /\ Config.radio.command \in DOMAIN host.files
  /\ stage \in AfterBuild => BuilderAccepts
  /\ stage = "runs" /\ ~IsModem /\ Config.mode = "Static" => Config.static_peers # {}

\* The verdict is that of the machine as it is.
VerdictInv ==
  /\ verdict = "ok" => Valid
  /\ verdict = "refused" => ~Valid
  /\ verdict # "none" => CheckedSoFar
  /\ stage \in AfterTls \cup {"loaded"} => setup.file # Failed

OutcomeInv ==
  /\ setup = Absent => stage = "none" /\ verdict = "none"
  /\ stage \in AfterTls \cup {"none", "loaded"} => outcome = "none"
  /\ outcome = "ok" => signalled
  /\ stage = "exited" => child # "runs"
  /\ stage = "driver" => ~IsModem

BinaryInv == BinaryTypeOK /\ VerdictInv /\ OutcomeInv /\ CheckAgreesWithStart

-----------------------------------------------------------------------------
(* Steps that look at neither the configuration nor the machine.            *)

\* The configuration and all that is said of it stay as they are.
LEMMA SameConfig ==
  ASSUME setup' = setup, host' = host
  PROVE  /\ IsModem' = IsModem /\ Config' = Config /\ Valid' = Valid
         /\ Material' = Material /\ BuilderAccepts' = BuilderAccepts
  BY DEF IsModem, Config, Valid, Material, BuilderAccepts

\* A step of the adapter, the clock or the signals.
LEMMA OutsideKeeps ==
  ASSUME BinaryInv,
         \/ Signal \/ Deadline \/ UNCHANGED binaryVars
         \/ AdapterExits \/ AdapterBreaks \/ AdapterStalls \/ AdapterReads
  PROVE  BinaryInv'
  <1> USE DEF adapterVars, AdapterStep, AdapterExits, AdapterBreaks, AdapterStalls, AdapterReads
  <1>1. /\ UNCHANGED <<setup, host, verdict, stage, discovers, outcome>>
        /\ signalled => signalled'
        /\ child' # child => child = "runs" /\ child' = "exited"
    BY DEF Signal, Deadline, binaryVars, BinaryInv, BinaryTypeOK
  <1>2. BinaryTypeOK'
    <2>1. /\ child' \in {child, "exited"} /\ output' \in {output, "broken"}
          /\ input' \in {input, "idle", "blocked"} /\ expired' \in {expired, TRUE}
          /\ signalled' \in {signalled, TRUE}
      BY DEF Signal, Deadline, binaryVars
    <2>2. expired' \in BOOLEAN /\ signalled' \in BOOLEAN
      BY <2>1 DEF BinaryInv, BinaryTypeOK
    <2>3. /\ child' \in {"none", "runs", "exited", "killed"}
          /\ output' \in {"open", "broken"} /\ input' \in {"none", "idle", "blocked", "ended"}
      BY <2>1 DEF BinaryInv, BinaryTypeOK
    <2>4. QED
      BY <1>1, <2>2, <2>3 DEF BinaryInv, BinaryTypeOK
  <1>3. VerdictInv' /\ CheckAgreesWithStart'
    BY <1>1, SameConfig, SMTT(30)
    DEF BinaryInv, VerdictInv, CheckedSoFar, CheckAgreesWithStart
  <1>4. OutcomeInv'
    BY <1>1, SameConfig, SMTT(30) DEF BinaryInv, OutcomeInv
  <1>5. QED
    BY <1>2, <1>3, <1>4 DEF BinaryInv

\* Before the start.
LEMMA BeforeKeeps ==
  ASSUME BinaryInv,
         \/ \E s \in Setup, h \in Host : WriteConfig(s, h)
         \/ \E h \in Host : HostChanges(h)
         \/ CheckConfig
  PROVE  BinaryInv'
  <1> USE DEF adapterVars
  <1>1. CASE \E s \in Setup, h \in Host : WriteConfig(s, h)
    <2>1. /\ setup = Absent /\ setup' \in Setup /\ host' \in Host
          /\ UNCHANGED <<verdict, stage, child, output, input, expired, discovers, signalled, outcome>>
      BY <1>1 DEF WriteConfig
    <2>2. stage = "none" /\ verdict = "none"
      BY <2>1 DEF BinaryInv, OutcomeInv
    <2>3. QED
      BY <2>1, <2>2 DEF BinaryInv, BinaryTypeOK, VerdictInv, OutcomeInv, CheckAgreesWithStart, AfterTls
  <1>2. CASE \E h \in Host : HostChanges(h)
    <2>1. /\ setup # Absent /\ stage \in {"none", "loaded", "tls", "adapter"} /\ host' \in Host
          /\ verdict' = "none"
          /\ UNCHANGED <<setup, stage, child, output, input, expired, discovers, signalled, outcome>>
      BY <1>2 DEF HostChanges
    <2>2. QED
      BY <2>1, SMTT(30)
      DEF BinaryInv, BinaryTypeOK, VerdictInv, OutcomeInv,
          CheckAgreesWithStart
  <1>3. CASE CheckConfig
    <2>1. /\ setup # Absent /\ stage = "none"
          /\ verdict' = IF Valid THEN "ok" ELSE "refused"
          /\ UNCHANGED <<setup, host, stage, child, output, input, expired, discovers, signalled,
                         outcome>>
      BY <1>3 DEF CheckConfig
    <2>2. outcome = "none"
      BY <2>1 DEF BinaryInv, OutcomeInv
    <2>3. CheckedSoFar' /\ VerdictInv'
      BY <2>1, SameConfig, SMTT(30)
      DEF CheckedSoFar, VerdictInv, AfterTls, AfterAdapter, AfterBuild
    <2>4. QED
      BY <2>1, <2>2, <2>3 DEF BinaryInv, BinaryTypeOK, OutcomeInv, CheckAgreesWithStart
  <1>4. QED
    BY <1>1, <1>2, <1>3

-----------------------------------------------------------------------------
(* The start.                                                               *)

\* run_from returns with an error: of the configuration only if
\* --check-config would have refused it.
LEMMA LeaveKeeps ==
  ASSUME BinaryInv, NEW why \in {"configuration", "system"}, Leave(why),
         setup # Absent, why = "configuration" => ~Valid,
         UNCHANGED <<setup, host, verdict, signalled>>, discovers' \in BOOLEAN
  PROVE  BinaryInv'
  <1>1. /\ stage' = "exited" /\ outcome' = why /\ child' # "runs"
        /\ child' \in {"none", "exited", "killed"}
        /\ UNCHANGED <<output, input, expired>>
    BY DEF Leave, BinaryInv, BinaryTypeOK
  <1>2. BinaryTypeOK'
    BY <1>1 DEF BinaryInv, BinaryTypeOK
  <1>3. VerdictInv'
    BY <1>1, SameConfig, SMTT(30)
    DEF BinaryInv, VerdictInv, CheckedSoFar, AfterTls, AfterAdapter,
        AfterBuild
  <1>4. OutcomeInv'
    BY <1>1 DEF BinaryInv, OutcomeInv, AfterTls
  <1>5. CheckAgreesWithStart'
    BY <1>1 DEF BinaryInv, VerdictInv, CheckAgreesWithStart
  <1>6. QED
    BY <1>2, <1>3, <1>4, <1>5 DEF BinaryInv

\* A step of the start that succeeds.
LEMMA GoKeeps ==
  ASSUME BinaryInv, setup # Absent, setup.file # Failed, outcome = "none",
         stage' \in {"loaded", "tls", "adapter", "driver", "runs"}, outcome' = outcome,
         UNCHANGED <<setup, host, verdict, output, expired, signalled>>, discovers' \in BOOLEAN,
         child' \in {"none", "runs", "exited", "killed"},
         input' \in {"none", "idle", "blocked", "ended"},
         verdict # "none" => CheckedSoFar',
         stage' = "runs" /\ IsModem /\ Config.network.interface # Absent => discovers',
         stage' = "runs" /\ verdict # "none" => Valid,
         stage' = "driver" => ~IsModem
  PROVE  BinaryInv'
  <1>1. BinaryTypeOK' /\ OutcomeInv'
    BY SameConfig, SMTT(30) DEF BinaryInv, BinaryTypeOK, OutcomeInv
  <1>2. VerdictInv'
    BY SameConfig, SMTT(30) DEF BinaryInv, VerdictInv
  <1>3. CheckAgreesWithStart'
    BY SameConfig, SMTT(30) DEF BinaryInv, VerdictInv, CheckAgreesWithStart
  <1>4. QED
    BY <1>1, <1>2, <1>3 DEF BinaryInv

\* A start reads the configuration or fails, and has checked nothing else yet.
LEMMA LaunchKeeps ==
  ASSUME BinaryInv, Launch
  PROVE  BinaryInv'
  <1> USE DEF adapterVars
  <1>1. /\ setup # Absent /\ stage = "none" /\ outcome = "none"
        /\ UNCHANGED <<setup, host, verdict, discovers, signalled>>
        /\ discovers \in BOOLEAN
    BY DEF Launch, BinaryInv, OutcomeInv, BinaryTypeOK
  <1>2. CASE setup.file = Failed
    BY <1>1, <1>2, LeaveKeeps DEF Launch, Valid
  <1>3. CASE setup.file # Failed
    <2>1. Go("loaded")
      BY <1>3 DEF Launch
    <2>2. CheckedSoFar'
      BY <2>1 DEF Go, CheckedSoFar, AfterTls, AfterAdapter, AfterBuild
    <2>3. QED
      BY <1>1, <1>3, <2>1, <2>2, GoKeeps DEF Go, BinaryInv, BinaryTypeOK
  <1>4. QED
    BY <1>2, <1>3

\* The start passes the TLS stage only with the material the check asked for.
LEMMA BuildTlsKeeps ==
  ASSUME BinaryInv, BuildTls
  PROVE  BinaryInv'
  <1> USE DEF adapterVars
  <1>1. /\ stage = "loaded" /\ setup # Absent /\ setup.file # Failed /\ outcome = "none"
        /\ UNCHANGED <<setup, host, verdict, discovers, signalled>>
        /\ discovers \in BOOLEAN
    BY DEF BuildTls, BinaryInv, VerdictInv, OutcomeInv, BinaryTypeOK
  <1>2. IF Config.network.use_tls /\ ~Material THEN Leave("configuration") ELSE Go("tls")
    BY DEF BuildTls, Material
  <1>3. CASE Config.network.use_tls /\ ~Material
    <2>1. ~Valid
      BY <1>3 DEF Valid, Material, check_modem_config, check_router_config
    <2>2. QED
      BY <1>1, <1>2, <1>3, <2>1, LeaveKeeps
  <1>4. CASE ~(Config.network.use_tls /\ ~Material)
    <2>1. Go("tls")
      BY <1>2, <1>4
    <2>2. CheckedSoFar'
      BY <1>1, <1>4, <2>1, SameConfig DEF Go, CheckedSoFar, AfterTls, AfterAdapter, AfterBuild
    <2>3. QED
      BY <1>1, <2>1, <2>2, GoKeeps DEF Go, BinaryInv, BinaryTypeOK
  <1>5. QED
    BY <1>3, <1>4

\* Adapter::spawn succeeds only for a modem's valid radio section, and fails by
\* itself only for a reason the check tests or the system's.
LEMMA SpawnAdapterKeeps ==
  ASSUME BinaryInv, SpawnAdapter
  PROVE  BinaryInv'
  <1> USE DEF adapterVars
  <1>1. /\ stage = "tls" /\ setup # Absent /\ setup.file # Failed /\ outcome = "none"
        /\ UNCHANGED <<setup, host, verdict, discovers, signalled>>
        /\ discovers \in BOOLEAN
        /\ verdict # "none" /\ Config.network.use_tls => Material
    BY DEF SpawnAdapter, BinaryInv, VerdictInv, OutcomeInv, BinaryTypeOK, CheckedSoFar, AfterTls
  <1> DEFINE radio == Config.radio
  <1>2. CASE ~IsModem \/ radio = Absent
    <2>1. Go("adapter")
      BY <1>2 DEF SpawnAdapter
    <2>2. verdict # "none" => CheckedSoFar'
      BY <1>1, <1>2, <2>1, SameConfig DEF Go, CheckedSoFar, AfterBuild
    <2>3. QED
      BY <1>1, <2>1, <2>2, GoKeeps DEF Go, BinaryInv, BinaryTypeOK
  <1>3. CASE IsModem /\ radio # Absent /\ ~RadioValid(radio)
    <2>1. Leave("configuration")
      BY <1>3 DEF SpawnAdapter
    <2>2. ~Valid
      BY <1>3 DEF Valid, check_modem_config
    <2>3. QED
      BY <1>1, <2>1, <2>2, LeaveKeeps
  <1>4. CASE IsModem /\ radio # Absent /\ RadioValid(radio)
    <2>1. \/ Leave(IF radio.command \in DOMAIN host.files THEN "system" ELSE "configuration")
          \/ /\ Holds(radio.command, "program", host)
             /\ stage' = "adapter" /\ child' = "runs" /\ input' = "idle"
             /\ UNCHANGED <<output, expired, outcome>>
      BY <1>4 DEF SpawnAdapter
    <2>2. CASE Leave(IF radio.command \in DOMAIN host.files THEN "system" ELSE "configuration")
      <3>1. radio.command \notin DOMAIN host.files => ~Valid
        BY <1>4 DEF Valid, check_modem_config
      <3>2. QED
        BY <1>1, <2>2, <3>1, LeaveKeeps
    <2>3. CASE /\ Holds(radio.command, "program", host)
               /\ stage' = "adapter" /\ child' = "runs" /\ input' = "idle"
               /\ UNCHANGED <<output, expired, outcome>>
      <3>1. verdict # "none" => CheckedSoFar'
        BY <1>1, <1>4, <2>3, SameConfig DEF Holds, CheckedSoFar, AfterBuild
      <3>2. QED
        BY <1>1, <2>3, <3>1, GoKeeps
    <2>4. QED
      BY <2>1, <2>2, <2>3
  <1>5. QED
    BY <1>2, <1>3, <1>4

\* A configuration that passed the check is refused by no builder.
LEMMA SpawnDaemonKeeps ==
  ASSUME BinaryInv, SpawnDaemon
  PROVE  BinaryInv'
  <1> USE DEF adapterVars
  <1>1. /\ stage = "adapter" /\ setup # Absent /\ setup.file # Failed /\ outcome = "none"
        /\ UNCHANGED <<setup, host, verdict, signalled>>
        /\ discovers' \in BOOLEAN
        /\ verdict # "none" => CheckedSoFar
    BY DEF SpawnDaemon, BinaryInv, VerdictInv, OutcomeInv, BinaryTypeOK,
           AfterTls
  <1>2. CASE ~BuilderAccepts /\ Leave("configuration")
    <2>1. ~Valid
      BY <1>2 DEF Valid, BuilderAccepts, check_modem_config, check_router_config
    <2>2. QED
      BY <1>1, <1>2, <2>1, LeaveKeeps
  <1>3. CASE Leave("system")
    BY <1>1, <1>3, LeaveKeeps
  <1>4. CASE /\ BuilderAccepts /\ IsModem /\ Go("runs")
             /\ Config.network.interface = Absent \/ discovers' = TRUE
    <2>1. verdict # "none" => CheckedSoFar' /\ Valid
      BY <1>1, <1>4, SameConfig
      DEF Go, CheckedSoFar, AfterTls, AfterAdapter, AfterBuild, Valid, Material,
          BuilderAccepts, check_modem_config
    <2>2. QED
      BY <1>1, <1>4, <2>1, GoKeeps DEF Go, BinaryInv, BinaryTypeOK
  <1>5. CASE BuilderAccepts /\ ~IsModem /\ Go("driver")
    <2>1. verdict # "none" => CheckedSoFar'
      BY <1>1, <1>5, SameConfig DEF Go, CheckedSoFar, AfterTls, AfterAdapter, AfterBuild
    <2>2. QED
      BY <1>1, <1>5, <2>1, GoKeeps DEF Go, BinaryInv, BinaryTypeOK
  <1>6. QED
    BY <1>2, <1>3, <1>4, <1>5 DEF SpawnDaemon

-----------------------------------------------------------------------------
(* The end.                                                                 *)

\* A step towards the end, or the end, with the outcome it is for.
LEMMA StopKeeps ==
  ASSUME BinaryInv, setup # Absent,
         stage' \in {"stopping", "stopWriter", "stopChild", "exited"},
         UNCHANGED <<setup, host, verdict, output, expired, signalled>>,
         discovers' \in BOOLEAN,
         child' \in {"none", "runs", "exited", "killed"},
         input' \in {"none", "idle", "blocked", "ended"},
         stage' = "exited" => child' # "runs",
         outcome' \in {"none", "ok", "configuration", "system", "adapter"},
         outcome' = "ok" => signalled,
         verdict = "ok" => outcome' # "configuration"
  PROVE  BinaryInv'
  <1>1. BinaryTypeOK' /\ OutcomeInv'
    BY DEF BinaryInv, BinaryTypeOK, OutcomeInv, AfterTls
  <1>2. VerdictInv'
    BY SameConfig, SMTT(30)
    DEF BinaryInv, VerdictInv, CheckedSoFar, AfterTls, AfterAdapter,
        AfterBuild
  <1>3. CheckAgreesWithStart'
    BY DEF CheckAgreesWithStart
  <1>4. QED
    BY <1>1, <1>2, <1>3 DEF BinaryInv

\* The router's driver runs, or its start ends for the system's reasons only, as
\* long as the configuration passed the check.
LEMMA StartDriverKeeps ==
  ASSUME BinaryInv, StartDriver
  PROVE  BinaryInv'
  <1> USE DEF adapterVars
  <1> DEFINE Stops(why) == /\ stage' = "stopping" /\ outcome' = why
                           /\ UNCHANGED <<child, output, input, expired, discovers>>
  <1>1. /\ stage = "driver" /\ setup # Absent /\ setup.file # Failed /\ outcome = "none"
        /\ UNCHANGED <<setup, host, verdict, signalled>>
        /\ verdict # "none" => CheckedSoFar
        /\ discovers \in BOOLEAN
    BY DEF StartDriver, BinaryInv, VerdictInv, OutcomeInv, BinaryTypeOK, AfterTls
  <1>2. \/ signalled /\ Stops("ok")
        \/ Config.mode = "Static" /\ Config.static_peers = {} /\ Stops("configuration")
        \/ Config.mode = "Static" /\ Config.static_peers # {} /\ Go("runs") /\ discovers' = discovers
        \/ Config.mode # "Static" /\ Stops("system")
        \/ Config.mode # "Static" /\ Go("runs") /\ discovers' = TRUE
    BY DEF StartDriver
  <1>3. ~IsModem
    BY <1>1 DEF BinaryInv, OutcomeInv
  <1>4. CASE signalled /\ Stops("ok")
    BY <1>1, <1>4, StopKeeps DEF BinaryInv, BinaryTypeOK
  <1>5. CASE Config.mode = "Static" /\ Config.static_peers = {} /\ Stops("configuration")
    <2>1. ~Valid
      BY <1>3, <1>5 DEF Valid, check_router_config
    <2>2. verdict # "ok"
      BY <2>1 DEF BinaryInv, VerdictInv
    <2>3. QED
      BY <1>1, <1>5, <2>2, StopKeeps DEF BinaryInv, BinaryTypeOK
  <1>6. CASE Config.mode # "Static" /\ Stops("system")
    BY <1>1, <1>6, StopKeeps DEF BinaryInv, BinaryTypeOK
  <1>7. CASE /\ Config.mode # "Static" \/ Config.static_peers # {}
             /\ Go("runs") /\ discovers' \in {discovers, TRUE}
    <2>1. verdict # "none" => CheckedSoFar'
      BY <1>1, <1>3, <1>7, SameConfig DEF Go, CheckedSoFar, AfterTls, AfterAdapter, AfterBuild
    <2>2. verdict # "none" => Valid
      BY <1>1, <1>3, <1>7
      DEF CheckedSoFar, AfterTls, AfterBuild, Valid, Material, BuilderAccepts, check_router_config
    <2>3. QED
      BY <1>1, <1>3, <1>7, <2>1, <2>2, GoKeeps DEF Go, BinaryInv, BinaryTypeOK
  <1>8. QED
    BY <1>2, <1>4, <1>5, <1>6, <1>7

\* From the event loop to the exit.
LEMMA EndKeeps ==
  ASSUME BinaryInv,
         SeeSignal \/ SeeFailure \/ DaemonShutdown \/ StopWriter \/ StopChild
  PROVE  BinaryInv'
  <1> USE DEF adapterVars
  <1>1. /\ stage \in {"runs", "stopping", "stopWriter", "stopChild"} /\ setup # Absent
        /\ stage' \in {"stopping", "stopWriter", "stopChild", "exited"}
        /\ UNCHANGED <<setup, host, verdict, output, expired, signalled, discovers>>
        /\ stage' = "exited" => child' # "runs"
        /\ child' \in {child, "killed"} /\ input' \in {input, "ended"}
        /\ outcome' \in {outcome, "ok", "adapter"}
        /\ outcome' = "ok" => outcome = "ok" \/ signalled
    BY DEF SeeSignal, SeeFailure, DaemonShutdown, StopWriter, StopChild, Leave, Go,
           BinaryInv, OutcomeInv
  <1>2. /\ outcome' \in {"none", "ok", "configuration", "system", "adapter"}
        /\ outcome' = "ok" => signalled
        /\ verdict = "ok" => outcome' # "configuration"
        /\ discovers' \in BOOLEAN
        /\ child' \in {"none", "runs", "exited", "killed"}
        /\ input' \in {"none", "idle", "blocked", "ended"}
    BY <1>1 DEF BinaryInv, BinaryTypeOK, OutcomeInv, CheckAgreesWithStart
  <1>3. QED
    BY <1>1, <1>2, StopKeeps

-----------------------------------------------------------------------------
\* BinaryInv holds in every behaviour of both programs.
LEMMA BinaryInvCorrect == BinarySpec => []BinaryInv
  <1>1. BinaryInit => BinaryInv
    BY DEF BinaryInit, BinaryInv, BinaryTypeOK, VerdictInv, OutcomeInv,
           CheckAgreesWithStart, AfterTls
  <1>2. BinaryInv /\ [BinaryNext]_binaryVars => BinaryInv'
    BY OutsideKeeps, BeforeKeeps, LaunchKeeps, BuildTlsKeeps, SpawnAdapterKeeps,
       SpawnDaemonKeeps, StartDriverKeeps, EndKeeps
    DEF BinaryNext, BinaryStep
  <1>3. QED
    BY <1>1, <1>2, PTL DEF BinarySpec

\* For every configuration, command line and machine, --check-config and the
\* start of either program agree, and a modem that runs discovers on the
\* interface it was given (CheckAgreesWithStart).
THEOREM CheckAgreesCorrect == BinarySpec => []CheckAgreesWithStart
  BY BinaryInvCorrect, PTL DEF BinaryInv

\* However either program ends, its adapter does not outlive it, and it reports
\* success only if it was asked to stop (ExitsLeaveNothing).
THEOREM ExitsCorrect == BinarySpec => []ExitsLeaveNothing
  <1>1. BinaryInv => ExitsLeaveNothing
    BY DEF BinaryInv, OutcomeInv, ExitsLeaveNothing
  <1>2. QED
    BY <1>1, BinaryInvCorrect, PTL

(***************************************************************************)
(* Proofs about TimerSet, for any timers, channel capacity and number of   *)
(* arms: its invariants, and that it implements SessionTimers.             *)
(***************************************************************************)

-----------------------------------------------------------------------------
(* Counting the occurrences of a value in a sequence.                       *)

\* A sequence has finitely many positions of a value.
LEMMA CountType ==
  ASSUME NEW S, NEW seq \in Seq(S), NEW x
  PROVE  /\ IsFiniteSet(Positions(seq, x))
         /\ Cardinality(Positions(seq, x)) \in Nat
  <1>1. IsFiniteSet(1..Len(seq))
    BY FS_Interval, SMTT(30)
  <1>2. Positions(seq, x) \in SUBSET (1..Len(seq))
    BY SMTT(30) DEF Positions
  <1>3. QED
    BY <1>1, <1>2, FS_Subset, FS_CardinalityType

\* Appending a value adds one occurrence of it and of no other.
LEMMA CountAppend ==
  ASSUME NEW S, NEW seq \in Seq(S), NEW y \in S, NEW x
  PROVE  Cardinality(Positions(Append(seq, y), x))
           = Cardinality(Positions(seq, x)) + (IF x = y THEN 1 ELSE 0)
  <1>1. IsFiniteSet(Positions(seq, x)) /\ Cardinality(Positions(seq, x)) \in Nat
    BY CountType
  <1>2. Len(seq) + 1 \notin Positions(seq, x)
    BY SMTT(30) DEF Positions
  <1>3. CASE x = y
    <2>1. Positions(Append(seq, y), x) = Positions(seq, x) \cup {Len(seq) + 1}
      BY <1>3, SMTT(30) DEF Positions
    <2>2. QED
      BY <1>1, <1>2, <1>3, <2>1, FS_AddElement
  <1>4. CASE x # y
    <2>1. Positions(Append(seq, y), x) = Positions(seq, x)
      BY <1>4, SMTT(30) DEF Positions
    <2>2. QED
      BY <1>1, <1>4, <2>1, SMTT(30)
  <1>5. QED
    BY <1>3, <1>4

\* Dropping the head removes one occurrence of it and of no other: the
\* positions after the first move down by one.
LEMMA CountTail ==
  ASSUME NEW S, NEW seq \in Seq(S), seq # <<>>, NEW x
  PROVE  Cardinality(Positions(seq, x))
           = Cardinality(Positions(Tail(seq), x)) + (IF x = Head(seq) THEN 1 ELSE 0)
  <1> DEFINE Later == Positions(seq, x) \ {1}
             Down == [i \in Later |-> i - 1]
  <1>1. /\ IsFiniteSet(Positions(seq, x)) /\ Cardinality(Positions(seq, x)) \in Nat
        /\ Cardinality(Positions(Tail(seq), x)) \in Nat
    <2>1. Tail(seq) \in Seq(S)
      BY SMTT(30)
    <2>2. QED
      BY <2>1, CountType
  <1>2. Down \in Bijection(Later, Positions(Tail(seq), x))
    <2>1. /\ DOMAIN seq = 1..Len(seq) /\ DOMAIN Tail(seq) = 1..(Len(seq) - 1)
          /\ Len(seq) \in Nat \ {0}
          /\ \A i \in 1..(Len(seq) - 1) : Tail(seq)[i] = seq[i + 1]
      BY SMTT(30)
    <2>2. Down \in [Later -> Positions(Tail(seq), x)]
      <3>1. ASSUME NEW i \in Later
            PROVE  i - 1 \in Positions(Tail(seq), x)
        BY <2>1, SMTT(30) DEF Positions
      <3>2. QED
        BY <3>1
    <2>3. \A i, j \in Later : Down[i] = Down[j] => i = j
      BY <2>1, SMTT(30) DEF Positions
    <2>4. ASSUME NEW k \in Positions(Tail(seq), x)
          PROVE  \E i \in Later : Down[i] = k
      <3>1. k + 1 \in Later /\ Down[k + 1] = k
        BY <2>1, SMTT(30) DEF Positions
      <3>2. QED
        BY <3>1
    <2>5. DOMAIN Down = Later
      OBVIOUS
    <2> HIDE DEF Later, Down
    <2>6. QED
      BY <2>2, <2>3, <2>4, <2>5 DEF Bijection, Injection, Surjection, IsInjective
  <1>3. IsFiniteSet(Later) /\ Cardinality(Later) = Cardinality(Positions(Tail(seq), x))
    BY <1>1, <1>2, FS_RemoveElement, FS_Bijection, SMTT(30)
    DEF ExistsBijection
  <1>4. 1 \in Positions(seq, x) <=> x = Head(seq)
    BY SMTT(30) DEF Positions
  <1>5. QED
    BY <1>1, <1>3, <1>4, FS_RemoveElement, SMTT(30)

-----------------------------------------------------------------------------
(* The inductive invariant.                                                 *)

\* No task, expiry or entry has a generation its timer has not reached, so the
\* generation of the next arm is new.
GenerationsAreOld ==
  /\ \A id \in TimerId : handles[id] <= last_generations[id]
  /\ \A task \in ringing : task[2] <= last_generations[task[1]]
  /\ \A i \in DOMAIN expiries : expiries[i][2] <= last_generations[expiries[i][1]]

\* A periodic timer's task runs as long as its entry is there; no task both
\* sleeps and rings, and none rings after the session.
PeriodicTasksLive ==
  /\ \A id \in Periodic : handles[id] # 0 => Current(id) \in sleeping \cup ringing
  /\ sleeping \cap ringing = {}
  /\ ringing # {} => running

TimerInv ==
  /\ TimerSetTypeOK
  /\ NoOrphanTask
  /\ OneShotsRingOnce
  /\ GenerationsAreOld
  /\ PeriodicTasksLive

\* The task a new arm spawns has rung nowhere.
LEMMA NewTaskIsFresh ==
  ASSUME TimerInv, NEW id \in TimerId
  PROVE  LET task == <<id, next_generation_for(id)>>
         IN  task \notin ringing /\ QueuedExpiries(task) = 0
  <1> DEFINE task == <<id, next_generation_for(id)>>
  <1>1. task \notin ringing
    BY SMTT(30)
    DEF TimerInv, GenerationsAreOld, TimerSetTypeOK, next_generation_for
  <1>2. Positions(expiries, task) = {}
    BY SMTT(30)
    DEF TimerInv, GenerationsAreOld, TimerSetTypeOK, next_generation_for,
        Positions
  <1>3. QED
    BY <1>1, <1>2, FS_EmptySet DEF QueuedExpiries

\* The invariant holds when the session task starts.
LEMMA InitTimers == TimerSetInit => TimerInv
  BY TimerSetConstants, SMTT(30)
  DEF TimerSetInit, TimerInv, TimerSetTypeOK, NoOrphanTask, OneShotsRingOnce,
      GenerationsAreOld, PeriodicTasksLive

-----------------------------------------------------------------------------
(* One lemma per action: the invariant is kept, and what the state machine  *)
(* can see of the timers changes as SessionTimers says.                     *)

\* The number of reports due is a natural number.
LEMMA DueType ==
  ASSUME TimerInv
  PROVE  /\ \A task : QueuedExpiries(task) \in Nat /\ Ringing(task) \in {0, 1}
         /\ \A id \in TimerId : Due(id) \in Nat
  <1>1. \A task : QueuedExpiries(task) \in Nat
    BY CountType DEF TimerInv, TimerSetTypeOK, QueuedExpiries
  <1>2. \A task : Ringing(task) \in {0, 1}
    BY DEF Ringing
  <1>3. QED
    BY <1>1, <1>2, SMTT(30) DEF Due

\* A start: the new task has nothing due, and other timers are not touched.
LEMMA StartStep ==
  ASSUME TimerInv, NEW id \in TimerId, StartTimer(id)
  PROVE  /\ TimerInv'
         /\ Armed' = Armed \cup {id}
         /\ Due(id)' = 0 /\ \A n \in TimerId \ {id} : Due(n)' = Due(n)
  <1> DEFINE g == next_generation_for(id)
             task == <<id, g>>
  <1>1. /\ g \in Generation /\ last_generations[id] < g
        /\ handles'[id] = g /\ last_generations'[id] = g
        /\ \A n \in TimerId \ {id} : /\ handles'[n] = handles[n]
                                     /\ last_generations'[n] = last_generations[n]
        /\ expiries' = expiries /\ running' = running /\ running
        /\ sleeping' = (sleeping \ Entry(id)) \cup {task}
        /\ ringing' \in {ringing, ringing \ Entry(id)}
    BY SMTT(30)
    DEF StartTimer, TimerInv, TimerSetTypeOK, next_generation_for, Generation
  <1>2. task \notin ringing /\ QueuedExpiries(task) = 0
    BY NewTaskIsFresh
  <1>3. TimerSetTypeOK'
    BY <1>1, SMTT(30)
    DEF StartTimer, TimerInv, TimerSetTypeOK, Generation, Task
  <1>4. \A n \in TimerId \ {id} :
          /\ Current(n)' = Current(n)
          /\ Current(n) \in sleeping' <=> Current(n) \in sleeping
          /\ Current(n) \in ringing' <=> Current(n) \in ringing
    BY <1>1 DEF Current, Entry
  <1>5. /\ Current(id)' = task /\ task \in sleeping' /\ task \notin ringing'
    BY <1>1, <1>2 DEF Current
  <1>6. Due(id)' = 0
    BY <1>1, <1>2, <1>5, SMTT(30) DEF Due, QueuedExpiries, Ringing
  <1>7. \A n \in TimerId \ {id} : Due(n)' = Due(n)
    BY <1>1, <1>4 DEF Due, QueuedExpiries, Ringing
  <1>8. NoOrphanTask'
    <2> SUFFICES ASSUME NEW t \in sleeping'
                 PROVE  running' /\ handles'[t[1]] = t[2]
      BY DEF NoOrphanTask
    <2>1. CASE t = task
      BY <1>1, <2>1
    <2>2. CASE t \in sleeping \ Entry(id)
      <3>1. t \in Task /\ handles[t[1]] = t[2]
        BY <2>2 DEF TimerInv, NoOrphanTask, TimerSetTypeOK
      <3>2. t[1] # id
        BY <2>2, <3>1, SMTT(30) DEF Entry, Task
      <3>3. QED
        BY <1>1, <3>1, <3>2 DEF Task
    <2>3. QED
      BY <1>1, <2>1, <2>2
  <1>9. OneShotsRingOnce'
    BY <1>1, <1>4, <1>5, <1>6, <1>7 DEF OneShotsRingOnce, TimerInv
  <1>10. GenerationsAreOld'
    <2>1. \A n \in TimerId : handles'[n] <= last_generations'[n]
      BY <1>1, SMTT(30) DEF TimerInv, GenerationsAreOld, Generation
    <2>2. \A n \in TimerId : last_generations[n] <= last_generations'[n]
      BY <1>1, SMTT(30) DEF TimerInv, TimerSetTypeOK, Generation
    <2>3. \A t \in ringing' : t[2] <= last_generations'[t[1]]
      BY <1>1, <1>3, <2>2, SMTT(30)
      DEF TimerInv, GenerationsAreOld, TimerSetTypeOK, Task, Generation
    <2>4. ASSUME NEW i \in DOMAIN expiries
          PROVE  expiries[i][2] <= last_generations'[expiries[i][1]]
      <3>1. expiries[i] \in Task
        BY SMTT(30) DEF TimerInv, TimerSetTypeOK
      <3>2. QED
        BY <1>3, <2>2, <3>1, SMTT(30)
        DEF TimerInv, GenerationsAreOld, TimerSetTypeOK, Task, Generation
    <2>5. QED
      BY <1>1, <2>1, <2>3, <2>4 DEF GenerationsAreOld
  <1>11. PeriodicTasksLive'
    <2>1. \A n \in Periodic : handles'[n] # 0 => Current(n)' \in sleeping' \cup ringing'
      BY <1>1, <1>4, <1>5, TimerSetConstants DEF TimerInv, PeriodicTasksLive
    <2>2. sleeping' \cap ringing' = {}
      BY <1>1, <1>5 DEF TimerInv, PeriodicTasksLive
    <2>3. QED
      BY <1>1, <2>1, <2>2 DEF PeriodicTasksLive
  <1>12. Armed' = Armed \cup {id}
    BY <1>1, SMTT(30) DEF Armed, Generation
  <1>13. QED
    BY <1>3, <1>6, <1>7, <1>8, <1>9, <1>10, <1>11, <1>12 DEF TimerInv

\* A cancel: the timer has no entry any more, whatever its task still does.
LEMMA CancelStep ==
  ASSUME TimerInv, NEW id \in TimerId, CancelTimer(id)
  PROVE  /\ TimerInv'
         /\ Armed' = Armed \ {id}
         /\ Due(id)' = 0 /\ \A n \in TimerId \ {id} : Due(n)' = Due(n)
  <1>1. /\ handles'[id] = 0
        /\ \A n \in TimerId \ {id} : handles'[n] = handles[n]
        /\ UNCHANGED <<last_generations, expiries, running>> /\ running
        /\ sleeping' = sleeping \ Entry(id)
        /\ ringing' \in {ringing, ringing \ Entry(id)}
    BY DEF CancelTimer, Abort, TimerInv, TimerSetTypeOK
  <1>2. TimerSetTypeOK'
    BY <1>1, TimerSetConstants, SMTT(30)
    DEF CancelTimer, TimerInv, TimerSetTypeOK
  <1>3. \A n \in TimerId \ {id} :
          /\ Current(n)' = Current(n)
          /\ Current(n) \in sleeping' <=> Current(n) \in sleeping
          /\ Current(n) \in ringing' <=> Current(n) \in ringing
    BY <1>1 DEF Current, Entry
  <1>4. Due(id)' = 0 /\ \A n \in TimerId \ {id} : Due(n)' = Due(n)
    BY <1>1, <1>3 DEF Due, QueuedExpiries, Ringing
  <1>5. NoOrphanTask'
    <2> SUFFICES ASSUME NEW t \in sleeping'
                 PROVE  running' /\ handles'[t[1]] = t[2]
      BY DEF NoOrphanTask
    <2>1. t \in sleeping \ Entry(id) /\ t \in Task /\ handles[t[1]] = t[2]
      BY <1>1 DEF TimerInv, NoOrphanTask, TimerSetTypeOK
    <2>2. t[1] # id
      BY <2>1, SMTT(30) DEF Entry, Task
    <2>3. QED
      BY <1>1, <2>1, <2>2 DEF Task
  <1>6. OneShotsRingOnce'
    BY <1>1, <1>3, <1>4 DEF OneShotsRingOnce, TimerInv
  <1>7. GenerationsAreOld'
    <2>1. \A n \in TimerId : handles'[n] <= last_generations[n]
      BY <1>1, SMTT(30) DEF TimerInv, GenerationsAreOld, TimerSetTypeOK
    <2>2. \A t \in ringing' : t[2] <= last_generations[t[1]]
      BY <1>1 DEF TimerInv, GenerationsAreOld
    <2>3. QED
      BY <1>1, <2>1, <2>2 DEF TimerInv, GenerationsAreOld
  <1>8. PeriodicTasksLive'
    BY <1>1, <1>3, TimerSetConstants DEF TimerInv, PeriodicTasksLive
  <1>9. Armed' = Armed \ {id}
    BY <1>1 DEF Armed
  <1>10. QED
    BY <1>2, <1>4, <1>5, <1>6, <1>7, <1>8, <1>9 DEF TimerInv

\* The session task takes the head of the channel: one occurrence less of it.
LEMMA HeadTaken ==
  ASSUME TimerInv, expiries # <<>>, expiries' = Tail(expiries)
  PROVE  /\ Head(expiries) \in Task
         /\ expiries' \in Seq(Task) /\ Len(expiries') <= ExpiryCapacity
         /\ \A task :
              /\ Cardinality(Positions(expiries', task)) \in Nat
              /\ QueuedExpiries(task) = Cardinality(Positions(expiries', task))
                                  + (IF task = Head(expiries) THEN 1 ELSE 0)
         /\ GenerationsAreOld =>
              \A i \in DOMAIN expiries' :
                expiries'[i][2] <= last_generations[expiries'[i][1]]
  <1>1. expiries \in Seq(Task) /\ Len(expiries) <= ExpiryCapacity
    BY DEF TimerInv, TimerSetTypeOK
  <1>2. /\ Head(expiries) \in Task /\ expiries' \in Seq(Task) /\ Len(expiries') <= ExpiryCapacity
        /\ \A i \in DOMAIN expiries' : i + 1 \in DOMAIN expiries /\ expiries'[i] = expiries[i + 1]
    BY <1>1, TimerSetConstants, SMTT(30)
  <1>3. \A task : QueuedExpiries(task) = Cardinality(Positions(expiries', task))
                                  + (IF task = Head(expiries) THEN 1 ELSE 0)
    BY <1>1, CountTail DEF QueuedExpiries
  <1>4. \A task : Cardinality(Positions(expiries', task)) \in Nat
    BY <1>2, CountType
  <1>5. QED
    BY <1>2, <1>3, <1>4 DEF GenerationsAreOld

\* A stale expiry is discarded: nothing that is due changes.
LEMMA DiscardStep ==
  ASSUME TimerInv, DiscardExpiry
  PROVE  /\ TimerInv'
         /\ Armed' = Armed /\ \A n \in TimerId : Due(n)' = Due(n)
  <1>1. /\ UNCHANGED <<handles, last_generations, sleeping, ringing, running>>
        /\ expiries # <<>> /\ expiries' = Tail(expiries)
    BY DEF DiscardExpiry
  <1>2. \A n \in TimerId : Head(expiries) # Current(n)
    BY SMTT(30) DEF DiscardExpiry, is_current_generation, Current
  <1>3. \A n \in TimerId : QueuedExpiries(Current(n))' = QueuedExpiries(Current(n))
    <2> TAKE n \in TimerId
    <2>1. QueuedExpiries(Current(n))' = Cardinality(Positions(expiries', Current(n)))
      BY <1>1 DEF Current, QueuedExpiries, Positions
    <2>2. QED
      BY <1>1, <1>2, <2>1, HeadTaken, SMTT(30)
  <1>4. \A n \in TimerId : Due(n)' = Due(n)
    BY <1>1, <1>3 DEF Due, Ringing, Current
  <1>5. TimerSetTypeOK' /\ GenerationsAreOld'
    BY <1>1, HeadTaken DEF TimerInv, TimerSetTypeOK, GenerationsAreOld
  <1>6. NoOrphanTask' /\ OneShotsRingOnce' /\ PeriodicTasksLive'
    BY <1>1, <1>4 DEF TimerInv, NoOrphanTask, OneShotsRingOnce, PeriodicTasksLive, Current
  <1>7. QED
    BY <1>1, <1>4, <1>5, <1>6 DEF TimerInv, Armed

\* A current expiry is reported: one less is due, and a one-shot timer, which
\* had only this one due and no task asleep, has no entry any more.
LEMMA ExpiredStep ==
  ASSUME TimerInv, NEW id \in TimerId, TimerExpired(id)
  PROVE  /\ TimerInv'
         /\ id \in Armed /\ Due(id) > 0
         /\ Armed' = (IF id \in Periodic THEN Armed ELSE Armed \ {id})
         /\ Due(id)' = Due(id) - 1 /\ \A n \in TimerId \ {id} : Due(n)' = Due(n)
  <1>1. /\ UNCHANGED <<last_generations, sleeping, ringing, running>>
        /\ expiries # <<>> /\ expiries' = Tail(expiries)
        /\ handles' = forget(id) /\ running
    BY DEF TimerExpired
  <1>2. Head(expiries) = Current(id) /\ handles[id] # 0
    BY <1>1, HeadTaken, SMTT(30)
    DEF TimerExpired, is_current_generation, Current, Task, Generation
  <1>3. /\ \A n \in TimerId \ {id} : handles'[n] = handles[n]
        /\ id \in Periodic => handles' = handles
        /\ id \notin Periodic => handles'[id] = 0
        /\ handles' \in [TimerId -> 0..MaxGeneration]
    BY <1>1, TimerSetConstants, SMTT(30) DEF forget, TimerInv, TimerSetTypeOK
  <1>4. \A n \in TimerId \ {id} : Due(n)' = Due(n)
    <2> TAKE n \in TimerId \ {id}
    <2>1. Current(n)' = Current(n) /\ Current(n) # Head(expiries)
      BY <1>2, <1>3, SMTT(30) DEF Current
    <2>2. QueuedExpiries(Current(n))' = Cardinality(Positions(expiries', Current(n)))
      BY <2>1 DEF QueuedExpiries, Positions
    <2>3. QueuedExpiries(Current(n))' = QueuedExpiries(Current(n))
      BY <1>1, <2>1, <2>2, HeadTaken, SMTT(30)
    <2>4. QED
      BY <1>1, <1>3, <2>1, <2>3 DEF Due, Ringing
  <1>5. /\ QueuedExpiries(Current(id)) = Cardinality(Positions(expiries', Current(id))) + 1
        /\ Cardinality(Positions(expiries', Current(id))) \in Nat
    BY <1>1, <1>2, HeadTaken
  <1>6. Due(id) > 0
    BY <1>2, <1>5, DueType, SMTT(30) DEF Due
  <1>7. CASE id \in Periodic
    <2>1. UNCHANGED handles
      BY <1>3, <1>7
    <2>2. Due(id)' = Due(id) - 1
      <3>1. QueuedExpiries(Current(id))' = Cardinality(Positions(expiries', Current(id)))
        BY <2>1 DEF Current, QueuedExpiries, Positions
      <3>2. Ringing(Current(id))' = Ringing(Current(id)) /\ Ringing(Current(id)) \in Nat
        BY <1>1, <2>1 DEF Current, Ringing
      <3>3. QED
        BY <1>2, <1>5, <2>1, <3>1, <3>2, SMTT(30) DEF Due
    <2>3. TimerSetTypeOK' /\ GenerationsAreOld'
      BY <1>1, <2>1, HeadTaken DEF TimerInv, TimerSetTypeOK, GenerationsAreOld
    <2>4. NoOrphanTask' /\ PeriodicTasksLive'
      BY <1>1, <2>1 DEF TimerInv, NoOrphanTask, PeriodicTasksLive, Current
    <2>5. OneShotsRingOnce'
      BY <1>1, <1>4, <1>7, <2>1 DEF TimerInv, OneShotsRingOnce, Current
    <2>6. QED
      BY <1>2, <1>4, <1>6, <1>7, <2>1, <2>2, <2>3, <2>4, <2>5 DEF TimerInv, Armed
  <1>8. CASE id \notin Periodic
    <2>1. Due(id) = 1 /\ Current(id) \notin sleeping
      BY <1>2, <1>6, <1>8, SMTT(30) DEF TimerInv, OneShotsRingOnce
    <2>2. Due(id)' = 0
      BY <1>3, <1>8 DEF Due
    <2>3. TimerSetTypeOK'
      BY <1>1, <1>3, HeadTaken DEF TimerInv, TimerSetTypeOK
    <2>4. GenerationsAreOld'
      <3>1. \A n \in TimerId : handles'[n] <= last_generations[n]
        <4>1. \A n \in TimerId : 0 <= last_generations[n] /\ handles[n] <= last_generations[n]
          BY SMTT(30) DEF TimerInv, TimerSetTypeOK, GenerationsAreOld
        <4>2. QED
          BY <1>3, <1>8, <4>1
      <3>2. \A i \in DOMAIN expiries' : expiries'[i][2] <= last_generations[expiries'[i][1]]
        BY <1>1, HeadTaken DEF TimerInv
      <3>3. \A t \in ringing : t[2] <= last_generations[t[1]]
        BY DEF TimerInv, GenerationsAreOld
      <3>4. QED
        BY <1>1, <3>1, <3>2, <3>3 DEF GenerationsAreOld
    <2>5. NoOrphanTask'
      <3> SUFFICES ASSUME NEW t \in sleeping
                   PROVE  running' /\ handles'[t[1]] = t[2]
        BY <1>1 DEF NoOrphanTask
      <3>1. t \in Task /\ handles[t[1]] = t[2]
        BY DEF TimerInv, TimerSetTypeOK, NoOrphanTask
      <3>2. t[1] # id
        BY <2>1, <3>1, SMTT(30) DEF Current, Task
      <3>3. QED
        BY <1>1, <1>3, <3>1, <3>2 DEF Task
    <2>6. OneShotsRingOnce'
      BY <1>1, <1>3, <1>4, <1>8 DEF TimerInv, OneShotsRingOnce, Current
    <2>7. PeriodicTasksLive'
      BY <1>1, <1>3, <1>8, TimerSetConstants DEF TimerInv, PeriodicTasksLive, Current
    <2>8. Armed' = Armed \ {id} /\ id \in Armed
      BY <1>2, <1>3, <1>8 DEF Armed
    <2>9. QED
      BY <1>4, <1>8, <2>1, <2>2, <2>3, <2>4, <2>5, <2>6, <2>7, <2>8, SMTT(30)
      DEF TimerInv
  <1>9. QED
    BY <1>7, <1>8

\* The session ends: no timer is armed and no task is left.
LEMMA DropStep ==
  ASSUME TimerInv, DropTimers
  PROVE  /\ TimerInv'
         /\ Armed' = {} /\ \A n \in TimerId : Due(n)' = 0
  <1>1. /\ handles' = [id \in TimerId |-> 0] /\ ringing' = {} /\ expiries' = <<>>
        /\ UNCHANGED last_generations /\ running' = FALSE
    BY DEF DropTimers
  <1>2. sleeping' = {}
    <2> SUFFICES ASSUME NEW t \in sleeping
                 PROVE  t \in Entry(t[1]) /\ t[1] \in TimerId
      BY DEF DropTimers
    <2>1. QED
      BY SMTT(30) DEF TimerInv, TimerSetTypeOK, NoOrphanTask, Entry, Task
  <1>3. Armed' = {} /\ \A n \in TimerId : Due(n)' = 0
    BY <1>1 DEF Armed, Due
  <1>4. TimerSetTypeOK'
    <2>1. handles' \in [TimerId -> 0..MaxGeneration]
      BY <1>1, TimerSetConstants, SMTT(30)
    <2>2. expiries' \in Seq(Task) /\ Len(expiries') <= ExpiryCapacity
      BY <1>1, TimerSetConstants, SMTT(30)
    <2>3. QED
      BY <1>1, <1>2, <2>1, <2>2 DEF TimerInv, TimerSetTypeOK
  <1>5. GenerationsAreOld'
    <2>1. \A n \in TimerId : 0 <= last_generations[n]
      BY SMTT(30) DEF TimerInv, TimerSetTypeOK
    <2>2. QED
      BY <1>1, <2>1, SMTT(30) DEF GenerationsAreOld
  <1>6. NoOrphanTask' /\ OneShotsRingOnce' /\ PeriodicTasksLive'
    BY <1>1, <1>2, TimerSetConstants DEF NoOrphanTask, OneShotsRingOnce, PeriodicTasksLive
  <1>7. QED
    BY <1>3, <1>4, <1>5, <1>6 DEF TimerInv

\* A sleep ends: one more is due of an armed timer, the first if it is one-shot.
LEMMA WakeStep ==
  ASSUME TimerInv, NEW task \in Task, Wake(task)
  PROVE  /\ TimerInv'
         /\ task[1] \in Armed /\ (task[1] \notin Periodic => Due(task[1]) = 0)
         /\ Armed' = Armed
         /\ Due(task[1])' = Due(task[1]) + 1
         /\ \A n \in TimerId \ {task[1]} : Due(n)' = Due(n)
  <1>1. /\ UNCHANGED <<handles, last_generations, expiries, running>>
        /\ task \in sleeping
        /\ sleeping' = sleeping \ {task} /\ ringing' = ringing \cup {task}
    BY DEF Wake
  <1>2. /\ task[1] \in TimerId /\ Current(task[1]) = task /\ handles[task[1]] # 0
        /\ task \notin ringing /\ running
    BY <1>1, SMTT(30)
    DEF TimerInv, NoOrphanTask, PeriodicTasksLive, Current, Task, Generation
  <1>3. \A n \in TimerId : /\ Current(n)' = Current(n)
                           /\ QueuedExpiries(Current(n))' = QueuedExpiries(Current(n))
    BY <1>1 DEF Current, QueuedExpiries
  <1>4. \A n \in TimerId \ {task[1]} : Due(n)' = Due(n) /\ Current(n) # task
    BY <1>1, <1>3, SMTT(30) DEF Due, Ringing, Current
  <1>5. Due(task[1])' = Due(task[1]) + 1
    BY <1>1, <1>2, <1>3, DueType, SMTT(30) DEF Due, Ringing
  <1>6. task[1] \notin Periodic => Due(task[1]) = 0
    BY <1>1, <1>2 DEF TimerInv, OneShotsRingOnce
  <1>7. TimerSetTypeOK' /\ NoOrphanTask'
    BY <1>1 DEF TimerInv, TimerSetTypeOK, NoOrphanTask
  <1>8. OneShotsRingOnce'
    BY <1>1, <1>2, <1>3, <1>4, <1>5, <1>6, SMTT(30)
    DEF TimerInv, OneShotsRingOnce
  <1>9. GenerationsAreOld'
    <2>1. task[2] <= last_generations[task[1]]
      BY <1>2, SMTT(30) DEF TimerInv, GenerationsAreOld, Current, Task
    <2>2. QED
      BY <1>1, <2>1 DEF TimerInv, GenerationsAreOld
  <1>10. PeriodicTasksLive'
    BY <1>1, <1>2, <1>3, TimerSetConstants DEF TimerInv, PeriodicTasksLive
  <1>11. QED
    BY <1>1, <1>2, <1>4, <1>5, <1>6, <1>7, <1>8, <1>9, <1>10 DEF TimerInv, Armed

\* An expiry moves into the channel: what is due does not change.
LEMMA SendStep ==
  ASSUME TimerInv, NEW task \in Task, SendExpiry(task)
  PROVE  /\ TimerInv'
         /\ Armed' = Armed /\ \A n \in TimerId : Due(n)' = Due(n)
  <1>1. /\ UNCHANGED <<handles, last_generations, running>>
        /\ task \in ringing /\ running
        /\ expiries' = Append(expiries, task) /\ Len(expiries) < ExpiryCapacity
        /\ ringing' = ringing \ {task}
        /\ sleeping' = IF task[1] \in Periodic /\ handles[task[1]] = task[2]
                       THEN sleeping \cup {task} ELSE sleeping
    BY DEF SendExpiry, TimerInv, PeriodicTasksLive
  <1>2. expiries' \in Seq(Task) /\ Len(expiries') <= ExpiryCapacity
    BY <1>1, TimerSetConstants, SMTT(30) DEF TimerInv, TimerSetTypeOK
  <1>3. \A n \in TimerId :
          /\ Current(n)' = Current(n)
          /\ QueuedExpiries(Current(n))' = QueuedExpiries(Current(n)) + (IF Current(n) = task THEN 1 ELSE 0)
    <2> TAKE n \in TimerId
    <2>1. Current(n)' = Current(n)
      BY <1>1 DEF Current
    <2>2. QueuedExpiries(Current(n))' = Cardinality(Positions(Append(expiries, task), Current(n)))
      BY <1>1, <2>1 DEF QueuedExpiries, Positions
    <2>3. QED
      BY <2>1, <2>2, CountAppend, SMTT(30)
      DEF QueuedExpiries, TimerInv, TimerSetTypeOK
  <1>4. \A n \in TimerId : Due(n)' = Due(n)
    <2> TAKE n \in TimerId
    <2>1. Ringing(Current(n)) = Ringing(Current(n))' + (IF Current(n) = task THEN 1 ELSE 0)
      BY <1>1, <1>3, SMTT(30) DEF Ringing
    <2>2. QueuedExpiries(Current(n)) \in Nat /\ Ringing(Current(n))' \in Nat
      BY DueType DEF Ringing
    <2>3. QED
      BY <1>1, <1>3, <2>1, <2>2, SMTT(30) DEF Due
  <1>5. TimerSetTypeOK'
    BY <1>1, <1>2 DEF TimerInv, TimerSetTypeOK
  <1>6. NoOrphanTask'
    BY <1>1 DEF TimerInv, NoOrphanTask
  <1>7. OneShotsRingOnce'
    <2>1. \A n \in TimerId \ Periodic : Current(n) \in sleeping' <=> Current(n) \in sleeping
      BY <1>1, SMTT(30) DEF Current
    <2>2. QED
      BY <1>1, <1>3, <1>4, <2>1 DEF TimerInv, OneShotsRingOnce
  <1>8. GenerationsAreOld'
    <2>1. \A i \in DOMAIN expiries' :
            \/ expiries'[i] = task
            \/ i \in DOMAIN expiries /\ expiries'[i] = expiries[i]
      <3>1. expiries \in Seq(Task)
        BY DEF TimerInv, TimerSetTypeOK
      <3>2. \A i \in 1..(Len(expiries) + 1) :
              expiries'[i] = IF i <= Len(expiries) THEN expiries[i] ELSE task
        BY <1>1, <3>1, SMTT(30)
      <3>3. DOMAIN expiries' = 1..(Len(expiries) + 1) /\ DOMAIN expiries = 1..Len(expiries)
        BY <1>1, <3>1, SMTT(30)
      <3>4. Len(expiries) \in Nat
        BY <3>1, SMTT(30)
      <3>5. QED
        BY <3>2, <3>3, <3>4, SMTT(30)
    <2>2. task[2] <= last_generations[task[1]]
      BY <1>1 DEF TimerInv, GenerationsAreOld
    <2>3. ASSUME NEW i \in DOMAIN expiries'
          PROVE  expiries'[i][2] <= last_generations[expiries'[i][1]]
      BY <2>1, <2>2 DEF TimerInv, GenerationsAreOld
    <2>4. \A t \in ringing' : t[2] <= last_generations[t[1]]
      BY <1>1 DEF TimerInv, GenerationsAreOld
    <2>5. QED
      BY <1>1, <2>3, <2>4 DEF TimerInv, GenerationsAreOld
  <1>9. PeriodicTasksLive'
    <2>1. \A n \in Periodic : handles[n] # 0 => Current(n) \in sleeping' \cup ringing'
      BY <1>1, SMTT(30) DEF TimerInv, PeriodicTasksLive, Current
    <2>2. sleeping' \cap ringing' = {}
      BY <1>1 DEF TimerInv, PeriodicTasksLive
    <2>3. QED
      BY <1>1, <1>3, <2>1, <2>2, TimerSetConstants DEF PeriodicTasksLive
  <1>10. QED
    BY <1>1, <1>4, <1>5, <1>6, <1>7, <1>8, <1>9 DEF TimerInv, Armed

-----------------------------------------------------------------------------
(* The theorems.                                                            *)

\* Every step keeps the invariant and is a step SessionTimers allows.
LEMMA NextTimers ==
  ASSUME TimerInv, TimerSetNext
  PROVE  TimerInv' /\ (Promised!Next \/ UNCHANGED Promised!timers)
  <1> DEFINE due == [n \in TimerId |-> Due(n)]
  <1> USE DEF Promised!Next, Promised!Start, Promised!Cancel, Promised!Elapse,
              Promised!Fire, Promised!Stop, Promised!timers
  <1>1. CASE \E id \in TimerId : StartTimer(id)
    <2> PICK id \in TimerId : StartTimer(id)
      BY <1>1
    <2>1. due' = [due EXCEPT ![id] = 0]
      BY StartStep
    <2>2. QED
      BY <2>1, StartStep
  <1>2. CASE \E id \in TimerId : CancelTimer(id)
    <2> PICK id \in TimerId : CancelTimer(id)
      BY <1>2
    <2>1. due' = [due EXCEPT ![id] = 0]
      BY CancelStep
    <2>2. QED
      BY <2>1, CancelStep
  <1>3. CASE \E id \in TimerId : TimerExpired(id)
    <2> PICK id \in TimerId : TimerExpired(id)
      BY <1>3
    <2>1. due' = [due EXCEPT ![id] = @ - 1]
      BY ExpiredStep
    <2>2. QED
      BY <2>1, ExpiredStep
  <1>4. CASE DiscardExpiry
    <2>1. due' = due
      BY <1>4, DiscardStep
    <2>2. QED
      BY <1>4, <2>1, DiscardStep
  <1>5. CASE DropTimers
    <2>1. due' = [n \in TimerId |-> 0]
      BY <1>5, DropStep
    <2>2. QED
      BY <1>5, <2>1, DropStep
  <1>6. CASE \E task \in Task : Wake(task)
    <2> PICK task \in Task : Wake(task)
      BY <1>6
    <2>1. task[1] \in TimerId
      BY DEF Task
    <2>2. due' = [due EXCEPT ![task[1]] = @ + 1]
      BY <2>1, WakeStep
    <2>3. QED
      BY <2>1, <2>2, WakeStep
  <1>7. CASE \E task \in Task : SendExpiry(task)
    <2> PICK task \in Task : SendExpiry(task)
      BY <1>7
    <2>1. due' = due
      BY SendStep
    <2>2. QED
      BY <2>1, SendStep
  <1>8. QED
    BY <1>1, <1>2, <1>3, <1>4, <1>5, <1>6, <1>7 DEF TimerSetNext

\* A step that changes nothing keeps the invariant and shows nothing.
LEMMA IdleTimers ==
  ASSUME TimerInv, UNCHANGED timerVars
  PROVE  TimerInv' /\ UNCHANGED Promised!timers
  <1>1. UNCHANGED <<handles, last_generations, sleeping, ringing, expiries, running>>
    BY DEF timerVars
  <1>2. \A n \in TimerId : Due(n)' = Due(n) /\ Current(n)' = Current(n)
    BY <1>1 DEF Due, QueuedExpiries, Ringing, Current
  <1>3. TimerInv'
    <2>1. TimerSetTypeOK' /\ NoOrphanTask' /\ GenerationsAreOld'
      BY <1>1 DEF TimerInv, TimerSetTypeOK, NoOrphanTask, GenerationsAreOld
    <2>2. OneShotsRingOnce'
      BY <1>1, <1>2 DEF TimerInv, OneShotsRingOnce
    <2>3. PeriodicTasksLive'
      BY <1>1 DEF TimerInv, PeriodicTasksLive, Current
    <2>4. QED
      BY <2>1, <2>2, <2>3 DEF TimerInv
  <1>4. QED
    BY <1>1, <1>2, <1>3 DEF Promised!timers, Armed

\* The invariant holds in every state of the timers.
LEMMA TimerInvariance == TimerSetSpec => []TimerInv
  <1>1. TimerInv /\ [TimerSetNext]_timerVars => TimerInv'
    BY NextTimers, IdleTimers
  <1>2. QED
    BY InitTimers, <1>1, PTL DEF TimerSetSpec

\* Generations, tasks and the channel stay within their types and bounds.
THEOREM TimerTypeCorrect == TimerSetSpec => []TimerSetTypeOK
  <1>1. TimerInv => TimerSetTypeOK
    BY DEF TimerInv
  <1>2. QED
    BY TimerInvariance, <1>1, PTL

\* No sleeping task outlives its entry or its session, however arms, cancels,
\* expiries and late sends interleave.
THEOREM TimerNoOrphans == TimerSetSpec => []NoOrphanTask
  <1>1. TimerInv => NoOrphanTask
    BY DEF TimerInv
  <1>2. QED
    BY TimerInvariance, <1>1, PTL

\* No deadline is lost: an armed timer has a task that sleeps or rings, or
\* its expiry is in the channel.
THEOREM TimerArmedRun == TimerSetSpec => []ArmedTimersRun
  <1>1. TimerInv => ArmedTimersRun
    <2> SUFFICES ASSUME TimerInv, NEW id \in TimerId, handles[id] # 0
                 PROVE  \/ Current(id) \in sleeping \cup ringing
                        \/ id \notin Periodic /\ QueuedExpiries(Current(id)) > 0
      BY DEF ArmedTimersRun
    <2>1. CASE id \in Periodic
      BY <2>1 DEF TimerInv, PeriodicTasksLive
    <2>2. CASE id \notin Periodic
      BY <2>2, DueType, SMTT(30) DEF TimerInv, OneShotsRingOnce, Due, Ringing
    <2>3. QED
      BY <2>1, <2>2
  <1>2. QED
    BY TimerInvariance, <1>1, PTL

\* The session's state machine is shown the timers SessionTimers promises: no
\* expiry early, none of a timer cancelled or armed again since.
THEOREM TimersImplementPromise == TimerSetSpec => ImplementsSessionTimers
  <1>1. TimerSetInit => Promised!Init
    BY DEF TimerSetInit, Promised!Init, Armed, Due
  <1>2. TimerInv /\ [TimerSetNext]_timerVars => [Promised!Next]_(Promised!timers)
    BY NextTimers, IdleTimers
  <1>3. QED
    BY TimerInvariance, <1>1, <1>2, PTL DEF TimerSetSpec, ImplementsSessionTimers, Promised!Spec
=============================================================================
