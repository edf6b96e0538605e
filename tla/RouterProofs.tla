---------------------------- MODULE RouterProofs ----------------------------
(***************************************************************************)
(* Proofs about the router daemon, for any number of attempts, calls of    *)
(* start_discovery and slots, and about the connection registry of the     *)
(* router program, for any endpoints, number of trackers, size of the      *)
(* history and retention time.                                             *)
(*                                                                         *)
(* SlotsAreAccounted is inductive with the types.  TasksAreFindable needs  *)
(* that the call which binds the discovery socket is the only one and has  *)
(* found no discovery running (StarterInv), and what each stage of         *)
(* shutdown has behind it (StageInv).                                      *)
(*                                                                         *)
(* The operations of the registry are composed of few steps on its         *)
(* history: prune, admit, establish and release.  Each is shown to keep a  *)
(* history consistent, for any history and not only the current one,       *)
(* because the drop of a tracker releases first and prunes the result.     *)
(***************************************************************************)
EXTENDS RouterDaemon, ConnectionRegistry, SessionRuntime, FiniteSetTheorems, TLAPS

\* A leaf that names no prover is for Zenon.
USE ZenonT(60)

\* The state of RouterDaemon.
RouterDaemonTypeOK ==
  /\ attempt \in [Attempt -> {"idle", "refused", "connecting", "connected", "session", "ended"}]
  /\ session_slots \in Nat
  /\ waiter \in {"idle", "waiting", "holding"}
  /\ starter \in [Starter -> {"idle", "refused", "binding", "started"}]
  /\ discovery_shutdown \in BOOLEAN
  /\ discovery \in Nat
  /\ shutdown \in {"none", "discovery", "telling", "joining", "returned"}

\* Who holds the lock on discovery_shutdown has found the slot empty.
StarterInv ==
  /\ \A s, t \in Starter : starter[s] = "binding" /\ starter[t] = "binding" => s = t
  /\ SlotLocked => ~discovery_shutdown
  /\ discovery_shutdown <=> discovery_task
  /\ discovery <= 1 /\ (discovery > 0 => discovery_shutdown)

\* What is done by the time shutdown has reached a stage.
StageInv ==
  /\ shutdown # "none" => InFlight = {} /\ ~SlotLocked /\ waiter = "idle"
  /\ shutdown \in {"none", "discovery"} => toTell = {}
  /\ shutdown \notin {"none", "discovery"} => discovery = 0
  /\ shutdown \notin {"joining", "returned"} => toJoin = {}
  /\ shutdown = "returned" => tasks = {} /\ toJoin = {}
  /\ shutdown = "joining" => tasks = {}

\* Both lists have every session.
ListInv ==
  /\ Sessions \subseteq session_cmds \cup toTell \cup told
  /\ Sessions \subseteq tasks \cup toJoin

Busy == InFlight \cup Sessions

RouterDaemonInv ==
  /\ RouterDaemonTypeOK
  /\ SlotsAreAccounted
  /\ StarterInv
  /\ StageInv
  /\ ListInv

-----------------------------------------------------------------------------
(* Counting.                                                                *)

\* Sets of attempts are finite.
LEMMA AttemptsAreFinite ==
  ASSUME NEW S \in SUBSET Attempt
  PROVE  IsFiniteSet(S) /\ Cardinality(S) \in Nat
  BY RouterDaemonConstants, FS_Subset, FS_CardinalityType

\* A new attempt takes a slot.
LEMMA TakeIsAccounted ==
  ASSUME RouterDaemonTypeOK, SlotsAreAccounted, NEW a \in Attempt, a \notin Busy,
         Busy' = Busy \cup {a}, session_slots > 0, session_slots' = session_slots - 1,
         waiter' = waiter
  PROVE  SlotsAreAccounted' /\ session_slots' \in Nat
  <1>1. IsFiniteSet(Busy) /\ Cardinality(Busy) \in Nat
    BY AttemptsAreFinite DEF Busy, InFlight, Sessions
  <1>2. Cardinality(Busy') = Cardinality(Busy) + 1
    BY <1>1, FS_AddElement
  <1>3. QED
    BY <1>1, <1>2, RouterDaemonConstants, SMTT(30)
    DEF SlotsAreAccounted, Busy, RouterDaemonTypeOK

\* One that ends gives it back.
LEMMA GiveIsAccounted ==
  ASSUME RouterDaemonTypeOK, SlotsAreAccounted, NEW a \in Busy,
         Busy' = Busy \ {a}, session_slots' = session_slots + 1, waiter' = waiter
  PROVE  SlotsAreAccounted' /\ session_slots' \in Nat
  <1>1. IsFiniteSet(Busy) /\ Cardinality(Busy) \in Nat
    BY AttemptsAreFinite DEF Busy, InFlight, Sessions
  <1>2. Cardinality(Busy') = Cardinality(Busy) - 1
    BY <1>1, FS_RemoveElement
  <1>3. QED
    BY <1>1, <1>2, RouterDaemonConstants, SMTT(30)
    DEF SlotsAreAccounted, Busy, RouterDaemonTypeOK

-----------------------------------------------------------------------------
(* One step.                                                                *)

\* Every step of an attempt or its session keeps the invariant.
LEMMA AttemptStep ==
  ASSUME RouterDaemonInv, NEW a \in Attempt,
         connect_static(a) \/ Connected(a) \/ GiveUp(a) \/ SpawnSession(a) \/ SessionEnds(a)
  PROVE  RouterDaemonInv'
  <1>0. RouterDaemonTypeOK /\ SlotsAreAccounted /\ StarterInv /\ StageInv /\ ListInv
    BY DEF RouterDaemonInv
  <1>1. StarterInv' /\ UNCHANGED <<starting, ending, waiter>>
    BY <1>0, SMTT(30)
    DEF connect_static, Connected, GiveUp, SpawnSession, SessionEnds,
        StarterInv, SlotLocked, starting
  <1>2. PICK where \in {"refused", "connecting", "connected", "session", "ended"} :
          attempt' = [attempt EXCEPT ![a] = where]
    BY DEF connect_static, Connected, GiveUp, SpawnSession, SessionEnds, Move
  <1>3. attempt' \in [Attempt -> {"idle", "refused", "connecting", "connected", "session", "ended"}]
    BY <1>0, <1>2 DEF RouterDaemonTypeOK
  <1>4. SlotsAreAccounted' /\ session_slots' \in Nat
    <2>1. CASE connect_static(a)
      <3>1. CASE session_slots > 0
        <4>1. a \notin Busy /\ Busy' = Busy \cup {a}
          BY <1>0, <2>1, <3>1 DEF connect_static, Move, Busy, InFlight, Sessions, Open, RouterDaemonTypeOK
        <4>2. QED
          BY <1>0, <1>1, <2>1, <3>1, <4>1, TakeIsAccounted DEF connect_static
      <3>2. CASE ~(session_slots > 0)
        <4>1. Busy' = Busy
          BY <1>0, <2>1, <3>2 DEF connect_static, Move, Busy, InFlight, Sessions, Open, RouterDaemonTypeOK
        <4>2. QED
          BY <1>0, <1>1, <2>1, <3>2, <4>1 DEF connect_static, SlotsAreAccounted, Busy, RouterDaemonTypeOK
      <3>3. QED
        BY <3>1, <3>2
    <2>2. CASE Connected(a) \/ SpawnSession(a)
      <3>1. Busy' = Busy
        BY <1>0, <2>2 DEF Connected, SpawnSession, Move, Busy, InFlight, Sessions, Open, RouterDaemonTypeOK
      <3>2. QED
        BY <1>0, <1>1, <2>2, <3>1 DEF Connected, SpawnSession, SlotsAreAccounted, Busy, RouterDaemonTypeOK
    <2>3. CASE GiveUp(a) \/ SessionEnds(a)
      <3>1. a \in Busy /\ Busy' = Busy \ {a}
        BY <1>0, <2>3 DEF GiveUp, SessionEnds, Move, Busy, InFlight, Sessions, Open, RouterDaemonTypeOK
      <3>2. QED
        BY <1>0, <1>1, <2>3, <3>1, GiveIsAccounted DEF GiveUp, SessionEnds
    <2>4. QED
      BY <2>1, <2>2, <2>3
  <1>5. RouterDaemonTypeOK'
    BY <1>0, <1>1, <1>3, <1>4 DEF RouterDaemonTypeOK, starting, ending
  <1>6. StageInv'
    <2>1. shutdown # "none" => InFlight' = {} /\ UNCHANGED tasks
      BY <1>0, <1>2 DEF connect_static, Connected, GiveUp, SpawnSession, SessionEnds, Owned,
         StageInv, InFlight, Move, Open, RouterDaemonTypeOK
    <2>2. QED
      BY <1>0, <1>1, <2>1 DEF StageInv, SlotLocked, starting, ending
  <1>7. ListInv'
    BY <1>0, <1>1 DEF connect_static, Connected, GiveUp, SpawnSession, SessionEnds,
       Move, ListInv, Sessions, Open, RouterDaemonTypeOK, ending
  <1>8. QED
    BY <1>1, <1>4, <1>5, <1>6, <1>7 DEF RouterDaemonInv

\* Every step of wait_for_connection_capacity keeps the invariant.
LEMMA WaiterStep ==
  ASSUME RouterDaemonInv, WaitForCapacity \/ CapacityFound \/ WaitOver \/ WaitDropped
  PROVE  RouterDaemonInv'
  <1>0. RouterDaemonTypeOK /\ SlotsAreAccounted /\ StarterInv /\ StageInv /\ ListInv
    BY DEF RouterDaemonInv
  <1>1. UNCHANGED <<attempt, session_cmds, tasks, starting, ending>>
    BY DEF WaitForCapacity, CapacityFound, WaitOver, WaitDropped
  <1>2. StarterInv' /\ ListInv'
    BY <1>0, <1>1 DEF StarterInv, SlotLocked, ListInv, Sessions, Open, starting, ending
  <1>3. Busy' = Busy /\ Cardinality(Busy) \in Nat
    BY <1>1, AttemptsAreFinite DEF Busy, InFlight, Sessions, Open
  <1>4. SlotsAreAccounted' /\ session_slots' \in Nat
    <2>1. session_slots + Cardinality(Busy) + (IF waiter = "holding" THEN 1 ELSE 0) = MaxSessions
      BY <1>0 DEF SlotsAreAccounted, Busy
    <2>2. session_slots' + Cardinality(Busy) + (IF waiter' = "holding" THEN 1 ELSE 0) = MaxSessions
      BY <1>0, <1>3, <2>1, RouterDaemonConstants, SMTT(30)
      DEF WaitForCapacity, CapacityFound, WaitOver, WaitDropped,
          RouterDaemonTypeOK
    <2>3. session_slots' \in Nat
      BY <1>0, SMTT(30)
      DEF WaitForCapacity, CapacityFound, WaitOver, WaitDropped,
          RouterDaemonTypeOK
    <2>4. QED
      BY <1>3, <2>2, <2>3 DEF SlotsAreAccounted, Busy
  <1>5. waiter' \in {"idle", "waiting", "holding"}
    BY DEF WaitForCapacity, CapacityFound, WaitOver, WaitDropped
  <1>6. RouterDaemonTypeOK'
    BY <1>0, <1>1, <1>4, <1>5 DEF RouterDaemonTypeOK, starting, ending
  <1>7. StageInv'
    BY <1>0, <1>1 DEF StageInv, InFlight, SlotLocked, starting, ending, Owned,
       WaitForCapacity, CapacityFound, WaitOver, WaitDropped
  <1>8. QED
    BY <1>2, <1>4, <1>6, <1>7 DEF RouterDaemonInv

\* Every step of start_discovery and the end of the discovery task keep the
\* invariant.
LEMMA DiscoveryStep ==
  ASSUME RouterDaemonInv,
         \/ \E s \in Starter : start_discovery(s) \/ StartFails(s) \/ SpawnDiscovery(s)
         \/ DiscoveryEnds
  PROVE  RouterDaemonInv'
  <1>0. RouterDaemonTypeOK /\ SlotsAreAccounted /\ StarterInv /\ StageInv /\ ListInv
    BY DEF RouterDaemonInv
  <1>1. UNCHANGED <<attempts, ending>>
    BY DEF start_discovery, StartFails, SpawnDiscovery, DiscoveryEnds
  <1>2. SlotsAreAccounted' /\ ListInv'
    BY <1>0, <1>1 DEF SlotsAreAccounted, InFlight, ListInv, Sessions, Open, attempts, ending
  <1>3. RouterDaemonTypeOK' /\ StarterInv' /\ StageInv'
    <2> USE <1>0, <1>1 DEF RouterDaemonTypeOK, StarterInv, StageInv, SlotLocked, InFlight, attempts, ending
    <2>1. ASSUME NEW s \in Starter, start_discovery(s) \/ StartFails(s)
          PROVE  RouterDaemonTypeOK' /\ StarterInv' /\ StageInv'
      <3>1. RouterDaemonTypeOK'
        BY <2>1 DEF start_discovery, StartFails
      <3>2. StarterInv'
        BY <2>1, SMTT(30) DEF start_discovery, StartFails
      <3>3. StageInv'
        BY <2>1 DEF start_discovery, StartFails, Owned
      <3>4. QED
        BY <3>1, <3>2, <3>3
    <2>2. ASSUME NEW s \in Starter, SpawnDiscovery(s)
          PROVE  RouterDaemonTypeOK' /\ StarterInv' /\ StageInv'
      <3>1. RouterDaemonTypeOK'
        BY <2>2, SMTT(30) DEF SpawnDiscovery
      <3>2. StarterInv'
        BY <2>2, SMTT(30) DEF SpawnDiscovery
      <3>3. StageInv'
        BY <2>2 DEF SpawnDiscovery
      <3>4. QED
        BY <3>1, <3>2, <3>3
    <2>3. ASSUME DiscoveryEnds
          PROVE  RouterDaemonTypeOK' /\ StarterInv' /\ StageInv'
      BY <2>3, SMTT(30) DEF DiscoveryEnds
    <2>4. QED
      BY <2>1, <2>2, <2>3
  <1>4. QED
    BY <1>2, <1>3 DEF RouterDaemonInv

\* Every step of shutdown keeps the invariant.
LEMMA ShutdownStep ==
  ASSUME RouterDaemonInv, Shutdown \/ Stop
  PROVE  RouterDaemonInv'
  <1>0. RouterDaemonTypeOK /\ SlotsAreAccounted /\ StarterInv /\ StageInv /\ ListInv
    BY DEF RouterDaemonInv
  <1>1. UNCHANGED <<attempt, session_slots, waiter, starter, discovery>>
    BY DEF Shutdown, Stop, TakeSenders, Tell, TakeTasks, Join, Return, attempts, starting
  <1>2. SlotsAreAccounted'
    BY <1>0, <1>1 DEF SlotsAreAccounted, InFlight, Sessions, Open
  <1>3. RouterDaemonTypeOK' /\ StarterInv'
    <2>1. CASE TakeSenders
      <3>1. discovery = 0
        BY <1>0, <2>1, SMTT(30)
        DEF TakeSenders, StarterInv, RouterDaemonTypeOK
      <3>2. RouterDaemonTypeOK'
        BY <1>0, <1>1, <2>1 DEF TakeSenders, RouterDaemonTypeOK
      <3>3. StarterInv'
        BY <1>0, <1>1, <2>1, <3>1, SMTT(30)
        DEF TakeSenders, StarterInv, SlotLocked
      <3>4. QED
        BY <3>2, <3>3
    <2>2. CASE ~TakeSenders
      <3>1. UNCHANGED <<discovery_shutdown, discovery_task>>
        BY <2>2 DEF Shutdown, Stop, Tell, TakeTasks, Join, Return, starting
      <3>2. shutdown' \in {"none", "discovery", "telling", "joining", "returned"}
        BY <1>0, <2>2 DEF Shutdown, Stop, Tell, TakeTasks, Join, Return, RouterDaemonTypeOK
      <3>3. RouterDaemonTypeOK'
        BY <1>0, <1>1, <3>1, <3>2 DEF RouterDaemonTypeOK
      <3>4. StarterInv'
        BY <1>0, <1>1, <3>1 DEF StarterInv, SlotLocked
      <3>5. QED
        BY <3>3, <3>4
    <2>3. QED
      BY <2>1, <2>2
  <1>4. StageInv'
    BY <1>0, <1>1, SMTT(30)
    DEF Shutdown, Stop, TakeSenders, Tell, TakeTasks, Join, Return, attempts,
        RouterDaemonTypeOK, StarterInv, StageInv, InFlight, SlotLocked, Owned
  <1>5. ListInv'
    BY <1>0, <1>1 DEF Shutdown, Stop, TakeSenders, Tell, TakeTasks, Join, Return, attempts,
       StageInv, ListInv, Sessions, Open
  <1>6. QED
    BY <1>2, <1>3, <1>4, <1>5 DEF RouterDaemonInv

-----------------------------------------------------------------------------
(* The theorems.                                                            *)

\* The invariant holds in every state of the daemon.
LEMMA RouterDaemonInvariant == DaemonSpec => []RouterDaemonInv
  <1>1. DaemonInit => RouterDaemonInv
    <2> SUFFICES ASSUME DaemonInit PROVE RouterDaemonInv
      OBVIOUS
    <2>1. InFlight = {} /\ Sessions = {} /\ ~SlotLocked
      BY DEF DaemonInit, InFlight, Sessions, Open, SlotLocked
    <2>2. SlotsAreAccounted
      <3>1. InFlight \cup Sessions = {}
        BY <2>1
      <3>2. Cardinality(InFlight \cup Sessions) = 0
        BY <3>1, FS_EmptySet
      <3>3. QED
        BY <3>2, RouterDaemonConstants, SMTT(30)
        DEF DaemonInit, SlotsAreAccounted
    <2>3. RouterDaemonTypeOK
      BY RouterDaemonConstants DEF DaemonInit, RouterDaemonTypeOK
    <2>4. StarterInv /\ StageInv /\ ListInv
      BY <2>1, SMTT(30) DEF DaemonInit, StarterInv, StageInv, ListInv
    <2>5. QED
      BY <2>2, <2>3, <2>4 DEF RouterDaemonInv
  <1>2. RouterDaemonInv /\ [DaemonNext]_daemonVars => RouterDaemonInv'
    <2> SUFFICES ASSUME RouterDaemonInv, [DaemonNext]_daemonVars PROVE RouterDaemonInv'
      OBVIOUS
    <2>1. CASE DaemonNext
      BY <2>1, AttemptStep, WaiterStep, DiscoveryStep, ShutdownStep DEF DaemonNext
    <2>2. CASE UNCHANGED daemonVars
      BY <2>2 DEF daemonVars, attempts, starting, ending, RouterDaemonInv, RouterDaemonTypeOK,
         SlotsAreAccounted, StarterInv, StageInv, ListInv, InFlight, Sessions, Open, SlotLocked
    <2>3. QED
      BY <2>1, <2>2
  <1>3. QED
    BY <1>1, <1>2, PTL DEF DaemonSpec

\* Whatever attempts are refused, fail or are dropped by their caller, and
\* whenever sessions end, session_slots counts what is still under way.
THEOREM SlotsCorrect == DaemonSpec => []SlotsAreAccounted
  BY RouterDaemonInvariant, PTL DEF RouterDaemonInv

\* RouterDaemon::shutdown finds every session and the discovery task, and
\* nothing runs when it returns.
THEOREM TasksCorrect == DaemonSpec => []TasksAreFindable
  <1>1. RouterDaemonInv => TasksAreFindable
    <2> SUFFICES ASSUME RouterDaemonInv PROVE TasksAreFindable
      OBVIOUS
    <2>0. RouterDaemonTypeOK /\ SlotsAreAccounted /\ StarterInv /\ StageInv /\ ListInv
      BY DEF RouterDaemonInv
    <2>1. ASSUME shutdown = "returned"
          PROVE  Sessions = {} /\ discovery = 0 /\ session_slots = MaxSessions
      <3>1. Sessions = {} /\ InFlight = {} /\ discovery = 0 /\ waiter = "idle"
        BY <2>0, <2>1 DEF StageInv, ListInv
      <3>2. InFlight \cup Sessions = {}
        BY <3>1
      <3>3. Cardinality(InFlight \cup Sessions) = 0
        BY <3>2, FS_EmptySet
      <3>4. QED
        BY <2>0, <3>1, <3>3, SMTT(30)
        DEF SlotsAreAccounted, RouterDaemonTypeOK
    <2>2. QED
      BY <2>0, <2>1 DEF TasksAreFindable, StarterInv, ListInv
  <1>2. QED
    BY <1>1, RouterDaemonInvariant, PTL

-----------------------------------------------------------------------------
(* The connection registry.                                                 *)

Held(tr, p) == {t \in Tracker : tr[t] = p}

HistoryType(st, since, tr, gen) ==
  /\ DOMAIN st \subseteq Peer
  /\ st \in [DOMAIN st -> PeerConnectionState]
  /\ DOMAIN since \subseteq Peer
  /\ since \in [DOMAIN since -> 0..peer_retention]
  /\ gen \in Nat
  /\ tr \in [Tracker -> Peer \cup {NoPeer}]

Counted(st, tr) ==
  \A p \in Peer :
    /\ p \in DOMAIN st => st[p].active_sessions = Cardinality(Held(tr, p))
    /\ p \notin DOMAIN st => Held(tr, p) = {}

Bounded(st) == Cardinality(DOMAIN st \ Pinned) <= max_discovered_peers

Aging(st, since) ==
  /\ DOMAIN since \subseteq DOMAIN st
  /\ \A p \in DOMAIN st : st[p].active_sessions = 0 => p \in DOMAIN since

Unique(st, gen) ==
  \A p, q \in DOMAIN st :
    /\ st[p].establishment_count <= gen
    /\ (p # q /\ st[p].establishment_count = st[q].establishment_count)
         => st[p].establishment_count = 0

Consistent(st, since, tr, gen) ==
  /\ HistoryType(st, since, tr, gen)
  /\ Counted(st, tr)
  /\ Bounded(st)
  /\ Aging(st, since)
  /\ Unique(st, gen)

RegistryInv ==
  /\ Consistent(states, idle, trackers, next_establishment)
  /\ published = states

-----------------------------------------------------------------------------
(* Trackers of an endpoint.                                                 *)

\* An endpoint has finitely many trackers.
LEMMA HeldIsFinite ==
  ASSUME NEW tr, NEW p
  PROVE  IsFiniteSet(Held(tr, p)) /\ Cardinality(Held(tr, p)) \in Nat
  <1>1. IsFiniteSet(Tracker) /\ Held(tr, p) \in SUBSET Tracker
    BY RegistryConstants DEF Held
  <1>2. QED
    BY <1>1, FS_Subset, FS_CardinalityType

\* A tracker that is given to an endpoint adds one to it, and to no other.
LEMMA HeldByOneMore ==
  ASSUME NEW tr \in [Tracker -> Peer \cup {NoPeer}], NEW t \in Tracker,
         NEW peer \in Peer, tr[t] = NoPeer
  PROVE  LET new == [tr EXCEPT ![t] = peer]
         IN  /\ Cardinality(Held(new, peer)) = Cardinality(Held(tr, peer)) + 1
             /\ \A p \in Peer \ {peer} : Held(new, p) = Held(tr, p)
  <1> DEFINE new == [tr EXCEPT ![t] = peer]
  <1>1. Held(new, peer) = Held(tr, peer) \cup {t} /\ t \notin Held(tr, peer)
    BY RegistryConstants DEF Held
  <1>2. \A p \in Peer \ {peer} : Held(new, p) = Held(tr, p)
    BY RegistryConstants DEF Held
  <1>3. Cardinality(Held(new, peer)) = Cardinality(Held(tr, peer)) + 1
    <2>1. IsFiniteSet(Held(tr, peer))
      BY HeldIsFinite
    <2>2. QED
      BY <1>1, <2>1, FS_AddElement
  <1>4. QED
    BY <1>2, <1>3

\* A tracker that is dropped takes one from its endpoint, and from no other.
LEMMA HeldByOneLess ==
  ASSUME NEW tr \in [Tracker -> Peer \cup {NoPeer}], NEW t \in Tracker, tr[t] # NoPeer
  PROVE  LET new == [tr EXCEPT ![t] = NoPeer]
         IN  /\ Cardinality(Held(new, tr[t])) = Cardinality(Held(tr, tr[t])) - 1
             /\ Cardinality(Held(tr, tr[t])) > 0
             /\ \A p \in Peer \ {tr[t]} : Held(new, p) = Held(tr, p)
  <1> DEFINE new == [tr EXCEPT ![t] = NoPeer]
  <1>1. Held(new, tr[t]) = Held(tr, tr[t]) \ {t} /\ t \in Held(tr, tr[t])
    BY RegistryConstants DEF Held
  <1>2. \A p \in Peer \ {tr[t]} : Held(new, p) = Held(tr, p)
    BY RegistryConstants DEF Held
  <1>3. IsFiniteSet(Held(tr, tr[t])) /\ Cardinality(Held(tr, tr[t])) \in Nat
        /\ Cardinality(Held(new, tr[t])) \in Nat
    BY HeldIsFinite
  <1>4. Cardinality(Held(new, tr[t])) = Cardinality(Held(tr, tr[t])) - 1
    BY <1>1, <1>3, FS_RemoveElement
  <1>5. Cardinality(Held(tr, tr[t])) > 0
    BY <1>3, <1>4, SMTT(30)
  <1>6. QED
    BY <1>2, <1>4, <1>5

-----------------------------------------------------------------------------
(* The steps the operations are composed of.                                *)

\* The discovered endpoints of a history are finitely many.
LEMMA DiscoveredIsFinite ==
  ASSUME NEW S \in SUBSET Peer
  PROVE  IsFiniteSet(S \ Pinned) /\ Cardinality(S \ Pinned) \in Nat
  BY FS_Subset, FS_CardinalityType, RegistryConstants

\* Entries without a session may be left out of a history.
LEMMA ShrinkIsConsistent ==
  ASSUME NEW st, NEW since, NEW tr, NEW gen, Consistent(st, since, tr, gen),
         NEW kept \in SUBSET DOMAIN st,
         \A p \in DOMAIN st \ kept : st[p].active_sessions = 0
  PROVE  Consistent(Restrict(st, kept), Restrict(since, DOMAIN since \cap kept), tr, gen)
  <1> DEFINE left == Restrict(st, kept)
             clocks == Restrict(since, DOMAIN since \cap kept)
  <1>1. HistoryType(left, clocks, tr, gen)
    BY DEF Consistent, HistoryType, Restrict
  <1>2. Counted(left, tr)
    <2>1. \A p \in DOMAIN st \ kept : Held(tr, p) = {}
      <3> TAKE p \in DOMAIN st \ kept
      <3>1. IsFiniteSet(Held(tr, p))
        BY HeldIsFinite
      <3>2. Cardinality(Held(tr, p)) = 0
        BY DEF Consistent, HistoryType, Counted
      <3>3. QED
        BY <3>1, <3>2, FS_EmptySet
    <2>2. QED
      BY <2>1 DEF Consistent, HistoryType, Counted, Restrict
  <1>3. Bounded(left)
    <2>1. /\ DOMAIN left = kept /\ kept \ Pinned \in SUBSET (DOMAIN st \ Pinned)
          /\ DOMAIN st \in SUBSET Peer /\ kept \in SUBSET Peer
      BY DEF Restrict, Consistent, HistoryType
    <2>2. /\ IsFiniteSet(DOMAIN st \ Pinned) /\ Cardinality(DOMAIN st \ Pinned) \in Nat
          /\ Cardinality(kept \ Pinned) \in Nat
      BY <2>1, DiscoveredIsFinite
    <2>3. Cardinality(kept \ Pinned) <= Cardinality(DOMAIN st \ Pinned)
      BY <2>1, <2>2, FS_Subset
    <2>4. QED
      BY <2>1, <2>2, <2>3, RegistryConstants, SMTT(30) DEF Consistent, Bounded
  <1>4. Aging(left, clocks)
    BY DEF Consistent, Aging, Restrict
  <1>5. Unique(left, gen)
    BY DEF Consistent, Unique, Restrict
  <1>6. QED
    BY <1>1, <1>2, <1>3, <1>4, <1>5 DEF Consistent

\* prune_locked leaves a consistent history consistent.
LEMMA PruneIsConsistent ==
  ASSUME NEW st, NEW since, NEW tr, NEW gen, Consistent(st, since, tr, gen)
  PROVE  LET kept == Retained(st, since)
         IN  /\ kept \subseteq DOMAIN st
             /\ \A p \in DOMAIN st \ kept : st[p].active_sessions = 0
             /\ Consistent(Restrict(st, kept), Restrict(since, DOMAIN since \cap kept), tr, gen)
  <1> DEFINE kept == Retained(st, since)
  <1>1. kept \in SUBSET DOMAIN st /\ \A p \in DOMAIN st \ kept : st[p].active_sessions = 0
    BY SMTT(30) DEF Retained, Consistent, HistoryType, PeerConnectionState
  <1>2. QED
    BY <1>1, ShrinkIsConsistent

\* A session more: the endpoint is there, or is configured, or there is room.
LEMMA AdmitIsConsistent ==
  ASSUME RegistryInv, NEW peer \in Peer, NEW t \in Tracker, trackers[t] = NoPeer,
         NEW remaining \in SUBSET DOMAIN states,
         \A p \in DOMAIN states \ remaining : states[p].active_sessions = 0,
         \/ peer \in remaining \/ peer \in Pinned
         \/ Cardinality(remaining \ Pinned) < max_discovered_peers,
         Admit(peer, t, remaining)
  PROVE  RegistryInv'
  <1> DEFINE st == Restrict(states, remaining)
             since == Restrict(idle, DOMAIN idle \cap remaining)
  <1>1. Consistent(st, since, trackers, next_establishment)
    BY ShrinkIsConsistent DEF RegistryInv
  <1>2. /\ DOMAIN st = remaining /\ \A p \in remaining : st[p] = states[p]
        /\ DOMAIN since = DOMAIN idle \cap remaining
        /\ \A p \in DOMAIN since : since[p] = idle[p]
        /\ remaining \in SUBSET Peer
    BY DEF Restrict, RegistryInv, Consistent, HistoryType
  <1>3. /\ DOMAIN states' = remaining \cup {peer}
        /\ \A p \in remaining \ {peer} : states'[p] = st[p]
        /\ peer \in remaining =>
             /\ states'[peer].active_sessions = st[peer].active_sessions + 1
             /\ states'[peer].establishment_count = st[peer].establishment_count
             /\ states'[peer] \in PeerConnectionState
        /\ peer \notin remaining =>
             states'[peer] = [active_sessions |-> 1, establishment_count |-> 0]
    <2>1. \A p \in remaining : st[p] \in PeerConnectionState
      BY <1>1, <1>2 DEF Consistent, HistoryType
    <2>2. QED
      BY <1>2, <2>1, SMTT(30) DEF Admit, PeerConnectionState
  <1>4. /\ DOMAIN idle' = DOMAIN since \cup ({peer} \ remaining)
        /\ \A p \in DOMAIN since : idle'[p] = since[p]
        /\ peer \notin remaining => idle'[peer] = 0
    BY <1>2 DEF Admit
  <1>5. HistoryType(states, idle, trackers, next_establishment)'
    <2>1. \A p \in DOMAIN states' : states'[p] \in PeerConnectionState
      BY <1>1, <1>2, <1>3, SMTT(30)
      DEF Consistent, HistoryType, PeerConnectionState
    <2>2. states' \in [DOMAIN states' -> PeerConnectionState]
      BY <2>1 DEF Admit
    <2>3. \A p \in DOMAIN idle' : idle'[p] \in 0..peer_retention
      <3>1. \A p \in DOMAIN since : since[p] \in 0..peer_retention
        BY <1>1 DEF Consistent, HistoryType
      <3>2. 0 \in 0..peer_retention
        BY RegistryConstants, SMTT(30)
      <3>3. QED
        BY <1>4, <3>1, <3>2
    <2>4. idle' \in [DOMAIN idle' -> 0..peer_retention]
      BY <2>3 DEF Admit
    <2>5. next_establishment' \in Nat /\ trackers' \in [Tracker -> Peer \cup {NoPeer}]
      BY <1>1 DEF Admit, Consistent, HistoryType
    <2>6. QED
      BY <1>2, <1>3, <1>4, <2>2, <2>4, <2>5 DEF HistoryType
  <1>6. Counted(states, trackers)'
    <2>1. /\ Cardinality(Held(trackers', peer)) = Cardinality(Held(trackers, peer)) + 1
          /\ \A p \in Peer \ {peer} : Held(trackers', p) = Held(trackers, p)
      <3>1. trackers \in [Tracker -> Peer \cup {NoPeer}]
        BY <1>1 DEF Consistent, HistoryType
      <3>2. trackers[t] = NoPeer /\ trackers' = [trackers EXCEPT ![t] = peer]
        BY <1>1 DEF Admit
      <3>3. QED
        BY <3>1, <3>2, HeldByOneMore
    <2>2. peer \notin remaining => Cardinality(Held(trackers, peer)) = 0
      BY <1>1, <1>2, FS_EmptySet DEF Consistent, Counted
    <2>3. /\ peer \in DOMAIN states'
          /\ states'[peer].active_sessions = Cardinality(Held(trackers', peer))
      <3>1. peer \in remaining =>
              st[peer].active_sessions = Cardinality(Held(trackers, peer))
        BY <1>1, <1>2 DEF Consistent, Counted
      <3>2. QED
        BY <1>3, <2>1, <2>2, <3>1, SMTT(30)
    <2>4. \A p \in Peer \ {peer} :
            /\ p \in DOMAIN states' =>
                 states'[p].active_sessions = Cardinality(Held(trackers', p))
            /\ p \notin DOMAIN states' => Held(trackers', p) = {}
      <3>1. \A p \in Peer :
              /\ p \in remaining => st[p].active_sessions = Cardinality(Held(trackers, p))
              /\ p \notin remaining => Held(trackers, p) = {}
        BY <1>1, <1>2 DEF Consistent, Counted
      <3>2. QED
        BY <1>3, <2>1, <3>1
    <2>5. QED
      BY <2>3, <2>4 DEF Counted
  <1>7. Bounded(states)'
    <2>1. /\ IsFiniteSet(remaining \ Pinned) /\ Cardinality(remaining \ Pinned) \in Nat
          /\ Cardinality(remaining \ Pinned) <= max_discovered_peers
      BY <1>1, <1>2, DiscoveredIsFinite DEF Consistent, Bounded
    <2>2. CASE peer \in remaining \/ peer \in Pinned
      <3>1. DOMAIN states' \ Pinned = remaining \ Pinned
        BY <1>3, <2>2
      <3>2. QED
        BY <2>1, <3>1 DEF Bounded
    <2>3. CASE ~(peer \in remaining \/ peer \in Pinned)
      <3>1. DOMAIN states' \ Pinned = (remaining \ Pinned) \cup {peer}
        BY <1>3, <2>3
      <3>2. Cardinality(DOMAIN states' \ Pinned) = Cardinality(remaining \ Pinned) + 1
        BY <2>1, <2>3, <3>1, FS_AddElement
      <3>3. QED
        BY <2>1, <2>3, <3>2, RegistryConstants, SMTT(30) DEF Bounded
    <2>4. QED
      BY <2>2, <2>3
  <1>8. Aging(states, idle)'
    <2>1. \A p \in DOMAIN states' : states'[p].active_sessions = 0 => p \in DOMAIN idle'
      <3> SUFFICES ASSUME NEW p \in DOMAIN states', states'[p].active_sessions = 0
                   PROVE  p \in DOMAIN idle'
        OBVIOUS
      <3>1. CASE p = peer
        BY <1>1, <1>2, <1>3, <1>4, <3>1, SMTT(30)
        DEF Consistent, HistoryType, PeerConnectionState
      <3>2. CASE p # peer
        BY <1>1, <1>2, <1>3, <1>4, <3>2 DEF Consistent, Aging
      <3>3. QED
        BY <3>1, <3>2
    <2>2. QED
      BY <1>2, <1>3, <1>4, <2>1 DEF Aging
  <1>9. Unique(states, next_establishment)'
    <2>1. next_establishment' = next_establishment /\ next_establishment \in Nat
      BY <1>1 DEF Admit, Consistent, HistoryType
    <2>2. \A p \in remaining : states'[p].establishment_count = st[p].establishment_count
      BY <1>3
    <2>3. peer \notin remaining => states'[peer].establishment_count = 0
      BY <1>3, SMTT(30)
    <2>4. /\ \A p \in remaining : st[p].establishment_count <= next_establishment
          /\ \A p, q \in remaining :
               p # q /\ st[p].establishment_count = st[q].establishment_count
                 => st[p].establishment_count = 0
      BY <1>1, <1>2 DEF Consistent, Unique
    <2>5. DOMAIN states' = remaining \cup {peer}
      BY <1>3
    <2>6. QED
      BY <2>1, <2>2, <2>3, <2>4, <2>5, SMTT(30) DEF Unique
  <1>10. published' = states'
    BY DEF Admit
  <1>11. QED
    BY <1>5, <1>6, <1>7, <1>8, <1>9, <1>10 DEF RegistryInv, Consistent

\* The endpoint of a live tracker has an entry, with the tracker counted in it.
LEMMA TrackedIsActive ==
  ASSUME RegistryInv, NEW t \in Tracker, trackers[t] # NoPeer
  PROVE  /\ trackers[t] \in Peer /\ trackers[t] \in DOMAIN states
         /\ states[trackers[t]].active_sessions \in Nat \ {0}
  <1> DEFINE peer == trackers[t]
  <1>1. peer \in Peer /\ t \in Held(trackers, peer)
    BY DEF RegistryInv, Consistent, HistoryType, Held
  <1>2. peer \in DOMAIN states /\ states[peer].active_sessions = Cardinality(Held(trackers, peer))
    BY <1>1 DEF RegistryInv, Consistent, Counted
  <1>3. Cardinality(Held(trackers, peer)) > 0 /\ Cardinality(Held(trackers, peer)) \in Nat
    BY HeldByOneLess, HeldIsFinite DEF RegistryInv, Consistent, HistoryType
  <1>4. QED
    BY <1>1, <1>2, <1>3, SMTT(30)

\* An initialization gives the endpoint a generation no other has.
LEMMA EstablishedIsConsistent ==
  ASSUME RegistryInv, NEW t \in Tracker, established(t)
  PROVE  RegistryInv'
  <1> DEFINE peer == trackers[t]
             gen == next_establishment + 1
  <1>1. peer \in Peer /\ peer \in DOMAIN states /\ states[peer].active_sessions \in Nat \ {0}
    BY TrackedIsActive DEF established
  <1>2. next_establishment \in Nat /\ next_establishment' = gen
    BY DEF established, RegistryInv, Consistent, HistoryType
  <1>3. /\ DOMAIN states' = DOMAIN states
        /\ \A p \in DOMAIN states \ {peer} : states'[p] = states[p]
        /\ states'[peer] \in PeerConnectionState
        /\ states'[peer].active_sessions = states[peer].active_sessions
        /\ states'[peer].establishment_count = gen
    <2>1. states[peer] \in PeerConnectionState
      BY <1>1 DEF RegistryInv, Consistent, HistoryType
    <2>2. states' = [states EXCEPT ![peer] = [states[peer] EXCEPT !.establishment_count = gen]]
      BY DEF established, NewGeneration
    <2>3. QED
      BY <1>1, <1>2, <2>1, <2>2, SMTT(30) DEF PeerConnectionState
  <1>4. DOMAIN idle' = DOMAIN idle \ {peer} /\ \A p \in DOMAIN idle' : idle'[p] = idle[p]
    BY DEF established, Restrict
  <1>5. HistoryType(states, idle, trackers, next_establishment)'
    <2>1. \A p \in DOMAIN states' : states'[p] \in PeerConnectionState
      BY <1>3 DEF RegistryInv, Consistent, HistoryType
    <2>2. states' \in [DOMAIN states' -> PeerConnectionState]
      BY <2>1 DEF established
    <2>3. idle' \in [DOMAIN idle' -> 0..peer_retention]
      BY <1>4 DEF established, Restrict, RegistryInv, Consistent, HistoryType
    <2>4. QED
      BY <1>2, <1>3, <1>4, <2>2, <2>3, SMTT(30)
      DEF established, RegistryInv, Consistent, HistoryType
  <1>6. Counted(states, trackers)'
    BY <1>1, <1>3 DEF established, RegistryInv, Consistent, Counted
  <1>7. Bounded(states)'
    BY <1>3 DEF RegistryInv, Consistent, Bounded
  <1>8. Aging(states, idle)'
    BY <1>1, <1>3, <1>4 DEF RegistryInv, Consistent, Aging
  <1>9. Unique(states, next_establishment)'
    <2>1. \A p \in DOMAIN states : /\ states[p].establishment_count \in Nat
                                   /\ states[p].establishment_count <= next_establishment
      BY DEF RegistryInv, Consistent, HistoryType, PeerConnectionState, Unique
    <2>2. QED
      BY <1>2, <1>3, <2>1, SMTT(30) DEF RegistryInv, Consistent, Unique
  <1>10. QED
    BY <1>5, <1>6, <1>7, <1>8, <1>9 DEF established, RegistryInv, Consistent

\* A tracker less, before the drop prunes.
LEMMA ReleaseIsConsistent ==
  ASSUME RegistryInv, NEW t \in Tracker, trackers[t] # NoPeer
  PROVE  LET peer == trackers[t]
             left == ReleaseOne(peer)
         IN  Consistent(left, ClockAfterDrop(peer, left), [trackers EXCEPT ![t] = NoPeer],
                        next_establishment)
  <1> DEFINE peer == trackers[t]
             left == ReleaseOne(peer)
             since == ClockAfterDrop(peer, left)
             tr == [trackers EXCEPT ![t] = NoPeer]
  <1>1. peer \in Peer /\ peer \in DOMAIN states /\ states[peer].active_sessions \in Nat \ {0}
    BY TrackedIsActive
  <1>2. /\ DOMAIN left = DOMAIN states
        /\ \A p \in DOMAIN states \ {peer} : left[p] = states[p]
        /\ left[peer] \in PeerConnectionState
        /\ left[peer].active_sessions = states[peer].active_sessions - 1
        /\ left[peer].establishment_count = states[peer].establishment_count
    <2>1. states[peer] \in PeerConnectionState
      BY <1>1 DEF RegistryInv, Consistent, HistoryType
    <2>2. left = [states EXCEPT ![peer] =
                    [states[peer] EXCEPT !.active_sessions = states[peer].active_sessions - 1]]
      BY DEF ReleaseOne
    <2>3. QED
      BY <1>1, <2>1, <2>2, SMTT(30) DEF PeerConnectionState
  <1>3. /\ DOMAIN since \in {DOMAIN idle, DOMAIN idle \cup {peer}}
        /\ left[peer].active_sessions = 0 => peer \in DOMAIN since
        /\ \A p \in DOMAIN since : since[p] = 0 \/ (p \in DOMAIN idle /\ since[p] = idle[p])
        /\ since = [p \in DOMAIN since |-> since[p]]
    BY DEF ClockAfterDrop, RegistryInv, Consistent, HistoryType
  <1>4. HistoryType(left, since, tr, next_establishment)
    <2>1. \A p \in DOMAIN left : left[p] \in PeerConnectionState
      BY <1>2 DEF RegistryInv, Consistent, HistoryType
    <2>2. left \in [DOMAIN left -> PeerConnectionState]
      BY <2>1 DEF ReleaseOne
    <2>3. \A p \in DOMAIN since : since[p] \in 0..peer_retention
      <3>1. 0 \in 0..peer_retention /\ \A p \in DOMAIN idle : idle[p] \in 0..peer_retention
        BY RegistryConstants, SMTT(30)
        DEF RegistryInv, Consistent, HistoryType
      <3>2. QED
        BY <1>3, <3>1
    <2>4. since \in [DOMAIN since -> 0..peer_retention]
      BY <1>3, <2>3
    <2>5. DOMAIN left \subseteq Peer /\ DOMAIN since \subseteq Peer
      BY <1>1, <1>2, <1>3 DEF RegistryInv, Consistent, HistoryType
    <2>6. next_establishment \in Nat /\ tr \in [Tracker -> Peer \cup {NoPeer}]
      BY DEF RegistryInv, Consistent, HistoryType
    <2>7. QED
      BY <2>2, <2>4, <2>5, <2>6 DEF HistoryType
  <1>5. Counted(left, tr)
    <2>1. /\ Cardinality(Held(tr, peer)) = Cardinality(Held(trackers, peer)) - 1
          /\ \A p \in Peer \ {peer} : Held(tr, p) = Held(trackers, p)
      BY HeldByOneLess DEF RegistryInv, Consistent, HistoryType
    <2>2. QED
      BY <1>1, <1>2, <2>1 DEF RegistryInv, Consistent, Counted
  <1>6. Bounded(left)
    BY <1>2 DEF RegistryInv, Consistent, Bounded
  <1>7. Aging(left, since)
    BY <1>1, <1>2, <1>3 DEF RegistryInv, Consistent, Aging
  <1>8. Unique(left, next_establishment)
    <2>1. \A p \in DOMAIN states : left[p].establishment_count = states[p].establishment_count
      BY <1>2
    <2>2. QED
      BY <1>2, <2>1, SMTT(30) DEF RegistryInv, Consistent, Unique
  <1>9. QED
    BY <1>4, <1>5, <1>6, <1>7, <1>8 DEF Consistent

-----------------------------------------------------------------------------
(* The operations.                                                          *)

\* register: pruning, and eviction when the history is full, make the room.
LEMMA RegisterIsConsistent ==
  ASSUME RegistryInv, NEW peer \in Peer, NEW t \in Tracker, register(peer, t)
  PROVE  RegistryInv'
  <1> DEFINE kept == Retained(states, idle)
  <1>1. /\ kept \in SUBSET DOMAIN states
        /\ \A p \in DOMAIN states \ kept : states[p].active_sessions = 0
        /\ Consistent(Restrict(states, kept), Restrict(idle, DOMAIN idle \cap kept), trackers,
                      next_establishment)
    BY PruneIsConsistent DEF RegistryInv
  <1>2. /\ IsFiniteSet(kept \ Pinned) /\ Cardinality(kept \ Pinned) \in Nat
        /\ Cardinality(kept \ Pinned) <= max_discovered_peers
    <2>1. kept \in SUBSET Peer
      BY <1>1 DEF RegistryInv, Consistent, HistoryType
    <2>2. DOMAIN Restrict(states, kept) = kept
      BY DEF Restrict
    <2>3. QED
      BY <1>1, <2>1, <2>2, DiscoveredIsFinite DEF Consistent, Bounded
  <1>3. trackers[t] = NoPeer
    BY DEF register
  <1>4. CASE ~Full(peer, kept) /\ Admit(peer, t, kept)
    <2>1. \/ peer \in kept \/ peer \in Pinned
          \/ Cardinality(kept \ Pinned) < max_discovered_peers
      BY <1>2, <1>4, RegistryConstants, SMTT(30) DEF Full
    <2>2. QED
      BY <1>1, <1>3, <1>4, <2>1, AdmitIsConsistent
  <1>5. CASE Full(peer, kept)
             /\ \E oldest \in Peer : /\ Oldest(oldest, Evictable(kept))
                                     /\ Admit(peer, t, kept \ {oldest})
    <2>1. PICK oldest \in Peer : /\ Oldest(oldest, Evictable(kept))
                                 /\ Admit(peer, t, kept \ {oldest})
      BY <1>5
    <2>2. /\ oldest \in kept \ Pinned
          /\ states[oldest].active_sessions = 0
      BY <2>1 DEF Oldest, Evictable
    <2>3. Cardinality((kept \ {oldest}) \ Pinned) < max_discovered_peers
      <3>1. (kept \ {oldest}) \ Pinned = (kept \ Pinned) \ {oldest}
        OBVIOUS
      <3>2. Cardinality((kept \ Pinned) \ {oldest}) = Cardinality(kept \ Pinned) - 1
        BY <1>2, <2>2, FS_RemoveElement
      <3>3. QED
        BY <1>2, <3>1, <3>2, RegistryConstants, SMTT(30)
    <2>4. /\ kept \ {oldest} \in SUBSET DOMAIN states
          /\ \A p \in DOMAIN states \ (kept \ {oldest}) : states[p].active_sessions = 0
      BY <1>1, <2>2
    <2>5. QED
      BY <1>3, <2>1, <2>3, <2>4, AdmitIsConsistent
  <1>6. QED
    BY <1>4, <1>5 DEF register

\* A refused register and the reaper only prune.
LEMMA OnlyPruneIsConsistent ==
  ASSUME RegistryInv, prune \/ (\E peer \in Peer : RegisterRefused(peer))
  PROVE  RegistryInv'
  <1> DEFINE kept == Retained(states, idle)
  <1>1. Consistent(Restrict(states, kept), Restrict(idle, DOMAIN idle \cap kept), trackers,
                   next_establishment)
    BY PruneIsConsistent DEF RegistryInv
  <1>2. /\ states' = Restrict(states, kept) /\ idle' = Restrict(idle, DOMAIN idle \cap kept)
        /\ published' = states'
        /\ trackers' = trackers /\ next_establishment' = next_establishment
    BY DEF prune, RegisterRefused
  <1>3. QED
    BY <1>1, <1>2 DEF RegistryInv

\* The drop of a tracker releases and prunes.
LEMMA DropIsConsistent ==
  ASSUME RegistryInv, NEW t \in Tracker, DropTracker(t)
  PROVE  RegistryInv'
  <1> DEFINE left == ReleaseOne(trackers[t])
             since == ClockAfterDrop(trackers[t], left)
             kept == Retained(left, since)
             tr == [trackers EXCEPT ![t] = NoPeer]
  <1>1. Consistent(left, since, tr, next_establishment)
    BY ReleaseIsConsistent DEF DropTracker
  <1>2. Consistent(Restrict(left, kept), Restrict(since, DOMAIN since \cap kept), tr,
                   next_establishment)
    BY <1>1, PruneIsConsistent
  <1>3. /\ states' = Restrict(left, kept) /\ idle' = Restrict(since, DOMAIN since \cap kept)
        /\ published' = states'
        /\ trackers' = tr /\ next_establishment' = next_establishment
    BY DEF DropTracker
  <1>4. QED
    BY <1>2, <1>3 DEF RegistryInv

\* Time only moves the clocks.
LEMMA TickIsConsistent ==
  ASSUME RegistryInv, Tick
  PROVE  RegistryInv'
  <1>1. DOMAIN idle' = DOMAIN idle /\ \A p \in DOMAIN idle : idle'[p] \in 0..peer_retention
    BY RegistryConstants, SMTT(30)
    DEF Tick, RegistryInv, Consistent, HistoryType
  <1>2. idle' \in [DOMAIN idle' -> 0..peer_retention]
    BY <1>1 DEF Tick
  <1>3. QED
    BY <1>1, <1>2 DEF Tick, RegistryInv, Consistent, HistoryType, Aging

\* The invariant of the registry (RegistryInv).
LEMMA RegistryInvariant == RegistrySpec => []RegistryInv
  <1>1. RegistryInit => RegistryInv
    <2> SUFFICES ASSUME RegistryInit PROVE RegistryInv
      OBVIOUS
    <2>1. DOMAIN states = {} /\ DOMAIN idle = {}
      BY DEF RegistryInit
    <2>2. \A p \in Peer : Held(trackers, p) = {}
      BY RegistryConstants DEF RegistryInit, Held
    <2>3. Cardinality(DOMAIN states \ Pinned) = 0
      BY <2>1, FS_EmptySet
    <2>4. HistoryType(states, idle, trackers, next_establishment)
      BY <2>1 DEF RegistryInit, HistoryType
    <2>5. QED
      BY <2>1, <2>2, <2>3, <2>4, RegistryConstants, SMTT(30)
      DEF RegistryInit, RegistryInv, Consistent, Counted, Bounded, Aging,
          Unique
  <1>2. RegistryInv /\ [RegistryNext]_registryVars => RegistryInv'
    <2> SUFFICES ASSUME RegistryInv, [RegistryNext]_registryVars PROVE RegistryInv'
      OBVIOUS
    <2>1. CASE UNCHANGED registryVars
      BY <2>1 DEF registryVars, RegistryInv
    <2>2. ASSUME NEW peer \in Peer, NEW t \in Tracker, register(peer, t) PROVE RegistryInv'
      BY <2>2, RegisterIsConsistent
    <2>3. ASSUME NEW t \in Tracker, established(t) PROVE RegistryInv'
      BY <2>3, EstablishedIsConsistent
    <2>4. ASSUME NEW t \in Tracker, DropTracker(t) PROVE RegistryInv'
      BY <2>4, DropIsConsistent
    <2>5. CASE prune \/ (\E peer \in Peer : RegisterRefused(peer))
      BY <2>5, OnlyPruneIsConsistent
    <2>6. CASE Tick
      BY <2>6, TickIsConsistent
    <2>7. QED
      BY <2>1, <2>2, <2>3, <2>4, <2>5, <2>6 DEF RegistryNext
  <1>3. QED
    BY <1>1, <1>2, PTL DEF RegistrySpec

-----------------------------------------------------------------------------
(* Theorems.                                                                *)

\* What the invariant says of the current history.
LEMMA InvariantIsConsistent ==
  ASSUME RegistryInv
  PROVE  RegistryTypeOK /\ HistoryIsConsistent
  <1>1. \A p : Holders(p) = Held(trackers, p)
    BY DEF Holders, Held
  <1>2. TrackersAreCounted
    BY <1>1 DEF TrackersAreCounted, RegistryInv, Consistent, Counted
  <1>3. QED
    BY <1>2
    DEF RegistryInv, Consistent, HistoryType, Bounded, Aging, Unique, RegistryTypeOK,
        HistoryIsConsistent, HistoryIsBounded, InactiveEntriesAge, SnapshotIsCurrent,
        GenerationsAreUnique

\* The registry's state is well typed (RegistryTypeOK): in particular no
\* active_sessions goes below zero.
THEOREM RegistryTypeCorrect == RegistrySpec => []RegistryTypeOK
  BY RegistryInvariant, InvariantIsConsistent, PTL

\* However many endpoints and session tasks there are, and in whatever order
\* they register, initialize and are dropped (HistoryIsConsistent): entries,
\* trackers, clocks and snapshot agree, and the history keeps within its limit.
THEOREM RegistryConsistent == RegistrySpec => []HistoryIsConsistent
  BY RegistryInvariant, InvariantIsConsistent, PTL

\* The action property RetriesDoNotExtendRetention: register, established, the
\* drop and the reaper never set back the clock of an entry that has not expired.
THEOREM RetentionIsNotExtended == RegistrySpec => RetriesDoNotExtendRetention
  <1> DEFINE Older == \A p \in DOMAIN idle \cap DOMAIN idle' :
                        idle[p] < peer_retention => idle'[p] >= idle[p]
  <1>1. RegistryInv /\ [RegistryNext]_registryVars => [Older]_registryVars
    <2> SUFFICES ASSUME RegistryInv, RegistryNext PROVE Older
      OBVIOUS
    <2> SUFFICES ASSUME NEW p \in DOMAIN idle \cap DOMAIN idle', idle[p] < peer_retention
                 PROVE  idle'[p] >= idle[p]
      OBVIOUS
    <2>1. idle[p] \in Nat /\ p \in DOMAIN states
      BY RegistryConstants, SMTT(30)
      DEF RegistryInv, Consistent, HistoryType, Aging
    <2>2. p \in Retained(states, idle)
      BY <2>1 DEF Retained
    <2>3. ASSUME NEW peer \in Peer, NEW t \in Tracker, register(peer, t)
          PROVE  idle'[p] >= idle[p]
      <3> DEFINE kept == Retained(states, idle)
      <3>1. PICK remaining \in SUBSET kept :
              Admit(peer, t, remaining) /\ (remaining = kept \/ peer \notin kept)
        BY <2>3 DEF register, Full
      <3>2. CASE p \in remaining
        BY <2>1, <3>1, <3>2, SMTT(30) DEF Admit
      <3>3. CASE p \notin remaining
        BY <2>2, <3>1, <3>3 DEF Admit
      <3>4. QED
        BY <3>2, <3>3
    <2>4. ASSUME NEW t \in Tracker, DropTracker(t)
          PROVE  idle'[p] >= idle[p]
      <3>1. PICK peer, left, S : idle' = Restrict(ClockAfterDrop(peer, left), S)
        BY <2>4 DEF DropTracker
      <3>2. idle'[p] = ClockAfterDrop(peer, left)[p]
        BY <3>1 DEF Restrict
      <3>3. ClockAfterDrop(peer, left)[p] = idle[p]
        BY DEF ClockAfterDrop
      <3>4. QED
        BY <2>1, <3>2, <3>3, SMTT(30)
    <2>5. CASE prune \/ (\E peer \in Peer : RegisterRefused(peer))
               \/ (\E t \in Tracker : established(t))
      <3>1. \E S : idle' = Restrict(idle, S)
        BY <2>5 DEF prune, RegisterRefused, established
      <3>2. idle'[p] = idle[p]
        BY <3>1 DEF Restrict
      <3>3. QED
        BY <2>1, <3>2, SMTT(30)
    <2>6. CASE Tick
      BY <2>1, <2>6, SMTT(30) DEF Tick
    <2>7. QED
      BY <2>3, <2>4, <2>5, <2>6 DEF RegistryNext
  <1>2. QED
    BY <1>1, RegistryInvariant, PTL DEF RegistrySpec, RetriesDoNotExtendRetention

(***************************************************************************)
(* Proofs about the task that runs one session, for every set of commands, *)
(* extensions and destinations and every capacity of the command channel,  *)
(* wherever the task is interrupted: the receipts of the session's         *)
(* commands are honest (ReceiptsAreHonest), and the session's end is       *)
(* reported, once, to subscribers and extensions (LifecycleIsReported).    *)
(***************************************************************************)

-----------------------------------------------------------------------------
(* The inductive invariant.  A receipt is held in one place at a time: in   *)
(* the channel, once, or with the command the task is carrying out, and it  *)
(* waits exactly as long as that.                                           *)

Verdict == {"unsent", "waiting", "accepted", "rejected", "elsewhere", "dropped"}

ReceiptTypeOK ==
  /\ commands \in Seq(Command)
  /\ receipts \in [Command -> Verdict]
  /\ doing \in Command \cup {NoCommand}
  /\ receipt \in [command : Command \cup {NoCommand}, outcome : {"accepted", "rejected"}]
  /\ wrote \subseteq Command
  /\ completed \subseteq Command

QueuedOnce == \A i, j \in DOMAIN commands : commands[i] = commands[j] => i = j

\* The command whose actions are carried out is no longer in the channel, its
\* receipt is the one at hand, and a rejected command has no message to send.
CommandAtHand ==
  /\ receipt.command = doing
  /\ doing \notin Queued
  /\ doing # NoCommand => pc \in {"acting", "flushing"} /\ branch # "flush"
  /\ doing # NoCommand /\ receipt.outcome = "rejected" =>
       doing \notin wrote /\ batch \in {<<>>, <<"Rejected">>}

ReceiptInv ==
  /\ ReceiptTypeOK
  /\ QueuedOnce
  /\ CommandAtHand
  /\ Queued \cap wrote = {}
  /\ \A c \in Command : receipts[c] = "waiting" <=> c \in Queued \cup {doing}
  /\ ReceiptsAreHonest

-----------------------------------------------------------------------------
(* The command channel.                                                     *)

\* Taking the oldest command leaves the others, each still once.
LEMMA TakeOldest ==
  ASSUME commands \in Seq(Command), commands # <<>>, QueuedOnce,
         commands' = Tail(commands)
  PROVE  /\ commands' \in Seq(Command)
         /\ QueuedOnce'
         /\ Head(commands) \in Command /\ Head(commands) \in Queued
         /\ Queued' = Queued \ {Head(commands)}
  <1>1. /\ Len(commands) \in Nat \ {0}
        /\ DOMAIN commands = 1 .. Len(commands)
        /\ \A i \in DOMAIN commands : commands[i] \in Command
    BY SMTT(30)
  <1>2. /\ commands' \in Seq(Command)
        /\ Len(commands') = Len(commands) - 1
        /\ DOMAIN commands' = 1 .. (Len(commands) - 1)
        /\ \A i \in DOMAIN commands' : commands'[i] = commands[i + 1]
        /\ Head(commands) = commands[1]
    BY <1>1, SMTT(30)
  <1>3. QueuedOnce'
    BY <1>1, <1>2, SMTT(30) DEF QueuedOnce
  <1>4. Head(commands) \in Command /\ Head(commands) \in Queued
    BY <1>1, <1>2, SMTT(30) DEF Queued
  <1>5. Queued' \subseteq Queued \ {Head(commands)}
    BY <1>1, <1>2, SMTT(30) DEF Queued, QueuedOnce
  <1>6. ASSUME NEW c \in Queued \ {Head(commands)} PROVE c \in Queued'
    <2>1. PICK i \in DOMAIN commands : commands[i] = c
      BY DEF Queued
    <2>2. i - 1 \in DOMAIN commands' /\ commands'[i - 1] = c
      BY <1>1, <1>2, <2>1, SMTT(30)
    <2>3. QED
      BY <2>2 DEF Queued
  <1>7. QED
    BY <1>2, <1>3, <1>4, <1>5, <1>6

\* A command that is not in the channel may be added to it.
LEMMA AddNewest ==
  ASSUME commands \in Seq(Command), QueuedOnce, NEW c \in Command, c \notin Queued,
         commands' = Append(commands, c)
  PROVE  /\ commands' \in Seq(Command)
         /\ QueuedOnce'
         /\ Queued' = Queued \cup {c}
  <1>1. /\ Len(commands) \in Nat
        /\ DOMAIN commands = 1 .. Len(commands)
        /\ \A i \in DOMAIN commands : commands[i] # c
    BY SMTT(30) DEF Queued
  <1>2. /\ commands' \in Seq(Command)
        /\ DOMAIN commands' = 1 .. (Len(commands) + 1)
        /\ \A i \in DOMAIN commands : commands'[i] = commands[i]
        /\ commands'[Len(commands) + 1] = c
    BY <1>1, SMTT(30)
  <1>3. QueuedOnce'
    BY <1>1, <1>2, SMTT(30) DEF QueuedOnce
  <1>4. Queued' \subseteq Queued \cup {c}
    BY <1>1, <1>2, SMTT(30) DEF Queued
  <1>5. Queued \cup {c} \subseteq Queued'
    <2>1. ASSUME NEW d \in Queued PROVE d \in Queued'
      <3>1. PICK i \in DOMAIN commands : commands[i] = d
        BY DEF Queued
      <3>2. i \in DOMAIN commands' /\ commands'[i] = d
        BY <1>1, <1>2, <3>1, SMTT(30)
      <3>3. QED
        BY <3>2 DEF Queued
    <2>2. c \in Queued'
      <3>1. Len(commands) + 1 \in DOMAIN commands'
        BY <1>1, <1>2, SMTT(30)
      <3>2. QED
        BY <1>2, <3>1 DEF Queued
    <2>3. QED
      BY <2>1, <2>2
  <1>6. QED
    BY <1>2, <1>3, <1>4, <1>5

\* An empty channel holds nothing.
LEMMA EmptyChannel ==
  ASSUME commands' = <<>>
  PROVE  commands' \in Seq(Command) /\ QueuedOnce' /\ Queued' = {}
  <1>1. DOMAIN commands' = {}
    BY SMTT(30)
  <1>2. QED
    BY <1>1, SMTT(30) DEF QueuedOnce, Queued

-----------------------------------------------------------------------------
(* Steps that touch no command.                                             *)

\* What ReceiptInv depends on, except where the task is.
receiptVars == <<commands, receipts, doing, receipt, wrote, completed>>

\* A step that leaves these alone keeps the invariant if no command is being
\* carried out, or if the task stays with it and only takes actions off the
\* batch.
LEMMA SameReceipts ==
  ASSUME ReceiptInv, UNCHANGED receiptVars,
         doing # NoCommand =>
           /\ pc' \in {"acting", "flushing"}
           /\ branch' # "flush"
           /\ receipt.outcome = "rejected" => batch' \in {<<>>, <<"Rejected">>}
  PROVE  ReceiptInv'
  <1> USE DEF receiptVars
  <1>1. ReceiptTypeOK' /\ QueuedOnce' /\ Queued' = Queued
    BY SMTT(30) DEF ReceiptInv, ReceiptTypeOK, QueuedOnce, Queued
  <1>2. CommandAtHand'
    BY <1>1 DEF ReceiptInv, CommandAtHand
  <1>3. (Queued \cap wrote = {})'
    BY <1>1 DEF ReceiptInv
  <1>4. (\A c \in Command : receipts[c] = "waiting" <=> c \in Queued \cup {doing})'
    BY <1>1 DEF ReceiptInv
  <1>5. ReceiptsAreHonest'
    BY <1>1 DEF ReceiptInv, ReceiptsAreHonest
  <1>6. QED
    BY <1>1, <1>2, <1>3, <1>4, <1>5 DEF ReceiptInv

-----------------------------------------------------------------------------
(* The actions of the machine's answer.                                     *)

\* Every action but a write leaves commands and receipts alone; a write is
\* recorded for a command that was not rejected.
LEMMA ActingKeeps ==
  ASSUME ReceiptInv,
         \/ SendMessage \/ CloseTcp \/ EmitSessionUp \/ EmitSessionDown
         \/ EmitDestination \/ EmitLinkRequest \/ EmitOther \/ flush_pending_sends
  PROVE  ReceiptInv'
  <1> USE DEF channel, machine, lifecycle, reports, effects
  <1>1. CASE SendMessage
    <2>1. /\ batch # <<>> /\ Head(batch) = "Send" /\ batch' = Tail(batch)
          /\ wrote' = wrote \cup ({doing} \ {NoCommand})
          /\ pc = "acting" /\ pc' = pc /\ branch' = branch
          /\ UNCHANGED <<commands, receipts, doing, receipt, completed>>
      BY <1>1 DEF SendMessage, Next1
    <2>2. doing # NoCommand => receipt.outcome # "rejected" /\ receipts[doing] = "waiting"
      <3>1. batch \notin {<<>>, <<"Rejected">>}
        BY <2>1, SMTT(30)
      <3>2. QED
        BY <3>1 DEF ReceiptInv, CommandAtHand, ReceiptTypeOK
    <2>3. ReceiptTypeOK' /\ QueuedOnce' /\ Queued' = Queued
      BY <2>1, SMTT(30) DEF ReceiptInv, ReceiptTypeOK, QueuedOnce, Queued
    <2>4. CommandAtHand' /\ (Queued \cap wrote = {})'
      BY <2>1, <2>2, <2>3 DEF ReceiptInv, CommandAtHand
    <2>5. (\A c \in Command : receipts[c] = "waiting" <=> c \in Queued \cup {doing})'
      BY <2>1, <2>3 DEF ReceiptInv
    <2>6. ReceiptsAreHonest'
      BY <2>1, <2>2, <2>3 DEF ReceiptInv, ReceiptsAreHonest
    <2>7. QED
      BY <2>3, <2>4, <2>5, <2>6 DEF ReceiptInv
  <1>2. CASE \/ CloseTcp \/ EmitSessionUp \/ EmitSessionDown
             \/ EmitDestination \/ EmitLinkRequest \/ EmitOther
    <2>1. /\ UNCHANGED receiptVars
          /\ pc' \in {"acting", "flushing"} /\ branch' = branch
          /\ batch # <<>> /\ batch' = Tail(batch)
      BY <1>2 DEF CloseTcp, EmitSessionUp, EmitSessionDown, EmitDestination,
                  EmitLinkRequest, EmitOther, Next1, receiptVars
    <2>2. batch = <<"Rejected">> => batch' = <<>>
      BY <2>1, SMTT(30)
    <2>3. QED
      BY <2>1, <2>2, SameReceipts DEF ReceiptInv, CommandAtHand
  <1>3. CASE flush_pending_sends
    <2>1. /\ UNCHANGED receiptVars
          /\ branch' = branch /\ batch' = batch
          /\ branch # "flush" => pc' = "acting"
      BY <1>3 DEF flush_pending_sends, receiptVars
    <2>2. QED
      BY <2>1, SameReceipts DEF ReceiptInv, CommandAtHand
  <1>4. QED
    BY <1>1, <1>2, <1>3

-----------------------------------------------------------------------------
(* The end of a batch, and of the task.                                     *)

\* Once the last action is carried out the receipt is resolved and the command
\* counts as completed, in one step.
LEMMA NextRoundKeeps ==
  ASSUME ReceiptInv, NextRound
  PROVE  ReceiptInv'
  <1>1. /\ receipts' = [c \in Command |-> IF c = receipt.command THEN receipt.outcome
                                                                 ELSE receipts[c]]
        /\ completed' = completed \cup ({doing} \ {NoCommand})
        /\ doing' = NoCommand /\ receipt' = NoReceipt
        /\ UNCHANGED <<commands, wrote>>
    BY DEF NextRound, Resolved, Completed
  <1>2. ReceiptTypeOK' /\ QueuedOnce' /\ Queued' = Queued
    BY <1>1, SMTT(30)
    DEF ReceiptInv, ReceiptTypeOK, QueuedOnce, Queued, Verdict, NoReceipt
  <1>3. NoCommand \notin Queued
    BY SessionRuntimeConstants, SMTT(30) DEF ReceiptInv, ReceiptTypeOK, Queued
  <1>4. CommandAtHand' /\ (Queued \cap wrote = {})'
    BY <1>1, <1>2, <1>3 DEF ReceiptInv, CommandAtHand, NoReceipt
  <1>5. receipt.command = doing /\ receipt.outcome \in {"accepted", "rejected"}
    BY DEF ReceiptInv, CommandAtHand, ReceiptTypeOK
  <1>6. (\A c \in Command : receipts[c] = "waiting" <=> c \in Queued \cup {doing})'
    BY <1>1, <1>2, <1>5, SessionRuntimeConstants DEF ReceiptInv, CommandAtHand
  <1>7. ReceiptsAreHonest'
    <2> SUFFICES ASSUME NEW c \in Command
                 PROVE  /\ receipts'[c] = "accepted" => c \in completed'
                        /\ receipts'[c] \in {"unsent", "rejected", "elsewhere"}
                             => c \notin wrote'
                        /\ receipts'[c] = "waiting" => c \in Queued' \cup {doing'}
      BY DEF ReceiptsAreHonest
    <2>1. CASE c = doing
      BY <1>1, <1>5, <2>1, SessionRuntimeConstants DEF ReceiptInv, CommandAtHand
    <2>2. CASE c # doing
      BY <1>1, <1>2, <1>5, <2>2 DEF ReceiptInv, ReceiptsAreHonest
    <2>3. QED
      BY <2>1, <2>2
  <1>8. QED
    BY <1>2, <1>4, <1>6, <1>7 DEF ReceiptInv

\* When the task ends nothing waits any more, whether the command at hand was
\* completed or its receipt is dropped with those in the channel.
LEMMA EndKeeps ==
  ASSUME ReceiptInv, LeaveLoop \/ Interrupted
  PROVE  ReceiptInv'
  <1>1. /\ commands' = <<>> /\ doing' = NoCommand /\ receipt' = NoReceipt
        /\ wrote' = wrote
        /\ completed \subseteq completed'
        /\ completed' \subseteq completed \cup ({doing} \ {NoCommand})
    BY DEF LeaveLoop, Interrupted, TaskEnds, Completed
  <1>2. commands' \in Seq(Command) /\ QueuedOnce' /\ Queued' = {}
    BY <1>1, EmptyChannel
  <1>3. receipt.command = doing /\ receipt.outcome \in {"accepted", "rejected"}
    BY DEF ReceiptInv, CommandAtHand, ReceiptTypeOK
  <1>4. \A c \in Command :
          \/ receipts'[c] = "dropped"
          \/ /\ c = doing /\ receipts'[c] = receipt.outcome /\ doing \in completed'
          \/ c \notin Queued \cup {doing} /\ receipts'[c] = receipts[c]
    <2>1. CASE LeaveLoop
      BY <1>3, <2>1, SessionRuntimeConstants DEF LeaveLoop, TaskEnds, Resolved, Completed
    <2>2. CASE Interrupted
      BY <1>3, <2>2 DEF Interrupted, TaskEnds
    <2>3. QED
      BY <2>1, <2>2
  <1>5. receipts' \in [Command -> Verdict]
    <2>1. receipts' = [c \in Command |-> receipts'[c]]
      BY DEF LeaveLoop, Interrupted, TaskEnds
    <2>2. \A c \in Command : receipts'[c] \in Verdict
      BY <1>3, <1>4 DEF ReceiptInv, ReceiptTypeOK, Verdict
    <2>3. QED
      BY <2>1, <2>2
  <1>6. ReceiptTypeOK'
    BY <1>1, <1>2, <1>5 DEF ReceiptInv, ReceiptTypeOK, NoReceipt
  <1>7. CommandAtHand' /\ (Queued \cap wrote = {})'
    BY <1>1, <1>2 DEF CommandAtHand, NoReceipt
  <1>8. (\A c \in Command : receipts[c] = "waiting" <=> c \in Queued \cup {doing})'
    BY <1>1, <1>2, <1>3, <1>4, SessionRuntimeConstants DEF ReceiptInv
  <1>9. ReceiptsAreHonest'
    <2> SUFFICES ASSUME NEW c \in Command
                 PROVE  /\ receipts'[c] = "accepted" => c \in completed'
                        /\ receipts'[c] \in {"unsent", "rejected", "elsewhere"}
                             => c \notin wrote'
                        /\ receipts'[c] = "waiting" => c \in Queued' \cup {doing'}
      BY DEF ReceiptsAreHonest
    <2>1. CASE receipts'[c] = "dropped"
      BY <2>1
    <2>2. CASE c = doing /\ receipts'[c] = receipt.outcome /\ doing \in completed'
      BY <1>1, <1>3, <2>2, SessionRuntimeConstants DEF ReceiptInv, CommandAtHand
    <2>3. CASE c \notin Queued \cup {doing} /\ receipts'[c] = receipts[c]
      BY <1>1, <2>3 DEF ReceiptInv, ReceiptsAreHonest
    <2>4. QED
      BY <1>4, <2>1, <2>2, <2>3
  <1>10. QED
    BY <1>2, <1>6, <1>7, <1>8, <1>9 DEF ReceiptInv

-----------------------------------------------------------------------------
(* Commands.                                                                *)

\* What the machine answers to a command: a rejection is all there is to it.
LEMMA CommandAnswers ==
  ASSUME NEW event \in {"Command", "Shutdown"}, NEW from, Step(event, from)
  PROVE  /\ pc' = "acting" /\ branch' = from
         /\ (\E i \in DOMAIN batch' : batch'[i] = "Rejected") => batch' = <<"Rejected">>
  <1>1. batch' \in {<<>>, <<"Send">>, <<"Rejected">>, <<"Close", "SessionDown">>}
    BY SMTT(30) DEF Step, FsmSteps
  <1>2. QED
    BY <1>1, SMTT(30) DEF Step

\* A command read from the channel is at hand, or handed back untouched.
LEMMA ReceiveKeeps ==
  ASSUME ReceiptInv, Receive
  PROVE  ReceiptInv'
  <1> USE DEF machine, task, lifecycle, effects, reports
  <1>a. doing = NoCommand
    BY DEF Receive, ForeignCommand, ReadCommand, ChannelClosed, Selecting, ReceiptInv,
           CommandAtHand
  <1> DEFINE c == Head(commands)
  <1>1. CASE ForeignCommand
    <2>1. /\ commands # <<>> /\ commands' = Tail(commands)
          /\ receipts' = [receipts EXCEPT ![c] = "elsewhere"]
          /\ UNCHANGED <<doing, receipt, wrote, completed>>
      BY <1>1 DEF ForeignCommand
    <2>2. /\ commands' \in Seq(Command) /\ QueuedOnce'
          /\ c \in Command /\ c \in Queued
          /\ Queued' = Queued \ {c}
      BY <2>1, TakeOldest DEF ReceiptInv, ReceiptTypeOK
    <2> HIDE DEF c
    <2>3. ReceiptTypeOK'
      BY <2>1, <2>2 DEF ReceiptInv, ReceiptTypeOK, Verdict
    <2>4. CommandAtHand' /\ (Queued \cap wrote = {})'
      BY <1>a, <2>1, <2>2 DEF ReceiptInv, CommandAtHand
    <2>5. (\A d \in Command : receipts[d] = "waiting" <=> d \in Queued \cup {doing})'
      BY <1>a, <2>1, <2>2, SessionRuntimeConstants, SMTT(30)
      DEF ReceiptInv, ReceiptTypeOK
    <2>6. ReceiptsAreHonest'
      BY <1>a, <2>1, <2>2, SMTT(30)
      DEF ReceiptInv, ReceiptTypeOK, ReceiptsAreHonest
    <2>7. QED
      BY <2>2, <2>3, <2>4, <2>5, <2>6 DEF ReceiptInv
  <1>2. CASE ReadCommand
    <2>1. /\ commands # <<>> /\ commands' = Tail(commands)
          /\ doing' = c
          /\ receipt'.command = c
          /\ receipt' \in [command : {c}, outcome : {"accepted", "rejected"}]
          /\ receipt'.outcome = "rejected"
               => \E i \in DOMAIN batch' : batch'[i] = "Rejected"
          /\ UNCHANGED <<receipts, wrote, completed>>
      BY <1>2 DEF ReadCommand
    <2>2. /\ commands' \in Seq(Command) /\ QueuedOnce'
          /\ c \in Command /\ c \in Queued
          /\ Queued' = Queued \ {c}
      BY <2>1, TakeOldest DEF ReceiptInv, ReceiptTypeOK
    <2>3. /\ pc' = "acting" /\ branch' = "other"
          /\ receipt'.outcome = "rejected" => batch' = <<"Rejected">>
      BY <1>2, <2>1, CommandAnswers DEF ReadCommand
    <2> HIDE DEF c
    <2>4. ReceiptTypeOK'
      BY <2>1, <2>2 DEF ReceiptInv, ReceiptTypeOK
    <2>5. c \notin wrote
      BY <2>2 DEF ReceiptInv
    <2>6. CommandAtHand' /\ (Queued \cap wrote = {})'
      BY <2>1, <2>2, <2>3, <2>5 DEF ReceiptInv, CommandAtHand
    <2>7. (\A d \in Command : receipts[d] = "waiting" <=> d \in Queued \cup {doing})'
      BY <1>a, <2>1, <2>2, SessionRuntimeConstants DEF ReceiptInv
    <2>8. ReceiptsAreHonest'
      BY <2>1, <2>7 DEF ReceiptInv, ReceiptsAreHonest
    <2>9. QED
      BY <2>2, <2>4, <2>6, <2>7, <2>8 DEF ReceiptInv
  <1>3. CASE ChannelClosed
    <2>1. UNCHANGED receiptVars
      BY <1>3 DEF ChannelClosed, receiptVars
    <2>2. QED
      BY <1>a, <2>1, SameReceipts
  <1>4. QED
    BY <1>1, <1>2, <1>3 DEF Receive

\* A command is sent once, and from then on waits in the channel.
LEMMA SendCommandKeeps ==
  ASSUME ReceiptInv, NEW c \in Command, SendCommand(c)
  PROVE  ReceiptInv'
  <1> USE DEF machine, task, lifecycle, effects, reports
  <1>1. /\ receipts[c] = "unsent"
        /\ commands' = Append(commands, c)
        /\ receipts' = [receipts EXCEPT ![c] = "waiting"]
        /\ UNCHANGED <<pc, batch, branch, doing, receipt, wrote, completed>>
    BY DEF SendCommand
  <1>2. c \notin Queued \cup {doing} /\ c \notin wrote
    BY <1>1 DEF ReceiptInv, ReceiptsAreHonest
  <1>3. commands' \in Seq(Command) /\ QueuedOnce' /\ Queued' = Queued \cup {c}
    BY <1>1, <1>2, AddNewest DEF ReceiptInv, ReceiptTypeOK
  <1>4. ReceiptTypeOK'
    BY <1>1, <1>3 DEF ReceiptInv, ReceiptTypeOK, Verdict
  <1>5. CommandAtHand' /\ (Queued \cap wrote = {})'
    BY <1>1, <1>2, <1>3 DEF ReceiptInv, CommandAtHand
  <1>6. (\A d \in Command : receipts[d] = "waiting" <=> d \in Queued \cup {doing})'
    BY <1>1, <1>3 DEF ReceiptInv, ReceiptTypeOK
  <1>7. ReceiptsAreHonest'
    BY <1>1, <1>3 DEF ReceiptInv, ReceiptTypeOK, ReceiptsAreHonest
  <1>8. QED
    BY <1>3, <1>4, <1>5, <1>6, <1>7 DEF ReceiptInv

\* The other branches of the select loop, and the daemon's end of the channel.
LEMMA OthersKeep ==
  ASSUME ReceiptInv,
         \/ ReadMessage \/ ReadExtensionMessage \/ ReadGarbage \/ ReadEof \/ TimerFires
         \/ \E mac \in Mac : ReadLinkRequest(mac) \/ LinkAnswered(mac)
         \/ DropSenders
  PROVE  ReceiptInv'
  <1> USE DEF machine, task, channel, lifecycle, effects, reports
  <1>1. CASE DropSenders
    <2>1. UNCHANGED receiptVars /\ UNCHANGED <<pc, batch, branch>>
      BY <1>1 DEF DropSenders, receiptVars
    <2>2. QED
      BY <2>1, SameReceipts DEF ReceiptInv, CommandAtHand
  <1>2. CASE ~DropSenders
    <2>1. Selecting /\ UNCHANGED receiptVars
      BY <1>2 DEF ReadMessage, ReadExtensionMessage, ReadGarbage, ReadEof, TimerFires,
                  ReadLinkRequest, LinkAnswered, receiptVars
    <2>2. doing = NoCommand
      BY <2>1 DEF Selecting, ReceiptInv, CommandAtHand
    <2>3. QED
      BY <2>1, <2>2, SameReceipts
  <1>3. QED
    BY <1>1, <1>2

-----------------------------------------------------------------------------
\* ReceiptInv holds in every behaviour of the task.
LEMMA ReceiptInvCorrect == RuntimeSpec => []ReceiptInv
  <1>1. RuntimeInit => ReceiptInv
    <2> SUFFICES ASSUME RuntimeInit PROVE ReceiptInv
      OBVIOUS
    <2>1. commands = <<>> /\ commands \in Seq(Command) /\ DOMAIN commands = {}
      BY SMTT(30) DEF RuntimeInit
    <2>2. QueuedOnce /\ Queued = {}
      BY <2>1 DEF QueuedOnce, Queued
    <2>3. QED
      BY <2>1, <2>2, SessionRuntimeConstants
      DEF RuntimeInit, ReceiptInv, ReceiptTypeOK, Verdict, CommandAtHand, NoReceipt,
          ReceiptsAreHonest
  <1>2. ReceiptInv /\ [RuntimeNext]_runtimeVars => ReceiptInv'
    <2> SUFFICES ASSUME ReceiptInv, [RuntimeNext]_runtimeVars PROVE ReceiptInv'
      OBVIOUS
    <2>1. CASE UNCHANGED runtimeVars
      <3>1. UNCHANGED receiptVars /\ UNCHANGED <<pc, batch, branch>>
        BY <2>1 DEF runtimeVars, receiptVars, task, channel, effects
      <3>2. QED
        BY <3>1, SameReceipts DEF ReceiptInv, CommandAtHand
    <2>2. CASE Execute
      BY <2>2, ActingKeeps, NextRoundKeeps, EndKeeps DEF Execute
    <2>3. CASE RuntimeNext /\ ~Execute
      BY <2>3, EndKeeps, ReceiveKeeps, SendCommandKeeps, OthersKeep DEF RuntimeNext
    <2>4. QED
      BY <2>1, <2>2, <2>3
  <1>3. QED
    BY <1>1, <1>2, PTL DEF RuntimeSpec

\* Wherever the task is interrupted and however many commands are under way, a
\* receipt says accepted only once every action of its command was carried out,
\* rejected or elsewhere only if the command sent nothing, and no receipt is
\* left waiting that nobody holds (ReceiptsAreHonest).
THEOREM ReceiptsCorrect == RuntimeSpec => []ReceiptsAreHonest
  BY ReceiptInvCorrect, PTL DEF ReceiptInv

-----------------------------------------------------------------------------
(* The lifecycle.  What is still to be reported is in the batch: SessionUp  *)
(* when the machine has just gone up, SessionDown as the last action of the *)
(* last batch.                                                              *)

Notice == {"SessionUp", "SessionDown", "Other"}
Hook == {"up", "call", "down"}

\* The batches, and what is left of them.
Opening == {<<"Send", "SessionUp", "Other">>, <<"SessionUp", "Other">>}
Closing == {<<"Send", "Close", "SessionDown">>, <<"Close", "SessionDown">>}
Ending == Closing \cup {<<"SessionDown">>}
Ordinary ==
  {<<>>, <<"Send">>, <<"Other">>, <<"Rejected">>, <<"Destination">>, <<"LinkRequest">>,
   <<"Other", "Send">>, <<"Rejected", "Send">>, <<"Destination", "Send">>,
   <<"Send", "Destination">>}

LifecycleTypeOK ==
  /\ fsm \in {"opening", "up", "terminating", "ended"}
  /\ pc \in {"acting", "flushing", "select", "ended"}
  /\ batch \in Opening \cup Ending \cup Ordinary
  /\ close \in BOOLEAN /\ down_emitted \in BOOLEAN
  /\ active_exts \subseteq Extension
  /\ events \in Seq(Notice)
  /\ hooks \in [Extension -> Seq(Hook)]

Over == down_emitted \/ pc = "ended"

\* Subscribers know that the session is up.
UpTold == \E i \in DOMAIN events : events[i] = "SessionUp"

\* Where the task is; once the machine has ended, that it has is to be reported
\* or was, and the loop is left when the batch is done.
BatchIsDue ==
  /\ fsm = "opening" => ~UpTold
  /\ batch \in Opening => fsm = "up" /\ ~UpTold
  /\ batch \in Ending => fsm = "ended" /\ ~down_emitted
  /\ pc \in {"select", "ended"} => batch = <<>>
  /\ branch = "flush" => batch = <<>> /\ fsm # "ended"
  /\ down_emitted => fsm = "ended"
  /\ fsm = "ended" /\ pc # "ended" =>
       /\ pc # "select"
       /\ (down_emitted /\ batch = <<>>) \/ batch \in Ending
       /\ close \/ branch = "eof" \/ batch \in Closing

EventsAreInOrder ==
  /\ \A i \in DOMAIN events : events[i] = "SessionDown" <=> Over /\ i = Len(events)
  /\ Over => events # <<>>
  /\ \A i, j \in DOMAIN events : events[i] = "SessionUp" /\ events[j] = "SessionUp" => i = j
  /\ connection = "connected" => UpTold

\* Calls before the first and after the last are the matter of these two.
Bracketed(h, over) ==
  \A i \in DOMAIN h : /\ h[i] = "up" <=> i = 1
                      /\ h[i] = "down" <=> i = Len(h) /\ over

HooksAreInOrder ==
  /\ ~UpTold \/ down_emitted => active_exts = {}
  /\ \A e \in Extension :
       /\ e \in active_exts => hooks[e] # <<>>
       /\ ~UpTold => hooks[e] = <<>>
       /\ Bracketed(hooks[e], e \notin active_exts \/ pc = "ended")

LifecycleInv ==
  /\ LifecycleTypeOK
  /\ BatchIsDue
  /\ EventsAreInOrder
  /\ HooksAreInOrder

-----------------------------------------------------------------------------
(* Histories.                                                               *)

\* t is h with w as its last element, told again or not.
EndsWith(t, h, w) ==
  /\ t # <<>> /\ t[Len(t)] = w
  /\ Len(t) = Len(h) \/ Len(t) = Len(h) + 1
  /\ w \notin {"Other", "call"} => Len(t) = Len(h) + 1
  /\ \A i \in 1 .. Len(h) : t[i] = h[i]

\* What Told makes of a history.
LEMMA ToldEndsWith ==
  ASSUME NEW S, NEW h \in Seq(S), NEW w \in S
  PROVE  Told(h, w) \in Seq(S) /\ EndsWith(Told(h, w), h, w)
  <1>1. CASE h # <<>> /\ h[Len(h)] = w /\ w \in {"Other", "call"}
    BY <1>1 DEF Told, EndsWith
  <1>2. CASE ~(h # <<>> /\ h[Len(h)] = w /\ w \in {"Other", "call"})
    <2>1. Told(h, w) = Append(h, w)
      BY <1>2 DEF Told
    <2>2. QED
      BY <2>1, SMTT(30) DEF EndsWith
  <1>3. QED
    BY <1>1, <1>2

\* The first hook, a call, and the last hook of an extension.
LEMMA HookOrder ==
  ASSUME NEW h \in Seq(Hook), NEW t \in Seq(Hook)
  PROVE  /\ h = <<>> /\ EndsWith(t, h, "up") => Bracketed(t, FALSE) /\ t # <<>>
         /\ h # <<>> /\ Bracketed(h, FALSE) /\ EndsWith(t, h, "call")
              => Bracketed(t, FALSE) /\ t # <<>>
         /\ h # <<>> /\ Bracketed(h, FALSE) /\ EndsWith(t, h, "down")
              => Bracketed(t, TRUE) /\ t # <<>>
         /\ Bracketed(<<>>, TRUE) /\ Bracketed(<<>>, FALSE)
  <1> DEFINE n == Len(h)
             m == Len(t)
  <1>1. /\ n \in Nat /\ DOMAIN h = 1 .. n /\ m \in Nat /\ DOMAIN t = 1 .. m
        /\ (h = <<>>) <=> (n = 0)
        /\ (t = <<>>) <=> (m = 0)
    BY SMTT(30)
  <1>2. h = <<>> /\ EndsWith(t, h, "up") => Bracketed(t, FALSE) /\ t # <<>>
    <2>1. SUFFICES ASSUME h = <<>>, EndsWith(t, h, "up")
                   PROVE  Bracketed(t, FALSE) /\ t # <<>>
      OBVIOUS
    <2>2. t # <<>> /\ m = 1 /\ t[1] = "up"
      BY <1>1, <2>1, SMTT(30) DEF EndsWith
    <2>3. QED
      BY <1>1, <2>2, SMTT(30) DEF Bracketed
  <1> HIDE DEF n, m
  <1>3. ASSUME NEW w \in {"call", "down"}, h # <<>>, Bracketed(h, FALSE), EndsWith(t, h, w)
        PROVE  /\ t # <<>>
               /\ \A i \in 1 .. m : /\ t[i] = "up" <=> i = 1
                                    /\ t[i] = "down" <=> w = "down" /\ i = m
    <2>1. /\ \A i \in 1 .. n : t[i] = h[i] /\ (h[i] = "up" <=> i = 1) /\ h[i] # "down"
          /\ t # <<>> /\ t[m] = w /\ n # 0 /\ m # 0
          /\ m = n \/ m = n + 1
          /\ w = "down" => m = n + 1
      BY <1>1, <1>3 DEF EndsWith, Bracketed, n, m
    <2>2. ASSUME NEW i \in 1 .. m
          PROVE  t[i] = "up" <=> i = 1
      <3>1. CASE i \in 1 .. n
        BY <2>1, <3>1
      <3>2. CASE i \notin 1 .. n
        <4>1. i = m /\ i # 1
          BY <1>1, <2>1, <3>2, SMTT(30)
        <4>2. QED
          BY <2>1, <4>1
      <3>3. QED
        BY <3>1, <3>2
    <2>3. ASSUME NEW i \in 1 .. m
          PROVE  t[i] = "down" <=> w = "down" /\ i = m
      <3>1. CASE i = m
        BY <2>1, <3>1
      <3>2. CASE i # m
        <4>1. i \in 1 .. n
          BY <1>1, <2>1, <3>2, SMTT(30)
        <4>2. QED
          BY <2>1, <3>2, <4>1
      <3>3. QED
        BY <3>1, <3>2
    <2>4. QED
      BY <2>1, <2>2, <2>3
  <1>4. h # <<>> /\ Bracketed(h, FALSE) /\ EndsWith(t, h, "call")
          => Bracketed(t, FALSE) /\ t # <<>>
    BY <1>1, <1>3 DEF Bracketed, m
  <1>5. h # <<>> /\ Bracketed(h, FALSE) /\ EndsWith(t, h, "down")
          => Bracketed(t, TRUE) /\ t # <<>>
    BY <1>1, <1>3 DEF Bracketed, m
  <1>6. Bracketed(<<>>, TRUE) /\ Bracketed(<<>>, FALSE)
    BY SMTT(30) DEF Bracketed
  <1>7. QED
    BY <1>2, <1>4, <1>5, <1>6

\* What Dispatch tells each extension.
LEMMA DispatchTells ==
  ASSUME hooks \in [Extension -> Seq(Hook)], NEW S, NEW w \in Hook
  PROVE  /\ Dispatch(S, w) \in [Extension -> Seq(Hook)]
         /\ \A e \in Extension :
              /\ e \in S => EndsWith(Dispatch(S, w)[e], hooks[e], w)
              /\ e \notin S => Dispatch(S, w)[e] = hooks[e]
  <1>1. \A e \in Extension : /\ Told(hooks[e], w) \in Seq(Hook)
                             /\ EndsWith(Told(hooks[e], w), hooks[e], w)
    BY ToldEndsWith
  <1>2. QED
    BY <1>1 DEF Dispatch

-----------------------------------------------------------------------------
(* What a step makes of the reports.                                        *)

\* A notice other than the two of the lifecycle changes nothing of their order.
LEMMA OtherNotice ==
  ASSUME events \in Seq(Notice), EventsAreInOrder, ~Over, ~Over', connection' = connection,
         events' \in {events, Told(events, "Other")}
  PROVE  events' \in Seq(Notice) /\ EventsAreInOrder' /\ (UpTold' <=> UpTold)
  <1>1. CASE events' = events
    BY <1>1 DEF EventsAreInOrder, UpTold
  <1>2. CASE events' = Told(events, "Other")
    <2>1. events' \in Seq(Notice) /\ EndsWith(events', events, "Other")
      BY <1>2, ToldEndsWith DEF Notice
    <2>2. \A i \in DOMAIN events : events[i] # "SessionDown"
      BY DEF EventsAreInOrder
    <2>3. /\ \A i \in DOMAIN events' : \/ i \in DOMAIN events /\ events'[i] = events[i]
                                       \/ events'[i] = "Other"
          /\ \A i \in DOMAIN events : i \in DOMAIN events' /\ events'[i] = events[i]
      BY <2>1, SMTT(30) DEF EndsWith
    <2>4. UpTold' <=> UpTold
      BY <2>3 DEF UpTold
    <2>5. EventsAreInOrder'
      BY <2>2, <2>3, <2>4 DEF EventsAreInOrder
    <2>6. QED
      BY <2>1, <2>4, <2>5
  <1>3. QED
    BY <1>1, <1>2

\* SessionDown is the last notice.
LEMMA DownNotice ==
  ASSUME events \in Seq(Notice), EventsAreInOrder, ~Over, Over',
         connection' # "connected" \/ connection' = connection,
         events' = Append(events, "SessionDown")
  PROVE  events' \in Seq(Notice) /\ EventsAreInOrder' /\ (UpTold' <=> UpTold)
  <1>1. /\ events' \in Seq(Notice) /\ events' # <<>> /\ Len(events') = Len(events) + 1
        /\ Len(events) \in Nat /\ DOMAIN events = 1 .. Len(events)
        /\ DOMAIN events' = 1 .. (Len(events) + 1)
        /\ \A i \in DOMAIN events : i \in DOMAIN events' /\ events'[i] = events[i]
        /\ events'[Len(events) + 1] = "SessionDown"
    BY SMTT(30) DEF Notice
  <1>2. \A i \in DOMAIN events : events[i] # "SessionDown"
    BY DEF EventsAreInOrder
  <1>3. \A i \in DOMAIN events' : \/ i \in DOMAIN events /\ i # Len(events') /\ events'[i] = events[i]
                                  \/ i = Len(events') /\ events'[i] = "SessionDown"
    BY <1>1, SMTT(30)
  <1>4. UpTold' <=> UpTold
    BY <1>1, <1>3 DEF UpTold
  <1>5. EventsAreInOrder'
    BY <1>1, <1>2, <1>3, <1>4, SMTT(30) DEF EventsAreInOrder
  <1>6. QED
    BY <1>1, <1>4, <1>5

\* SessionUp is told once.
LEMMA UpNotice ==
  ASSUME events \in Seq(Notice), EventsAreInOrder, ~Over, ~Over', ~UpTold,
         events' = Told(events, "SessionUp")
  PROVE  events' \in Seq(Notice) /\ EventsAreInOrder' /\ UpTold'
  <1>1. events' \in Seq(Notice) /\ EndsWith(events', events, "SessionUp")
    BY ToldEndsWith DEF Notice
  <1>2. \A i \in DOMAIN events : events[i] \notin {"SessionDown", "SessionUp"}
    BY DEF EventsAreInOrder, UpTold
  <1>3. \A i \in DOMAIN events' : \/ events'[i] \notin {"SessionDown", "SessionUp"}
                                  \/ i = Len(events') /\ events'[i] = "SessionUp"
    BY <1>1, <1>2, SMTT(30) DEF EndsWith
  <1>4. UpTold'
    BY <1>1, SMTT(30) DEF EndsWith, UpTold
  <1>5. EventsAreInOrder'
    BY <1>3, <1>4 DEF EventsAreInOrder
  <1>6. QED
    BY <1>1, <1>4, <1>5

\* Calls to active extensions change nothing of the order of their hooks.
LEMMA HooksCalled ==
  ASSUME hooks \in [Extension -> Seq(Hook)], HooksAreInOrder, pc # "ended", pc' # "ended",
         NEW S \in SUBSET active_exts,
         UNCHANGED <<active_exts, down_emitted>>, UpTold' <=> UpTold,
         hooks' = hooks \/ hooks' = Dispatch(S, "call")
  PROVE  hooks' \in [Extension -> Seq(Hook)] /\ HooksAreInOrder'
  <1>1. CASE hooks' = hooks
    BY <1>1 DEF HooksAreInOrder
  <1>2. CASE hooks' = Dispatch(S, "call")
    <2>1. /\ hooks' \in [Extension -> Seq(Hook)]
          /\ \A e \in Extension : /\ e \in S => EndsWith(hooks'[e], hooks[e], "call")
                                  /\ e \notin S => hooks'[e] = hooks[e]
      BY <1>2, DispatchTells DEF Hook
    <2>2. ASSUME NEW e \in Extension
          PROVE  /\ e \in active_exts => hooks'[e] # <<>>
                 /\ ~UpTold => hooks'[e] = <<>>
                 /\ Bracketed(hooks'[e], e \notin active_exts)
      <3>1. /\ e \in active_exts => hooks[e] # <<>> /\ UpTold
            /\ ~UpTold => hooks[e] = <<>>
            /\ Bracketed(hooks[e], e \notin active_exts)
        BY DEF HooksAreInOrder
      <3>2. CASE e \in S
        <4>1. hooks[e] # <<>> /\ Bracketed(hooks[e], FALSE)
          BY <3>1, <3>2
        <4>2. Bracketed(hooks'[e], FALSE) /\ hooks'[e] # <<>>
          BY <2>1, <3>2, <4>1, HookOrder
        <4>3. QED
          BY <3>1, <3>2, <4>2
      <3>3. CASE e \notin S
        BY <2>1, <3>1, <3>3
      <3>4. QED
        BY <3>2, <3>3
    <2>3. QED
      BY <2>1, <2>2 DEF HooksAreInOrder
  <1>3. QED
    BY <1>1, <1>2

\* The last hook, of every extension that is active.
LEMMA HooksEnd ==
  ASSUME hooks \in [Extension -> Seq(Hook)], HooksAreInOrder, pc # "ended",
         UpTold' <=> UpTold,
         hooks' = Dispatch(active_exts, "down"),
         \/ active_exts' = {}
         \/ pc' = "ended" /\ active_exts' = active_exts /\ ~down_emitted'
  PROVE  hooks' \in [Extension -> Seq(Hook)] /\ HooksAreInOrder'
  <1>1. /\ hooks' \in [Extension -> Seq(Hook)]
        /\ \A e \in Extension : /\ e \in active_exts => EndsWith(hooks'[e], hooks[e], "down")
                                /\ e \notin active_exts => hooks'[e] = hooks[e]
    BY DispatchTells DEF Hook
  <1>2. ASSUME NEW e \in Extension
        PROVE  /\ e \in active_exts => hooks'[e] # <<>>
               /\ ~UpTold => hooks'[e] = <<>>
               /\ Bracketed(hooks'[e], TRUE)
    <2>1. /\ e \in active_exts => hooks[e] # <<>> /\ UpTold
          /\ ~UpTold => hooks[e] = <<>>
          /\ Bracketed(hooks[e], e \notin active_exts)
      BY DEF HooksAreInOrder
    <2>2. CASE e \in active_exts
      <3>1. hooks[e] # <<>> /\ Bracketed(hooks[e], FALSE)
        BY <2>1, <2>2
      <3>2. Bracketed(hooks'[e], TRUE) /\ hooks'[e] # <<>>
        BY <1>1, <2>2, <3>1, HookOrder
      <3>3. QED
        BY <2>1, <2>2, <3>2
    <2>3. CASE e \notin active_exts
      BY <1>1, <2>1, <2>3
    <2>4. QED
      BY <2>2, <2>3
  <1>3. \A e \in Extension : e \notin active_exts' \/ pc' = "ended"
    OBVIOUS
  <1>4. QED
    BY <1>1, <1>2, <1>3 DEF HooksAreInOrder

-----------------------------------------------------------------------------
(* The machine's answers, action by action.                                 *)

\* The batches that open a session, that end one and all others are told apart.
LEMMA BatchesDiffer ==
  /\ <<>> \in Ordinary
  /\ \A b \in Ordinary : b \notin Opening /\ b \notin Ending
  /\ \A b \in Opening : b \notin Ending
  /\ <<"SessionDown">> \notin Closing
  /\ \A b \in Opening \cup Ending : b # <<>>
  BY SMTT(30) DEF Ordinary, Opening, Ending, Closing

\* Head and tail of the sequences a batch can be.
LEMMA ShortSequences ==
  ASSUME NEW a, NEW b, NEW c
  PROVE  /\ Head(<<a>>) = a /\ Tail(<<a>>) = <<>>
         /\ Head(<<a, b>>) = a /\ Tail(<<a, b>>) = <<b>>
         /\ Head(<<a, b, c>>) = a /\ Tail(<<a, b, c>>) = <<b, c>>
  <1>1. Head(<<a>>) = a /\ Tail(<<a>>) = <<>>
    BY SMTT(30)
  <1>2. Head(<<a, b>>) = a /\ Tail(<<a, b>>) = <<b>>
    BY SMTT(30)
  <1>3. Head(<<a, b, c>>) = a /\ Tail(<<a, b, c>>) = <<b, c>>
    BY SMTT(30)
  <1>4. QED
    BY <1>1, <1>2, <1>3

\* What is left of an answer when one action of it is carried out.
LEMMA OneActionLess ==
  ASSUME batch \in Opening \cup Ending \cup Ordinary, NEW action, Next1(action)
  PROVE  \/ /\ batch \in Ordinary /\ batch' \in Ordinary
            /\ action \notin {"SessionUp", "SessionDown", "Close"}
         \/ batch \in Opening /\ action = "Send" /\ batch' \in Opening
         \/ batch \in Opening /\ action = "SessionUp" /\ batch' \in Ordinary
         \/ batch \in Closing /\ action = "Send" /\ batch' \in Closing
         \/ batch \in Closing /\ action = "Close" /\ batch' = <<"SessionDown">>
         \/ batch = <<"SessionDown">> /\ action = "SessionDown" /\ batch' = <<>>
  <1>1. batch # <<>> /\ action = Head(batch) /\ batch' = Tail(batch)
    BY DEF Next1
  <1> DEFINE Plain == {"Send", "Other", "Rejected", "Destination", "LinkRequest"}
  <1>2. CASE batch \in Ordinary
    <2>1. \E a, b \in Plain : batch = <<a>> \/ (batch = <<a, b>> /\ <<b>> \in Ordinary)
      BY <1>1, <1>2 DEF Ordinary
    <2>2. PICK a \in Plain, b \in Plain : batch = <<a>> \/ (batch = <<a, b>> /\ <<b>> \in Ordinary)
      BY <2>1
    <2>3. CASE batch = <<a>>
      <3>1. Head(batch) = a /\ Tail(batch) = <<>>
        BY <2>3, ShortSequences
      <3>2. QED
        BY <1>1, <1>2, <3>1, BatchesDiffer
    <2>4. CASE batch = <<a, b>> /\ <<b>> \in Ordinary
      <3>1. Head(batch) = a /\ Tail(batch) = <<b>>
        BY <2>4, ShortSequences
      <3>2. QED
        BY <1>1, <1>2, <2>4, <3>1
    <2>5. QED
      BY <2>2, <2>3, <2>4
  <1>3. CASE batch = <<"Send", "SessionUp", "Other">>
    <2>1. Head(batch) = "Send" /\ Tail(batch) = <<"SessionUp", "Other">>
      BY <1>3, SMTT(30)
    <2>2. batch \in Opening /\ <<"SessionUp", "Other">> \in Opening
      BY <1>3 DEF Opening
    <2>3. QED
      BY <1>1, <1>3, <2>1, <2>2
  <1>4. CASE batch = <<"SessionUp", "Other">>
    <2>1. Head(batch) = "SessionUp" /\ Tail(batch) = <<"Other">>
      BY <1>4, ShortSequences
    <2>2. batch \in Opening /\ <<"Other">> \in Ordinary
      BY <1>4 DEF Opening, Ordinary
    <2>3. QED
      BY <1>1, <1>4, <2>1, <2>2
  <1>5. CASE batch = <<"Send", "Close", "SessionDown">>
    <2>1. Head(batch) = "Send" /\ Tail(batch) = <<"Close", "SessionDown">>
      BY <1>5, SMTT(30)
    <2>2. batch \in Closing /\ <<"Close", "SessionDown">> \in Closing
      BY <1>5 DEF Closing
    <2>3. QED
      BY <1>1, <1>5, <2>1, <2>2
  <1>6. CASE batch = <<"Close", "SessionDown">>
    <2>1. Head(batch) = "Close" /\ Tail(batch) = <<"SessionDown">>
      BY <1>6, ShortSequences
    <2>2. batch \in Closing
      BY <1>6 DEF Closing
    <2>3. QED
      BY <1>1, <1>6, <2>1, <2>2
  <1>7. CASE batch = <<"SessionDown">>
    <2>1. Head(batch) = "SessionDown" /\ Tail(batch) = <<>>
      BY <1>7, ShortSequences
    <2>3. QED
      BY <1>1, <1>7, <2>1
  <1>8. QED
    BY <1>2, <1>3, <1>4, <1>5, <1>6, <1>7 DEF Opening, Ending, Closing

\* The answers of the machine, by what they do to the session.
LEMMA MachineAnswers ==
  ASSUME NEW event, NEW from, Step(event, from)
  PROVE  /\ pc' = "acting" /\ branch' = from /\ close' = FALSE
         /\ \/ fsm = "opening" /\ fsm' = "up" /\ batch' \in Opening
            \/ fsm' = "ended" /\ batch' \in Closing
            \/ fsm' = "ended" /\ batch' = <<"SessionDown">> /\ event = "Closed"
            \/ /\ fsm' \in {"opening", "up", "terminating"} /\ batch' \in Ordinary
               /\ fsm' = "opening" => fsm = "opening"
  <1>1. PICK step \in FsmSteps :
          /\ step[1] = fsm /\ step[2] = event
          /\ fsm' = step[3] /\ batch' = step[4]
          /\ pc' = "acting" /\ branch' = from /\ close' = FALSE
    BY DEF Step
  <1>2. \/ step[1] = "opening" /\ step[3] = "up" /\ step[4] \in Opening
        \/ step[3] = "ended" /\ step[4] \in Closing
        \/ step[3] = "ended" /\ step[4] = <<"SessionDown">> /\ step[2] = "Closed"
        \/ /\ step[3] \in {"opening", "up", "terminating"} /\ step[4] \in Ordinary
           /\ step[3] = "opening" => step[1] = "opening"
    BY SMTT(30) DEF FsmSteps, Opening, Closing, Ordinary
  <1>3. QED
    BY <1>1, <1>2

-----------------------------------------------------------------------------
(* Each action of the task keeps the invariant.                             *)

\* While the task selects, the session has not ended and nothing is at hand.
LEMMA AtSelect ==
  ASSUME LifecycleInv, pc = "select"
  PROVE  batch = <<>> /\ fsm # "ended" /\ ~Over /\ ~down_emitted
  BY DEF LifecycleInv, BatchIsDue, Over

\* An action that is neither of the session's start nor of its end.
LEMMA OrdinaryActionKeeps ==
  ASSUME LifecycleInv,
         SendMessage \/ CloseTcp \/ EmitDestination \/ EmitLinkRequest \/ EmitOther
  PROVE  LifecycleInv'
  <1> USE DEF lifecycle, machine, channel, reports
  <1>1. PICK action \in {"Send", "Close", "Destination", "LinkRequest", "Other", "Rejected"} :
          /\ Next1(action)
          /\ IF action = "Close" THEN close' = TRUE ELSE close' = close
    BY DEF SendMessage, CloseTcp, EmitDestination, EmitLinkRequest, EmitOther
  <1>2. /\ pc = "acting" /\ pc' \in {"acting", "flushing"} /\ batch # <<>>
        /\ UNCHANGED <<fsm, branch, active_exts, down_emitted, connection>>
        /\ events' \in {events, Told(events, "Other")}
        /\ hooks' = hooks \/ hooks' = Dispatch(active_exts, "call")
    BY DEF SendMessage, CloseTcp, EmitDestination, EmitLinkRequest, EmitOther, Next1
  <1>3. \/ batch \in Ordinary /\ batch' \in Ordinary /\ action # "Close"
        \/ batch \in Opening /\ batch' \in Opening /\ action # "Close"
        \/ batch \in Closing /\ batch' \in Closing /\ action # "Close"
        \/ batch \in Closing /\ batch' = <<"SessionDown">> /\ action = "Close"
    BY <1>1, OneActionLess DEF LifecycleInv, LifecycleTypeOK
  <1>4. ~down_emitted
    BY <1>2, <1>3, BatchesDiffer DEF LifecycleInv, BatchIsDue, Ending
  <1>5. events' \in Seq(Notice) /\ EventsAreInOrder' /\ (UpTold' <=> UpTold)
    BY <1>2, <1>4, OtherNotice DEF LifecycleInv, LifecycleTypeOK, Over
  <1>6. hooks' \in [Extension -> Seq(Hook)] /\ HooksAreInOrder'
    BY <1>2, <1>5, HooksCalled DEF LifecycleInv, LifecycleTypeOK
  <1>7. LifecycleTypeOK'
    BY <1>1, <1>2, <1>3, <1>5, <1>6 DEF LifecycleInv, LifecycleTypeOK, Ending
  <1>8. BatchIsDue'
    BY <1>1, <1>2, <1>3, <1>4, <1>5, BatchesDiffer DEF LifecycleInv, BatchIsDue, Ending
  <1>9. QED
    BY <1>5, <1>6, <1>7, <1>8 DEF LifecycleInv

\* The session is reported up.
LEMMA UpKeeps ==
  ASSUME LifecycleInv, EmitSessionUp
  PROVE  LifecycleInv'
  <1> USE DEF lifecycle, machine, channel, reports
  <1>1. /\ Next1("SessionUp")
        /\ pc = "acting" /\ pc' = "flushing" /\ batch # <<>>
        /\ UNCHANGED <<fsm, branch, close, down_emitted>>
        /\ active_exts' \subseteq Extension
        /\ events' = Told(events, "SessionUp")
        /\ hooks' = Dispatch(active_exts', "up")
    BY DEF EmitSessionUp, Next1, negotiate
  <1>2. batch \in Opening /\ batch' \in Ordinary
    BY <1>1, OneActionLess, BatchesDiffer, SMTT(30)
    DEF LifecycleInv, LifecycleTypeOK
  <1>3. fsm = "up" /\ ~UpTold /\ ~down_emitted
    BY <1>2 DEF LifecycleInv, BatchIsDue
  <1>4. events' \in Seq(Notice) /\ EventsAreInOrder' /\ UpTold'
    BY <1>1, <1>3, UpNotice DEF LifecycleInv, LifecycleTypeOK, Over
  <1>5. /\ hooks' \in [Extension -> Seq(Hook)]
        /\ \A e \in Extension : /\ e \in active_exts' => EndsWith(hooks'[e], hooks[e], "up")
                                /\ e \notin active_exts' => hooks'[e] = hooks[e]
    BY <1>1, DispatchTells DEF LifecycleInv, LifecycleTypeOK, Hook
  <1>6. \A e \in Extension : hooks[e] = <<>> /\ hooks[e] \in Seq(Hook) /\ hooks'[e] \in Seq(Hook)
    BY <1>3, <1>5 DEF LifecycleInv, LifecycleTypeOK, HooksAreInOrder
  <1>7. ASSUME NEW e \in Extension
        PROVE  /\ e \in active_exts' => hooks'[e] # <<>>
               /\ Bracketed(hooks'[e], e \notin active_exts')
    <2>1. CASE e \in active_exts'
      <3>1. Bracketed(hooks'[e], FALSE) /\ hooks'[e] # <<>>
        BY <1>5, <1>6, <2>1, HookOrder
      <3>2. QED
        BY <2>1, <3>1
    <2>2. CASE e \notin active_exts'
      BY <1>5, <1>6, <2>2, HookOrder
    <2>3. QED
      BY <2>1, <2>2
  <1>8. HooksAreInOrder'
    BY <1>1, <1>3, <1>4, <1>7 DEF HooksAreInOrder
  <1>9. LifecycleTypeOK'
    BY <1>1, <1>2, <1>4, <1>5 DEF LifecycleInv, LifecycleTypeOK
  <1>10. BatchIsDue'
    BY <1>1, <1>2, <1>3, BatchesDiffer DEF LifecycleInv, BatchIsDue
  <1>11. QED
    BY <1>4, <1>8, <1>9, <1>10 DEF LifecycleInv

\* The session is reported down by the machine's answer.
LEMMA DownKeeps ==
  ASSUME LifecycleInv, EmitSessionDown
  PROVE  LifecycleInv'
  <1> USE DEF lifecycle, machine, channel, reports
  <1>1. /\ Next1("SessionDown")
        /\ pc = "acting" /\ pc' = "flushing" /\ batch # <<>>
        /\ UNCHANGED <<fsm, branch, close, connection>>
        /\ down_emitted' = TRUE /\ active_exts' = {}
        /\ events' = Append(events, "SessionDown")
        /\ hooks' = Dispatch(active_exts, "down")
    BY DEF EmitSessionDown, Next1, Told
  <1>2. batch = <<"SessionDown">> /\ batch' = <<>>
    BY <1>1, OneActionLess, BatchesDiffer DEF LifecycleInv, LifecycleTypeOK
  <1>3. fsm = "ended" /\ ~down_emitted /\ (close \/ branch = "eof") /\ branch # "flush"
    BY <1>1, <1>2, BatchesDiffer DEF LifecycleInv, BatchIsDue, Ending
  <1>4. events' \in Seq(Notice) /\ EventsAreInOrder' /\ (UpTold' <=> UpTold)
    BY <1>1, <1>3, DownNotice DEF LifecycleInv, LifecycleTypeOK, Over
  <1>5. hooks' \in [Extension -> Seq(Hook)] /\ HooksAreInOrder'
    BY <1>1, <1>4, HooksEnd DEF LifecycleInv, LifecycleTypeOK
  <1>6. LifecycleTypeOK'
    BY <1>1, <1>2, <1>4, <1>5, BatchesDiffer DEF LifecycleInv, LifecycleTypeOK
  <1>7. BatchIsDue'
    BY <1>1, <1>2, <1>3, BatchesDiffer DEF BatchIsDue
  <1>8. QED
    BY <1>4, <1>5, <1>6, <1>7 DEF LifecycleInv

\* Between the actions nothing is reported.
LEMMA RoundKeeps ==
  ASSUME LifecycleInv, flush_pending_sends \/ NextRound
  PROVE  LifecycleInv'
  <1> USE DEF lifecycle, machine, channel, reports
  <1>1. /\ UNCHANGED <<fsm, batch, close, active_exts, down_emitted, connection, events, hooks>>
        /\ pc # "ended" /\ pc' \in {"select", "acting", "flushing"}
    BY DEF flush_pending_sends, NextRound, BatchDone
  <1>2. BatchIsDue' /\ branch' \in {branch, "flush"}
    <2>1. UpTold' = UpTold
      BY <1>1 DEF UpTold
    <2>2. CASE flush_pending_sends
      BY <2>1, <2>2 DEF flush_pending_sends, LifecycleInv, BatchIsDue
    <2>3. CASE NextRound
      <3>1. batch = <<>> /\ fsm # "ended"
        BY <2>3, BatchesDiffer DEF NextRound, BatchDone, LifecycleInv, BatchIsDue, Ending
      <3>2. QED
        BY <1>1, <2>1, <2>3, <3>1, SMTT(30)
        DEF NextRound, LifecycleInv, BatchIsDue
    <2>4. QED
      BY <2>2, <2>3
  <1>3. EventsAreInOrder'
    BY <1>1 DEF LifecycleInv, EventsAreInOrder, Over, UpTold
  <1>4. HooksAreInOrder'
    BY <1>1 DEF LifecycleInv, HooksAreInOrder, UpTold, Bracketed
  <1>5. LifecycleTypeOK'
    BY <1>1 DEF LifecycleInv, LifecycleTypeOK
  <1>6. QED
    BY <1>2, <1>3, <1>4, <1>5 DEF LifecycleInv

\* However the task ends, the drop of SessionLifecycle reports what the machine's
\* answers have not.
LEMMA EndReports ==
  ASSUME LifecycleInv, LeaveLoop \/ Interrupted
  PROVE  LifecycleInv'
  <1> USE DEF lifecycle, machine, channel, reports
  <1>1. /\ pc # "ended" /\ pc' = "ended" /\ batch' = <<>> /\ connection' = "disconnected"
        /\ UNCHANGED <<fsm, branch, close, active_exts, down_emitted>>
        /\ drop
    BY DEF LeaveLoop, Interrupted, TaskEnds, AtAwait, BatchDone
  <1>2. /\ events' \in Seq(Notice) /\ EventsAreInOrder' /\ (UpTold' <=> UpTold)
        /\ hooks' \in [Extension -> Seq(Hook)] /\ HooksAreInOrder'
    <2>1. CASE down_emitted
      <3>1. events' = events /\ hooks' = hooks
        BY <1>1, <2>1 DEF drop
      <3>2. UpTold' <=> UpTold
        BY <3>1 DEF UpTold
      <3>3. EventsAreInOrder'
        BY <1>1, <2>1, <3>1 DEF LifecycleInv, EventsAreInOrder, Over
      <3>4. HooksAreInOrder'
        <4>1. active_exts = {}
          BY <2>1 DEF LifecycleInv, HooksAreInOrder
        <4>2. QED
          BY <1>1, <3>1, <3>2, <4>1 DEF LifecycleInv, HooksAreInOrder
      <3>5. QED
        BY <3>1, <3>2, <3>3, <3>4 DEF LifecycleInv, LifecycleTypeOK
    <2>2. CASE ~down_emitted
      <3>1. events' = Append(events, "SessionDown") /\ hooks' = Dispatch(active_exts, "down")
        BY <1>1, <2>2 DEF drop
      <3>2. events' \in Seq(Notice) /\ EventsAreInOrder' /\ (UpTold' <=> UpTold)
        BY <1>1, <2>2, <3>1, DownNotice DEF LifecycleInv, LifecycleTypeOK, Over
      <3>3. hooks' \in [Extension -> Seq(Hook)] /\ HooksAreInOrder'
        BY <1>1, <2>2, <3>1, <3>2, HooksEnd DEF LifecycleInv, LifecycleTypeOK
      <3>4. QED
        BY <3>2, <3>3
    <2>3. QED
      BY <2>1, <2>2
  <1>3. LifecycleTypeOK'
    BY <1>1, <1>2, BatchesDiffer DEF LifecycleInv, LifecycleTypeOK
  <1>4. BatchIsDue'
    BY <1>1, <1>2, BatchesDiffer DEF LifecycleInv, BatchIsDue
  <1>5. QED
    BY <1>2, <1>3, <1>4 DEF LifecycleInv

\* A round of the select loop, with an answer of the machine or a link's.
LEMMA AnswerKeeps ==
  ASSUME LifecycleInv, pc = "select", pc' = "acting", close' = FALSE, branch' # "flush",
         UNCHANGED <<active_exts, down_emitted, connection, events>>,
         NEW S \in SUBSET active_exts,
         hooks' = hooks \/ hooks' = Dispatch(S, "call"),
         \/ fsm = "opening" /\ fsm' = "up" /\ batch' \in Opening
         \/ fsm' = "ended" /\ batch' \in Closing
         \/ fsm' = "ended" /\ batch' = <<"SessionDown">> /\ branch' = "eof"
         \/ /\ fsm' \in {"opening", "up", "terminating"} /\ batch' \in Ordinary
            /\ fsm' = "opening" => fsm = "opening"
  PROVE  LifecycleInv'
  <1>1. ~Over /\ ~Over' /\ ~down_emitted
    BY AtSelect DEF Over
  <1>2. events' \in Seq(Notice) /\ EventsAreInOrder' /\ (UpTold' <=> UpTold)
    BY <1>1, OtherNotice DEF LifecycleInv, LifecycleTypeOK
  <1>3. hooks' \in [Extension -> Seq(Hook)] /\ HooksAreInOrder'
    BY <1>2, HooksCalled DEF LifecycleInv, LifecycleTypeOK
  <1>4. LifecycleTypeOK'
    BY <1>2, <1>3 DEF LifecycleInv, LifecycleTypeOK, Ending
  <1>5. BatchIsDue'
    BY <1>1, <1>2, BatchesDiffer DEF LifecycleInv, BatchIsDue, Ending
  <1>6. QED
    BY <1>2, <1>3, <1>4, <1>5 DEF LifecycleInv

\* A branch of the select puts a whole batch of the machine's at hand.
LEMMA SelectKeeps ==
  ASSUME LifecycleInv,
         \/ ReadMessage \/ ReadExtensionMessage \/ ReadGarbage \/ ReadEof \/ TimerFires
         \/ ReadCommand \/ ChannelClosed
         \/ \E mac \in Mac : ReadLinkRequest(mac) \/ LinkAnswered(mac)
  PROVE  LifecycleInv'
  <1> USE DEF lifecycle, machine, reports, Selecting
  <1>1. ASSUME NEW event, NEW from \in {"message", "other", "eof"}, NEW S \in SUBSET active_exts,
               pc = "select", Step(event, from), event = "Closed" => from = "eof",
               UNCHANGED <<active_exts, down_emitted, connection, events>>,
               hooks' = hooks \/ hooks' = Dispatch(S, "call")
        PROVE  LifecycleInv'
    <2>1. /\ pc' = "acting" /\ branch' = from /\ close' = FALSE
          /\ \/ fsm = "opening" /\ fsm' = "up" /\ batch' \in Opening
             \/ fsm' = "ended" /\ batch' \in Closing
             \/ fsm' = "ended" /\ batch' = <<"SessionDown">> /\ event = "Closed"
             \/ /\ fsm' \in {"opening", "up", "terminating"} /\ batch' \in Ordinary
                /\ fsm' = "opening" => fsm = "opening"
      BY <1>1, MachineAnswers
    <2>2. branch' # "flush"
      BY <2>1
    <2>3. QED
      BY <1>1, <2>1, <2>2, AnswerKeeps
  <1>2. CASE ReadMessage
    <2>1. PICK S \in SUBSET active_exts : hooks' = Dispatch(S, "call")
      BY <1>2 DEF ReadMessage
    <2>2. /\ pc = "select" /\ Step("Message", "message")
          /\ UNCHANGED <<active_exts, down_emitted, connection, events>>
      BY <1>2 DEF ReadMessage
    <2>3. QED
      BY <1>1, <2>1, <2>2
  <1>3. CASE ReadExtensionMessage
    <2>1. PICK S \in SUBSET active_exts : hooks' = Dispatch(S, "call")
      BY <1>3 DEF ReadExtensionMessage
    <2>2. /\ pc = "select" /\ Step("Extension", "message")
          /\ UNCHANGED <<active_exts, down_emitted, connection, events>>
      BY <1>3 DEF ReadExtensionMessage
    <2>3. QED
      BY <1>1, <2>1, <2>2
  <1>4. CASE ReadGarbage \/ TimerFires \/ ReadCommand \/ ChannelClosed
    <2>1. PICK event \in {"Garbage", "Timer", "Command", "Shutdown"} : Step(event, "other")
      BY <1>4 DEF ReadGarbage, TimerFires, ReadCommand, ChannelClosed
    <2>2. /\ pc = "select" /\ hooks' = hooks
          /\ UNCHANGED <<active_exts, down_emitted, connection, events>>
      BY <1>4 DEF ReadGarbage, TimerFires, ReadCommand, ChannelClosed
    <2>3. event # "Closed" /\ {} \in SUBSET active_exts
      BY <2>1
    <2>4. QED
      BY <1>1, <2>1, <2>2, <2>3
  <1>5. CASE ReadEof
    <2>1. /\ pc = "select" /\ Step("Closed", "eof") /\ hooks' = hooks
          /\ UNCHANGED <<active_exts, down_emitted, connection, events>>
          /\ {} \in SUBSET active_exts
      BY <1>5 DEF ReadEof
    <2>2. QED
      BY <1>1, <2>1
  <1>6. CASE \E mac \in Mac : ReadLinkRequest(mac) \/ LinkAnswered(mac)
    <2>1. /\ pc = "select" /\ pc' = "acting" /\ close' = FALSE /\ branch' # "flush"
          /\ UNCHANGED <<active_exts, down_emitted, connection, events, hooks, fsm>>
          /\ batch' \in {<<"LinkRequest">>, <<"Send">>, <<"Rejected", "Send">>, <<"Rejected">>}
      BY <1>6 DEF ReadLinkRequest, LinkAnswered
    <2>2. batch' \in Ordinary /\ {} \in SUBSET active_exts
      BY <2>1 DEF Ordinary
    <2>3. fsm' \in {"opening", "up", "terminating"} /\ (fsm' = "opening" => fsm = "opening")
      BY <2>1, AtSelect DEF LifecycleInv, LifecycleTypeOK
    <2>4. QED
      BY <2>1, <2>2, <2>3, AnswerKeeps
  <1>7. QED
    BY <1>2, <1>3, <1>4, <1>5, <1>6

\* The channel is the daemon's business.
LEMMA ChannelKeeps ==
  ASSUME LifecycleInv,
         \/ ForeignCommand \/ DropSenders \/ UNCHANGED runtimeVars
         \/ \E c \in Command : SendCommand(c)
  PROVE  LifecycleInv'
  <1>1. UNCHANGED <<fsm, pc, batch, branch, close, active_exts, down_emitted, connection,
                    events, hooks>>
    BY DEF ForeignCommand, DropSenders, SendCommand, runtimeVars, machine, task, lifecycle,
           reports
  <1>2. BatchIsDue' /\ EventsAreInOrder' /\ HooksAreInOrder' /\ LifecycleTypeOK'
    BY <1>1
    DEF LifecycleInv, BatchIsDue, EventsAreInOrder, HooksAreInOrder, UpTold,
        Over, LifecycleTypeOK
  <1>3. QED
    BY <1>2 DEF LifecycleInv

-----------------------------------------------------------------------------
\* LifecycleInv holds in every behaviour of the task.
LEMMA LifecycleInvCorrect == RuntimeSpec => []LifecycleInv
  <1>1. RuntimeInit => LifecycleInv
    <2> SUFFICES ASSUME RuntimeInit PROVE LifecycleInv
      OBVIOUS
    <2>1. events = <<>> /\ events \in Seq(Notice) /\ DOMAIN events = {} /\ ~UpTold /\ ~Over
      BY SMTT(30) DEF RuntimeInit, UpTold, Over
    <2>2. /\ hooks \in [Extension -> Seq(Hook)]
          /\ \A e \in Extension : hooks[e] = <<>>
      BY SMTT(30) DEF RuntimeInit
    <2>3. Bracketed(<<>>, TRUE) /\ Bracketed(<<>>, FALSE)
      BY SMTT(30) DEF Bracketed
    <2>4. EventsAreInOrder /\ HooksAreInOrder
      BY <2>1, <2>2, <2>3
      DEF RuntimeInit, EventsAreInOrder, HooksAreInOrder, Bracketed
    <2>5. batch \in Ordinary
      BY DEF RuntimeInit, Ordinary
    <2>6. LifecycleTypeOK /\ BatchIsDue
      BY <2>1, <2>2, <2>5, BatchesDiffer
      DEF RuntimeInit, LifecycleTypeOK, BatchIsDue
    <2>7. QED
      BY <2>4, <2>6 DEF LifecycleInv
  <1>2. LifecycleInv /\ [RuntimeNext]_runtimeVars => LifecycleInv'
    BY OrdinaryActionKeeps, UpKeeps, DownKeeps, RoundKeeps, EndReports, SelectKeeps, ChannelKeeps
    DEF RuntimeNext, Execute, Receive
  <1>3. QED
    BY <1>1, <1>2, PTL DEF RuntimeSpec

\* One place, or none, counted.
LEMMA CountOf ==
  ASSUME NEW history, NEW what
  PROVE  /\ (\A i \in DOMAIN history : history[i] # what) => Count(history, what) = 0
         /\ \A n \in DOMAIN history :
              (\A i \in DOMAIN history : history[i] = what <=> i = n)
                => Count(history, what) = 1
  <1> DEFINE places == {i \in DOMAIN history : history[i] = what}
  <1>1. ASSUME \A i \in DOMAIN history : history[i] # what PROVE Count(history, what) = 0
    <2>1. places = {}
      BY <1>1
    <2>2. QED
      BY <2>1, FS_EmptySet DEF Count
  <1>2. ASSUME NEW n \in DOMAIN history, \A i \in DOMAIN history : history[i] = what <=> i = n
        PROVE  Count(history, what) = 1
    <2>1. places = {n}
      BY <1>2
    <2>2. QED
      BY <2>1, FS_Singleton DEF Count
  <1>3. QED
    BY <1>1, <1>2

\* LifecycleInv says what LifecycleIsReported counts.
LEMMA LifecycleCounted ==
  ASSUME LifecycleInv
  PROVE  LifecycleIsReported
  <1>1. OneSessionDown
    <2>1. events \in Seq(Notice) /\ EventsAreInOrder
      BY DEF LifecycleInv, LifecycleTypeOK
    <2>2. events # <<>> => Len(events) \in DOMAIN events
      BY <2>1, SMTT(30)
    <2>3. Count(events, "SessionDown") = IF down_emitted \/ pc = "ended" THEN 1 ELSE 0
      <3>1. CASE Over
        <4>1. \A i \in DOMAIN events : events[i] = "SessionDown" <=> i = Len(events)
          BY <2>1, <3>1 DEF EventsAreInOrder
        <4>2. Len(events) \in DOMAIN events
          BY <2>1, <2>2, <3>1 DEF EventsAreInOrder
        <4>3. Count(events, "SessionDown") = 1
          BY <4>1, <4>2, CountOf
        <4>4. QED
          BY <3>1, <4>3 DEF Over
      <3>2. CASE ~Over
        <4>1. \A i \in DOMAIN events : events[i] # "SessionDown"
          BY <2>1, <3>2 DEF EventsAreInOrder
        <4>2. Count(events, "SessionDown") = 0
          BY <4>1, CountOf
        <4>3. QED
          BY <3>2, <4>2 DEF Over
      <3>3. QED
        BY <3>1, <3>2
    <2>4. IF UpTold THEN Count(events, "SessionUp") = 1 ELSE Count(events, "SessionUp") = 0
      <3>1. CASE UpTold
        <4>1. PICK n \in DOMAIN events : events[n] = "SessionUp"
          BY <3>1 DEF UpTold
        <4>2. \A i \in DOMAIN events : events[i] = "SessionUp" <=> i = n
          BY <2>1, <4>1 DEF EventsAreInOrder
        <4>3. QED
          BY <3>1, <4>2, CountOf
      <3>2. CASE ~UpTold
        BY <3>2, CountOf DEF UpTold
      <3>3. QED
        BY <3>1, <3>2
    <2>5. \A i \in DOMAIN events : events[i] = "SessionDown" => i = Len(events)
      BY <2>1 DEF EventsAreInOrder
    <2>6. connection = "connected" => UpTold
      BY <2>1 DEF EventsAreInOrder
    <2>7. QED
      BY <2>3, <2>4, <2>5, <2>6, SMTT(30) DEF OneSessionDown
  <1>2. HooksAreBracketed
    <2> SUFFICES ASSUME NEW e \in Extension, hooks[e] # <<>>
                 PROVE  /\ hooks[e][1] = "up" /\ Count(hooks[e], "up") = 1
                        /\ Count(hooks[e], "down") =
                             (IF e \in active_exts /\ pc # "ended" THEN 0 ELSE 1)
                        /\ \A i \in DOMAIN hooks[e] : hooks[e][i] = "down" => i = Len(hooks[e])
      BY DEF HooksAreBracketed
    <2> DEFINE h == hooks[e]
               over == e \notin active_exts \/ pc = "ended"
    <2>1. h \in Seq(Hook) /\ Bracketed(h, over) /\ h # <<>>
      BY DEF LifecycleInv, LifecycleTypeOK, HooksAreInOrder
    <2> HIDE DEF h
    <2>2. 1 \in DOMAIN h /\ Len(h) \in DOMAIN h
      BY <2>1, SMTT(30)
    <2>3. \A i \in DOMAIN h : (h[i] = "up" <=> i = 1) /\ (h[i] = "down" <=> i = Len(h) /\ over)
      BY <2>1 DEF Bracketed
    <2>4. h[1] = "up" /\ Count(h, "up") = 1
      BY <2>2, <2>3, CountOf
    <2>5. over => Count(h, "down") = 1
      BY <2>2, <2>3, CountOf
    <2>6. ~over => Count(h, "down") = 0
      BY <2>3, CountOf
    <2>7. \A i \in DOMAIN h : h[i] = "down" => i = Len(h)
      BY <2>3
    <2>8. QED
      BY <2>4, <2>5, <2>6, <2>7 DEF h
  <1>3. QED
    BY <1>1, <1>2 DEF LifecycleIsReported

\* For every set of extensions and wherever the task is interrupted, subscribers
\* are told once that the session is down, last of all, and at most once that it
\* is up, and every extension hears "up" first and "down" last, once each
\* (LifecycleIsReported).
THEOREM LifecycleCorrect == RuntimeSpec => []LifecycleIsReported
  BY LifecycleInvCorrect, LifecycleCounted, PTL
=============================================================================
