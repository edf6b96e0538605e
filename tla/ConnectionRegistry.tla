------------------------- MODULE ConnectionRegistry -------------------------
(***************************************************************************)
(* The router daemon's connection registry                                 *)
(* (crates/dlep-daemon/src/connections.rs): for every modem endpoint the   *)
(* number of live session tasks and the generation of its last successful  *)
(* initialization, in a history whose discovered part is bounded.          *)
(*                                                                         *)
(* Every operation holds the mutex from start to end, so each is one       *)
(* action.  A session task owns a ConnectionTracker from register until    *)
(* its drop; several trackers may exist for one endpoint.                  *)
(*                                                                         *)
(* The code stores the instant an entry became inactive; idle holds the    *)
(* time since, in ticks, and stops at the retention time: beyond it an     *)
(* inactive entry goes at the next look, so nothing tells older ages apart.*)
(***************************************************************************)
EXTENDS Naturals, FiniteSets, Functions

CONSTANTS
  Peer,                  \* endpoints; their order (SocketAddr: Ord) is <
  Pinned,                \* the configured (static) ones
  Tracker,               \* identities of ConnectionTracker values
  NoPeer,                \* the endpoint of a tracker that does not exist
  max_discovered_peers,
  peer_retention,        \* peer_retention_secs, in ticks
  MaxGeneration          \* bound: successful initializations

ASSUME RegistryConstants ==
  /\ Peer \subseteq Nat /\ IsFiniteSet(Peer)
  /\ Pinned \subseteq Peer
  /\ IsFiniteSet(Tracker)
  /\ NoPeer \notin Peer
  /\ max_discovered_peers \in Nat \ {0}
  /\ peer_retention \in Nat \ {0}
  /\ MaxGeneration \in Nat

VARIABLES
  states,              \* History.states: endpoint -> PeerConnectionState
  idle,                \* History.inactive_since: endpoint -> time since then
  next_establishment,
  trackers,            \* the endpoint each live tracker is for
  published            \* the value in the watch channel

registryVars == <<states, idle, next_establishment, trackers, published>>

PeerConnectionState == [active_sessions : Nat, establishment_count : Nat]

\* The state of ConnectionRegistry's map, its trackers and its watch channel.
RegistryTypeOK ==
  /\ DOMAIN states \subseteq Peer
  /\ states \in [DOMAIN states -> PeerConnectionState]
  /\ DOMAIN idle \subseteq Peer
  /\ idle \in [DOMAIN idle -> 0..peer_retention]
  /\ next_establishment \in Nat
  /\ trackers \in [Tracker -> Peer \cup {NoPeer}]
  /\ DOMAIN published \subseteq Peer
  /\ published \in [DOMAIN published -> PeerConnectionState]

RegistryInit ==
  /\ states = [p \in {} |-> 0]
  /\ idle = [p \in {} |-> 0]
  /\ next_establishment = 0
  /\ trackers = [t \in Tracker |-> NoPeer]
  /\ published = states

-----------------------------------------------------------------------------
\* Mutant: live sessions do not protect an entry.
Retained_IgnoresActive(history, since) ==
  {p \in DOMAIN history : p \in Pinned \/ (p \in DOMAIN since => since[p] < peer_retention)}

\* prune_locked: what stays of a history.
Retained(history, since) ==
  {p \in DOMAIN history :
     \/ p \in Pinned
     \/ history[p].active_sessions > 0
     \/ p \in DOMAIN since => since[p] < peer_retention}

Holders(p) == {t \in Tracker : trackers[t] = p}

-----------------------------------------------------------------------------
\* The discovered history is full for a new peer once the expired entries
\* are gone.
Full(peer, kept) ==
  /\ peer \notin kept
  /\ peer \notin Pinned
  /\ Cardinality(kept \ Pinned) >= max_discovered_peers

Evictable(kept) ==
  {p \in (DOMAIN idle \cap kept) \ Pinned : states[p].active_sessions = 0}

\* The longest inactive entry goes first, the smallest address among equals.
Oldest(p, candidates) ==
  /\ p \in candidates
  /\ \A q \in candidates : idle[q] < idle[p] \/ (idle[q] = idle[p] /\ p <= q)

Admit(peer, t, remaining) ==
  /\ states' = [p \in remaining \cup {peer} |->
       IF p \notin remaining
       THEN [active_sessions |-> 1, establishment_count |-> 0]
       ELSE IF p = peer
       THEN [states[p] EXCEPT !.active_sessions = @ + 1]
       ELSE states[p]]
  /\ idle' = [p \in (DOMAIN idle \cap remaining) \cup ({peer} \ remaining) |->
       IF p \in remaining THEN idle[p] ELSE 0]
  /\ trackers' = [trackers EXCEPT ![t] = peer]
  /\ published' = states'
  /\ UNCHANGED next_establishment

register(peer, t) ==
  LET kept == Retained(states, idle)
  IN  /\ trackers[t] = NoPeer
      /\ \/ ~Full(peer, kept) /\ Admit(peer, t, kept)
         \/ /\ Full(peer, kept)
            /\ \E oldest \in Peer :
                 /\ Oldest(oldest, Evictable(kept))
                 /\ Admit(peer, t, kept \ {oldest})

\* PeerHistoryFull: every discovered entry is active.
RegisterRefused(peer) ==
  LET kept == Retained(states, idle)
  IN  /\ Full(peer, kept)
      /\ Evictable(kept) = {}
      /\ states' = Restrict(states, kept)
      /\ idle' = Restrict(idle, DOMAIN idle \cap kept)
      /\ published' = states'
      /\ UNCHANGED <<next_establishment, trackers>>

NewGeneration(peer) == next_establishment + 1

established(t) ==
  LET peer == trackers[t]
  IN  /\ peer # NoPeer
      /\ next_establishment < MaxGeneration
      /\ next_establishment' = next_establishment + 1
      /\ states' = [states EXCEPT ![peer].establishment_count = NewGeneration(peer)]
      /\ idle' = Restrict(idle, DOMAIN idle \ {peer})
      /\ published' = states'
      /\ UNCHANGED trackers

\* The last tracker of an endpoint starts its retention clock, unless it runs.
ClockAfterDrop(peer, left) ==
  IF left[peer].active_sessions = 0 /\ peer \notin DOMAIN idle
  THEN [p \in DOMAIN idle \cup {peer} |-> IF p = peer THEN 0 ELSE idle[p]]
  ELSE idle

ReleaseOne(peer) == [states EXCEPT ![peer].active_sessions = @ - 1]

\* The drop of a ConnectionTracker, however its session task ended.
DropTracker(t) ==
  LET peer == trackers[t]
      left == ReleaseOne(peer)
      since == ClockAfterDrop(peer, left)
      kept == Retained(left, since)
  IN  /\ peer # NoPeer
      /\ states' = Restrict(left, kept)
      /\ idle' = Restrict(since, DOMAIN since \cap kept)
      /\ trackers' = [trackers EXCEPT ![t] = NoPeer]
      /\ published' = states'
      /\ UNCHANGED next_establishment

\* One round of the reaper task.
prune ==
  LET kept == Retained(states, idle)
  IN  /\ kept # DOMAIN states
      /\ states' = Restrict(states, kept)
      /\ idle' = Restrict(idle, DOMAIN idle \cap kept)
      /\ published' = states'
      /\ UNCHANGED <<next_establishment, trackers>>

Tick ==
  /\ \E p \in DOMAIN idle : idle[p] < peer_retention
  /\ idle' = [p \in DOMAIN idle |->
                IF idle[p] < peer_retention THEN idle[p] + 1 ELSE idle[p]]
  /\ UNCHANGED <<states, next_establishment, trackers, published>>

RegistryNext ==
  \/ \E peer \in Peer, t \in Tracker : register(peer, t)
  \/ \E peer \in Peer : RegisterRefused(peer)
  \/ \E t \in Tracker : established(t)
  \/ \E t \in Tracker : DropTracker(t)
  \/ prune
  \/ Tick

RegistrySpec == RegistryInit /\ [][RegistryNext]_registryVars

-----------------------------------------------------------------------------
(* Properties.                                                              *)

\* An entry's active_sessions is the number of live trackers for it and every
\* tracked endpoint has an entry: established and the drop never unwrap a
\* missing entry and the count never goes below zero, whatever was pruned or
\* evicted while the session ran.
TrackersAreCounted ==
  \A p \in Peer :
    /\ p \in DOMAIN states => states[p].active_sessions = Cardinality(Holders(p))
    /\ p \notin DOMAIN states => Holders(p) = {}

\* The discovered endpoints never outgrow max_discovered_peers.
HistoryIsBounded == Cardinality(DOMAIN states \ Pinned) <= max_discovered_peers

\* Every inactive entry has a retention clock and every clock has an entry:
\* without one an entry could neither expire nor be evicted and would take up
\* its place in the history for ever.
InactiveEntriesAge ==
  /\ DOMAIN idle \subseteq DOMAIN states
  /\ \A p \in DOMAIN states : states[p].active_sessions = 0 => p \in DOMAIN idle

\* The watch channel holds the current history after every operation, also
\* where an operation prunes or evicts other endpoints on the way.
SnapshotIsCurrent == published = states

\* A generation belongs to one endpoint and is not issued again, across
\* eviction and re-admission.
GenerationsAreUnique ==
  \A p, q \in DOMAIN states :
    /\ states[p].establishment_count <= next_establishment
    /\ (p # q /\ states[p].establishment_count = states[q].establishment_count)
         => states[p].establishment_count = 0

\* The history is consistent after every operation of the driver, the session
\* tasks and the reaper: entries, trackers, clocks and snapshot agree, and the
\* discovered part keeps within its limit.
HistoryIsConsistent ==
  /\ TrackersAreCounted
  /\ HistoryIsBounded
  /\ InactiveEntriesAge
  /\ SnapshotIsCurrent
  /\ GenerationsAreUnique

\* Unsuccessful connection attempts never set an entry's retention clock back;
\* only an entry that has already expired starts again.
RetriesDoNotExtendRetention ==
  [][\A p \in DOMAIN idle \cap DOMAIN idle' :
       idle[p] < peer_retention => idle'[p] >= idle[p]]_registryVars
=============================================================================
