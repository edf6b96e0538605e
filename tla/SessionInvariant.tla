-------------------------- MODULE SessionInvariant --------------------------
(***************************************************************************)
(* The inductive invariant of a session between a router and a modem, from *)
(* which NoFalseAlarm and SettledSidesAgree follow.                        *)
(*                                                                         *)
(* Wire says what is under way and how a session starts and ends; ScopeOK  *)
(* relates the open requests of a scope to the messages under way; Data    *)
(* relates what the two sides hold.                                        *)
(***************************************************************************)
EXTENDS DlepSession, SessionMessages

-----------------------------------------------------------------------------
(* Messages in flight, by scope: a destination, or NoMac for the session.   *)

\* The slots of a scope: the open request of the router, and of the modem.
RTx(s) == IF s = NoMac THEN rTxSession ELSE rTxDest[s]
MTx(s) == IF s = NoMac THEN mTxSession ELSE mTxDest[s]

\* x is a message of scope s and of one of the types.
Match(x, s, types) == x.mac = s /\ x.type \in types

\* Such a message is in q; at most one is; the first kind comes before the second.
Has(q, s, types) == \E i \in DOMAIN q : Match(q[i], s, types)

AtMostOne(q, s, types) ==
  \A i, j \in DOMAIN q : Match(q[i], s, types) /\ Match(q[j], s, types) => i = j

Before(q, s, first, second) ==
  \A i, j \in DOMAIN q : Match(q[i], s, first) /\ Match(q[j], s, second) => i < j

\* The slot a request opens and its response closes.
KindOf(type) ==
  CASE type \in {"SESSION_UPDATE", "SESSION_UPDATE_RESPONSE"} -> "SessionUpdate"
    [] type \in {"DESTINATION_UP", "DESTINATION_UP_RESPONSE"} -> "DestinationUp"
    [] type \in {"DESTINATION_DOWN", "DESTINATION_DOWN_RESPONSE"} -> "DestinationDown"
    [] type \in {"DESTINATION_ANNOUNCE", "DESTINATION_ANNOUNCE_RESPONSE"} -> "DestinationAnnounce"
    [] type \in {"LINK_CHARACTERISTICS_REQUEST", "LINK_CHARACTERISTICS_RESPONSE"} ->
         "LinkCharacteristics"
    [] OTHER -> Idle

\* Such messages in q are all of one kind.
OfKind(q, s, types, kind) ==
  \A i \in DOMAIN q : Match(q[i], s, types) => KindOf(q[i].type) = kind

\* The requests and replies of each side.
RouterRequest == {"SESSION_UPDATE", "DESTINATION_ANNOUNCE", "DESTINATION_DOWN",
                  "LINK_CHARACTERISTICS_REQUEST"}
RouterReply == {"SESSION_UPDATE_RESPONSE", "DESTINATION_UP_RESPONSE",
                "DESTINATION_DOWN_RESPONSE"}
ModemRequest == {"SESSION_UPDATE", "DESTINATION_UP", "DESTINATION_DOWN"}
ModemReply == {"SESSION_UPDATE_RESPONSE", "DESTINATION_DOWN_RESPONSE",
               "DESTINATION_ANNOUNCE_RESPONSE", "LINK_CHARACTERISTICS_RESPONSE"}

\* The states in which a side judges what it reads by its slots.
rLive == rState \in {"SessionInitPending", "InSession"}
mLive == mState = "InSession"

\* One side's requests of a scope, tx its slot: at most one reply and one
\* request of the peer's are under way in q, the reply first; a reply is to the
\* open request; and a request finds no request open, unless they crossed.
Side(q, s, reply, request, tx, cr) ==
  /\ AtMostOne(q, s, reply) /\ AtMostOne(q, s, request)
  /\ Before(q, s, reply, request)
  /\ OfKind(q, s, reply, tx)
  /\ Has(q, s, request) => Has(q, s, reply) \/ tx = Idle \/ cr

\* An open request is on its way out, or held by the peer, or its reply is on
\* its way in.
Answering(out, in, s, request, reply, tx, held) ==
  /\ OfKind(out, s, request, tx)
  /\ Has(out, s, request) \/ held => ~Has(in, s, reply)
  /\ tx # Idle => Has(out, s, request) \/ Has(in, s, reply) \/ held

\* Both at once, for sides a and b with queues qa and qb, slots ta and tb: a
\* sends requests Qa and is sent replies Pa; ha is set while b holds a request of
\* a's; la and lb say which sides are in session.
Slots(qa, qb, s, Qa, Pa, Qb, Pb, ta, tb, ha, hb, la, lb, cr) ==
  /\ la => Side(qa, s, Pa, Qb, ta, cr) /\ (Has(qa, s, Qb) => ~hb)
  /\ lb => Side(qb, s, Pb, Qa, tb, cr) /\ (Has(qb, s, Qa) => ~ha)
  /\ la /\ lb => /\ Answering(qb, qa, s, Qa, Pa, ta, ha)
                 /\ Answering(qa, qb, s, Qb, Pb, tb, hb)
                 /\ ha => ta = "LinkCharacteristics"
                 /\ hb => tb = "LinkCharacteristics"

\* The requests of scope s, of the router (a) and the modem (b).  Only the modem
\* holds a request: a link request it defers.
ScopeOK(s) ==
  Slots(toRouter, toModem, s, RouterRequest, ModemReply, ModemRequest, RouterReply,
        RTx(s), MTx(s), s \in mPendingLink, FALSE, rLive, mLive, crossed)

\* Requests about a destination that is up, and about one that is not.
Withdrawing == {"DESTINATION_DOWN", "LINK_CHARACTERISTICS_REQUEST"}
Asking == {"DESTINATION_ANNOUNCE"}

\* The router asks about destinations that are what it takes them for.
Interest(m) ==
  /\ mTxDest[m] = Idle => /\ Has(toModem, m, Withdrawing) => m \in mAnnounced
                          /\ Has(toModem, m, Asking) => m \notin mAnnounced
  /\ Has(toModem, m, {"DESTINATION_UP_RESPONSE"}) => ~Has(toModem, m, Asking)
  /\ Has(toModem, m, {"DESTINATION_DOWN_RESPONSE"}) => ~Has(toModem, m, Withdrawing)

\* The router's addresses.
PeerAddrs ==
  /\ \A i \in DOMAIN toModem : toModem[i].type = "SESSION_UPDATE" =>
       /\ StrictOk(mPeerAddrs, toModem[i].addrs)
       /\ rLive => apply_lenient(mPeerAddrs, toModem[i].addrs) = rLocalAddrs
  /\ rLive /\ ~Has(toModem, NoMac, {"SESSION_UPDATE"}) => mPeerAddrs = rLocalAddrs

-----------------------------------------------------------------------------
(* The router's data, and what becomes of it as it reads its messages.      *)

\* What the router holds of the session, besides its slots.
View == [up : SUBSET MAC, metrics : [MAC -> Metrics], addrs : [MAC -> SUBSET Addr],
         session : Metrics, peer : SUBSET Addr]

RouterView ==
  [up |-> rUp, metrics |-> rMetrics, addrs |-> rAddrs, session |-> rSessionMetrics,
   peer |-> rPeerAddrs]

\* destination_address_changes, of the data v.
Claimable(v, m, ch) ==
  [ch EXCEPT !.added = {a \in ch.added :
                          \/ a \in ch.removed
                          \/ /\ a \notin v.peer
                             /\ \A other \in v.up \ {m} : a \notin v.addrs[other]}]

\* What a message makes of the data v: a destination up, down, updated, measured;
\* the session updated; and the answer to the initialization.
ViewWith(v, x) ==
  [up |-> v.up \cup {x.mac},
   metrics |-> [v.metrics EXCEPT ![x.mac] = merge_link_metrics(x.metrics, v.session)],
   addrs |-> [v.addrs EXCEPT ![x.mac] = apply_lenient({}, Claimable(v, x.mac, x.addrs))],
   session |-> v.session, peer |-> v.peer]

ViewWithout(v, m) ==
  [up |-> v.up \ {m}, metrics |-> [v.metrics EXCEPT ![m] = NoMetrics],
   addrs |-> [v.addrs EXCEPT ![m] = {}], session |-> v.session, peer |-> v.peer]

ViewUpdated(v, x) ==
  [up |-> v.up,
   metrics |-> [v.metrics EXCEPT ![x.mac] = merge_link_metrics(x.metrics, v.metrics[x.mac])],
   addrs |-> [v.addrs EXCEPT
                ![x.mac] = apply_lenient(v.addrs[x.mac], Claimable(v, x.mac, x.addrs))],
   session |-> v.session, peer |-> v.peer]

ViewMeasured(v, x) ==
  [up |-> v.up,
   metrics |-> [v.metrics EXCEPT ![x.mac] = merge_link_metrics(x.metrics, v.metrics[x.mac])],
   addrs |-> v.addrs, session |-> v.session, peer |-> v.peer]

ViewSession(v, x) ==
  [up |-> v.up,
   metrics |-> [m \in MAC |-> IF m \in v.up THEN merge_link_metrics(x.metrics, v.metrics[m])
                                            ELSE v.metrics[m]],
   addrs |-> v.addrs,
   session |-> merge_link_metrics(x.metrics, v.session), peer |-> apply_lenient(v.peer, x.addrs)]

ViewGreeted(v, x) ==
  [up |-> v.up, metrics |-> v.metrics, addrs |-> v.addrs,
   session |-> merge_link_metrics(x.metrics, v.session), peer |-> x.addrs.added]

After(v, x) ==
  CASE x.type = "SESSION_INITIALIZATION_RESPONSE" -> ViewGreeted(v, x)
    [] x.type = "DESTINATION_UP" -> ViewWith(v, x)
    [] x.type = "DESTINATION_ANNOUNCE_RESPONSE" ->
         IF x.status = "SUCCESS" THEN ViewWith(v, x) ELSE v
    [] x.type \in {"DESTINATION_DOWN", "DESTINATION_DOWN_RESPONSE"} -> ViewWithout(v, x.mac)
    [] x.type = "DESTINATION_UPDATE" -> ViewUpdated(v, x)
    [] x.type = "LINK_CHARACTERISTICS_RESPONSE" -> ViewMeasured(v, x)
    [] x.type = "SESSION_UPDATE" -> ViewSession(v, x)
    [] OTHER -> v

\* The message x fits the data v: the router has nothing to object to it.
Acceptable(v, x) ==
  /\ x.type = "SESSION_UPDATE" => StrictOk(v.peer, x.addrs)
  /\ x.type \in {"DESTINATION_UPDATE", "DESTINATION_DOWN"} => x.mac \in v.up
  /\ x.type = "DESTINATION_UP" => x.mac \notin v.up

\* The messages that take a destination up or down.
UpChanging == {"DESTINATION_UP", "DESTINATION_DOWN", "DESTINATION_DOWN_RESPONSE",
               "DESTINATION_ANNOUNCE_RESPONSE"}

\* What the modem has told, once all of it is read.
ToldUp == {m \in MAC : \/ m \in mAnnounced /\ mTxDest[m] # "DestinationDown"
                       \/ mTxDest[m] = "DestinationUp"}

\* The data v of destination m, and all of it, is what the modem has told.  Metrics
\* and addresses it still holds back are not told yet, and a contested address is
\* the router's to refuse.
ToldDest(v, m) ==
  /\ Supplied(v.metrics[m]) = Types
  /\ m \notin mPendingMetrics => v.metrics[m] = mMetrics[m]
  /\ v.addrs[m] \subseteq mAdvertised[m]
  /\ contested \/ v.addrs[m] = mAdvertised[m]

Told(v) ==
  /\ v.session = mSessionMetrics /\ v.peer = mLocalAddrs
  /\ v.up = ToldUp
  /\ \A m \in ToldUp : ToldDest(v, m)

\* The router's data as it reads the messages of q one by one.  A destination goes
\* up or down with a message about it.
Path(q, views) ==
  /\ Len(views) = Len(q) + 1
  /\ \A i \in DOMAIN q : /\ views[i + 1] = After(views[i], q[i])
                         /\ Acceptable(views[i], q[i])
  /\ \A i \in DOMAIN views, m \in MAC :
       (\A j \in DOMAIN q : j >= i => ~Match(q[j], m, UpChanging)) =>
         (m \in views[i].up <=> m \in views[Len(views)].up)

\* Once it has read all that is under way, the router holds what the modem has told.
Chain(views) ==
  /\ Path(toRouter, views)
  /\ views[1] = RouterView
  /\ Told(views[Len(views)])

-----------------------------------------------------------------------------
\* What the modem keeps in order by itself.
ModemOwn ==
  /\ ModemRequestsMatchDestinations /\ ModemHoldsNothingBack
  /\ Supplied(mSessionMetrics) = Types
  /\ \A m \in mKnown : Supplied(mMetrics[m]) = Types
  /\ contested \/ ~Overlap([m \in MAC |-> mAddrs[m] \cup mAdvertised[m]])

\* A modem before its session, and a router.
ModemFresh ==
  /\ mAnnounced = {} /\ mPendingLink = {} /\ mPendingMetrics = {}
  /\ \A s \in Scope : MTx(s) = Idle
  /\ mPeerAddrs = {} /\ mLocalAddrs = {} /\ mSessionMetrics = InitialMetrics

RouterFresh ==
  /\ rUp = {} /\ rPeerAddrs = {} /\ rLocalAddrs = {} /\ rSessionMetrics = NoMetrics
  /\ \A s \in Scope : RTx(s) = Idle

\* No message of the type is in q, or none behind the first.
Free(q, type) == \A i \in DOMAIN q : q[i].type # type
FreeAfterFirst(q, type) == \A i \in DOMAIN q : i > 1 => q[i].type # type

\* The states of a side before its session (the modem's), and after.
Unbound == {"Listening", "AwaitingSessionInit"}
Over == {"Terminating", "Terminated"}

\* Before its session the modem has been sent an initialization at most.
HandshakeUnbound ==
  mState \in Unbound =>
    /\ ModemFresh /\ toRouter = <<>>
    /\ rState \in {"Closed", "SessionInitPending", "Terminated"}
    /\ toModem = <<>> \/ toModem = <<Bare("SESSION_INITIALIZATION")>>

\* Until it is answered the router has sent nothing but the initialization, and the
\* answer is what it reads first.
HandshakeStart ==
  /\ rState \in {"Closed", "SessionInitPending"} => RouterFresh
  /\ rState = "Closed" => /\ toModem = <<>> /\ toRouter = <<>>
                          /\ mState \notin {"InSession", "Terminating"}
  /\ rState = "SessionInitPending" =>
       /\ mState = "InSession" => toModem = <<>> /\ toRouter # <<>>
       /\ toRouter # <<>> => Head(toRouter).type = "SESSION_INITIALIZATION_RESPONSE"

\* A session is initialized once, on either side.
HandshakeOnce ==
  /\ rState = "InSession" => /\ rMetricTypes = Types /\ mState \notin Unbound
                             /\ Free(toRouter, "SESSION_INITIALIZATION_RESPONSE")
  /\ FreeAfterFirst(toRouter, "SESSION_INITIALIZATION_RESPONSE")
  /\ mState = "InSession" => Free(toModem, "SESSION_INITIALIZATION")

\* Only a side that ends the session says so, and only then is it answered.
HandshakeEnd ==
  /\ rState \notin Over => /\ Free(toModem, "SESSION_TERMINATION")
                           /\ Free(toRouter, "SESSION_TERMINATION_RESPONSE")
  /\ mState \notin Over => /\ Free(toRouter, "SESSION_TERMINATION")
                           /\ Free(toModem, "SESSION_TERMINATION_RESPONSE")

\* The order in which a session starts and ends.
Handshake == HandshakeUnbound /\ HandshakeStart /\ HandshakeOnce /\ HandshakeEnd

\* What is sent, and in which order a session starts and ends.
Wire ==
  /\ RouterTypeOK /\ ModemTypeOK
  /\ crossed \in BOOLEAN /\ contested \in BOOLEAN
  /\ toModem \in Seq(RouterMessage) /\ toRouter \in Seq(ModemMessage)
  /\ Handshake
  /\ ModemOwn

\* The router is in session, or will be once it reads the answer under way.
Greeted == \/ rState = "InSession"
           \/ rState = "SessionInitPending" /\ toRouter # <<>>

\* There are data the router will hold, message by message, up to what is told.
Sync == Greeted => \E views \in Seq(View) : Chain(views)

\* What the two sides hold of each other.
Data ==
  /\ NoFalseAlarm
  /\ mLive => (\A m \in MAC : Interest(m)) /\ PeerAddrs
  /\ Sync

-----------------------------------------------------------------------------
\* The inductive invariant.
SessionInv == Wire /\ (\A s \in Scope : ScopeOK(s)) /\ Data
=============================================================================
