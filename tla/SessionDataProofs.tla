-------------------------- MODULE SessionDataProofs -------------------------
(***************************************************************************)
(* What the router will hold once it has read every message under way is   *)
(* what the modem has told it.                                             *)
(***************************************************************************)
EXTENDS SessionSteps, AnyPeerProofs

\* A leaf that names no prover is for Zenon.
USE ZenonT(60)

-----------------------------------------------------------------------------
(* What the modem tells and what the router makes of it.                    *)

\* Metrics: nothing supplied changes nothing, everything supplied replaces all.
LEMMA MergeTold ==
  ASSUME NEW a \in Metrics, NEW b \in Metrics
  PROVE  /\ merge_link_metrics(NoMetrics, b) = b
         /\ Supplied(b) \subseteq Supplied(a) => merge_link_metrics(a, b) = a
         /\ merge_link_metrics(a, b) \in Metrics
         /\ Supplied(a) \subseteq Types /\ Supplied(b) = Types
              => Supplied(merge_link_metrics(a, b)) = Types
  <1>1. merge_link_metrics(NoMetrics, b) = b
    BY DEF merge_link_metrics, Metrics, NoMetrics
  <1>2. ASSUME Supplied(b) \subseteq Supplied(a)
        PROVE  merge_link_metrics(a, b) = a
    <2>1. \A i \in MetricItem : a[i] = Unset => b[i] = Unset
      BY <1>2 DEF Supplied
    <2>2. QED
      BY <2>1 DEF merge_link_metrics, Metrics
  <1>3. /\ merge_link_metrics(a, b) \in Metrics
        /\ Supplied(a) \subseteq Types /\ Supplied(b) = Types
             => Supplied(merge_link_metrics(a, b)) = Types
    BY MergeType, MergeSupplied
  <1>4. QED
    BY <1>1, <1>2, <1>3

\* What a destination may claim of an address change: at most what is told, and
\* all of it when nobody else holds it.
LEMMA ClaimsApply ==
  ASSUME NEW v, NEW m, NEW held, NEW old, NEW new
  PROVE  LET claimed == apply_lenient(held, Claimable(v, m, between(old, new)))
         IN  /\ held \subseteq old => claimed \subseteq new
             /\ /\ held = old
                /\ \A a \in new : /\ a \notin v.peer
                                  /\ \A other \in v.up \ {m} : a \notin v.addrs[other]
                => claimed = new
  <1> DEFINE mine == {a \in new \ old : \/ a \in old \ new
                                        \/ /\ a \notin v.peer
                                           /\ \A other \in v.up \ {m} : a \notin v.addrs[other]}
             claimed == apply_lenient(held, Claimable(v, m, between(old, new)))
  <1>1. Claimable(v, m, between(old, new)) = [added |-> mine, removed |-> old \ new]
    <2>1. between(old, new) = [added |-> new \ old, removed |-> old \ new]
      BY DEF between
    <2>2. ASSUME NEW ch, ch = [added |-> new \ old, removed |-> old \ new]
          PROVE  Claimable(v, m, ch) = [added |-> mine, removed |-> old \ new]
      <3>1. /\ ch.added = new \ old /\ ch.removed = old \ new
            /\ \A set : [ch EXCEPT !.added = set] = [added |-> set, removed |-> old \ new]
        BY <2>2, SMTT(30)
      <3>2. QED
        BY <3>1 DEF Claimable
    <2>3. QED
      BY <2>1, <2>2
  <1>2. claimed = (held \ ((old \ new) \ mine)) \cup (mine \ (old \ new))
    BY <1>1, SMTT(30) DEF apply_lenient
  <1>3. mine \subseteq new \ old
    OBVIOUS
  <1>4. held \subseteq old => claimed \subseteq new
    BY <1>2, <1>3
  <1>5. ASSUME held = old, \A a \in new : /\ a \notin v.peer
                                          /\ \A other \in v.up \ {m} : a \notin v.addrs[other]
        PROVE  claimed = new
    <2>1. mine = new \ old
      BY <1>5
    <2>2. QED
      BY <1>2, <1>5, <2>1
  <1>6. QED
    BY <1>4, <1>5

\* A change of nothing claims nothing.
LEMMA ClaimsNothing ==
  ASSUME NEW v, NEW m, NEW held
  PROVE  apply_lenient(held, Claimable(v, m, NoChanges)) = held
  <1>1. Claimable(v, m, NoChanges) = NoChanges
    BY SMTT(30) DEF Claimable, NoChanges
  <1>2. QED
    BY <1>1, SMTT(30) DEF apply_lenient, NoChanges

\* What a message about one destination makes of the router's data.
LEMMA AfterDest ==
  ASSUME NEW v, NEW x
  PROVE  /\ (\/ x.type = "DESTINATION_UP"
             \/ x.type = "DESTINATION_ANNOUNCE_RESPONSE" /\ x.status = "SUCCESS")
              => After(v, x) = ViewWith(v, x)
         /\ x.type \in {"DESTINATION_DOWN", "DESTINATION_DOWN_RESPONSE"}
              => After(v, x) = ViewWithout(v, x.mac)
         /\ x.type = "DESTINATION_UPDATE" => After(v, x) = ViewUpdated(v, x)
         /\ x.type = "LINK_CHARACTERISTICS_RESPONSE" => After(v, x) = ViewMeasured(v, x)
  <1>1. (\/ x.type = "DESTINATION_UP"
         \/ x.type = "DESTINATION_ANNOUNCE_RESPONSE" /\ x.status = "SUCCESS")
          => After(v, x) = ViewWith(v, x)
    BY DEF After
  <1>2. x.type \in {"DESTINATION_DOWN", "DESTINATION_DOWN_RESPONSE"}
          => After(v, x) = ViewWithout(v, x.mac)
    BY DEF After
  <1>3. x.type = "DESTINATION_UPDATE" => After(v, x) = ViewUpdated(v, x)
    BY DEF After
  <1>4. x.type = "LINK_CHARACTERISTICS_RESPONSE" => After(v, x) = ViewMeasured(v, x)
    BY DEF After
  <1>5. QED
    BY <1>1, <1>2, <1>3, <1>4

\* A message about no destination leaves the router's destinations alone, unless
\* it updates the session's metrics.
LEMMA AfterSession ==
  ASSUME NEW v, NEW x
  PROVE  /\ (\/ x.type \in {"HEARTBEAT", "SESSION_UPDATE_RESPONSE", "SESSION_TERMINATION",
                           "SESSION_TERMINATION_RESPONSE"}
             \/ x.type = "DESTINATION_ANNOUNCE_RESPONSE" /\ x.status # "SUCCESS")
              => After(v, x) = v
         /\ x.type = "SESSION_UPDATE" => After(v, x) = ViewSession(v, x)
         /\ x.type = "SESSION_INITIALIZATION_RESPONSE" => After(v, x) = ViewGreeted(v, x)
  BY DEF After

\* The router's data stays the router's data.
LEMMA AfterType ==
  ASSUME NEW v \in View, NEW x \in ModemMessage
  PROVE  After(v, x) \in View
  <1>1. /\ x \in Message
        /\ x.type \in RouterTypes => x.mac \in MAC
        /\ x.metrics \in Metrics /\ x.addrs \in AddressChanges /\ NoMetrics \in Metrics
    BY MessageScope, NoDataTypes, SMTT(30) DEF Message
  <1>2. /\ v.up \subseteq MAC /\ v.metrics \in [MAC -> Metrics] /\ v.addrs \in [MAC -> SUBSET Addr]
        /\ v.session \in Metrics /\ v.peer \subseteq Addr
    BY DEF View
  <1>3. /\ \A m : Claimable(v, m, x.addrs) \in AddressChanges
        /\ x.addrs.added \subseteq Addr
    BY <1>1 DEF Claimable, AddressChanges
  <1>4. /\ \A b \in Metrics : merge_link_metrics(x.metrics, b) \in Metrics
        /\ \A m : \A addrs \in SUBSET Addr : apply_lenient(addrs, Claimable(v, m, x.addrs)) \subseteq Addr
        /\ apply_lenient(v.peer, x.addrs) \subseteq Addr
    BY <1>1, <1>2, <1>3, MergeType, ApplyType
  <1>5. ViewSession(v, x) \in View /\ ViewGreeted(v, x) \in View
    BY <1>2, <1>3, <1>4 DEF ViewSession, ViewGreeted, View
  <1>6. CASE x.mac \in MAC
    <2>1. /\ v.up \cup {x.mac} \subseteq MAC /\ v.up \ {x.mac} \subseteq MAC
          /\ v.metrics[x.mac] \in Metrics /\ v.addrs[x.mac] \in SUBSET Addr /\ {} \in SUBSET Addr
          /\ \A e \in Metrics : [v.metrics EXCEPT ![x.mac] = e] \in [MAC -> Metrics]
          /\ \A e \in SUBSET Addr : [v.addrs EXCEPT ![x.mac] = e] \in [MAC -> SUBSET Addr]
      BY <1>2, <1>6
    <2>2. /\ [v.metrics EXCEPT ![x.mac] = merge_link_metrics(x.metrics, v.session)] \in [MAC -> Metrics]
          /\ [v.metrics EXCEPT ![x.mac] = merge_link_metrics(x.metrics, v.metrics[x.mac])]
               \in [MAC -> Metrics]
          /\ [v.metrics EXCEPT ![x.mac] = NoMetrics] \in [MAC -> Metrics]
      <3>1. /\ merge_link_metrics(x.metrics, v.session) \in Metrics
            /\ merge_link_metrics(x.metrics, v.metrics[x.mac]) \in Metrics
        BY <1>2, <1>4, <2>1
      <3>2. QED
        BY <1>1, <2>1, <3>1
    <2>3. /\ [v.addrs EXCEPT ![x.mac] = apply_lenient({}, Claimable(v, x.mac, x.addrs))]
               \in [MAC -> SUBSET Addr]
          /\ [v.addrs EXCEPT ![x.mac] = apply_lenient(v.addrs[x.mac], Claimable(v, x.mac, x.addrs))]
               \in [MAC -> SUBSET Addr]
          /\ [v.addrs EXCEPT ![x.mac] = {}] \in [MAC -> SUBSET Addr]
      <3>1. /\ apply_lenient({}, Claimable(v, x.mac, x.addrs)) \in SUBSET Addr
            /\ apply_lenient(v.addrs[x.mac], Claimable(v, x.mac, x.addrs)) \in SUBSET Addr
        BY <1>4, <2>1
      <3>2. QED
        BY <2>1, <3>1
    <2>4. ViewWith(v, x) \in View /\ ViewWithout(v, x.mac) \in View
      BY <1>2, <2>1, <2>2, <2>3 DEF ViewWith, ViewWithout, View
    <2>5. ViewUpdated(v, x) \in View /\ ViewMeasured(v, x) \in View
      BY <1>2, <2>2, <2>3 DEF ViewUpdated, ViewMeasured, View
    <2>6. QED
      BY <1>5, <2>4, <2>5 DEF After
  <1>7. CASE x.mac \notin MAC
    <2>1. x.type \notin {"DESTINATION_UP", "DESTINATION_ANNOUNCE_RESPONSE", "DESTINATION_DOWN",
                         "DESTINATION_DOWN_RESPONSE", "DESTINATION_UPDATE",
                         "LINK_CHARACTERISTICS_RESPONSE"}
      BY <1>1, <1>7 DEF RouterTypes
    <2>2. QED
      BY <1>5, <2>1 DEF After
  <1>8. QED
    BY <1>6, <1>7

-----------------------------------------------------------------------------
(* A step of the modem's that concerns one destination, seen through the    *)
(* router's data: v before the message it sends, w after.                   *)

\* The modem's state of the other destinations stays.
OthersKept(mac) ==
  /\ \A m \in MAC \ {mac} : /\ mMetrics'[m] = mMetrics[m] /\ mAdvertised'[m] = mAdvertised[m]
                            /\ mTxDest'[m] = mTxDest[m]
                            /\ m \in mAnnounced' <=> m \in mAnnounced
                            /\ m \in mPendingMetrics' <=> m \in mPendingMetrics
  /\ mLocalAddrs' = mLocalAddrs /\ mSessionMetrics' = mSessionMetrics
  /\ contested => contested'

\* So do the other destinations in the data.
OthersSame(v, w, mac) ==
  /\ w.session = v.session /\ w.peer = v.peer
  /\ w.up \subseteq MAC /\ v.up \subseteq MAC
  /\ \A m \in MAC \ {mac} : /\ w.metrics[m] = v.metrics[m] /\ w.addrs[m] = v.addrs[m]
                            /\ m \in w.up <=> m \in v.up

\* What the modem tells of one destination leaves what it told of the others.
LEMMA ToldOneChanges ==
  ASSUME NEW v, NEW w, NEW mac \in MAC, Told(v), OthersKept(mac), OthersSame(v, w, mac),
         mac \in w.up <=> mac \in ToldUp', mac \in w.up => ToldDest(w, mac)'
  PROVE  Told(w)'
  <1>1. w.session = mSessionMetrics' /\ w.peer = mLocalAddrs'
    BY DEF Told, OthersKept, OthersSame
  <1>2. \A m \in MAC \ {mac} : m \in ToldUp' <=> m \in ToldUp
    BY DEF OthersKept, ToldUp
  <1>3. w.up = ToldUp'
    <2>1. ToldUp' \subseteq MAC
      BY DEF ToldUp
    <2>2. v.up = ToldUp
      BY DEF Told
    <2>3. QED
      BY <1>2, <2>1, <2>2, SMTT(30) DEF OthersSame
  <1>4. ASSUME NEW m \in ToldUp'
        PROVE  ToldDest(w, m)'
    <2>1. CASE m = mac
      BY <1>3, <2>1
    <2>2. CASE m # mac
      <3>1. m \in MAC \ {mac} /\ m \in ToldUp
        BY <1>2, <2>2 DEF ToldUp
      <3>2. ToldDest(v, m)
        BY <3>1 DEF Told
      <3>3. QED
        BY <3>1, <3>2 DEF ToldDest, OthersKept, OthersSame
    <2>3. QED
      BY <2>1, <2>2
  <1>5. QED
    BY <1>1, <1>3, <1>4 DEF Told

\* What a step leaves of what the modem told, when it leaves all it told of.
LEMMA ToldSame ==
  ASSUME NEW v, Told(v), contested => contested',
         UNCHANGED <<mTxDest, mAnnounced, mPendingMetrics, mMetrics, mAdvertised, mLocalAddrs,
                     mSessionMetrics>>
  PROVE  Told(v)'
  <1>1. ToldUp' = ToldUp
    BY DEF ToldUp
  <1>2. ASSUME NEW m \in ToldUp
        PROVE  ToldDest(v, m)'
    BY <1>2 DEF Told, ToldDest
  <1>3. QED
    BY <1>1, <1>2 DEF Told

\* A message about a destination changes what the router holds of that one.
LEMMA ViewOthers ==
  ASSUME NEW v \in View, NEW x, x.mac \in MAC
  PROVE  /\ OthersSame(v, ViewWith(v, x), x.mac) /\ OthersSame(v, ViewUpdated(v, x), x.mac)
         /\ OthersSame(v, ViewWithout(v, x.mac), x.mac) /\ OthersSame(v, ViewMeasured(v, x), x.mac)
         /\ OthersSame(v, v, x.mac)
  <1>1. v.up \subseteq MAC /\ v.metrics \in [MAC -> Metrics] /\ v.addrs \in [MAC -> SUBSET Addr]
    BY DEF View
  <1>2. \A m \in MAC \ {x.mac} :
          /\ \A e : [v.metrics EXCEPT ![x.mac] = e][m] = v.metrics[m]
          /\ \A e : [v.addrs EXCEPT ![x.mac] = e][m] = v.addrs[m]
    BY <1>1
  <1>3. OthersSame(v, ViewWith(v, x), x.mac)
    BY <1>1, <1>2 DEF OthersSame, ViewWith
  <1>4. OthersSame(v, ViewUpdated(v, x), x.mac)
    BY <1>1, <1>2 DEF OthersSame, ViewUpdated
  <1>5. OthersSame(v, ViewWithout(v, x.mac), x.mac)
    BY <1>1, <1>2 DEF OthersSame, ViewWithout
  <1>6. OthersSame(v, ViewMeasured(v, x), x.mac)
    BY <1>1, <1>2 DEF OthersSame, ViewMeasured
  <1>7. OthersSame(v, v, x.mac)
    BY <1>1 DEF OthersSame
  <1>8. QED
    BY <1>3, <1>4, <1>5, <1>6, <1>7

\* What is held of the addresses that were told, and what is granted of those that
\* are advertised now: all, unless two holders were given the same address.
Held(held, old) == held \subseteq old /\ (contested \/ held = old)

Granted(addrs, mac) ==
  addrs \subseteq mAdvertised'[mac] /\ (contested' \/ addrs = mAdvertised'[mac])

\* The router grants a destination the addresses the modem advertises for it,
\* all of them unless two holders were given the same.
LEMMA ToldClaims ==
  ASSUME ModemTypeOK', ModemOwn', NEW v \in View, NEW mac \in MAC, Told(v), OthersKept(mac),
         NEW held, NEW old, Held(held, old)
  PROVE  Granted(apply_lenient(held, Claimable(v, mac, between(old, mAdvertised'[mac]))), mac)
  <1> DEFINE new == mAdvertised'[mac]
             claimed == apply_lenient(held, Claimable(v, mac, between(old, new)))
  <1>1. claimed \subseteq new
    BY ClaimsApply DEF Held
  <1>2. ASSUME ~contested'
        PROVE  claimed = new
    <2>1. held = old
      BY <1>2 DEF OthersKept, Held
    <2>2. ASSUME NEW a \in new
          PROVE  /\ a \notin v.peer
                 /\ \A other \in v.up \ {mac} : a \notin v.addrs[other]
      <3>1. /\ a \notin mLocalAddrs'
            /\ \A n \in MAC \ {mac} : a \notin mAdvertised'[n]
        BY <1>2, <2>2 DEF ModemOwn, Overlap
      <3>2. v.peer = mLocalAddrs'
        BY DEF Told, OthersKept
      <3>3. ASSUME NEW other \in v.up \ {mac}
            PROVE  a \notin v.addrs[other]
        <4>1. other \in MAC \ {mac} /\ other \in ToldUp
          BY <3>3 DEF View, Told
        <4>2. v.addrs[other] \subseteq mAdvertised[other]
          BY <4>1 DEF Told, ToldDest
        <4>3. QED
          BY <3>1, <4>1, <4>2 DEF OthersKept
      <3>4. QED
        BY <3>1, <3>2, <3>3
    <2> HIDE DEF new
    <2>3. QED
      BY <2>1, <2>2, ClaimsApply, SMTT(30)
  <1>3. QED
    BY <1>1, <1>2 DEF Granted

-----------------------------------------------------------------------------
(* A step of the modem's, as the router will see it.                        *)

\* After the step, data that was what the modem has told has become, with what the
\* step sends, what the modem has told.
Tells(v) ==
  \/ toRouter' = toRouter /\ Told(v)'
  \/ \E y \in ModemMessage : /\ toRouter' = Append(toRouter, y)
                             /\ Acceptable(v, y) /\ Told(After(v, y))'

\* The modem's state is sound, before the step and after.
Stands ==
  /\ ModemTypeOK /\ ModemTypeOK' /\ ModemOwn /\ ModemOwn' /\ (contested => contested')
  /\ toRouter \in Seq(ModemMessage) /\ toRouter' \in Seq(ModemMessage)

\* What the modem appends is one of its messages.
LEMMA SentIs ==
  ASSUME Stands, NEW y, toRouter' = Append(toRouter, y)
  PROVE  y \in ModemMessage
  <1>1. toRouter'[Len(toRouter')] = y /\ Len(toRouter') \in DOMAIN toRouter'
    BY SMTT(30) DEF Stands
  <1>2. QED
    BY <1>1, SMTT(30) DEF Stands

\* Nothing is sent, and what was told of the destination is what there is.
LEMMA TellsNothing ==
  ASSUME NEW v \in View, Told(v), NEW mac \in MAC, OthersKept(mac), toRouter' = toRouter,
         mac \in ToldUp' <=> mac \in ToldUp, mac \in ToldUp => ToldDest(v, mac)'
  PROVE  Tells(v)
  <1>1. OthersSame(v, v, mac)
    BY DEF OthersSame, View
  <1>2. v.up = ToldUp
    BY DEF Told
  <1>3. Told(v)'
    BY <1>1, <1>2, ToldOneChanges
  <1>4. QED
    BY <1>3 DEF Tells

\* A Destination Update with all that changed.
LEMMA TellsUpdate ==
  ASSUME Stands, NEW v \in View, Told(v), NEW mac \in MAC, OthersKept(mac),
         mac \in ToldUp, mac \in ToldUp', NEW y \in ModemMessage, toRouter' = Append(toRouter, y),
         y.type = "DESTINATION_UPDATE", y.mac = mac,
         y.addrs = between(mAdvertised[mac], mAdvertised'[mac]),
         merge_link_metrics(y.metrics, v.metrics[mac]) = mMetrics'[mac],
         Supplied(mMetrics'[mac]) = Types
  PROVE  Tells(v)
  <1>1. mac \in v.up /\ ToldDest(v, mac)
    BY DEF Told
  <1>2. After(v, y) = ViewUpdated(v, y) /\ Acceptable(v, y)
    BY <1>1, AfterDest DEF Acceptable
  <1>3. PICK w : w = ViewUpdated(v, y)
    OBVIOUS
  <1>4. /\ OthersSame(v, w, mac) /\ mac \in w.up
        /\ w.metrics[mac] = mMetrics'[mac]
        /\ w.addrs[mac] = apply_lenient(v.addrs[mac], Claimable(v, mac, y.addrs))
    <2>1. OthersSame(v, w, mac)
      BY <1>3, ViewOthers
    <2>2. QED
      BY <1>1, <1>3, <2>1 DEF ViewUpdated, View
  <1>5. Granted(w.addrs[mac], mac)
    <2>1. Held(v.addrs[mac], mAdvertised[mac])
      BY <1>1 DEF ToldDest, Held
    <2>2. ModemTypeOK' /\ ModemOwn'
      BY DEF Stands
    <2>3. QED
      BY <1>4, <2>1, <2>2, ToldClaims
  <1>6. ToldDest(w, mac)'
    BY <1>4, <1>5 DEF ToldDest, Granted
  <1>7. Told(w)'
    BY <1>4, <1>6, ToldOneChanges
  <1>8. QED
    BY <1>2, <1>3, <1>7 DEF Tells

\* A Destination Up, or the answer to an Announce.
LEMMA TellsWith ==
  ASSUME Stands, NEW v \in View, Told(v), NEW mac \in MAC, OthersKept(mac),
         mac \notin ToldUp, mac \in ToldUp', NEW y \in ModemMessage,
         toRouter' = Append(toRouter, y),
         \/ y.type = "DESTINATION_UP"
         \/ y.type = "DESTINATION_ANNOUNCE_RESPONSE" /\ y.status = "SUCCESS",
         y.mac = mac, y.addrs = [added |-> mAdvertised'[mac], removed |-> {}],
         y.metrics = mMetrics'[mac], Supplied(mMetrics'[mac]) = Types
  PROVE  Tells(v)
  <1>1. mac \notin v.up
    BY DEF Told
  <1>2. After(v, y) = ViewWith(v, y) /\ Acceptable(v, y)
    BY <1>1, AfterDest DEF Acceptable
  <1>3. PICK w : w = ViewWith(v, y)
    OBVIOUS
  <1>4. merge_link_metrics(y.metrics, v.session) = mMetrics'[mac]
    <2>1. v.session \in Metrics /\ Supplied(v.session) = Types /\ y.metrics \in Metrics
      BY DEF Told, Stands, ModemOwn, View, ModemMessage, Message
    <2>2. QED
      BY <2>1, MergeTold, SMTT(30)
  <1>5. /\ OthersSame(v, w, mac) /\ mac \in w.up
        /\ w.metrics[mac] = mMetrics'[mac]
        /\ w.addrs[mac] = apply_lenient({}, Claimable(v, mac, y.addrs))
    <2>1. OthersSame(v, w, mac)
      BY <1>3, ViewOthers
    <2>2. QED
      BY <1>3, <1>4, <2>1 DEF ViewWith, View
  <1>6. Granted(w.addrs[mac], mac)
    <2>1. y.addrs = between({}, mAdvertised'[mac])
      BY BetweenApplies
    <2>2. ModemTypeOK' /\ ModemOwn'
      BY DEF Stands
    <2>3. Held({}, {})
      BY DEF Held
    <2>4. QED
      BY <1>5, <2>1, <2>2, <2>3, ToldClaims
  <1>7. ToldDest(w, mac)'
    BY <1>5, <1>6 DEF ToldDest, Granted
  <1>8. Told(w)'
    BY <1>5, <1>7, ToldOneChanges
  <1>9. QED
    BY <1>2, <1>3, <1>8 DEF Tells

\* The answer to a link request carries all the metrics.
LEMMA TellsMeasured ==
  ASSUME Stands, NEW v \in View, Told(v), NEW mac \in MAC, OthersKept(mac),
         mac \in ToldUp, mac \in ToldUp', NEW y \in ModemMessage, toRouter' = Append(toRouter, y),
         y.type = "LINK_CHARACTERISTICS_RESPONSE", y.mac = mac, y.metrics = mMetrics'[mac],
         Supplied(mMetrics'[mac]) = Types, mAdvertised'[mac] = mAdvertised[mac]
  PROVE  Tells(v)
  <1>1. mac \in v.up /\ ToldDest(v, mac)
    BY DEF Told
  <1>2. After(v, y) = ViewMeasured(v, y) /\ Acceptable(v, y)
    BY AfterDest DEF Acceptable
  <1>3. PICK w : w = ViewMeasured(v, y)
    OBVIOUS
  <1>4. merge_link_metrics(y.metrics, v.metrics[mac]) = mMetrics'[mac]
    <2>1. v.metrics[mac] \in Metrics /\ Supplied(v.metrics[mac]) = Types /\ y.metrics \in Metrics
      BY <1>1 DEF ToldDest, View, ModemMessage, Message
    <2>2. QED
      BY <2>1, MergeTold, SMTT(30)
  <1>5. /\ OthersSame(v, w, mac) /\ mac \in w.up
        /\ w.metrics[mac] = mMetrics'[mac] /\ w.addrs[mac] = v.addrs[mac]
    <2>1. OthersSame(v, w, mac)
      BY <1>3, ViewOthers
    <2>2. QED
      BY <1>1, <1>3, <1>4, <2>1 DEF ViewMeasured, View
  <1>6. ToldDest(w, mac)'
    BY <1>1, <1>5 DEF ToldDest, OthersKept
  <1>7. Told(w)'
    BY <1>5, <1>6, ToldOneChanges
  <1>8. QED
    BY <1>2, <1>3, <1>7 DEF Tells

\* A Destination Down, or the answer to one.
LEMMA TellsWithout ==
  ASSUME NEW v \in View, Told(v), NEW mac \in MAC, OthersKept(mac),
         mac \in ToldUp, mac \notin ToldUp', NEW y \in ModemMessage,
         toRouter' = Append(toRouter, y),
         y.type \in {"DESTINATION_DOWN", "DESTINATION_DOWN_RESPONSE"}, y.mac = mac
  PROVE  Tells(v)
  <1>1. mac \in v.up
    BY DEF Told
  <1>2. After(v, y) = ViewWithout(v, mac) /\ Acceptable(v, y)
    BY <1>1, AfterDest DEF Acceptable
  <1>3. PICK w : w = ViewWithout(v, mac)
    OBVIOUS
  <1>4. OthersSame(v, w, mac)
    BY <1>3, ViewOthers
  <1>5. mac \notin w.up
    BY <1>3 DEF ViewWithout
  <1>6. Told(w)'
    BY <1>4, <1>5, ToldOneChanges
  <1>7. QED
    BY <1>2, <1>3, <1>6 DEF Tells

-----------------------------------------------------------------------------
(* The messages the modem reads.                                            *)

\* What is held back is told when the router accepts the destination.
LEMMA UpAcceptedTells ==
  ASSUME Stands, NEW v \in View, Told(v), NEW x, x.mac \in MAC,
         ModemRecvUpAccepted(x), mTxDest[x.mac] = "DestinationUp"
  PROVE  Tells(v)
  <1> DEFINE mac == x.mac
  <1>1. /\ mTxDest' = [mTxDest EXCEPT ![mac] = Idle]
        /\ mAnnounced' = mAnnounced \cup {mac}
        /\ mPendingMetrics' = mPendingMetrics \ {mac}
        /\ mAdvertised' = [mAdvertised EXCEPT ![mac] = mAddrs[mac]]
        /\ UNCHANGED <<mMetrics, mAddrs, mLocalAddrs, mSessionMetrics>>
    BY DEF ModemRecvUpAccepted, mPeer
  <1>2. OthersKept(mac)
    BY <1>1 DEF Stands, ModemTypeOK, OthersKept
  <1>3. mac \in ToldUp /\ mac \in ToldUp'
    BY <1>1 DEF ToldUp, Stands, ModemTypeOK, Idle
  <1>4. /\ ToldDest(v, mac) /\ mAdvertised'[mac] = mAddrs[mac]
        /\ mMetrics[mac] \in Metrics /\ Supplied(mMetrics[mac]) = Types
        /\ v.metrics[mac] \in Metrics
    <2>1. mac \in mKnown
      BY DEF Stands, ModemOwn, ModemRequestsMatchDestinations
    <2>2. QED
      BY <1>1, <1>3, <2>1 DEF Told, Stands, ModemTypeOK, ModemOwn, View
  <1>5. CASE mac \in mPendingMetrics \/ mAdvertised[mac] # mAddrs[mac]
    <2>1. PICK y : y = HeldBack(mac)
      OBVIOUS
    <2>2. toRouter' = Append(toRouter, y)
      BY <1>5, <2>1 DEF ModemRecvUpAccepted, ModemSend
    <2>3. y \in ModemMessage
      BY <2>2, SentIs
    <2>4. /\ y.type = "DESTINATION_UPDATE" /\ y.mac = mac
          /\ y.metrics = IF mac \in mPendingMetrics THEN mMetrics[mac] ELSE NoMetrics
          /\ y.addrs = between(mAdvertised[mac], mAdvertised'[mac])
      BY <1>4, <2>1 DEF HeldBack, Msg
    <2>5. merge_link_metrics(y.metrics, v.metrics[mac]) = mMetrics'[mac]
      BY <1>1, <1>4, <2>4, MergeTold, SMTT(30) DEF ToldDest
    <2>6. QED
      BY <1>1, <1>2, <1>3, <1>4, <2>2, <2>3, <2>4, <2>5, TellsUpdate
  <1>6. CASE ~(mac \in mPendingMetrics \/ mAdvertised[mac] # mAddrs[mac])
    <2>1. toRouter' = toRouter
      BY <1>6 DEF ModemRecvUpAccepted
    <2>2. ToldDest(v, mac)'
      BY <1>1, <1>4, <1>6 DEF ToldDest, Stands
    <2>3. QED
      BY <1>2, <1>3, <2>1, <2>2, TellsNothing
  <1>7. QED
    BY <1>5, <1>6

\* The router withdraws from a destination.
LEMMA DestinationDownTells ==
  ASSUME Stands, NEW v \in View, Told(v), NEW x, x.mac \in MAC,
         ModemRecvDestinationDown(x), x.mac \in mAnnounced, mTxDest[x.mac] = Idle
  PROVE  Tells(v)
  <1> DEFINE mac == x.mac
  <1>1. /\ mAnnounced' = mAnnounced \ {mac} /\ mPendingMetrics' = mPendingMetrics \ {mac}
        /\ UNCHANGED <<mTxDest, mMetrics, mAdvertised, mLocalAddrs, mSessionMetrics>>
    BY DEF ModemRecvDestinationDown, mPeer, mData, mTx
  <1>2. OthersKept(mac)
    BY <1>1 DEF Stands, OthersKept
  <1>3. mac \in ToldUp /\ mac \notin ToldUp'
    BY <1>1 DEF ToldUp, Idle
  <1>4. PICK y : y = DestMsg("DESTINATION_DOWN_RESPONSE", mac, "SUCCESS")
    OBVIOUS
  <1>5. toRouter' = Append(toRouter, y)
    BY <1>4 DEF ModemRecvDestinationDown, ModemSend
  <1>6. y \in ModemMessage
    BY <1>5, SentIs
  <1>7. y.type = "DESTINATION_DOWN_RESPONSE" /\ y.mac = mac
    BY <1>4 DEF DestMsg, Msg
  <1>8. QED
    BY <1>2, <1>3, <1>5, <1>6, <1>7, TellsWithout

\* The router has taken note of a Down: the entry goes.
LEMMA DownResponseTells ==
  ASSUME Stands, NEW v \in View, Told(v), NEW x, x.mac \in MAC,
         ModemRecvDownResponse(x), mTxDest[x.mac] = "DestinationDown"
  PROVE  Tells(v)
  <1> DEFINE mac == x.mac
  <1>1. /\ mTxDest' = [mTxDest EXCEPT ![mac] = Idle]
        /\ mAnnounced' = mAnnounced \ {mac} /\ mPendingMetrics' = mPendingMetrics \ {mac}
        /\ mMetrics' = [mMetrics EXCEPT ![mac] = NoMetrics]
        /\ mAdvertised' = [mAdvertised EXCEPT ![mac] = {}]
        /\ UNCHANGED <<mLocalAddrs, mSessionMetrics, toRouter>>
    BY DEF ModemRecvDownResponse, ModemRemove, mPeer
  <1>2. OthersKept(mac)
    BY <1>1 DEF Stands, ModemTypeOK, OthersKept
  <1>3. mac \notin ToldUp /\ mac \notin ToldUp'
    BY <1>1 DEF ToldUp, Stands, ModemTypeOK, Idle
  <1>4. QED
    BY <1>1, <1>2, <1>3, TellsNothing

\* The router asks for a destination the modem has.
LEMMA AnnounceKnownTells ==
  ASSUME Stands, NEW v \in View, Told(v), NEW x, x.mac \in MAC,
         ModemRecvAnnounceKnown(x), x.mac \notin mAnnounced, mTxDest[x.mac] = Idle
  PROVE  Tells(v)
  <1> DEFINE mac == x.mac
  <1>1. /\ mAnnounced' = mAnnounced \cup {mac} /\ mPendingMetrics' = mPendingMetrics \ {mac}
        /\ mAdvertised' = [mAdvertised EXCEPT ![mac] = mAddrs[mac]]
        /\ UNCHANGED <<mTxDest, mMetrics, mLocalAddrs, mSessionMetrics>>
    BY DEF ModemRecvAnnounceKnown, mPeer, mTx
  <1>2. OthersKept(mac)
    BY <1>1 DEF Stands, ModemTypeOK, OthersKept
  <1>3. mac \notin ToldUp /\ mac \in ToldUp'
    BY <1>1 DEF ToldUp, Idle
  <1>4. PICK y : y = Msg("DESTINATION_ANNOUNCE_RESPONSE", mac, "SUCCESS", mMetrics[mac],
                         [added |-> mAddrs[mac], removed |-> {}])
    OBVIOUS
  <1>5. toRouter' = Append(toRouter, y)
    BY <1>4 DEF ModemRecvAnnounceKnown, ModemSend
  <1>6. y \in ModemMessage
    BY <1>5, SentIs
  <1>7. /\ mAdvertised'[mac] = mAddrs[mac] /\ mMetrics'[mac] = mMetrics[mac]
        /\ Supplied(mMetrics'[mac]) = Types
    BY <1>1 DEF Stands, ModemTypeOK, ModemOwn, ModemRecvAnnounceKnown
  <1>8. /\ y.type = "DESTINATION_ANNOUNCE_RESPONSE" /\ y.status = "SUCCESS" /\ y.mac = mac
        /\ y.metrics = mMetrics'[mac] /\ y.addrs = [added |-> mAdvertised'[mac], removed |-> {}]
    BY <1>4, <1>7 DEF Msg
  <1>9. QED
    BY <1>2, <1>3, <1>5, <1>6, <1>7, <1>8, TellsWith

\* The router asks for current metrics: at once, or held for the application.
LEMMA LinkRequestTells ==
  ASSUME Stands, NEW v \in View, Told(v), NEW x, x.mac \in MAC,
         ModemRecvLinkRequest(x), x.mac \in mAnnounced, mTxDest[x.mac] = Idle
  PROVE  Tells(v)
  <1> DEFINE mac == x.mac
  <1>1. UNCHANGED <<mTxDest, mAnnounced, mPendingMetrics, mMetrics, mAdvertised, mLocalAddrs,
                    mSessionMetrics>>
    BY DEF ModemRecvLinkRequest, mPeer, mTx, mDests, mData
  <1>2. OthersKept(mac)
    BY <1>1 DEF Stands, OthersKept
  <1>3. mac \in ToldUp /\ mac \in ToldUp' /\ mAdvertised'[mac] = mAdvertised[mac]
    BY <1>1 DEF ToldUp, Idle
  <1>4. CASE Defer
    <2>1. toRouter' = toRouter
      BY <1>4 DEF ModemRecvLinkRequest
    <2>2. Told(v)'
      BY <1>1, ToldSame DEF Stands
    <2>3. QED
      BY <2>1, <2>2 DEF Tells
  <1>5. CASE ~Defer
    <2>1. PICK y : y = LinkReply(mac, "REQUEST_DENIED", mMetrics[mac])
      OBVIOUS
    <2>2. toRouter' = Append(toRouter, y)
      BY <1>5, <2>1 DEF ModemRecvLinkRequest, ModemSend
    <2>3. y \in ModemMessage
      BY <2>2, SentIs
    <2>4. mMetrics'[mac] = mMetrics[mac] /\ Supplied(mMetrics'[mac]) = Types
      BY <1>1 DEF Stands, ModemOwn, ModemRequestsMatchDestinations
    <2>5. y.type = "LINK_CHARACTERISTICS_RESPONSE" /\ y.mac = mac /\ y.metrics = mMetrics'[mac]
      BY <2>1, <2>4 DEF LinkReply, Msg
    <2>6. QED
      BY <1>2, <1>3, <2>2, <2>3, <2>4, <2>5, TellsMeasured
  <1>6. QED
    BY <1>4, <1>5

\* A message the modem answers, or not, with nothing the router keeps.
LEMMA NothingNewTells ==
  ASSUME Stands, NEW v \in View, Told(v), NEW x,
         \/ ModemRecvSessionUpdate(x)
         \/ ModemRecvSessionUpdateResponse(x)
         \/ ModemRecvAnnounceUnknown(x)
         \/ ModemRecvHeartbeat(x)
         \/ ModemHeartbeatTick
  PROVE  Tells(v)
  <1>1. UNCHANGED <<mTxDest, mAnnounced, mPendingMetrics, mMetrics, mAdvertised, mLocalAddrs,
                    mSessionMetrics>>
    BY DEF ModemRecvSessionUpdate, ModemRecvSessionUpdateResponse, ModemRecvAnnounceUnknown,
           ModemRecvHeartbeat, ModemHeartbeatTick, mPeer, mTx, mDests, mData
  <1>2. Told(v)'
    BY <1>1, ToldSame DEF Stands
  <1>3. CASE toRouter' = toRouter
    BY <1>2, <1>3 DEF Tells
  <1>4. ASSUME NEW y, toRouter' = Append(toRouter, y),
               \/ y.type \in {"HEARTBEAT", "SESSION_UPDATE_RESPONSE"}
               \/ y.type = "DESTINATION_ANNOUNCE_RESPONSE" /\ y.status = "REQUEST_DENIED"
        PROVE  Tells(v)
    <2>1. y \in ModemMessage
      BY <1>4, SentIs
    <2>2. After(v, y) = v /\ Acceptable(v, y)
      BY <1>4, AfterSession DEF Acceptable
    <2>3. QED
      BY <1>2, <1>4, <2>1, <2>2 DEF Tells
  <1>5. CASE ModemRecvSessionUpdate(x)
    <2>1. PICK y : y = SessionMsg("SESSION_UPDATE_RESPONSE", "SUCCESS", NoMetrics, NoChanges)
      OBVIOUS
    <2>2. QED
      BY <1>4, <1>5, <2>1 DEF ModemRecvSessionUpdate, ModemSend, SessionMsg, Msg
  <1>6. CASE ModemRecvAnnounceUnknown(x)
    <2>1. PICK y : y = DestMsg("DESTINATION_ANNOUNCE_RESPONSE", x.mac, "REQUEST_DENIED")
      OBVIOUS
    <2>2. QED
      BY <1>4, <1>6, <2>1 DEF ModemRecvAnnounceUnknown, ModemSend, DestMsg, Msg
  <1>7. CASE ModemHeartbeatTick
    <2>1. PICK y : y = Bare("HEARTBEAT")
      OBVIOUS
    <2>2. QED
      BY <1>4, <1>7, <2>1 DEF ModemHeartbeatTick, ModemSend, Bare, Msg
  <1>8. CASE ModemRecvSessionUpdateResponse(x) \/ ModemRecvHeartbeat(x)
    BY <1>3, <1>8 DEF ModemRecvSessionUpdateResponse, ModemRecvHeartbeat
  <1>9. QED
    BY <1>5, <1>6, <1>7, <1>8

-----------------------------------------------------------------------------
(* The application's commands.                                              *)

\* Metrics the application supplies: link metrics, of the session's types.
LEMMA SuppliedTypes ==
  ASSUME NEW supplied \in Supply \cup {NoMetrics}, NEW stored \in Metrics, Supplied(stored) = Types,
         valid_metrics(supplied)
  PROVE  /\ supplied \in Metrics
         /\ merge_link_metrics(supplied, stored) \in Metrics
         /\ Supplied(merge_link_metrics(supplied, stored)) = Types
  <1>1. supplied \in Metrics
    BY ModemConstants, NoDataTypes DEF LinkMetrics
  <1>2. Supplied(supplied) \subseteq Types
    BY DEF valid_metrics, Types
  <1>3. QED
    BY <1>1, <1>2, MergeTold

\* A new destination.
LEMMA AddDestinationTells ==
  ASSUME Stands, NEW v \in View, Told(v), NEW mac \in MAC, NEW supplied \in Supply,
         NEW addrs \in AddAddrs, ModemAppAddDestination(mac, supplied, addrs)
  PROVE  Tells(v)
  <1> DEFINE metrics == merge_link_metrics(supplied, mSessionMetrics)
  <1>1. /\ mTxDest' = [mTxDest EXCEPT ![mac] = "DestinationUp"]
        /\ mMetrics' = [mMetrics EXCEPT ![mac] = metrics]
        /\ mAdvertised' = [mAdvertised EXCEPT ![mac] = addrs]
        /\ UNCHANGED <<mAnnounced, mPendingMetrics, mLocalAddrs, mSessionMetrics>>
        /\ mTxDest[mac] = Idle /\ mac \notin mKnown /\ valid_metrics(supplied)
    BY DEF ModemAppAddDestination, mPeer
  <1>2. Supplied(metrics) = Types
    BY <1>1, SuppliedTypes DEF Stands, ModemTypeOK, ModemOwn
  <1> HIDE DEF metrics
  <1>3. OthersKept(mac)
    BY <1>1 DEF Stands, ModemTypeOK, OthersKept
  <1>4. mac \notin ToldUp /\ mac \in ToldUp'
    BY <1>1 DEF ToldUp, Idle, Stands, ModemTypeOK, ModemOwn, ModemRequestsMatchDestinations
  <1>5. PICK y : y = Msg("DESTINATION_UP", mac, NoStatus, metrics,
                         [added |-> addrs, removed |-> {}])
    OBVIOUS
  <1>6. toRouter' = Append(toRouter, y)
    BY <1>5 DEF ModemAppAddDestination, ModemSend, metrics
  <1>7. y \in ModemMessage
    BY <1>6, SentIs
  <1>8. mAdvertised'[mac] = addrs /\ mMetrics'[mac] = metrics
    BY <1>1 DEF Stands, ModemTypeOK
  <1>9. /\ y.type = "DESTINATION_UP" /\ y.mac = mac
        /\ y.metrics = mMetrics'[mac] /\ y.addrs = [added |-> mAdvertised'[mac], removed |-> {}]
    BY <1>5, <1>8 DEF Msg
  <1>10. QED
    BY <1>2, <1>3, <1>4, <1>6, <1>7, <1>8, <1>9, TellsWith

\* New metrics are told of a destination the router follows, or kept for later.
LEMMA UpdateMetricsTells ==
  ASSUME Stands, NEW v \in View, Told(v), NEW mac \in MAC, NEW supplied \in Supply,
         ModemAppUpdateMetrics(mac, supplied)
  PROVE  Tells(v)
  <1>1. /\ mMetrics' = [mMetrics EXCEPT ![mac] = merge_link_metrics(supplied, mMetrics[mac])]
        /\ UNCHANGED <<mTxDest, mAnnounced, mAdvertised, mLocalAddrs, mSessionMetrics>>
        /\ mac \in mKnown /\ valid_metrics(supplied)
    BY DEF ModemAppUpdateMetrics, ModemUpdatable, mPeer, mTx
  <1>2. /\ mMetrics'[mac] = merge_link_metrics(supplied, mMetrics[mac])
        /\ Supplied(mMetrics'[mac]) = Types
    BY <1>1, SuppliedTypes DEF Stands, ModemTypeOK, ModemOwn
  <1>3. mac \in ToldUp' <=> mac \in ToldUp
    BY <1>1 DEF ToldUp
  <1>4. CASE ModemReporting(mac)
    <2>1. mPendingMetrics' = mPendingMetrics
      BY <1>4 DEF ModemAppUpdateMetrics
    <2>2. OthersKept(mac)
      BY <1>1, <2>1 DEF Stands, ModemTypeOK, OthersKept
    <2>3. PICK y : y = Msg("DESTINATION_UPDATE", mac, NoStatus, supplied, NoChanges)
      OBVIOUS
    <2>4. toRouter' = Append(toRouter, y)
      BY <1>4, <2>3 DEF ModemAppUpdateMetrics, ModemSend
    <2>5. y \in ModemMessage
      BY <2>4, SentIs
    <2>6. mac \in ToldUp /\ mac \notin mPendingMetrics
      BY <1>4 DEF ModemReporting, ToldUp, Idle, Stands, ModemOwn, ModemHoldsNothingBack
    <2>7. v.metrics[mac] = mMetrics[mac]
      BY <2>6 DEF Told, ToldDest
    <2>8. NoChanges = between(mAdvertised[mac], mAdvertised'[mac])
      BY <1>1 DEF NoChanges, between
    <2>9. /\ y.type = "DESTINATION_UPDATE" /\ y.mac = mac
          /\ y.metrics = supplied /\ y.addrs = between(mAdvertised[mac], mAdvertised'[mac])
      BY <2>3, <2>8 DEF Msg
    <2>10. QED
      BY <1>2, <1>3, <2>2, <2>4, <2>5, <2>6, <2>7, <2>9, TellsUpdate
  <1>5. CASE ~ModemReporting(mac)
    <2>1. mPendingMetrics' = mPendingMetrics \cup {mac} /\ toRouter' = toRouter
      BY <1>5 DEF ModemAppUpdateMetrics
    <2>2. OthersKept(mac)
      BY <1>1, <2>1 DEF Stands, ModemTypeOK, OthersKept
    <2>3. ASSUME mac \in ToldUp
          PROVE  ToldDest(v, mac)'
      BY <1>1, <2>1, <2>3 DEF Told, ToldDest, Stands
    <2>4. QED
      BY <1>3, <2>1, <2>2, <2>3, TellsNothing
  <1>6. QED
    BY <1>4, <1>5

\* New addresses, likewise.
LEMMA UpdateAddressesTells ==
  ASSUME Stands, NEW v \in View, Told(v), NEW mac \in MAC, NEW ch,
         ModemAppUpdateAddresses(mac, ch)
  PROVE  Tells(v)
  <1> DEFINE desired == apply_lenient(mAddrs[mac], ch)
             effective == between(mAdvertised[mac], desired)
             send == ModemReporting(mac) /\ effective # NoChanges
  <1>1. /\ UNCHANGED <<mTxDest, mAnnounced, mPendingMetrics, mMetrics, mLocalAddrs, mSessionMetrics>>
        /\ mac \in mKnown
    BY DEF ModemAppUpdateAddresses, ModemUpdatable, mPeer, mTx
  <1>2. CASE send
    <2>1. mAdvertised' = [mAdvertised EXCEPT ![mac] = desired]
      BY <1>2 DEF ModemAppUpdateAddresses
    <2>2. toRouter' = Append(toRouter, Msg("DESTINATION_UPDATE", mac, NoStatus, NoMetrics, effective))
      BY <1>2 DEF ModemAppUpdateAddresses, ModemSend
    <2>3. ModemReporting(mac)
      BY <1>2
    <2> HIDE DEF desired
    <2>4. OthersKept(mac) /\ mAdvertised'[mac] = desired
      BY <1>1, <2>1 DEF Stands, ModemTypeOK, OthersKept
    <2>5. PICK y : y = Msg("DESTINATION_UPDATE", mac, NoStatus, NoMetrics, effective)
      OBVIOUS
    <2>6. toRouter' = Append(toRouter, y)
      BY <2>2, <2>5
    <2>7. y \in ModemMessage
      BY <2>6, SentIs
    <2>8. mac \in ToldUp /\ mac \in ToldUp' /\ mac \notin mPendingMetrics
      BY <1>1, <2>3 DEF ModemReporting, ToldUp, Idle, Stands, ModemOwn, ModemHoldsNothingBack
    <2>9. /\ v.metrics[mac] = mMetrics'[mac] /\ v.metrics[mac] \in Metrics
          /\ Supplied(mMetrics'[mac]) = Types
      BY <1>1, <2>8 DEF Told, ToldDest, View, Stands, ModemOwn
    <2>10. /\ y.type = "DESTINATION_UPDATE" /\ y.mac = mac
           /\ y.metrics = NoMetrics /\ y.addrs = between(mAdvertised[mac], mAdvertised'[mac])
      BY <2>4, <2>5 DEF Msg
    <2>11. merge_link_metrics(y.metrics, v.metrics[mac]) = mMetrics'[mac]
      BY <2>9, <2>10, MergeTold
    <2>12. QED
      BY <2>4, <2>6, <2>7, <2>8, <2>9, <2>10, <2>11, TellsUpdate
  <1>3. CASE ~send
    <2>1. UNCHANGED <<mAdvertised, toRouter>>
      BY <1>3 DEF ModemAppUpdateAddresses
    <2>2. Told(v)'
      BY <1>1, <2>1, ToldSame DEF Stands
    <2>3. QED
      BY <2>1, <2>2 DEF Tells
  <1>4. QED
    BY <1>2, <1>3

\* A destination goes: the router is told when it follows it.
LEMMA DropDestinationTells ==
  ASSUME Stands, NEW v \in View, Told(v), NEW mac \in MAC, ModemAppDropDestination(mac)
  PROVE  Tells(v)
  <1>1. mTxDest[mac] = Idle /\ UNCHANGED <<mLocalAddrs, mSessionMetrics>>
    BY DEF ModemAppDropDestination, ModemDroppable, mPeer
  <1>2. CASE mac \notin mAnnounced
    <2>1. /\ mAnnounced' = mAnnounced \ {mac} /\ mPendingMetrics' = mPendingMetrics \ {mac}
          /\ mMetrics' = [mMetrics EXCEPT ![mac] = NoMetrics]
          /\ mAdvertised' = [mAdvertised EXCEPT ![mac] = {}]
          /\ UNCHANGED <<mTxDest, toRouter>>
      BY <1>2 DEF ModemAppDropDestination, ModemRemove
    <2>2. OthersKept(mac)
      BY <1>1, <2>1 DEF Stands, ModemTypeOK, OthersKept
    <2>3. mac \notin ToldUp /\ mac \notin ToldUp'
      BY <1>1, <1>2, <2>1 DEF ToldUp, Idle
    <2>4. QED
      BY <2>1, <2>2, <2>3, TellsNothing
  <1>3. CASE mac \in mAnnounced
    <2>1. /\ mTxDest' = [mTxDest EXCEPT ![mac] = "DestinationDown"]
          /\ UNCHANGED <<mAnnounced, mPendingMetrics, mMetrics, mAdvertised>>
      BY <1>3 DEF ModemAppDropDestination, mDests, mData
    <2>2. OthersKept(mac)
      BY <1>1, <2>1 DEF Stands, ModemTypeOK, OthersKept
    <2>3. mac \in ToldUp /\ mac \notin ToldUp'
      BY <1>1, <1>3, <2>1 DEF ToldUp, Idle, Stands, ModemTypeOK
    <2>4. PICK y : y = DestMsg("DESTINATION_DOWN", mac, NoStatus)
      OBVIOUS
    <2>5. toRouter' = Append(toRouter, y)
      BY <1>3, <2>4 DEF ModemAppDropDestination, ModemSend
    <2>6. y \in ModemMessage
      BY <2>5, SentIs
    <2>7. y.type = "DESTINATION_DOWN" /\ y.mac = mac
      BY <2>4 DEF DestMsg, Msg
    <2>8. QED
      BY <2>2, <2>3, <2>5, <2>6, <2>7, TellsWithout
  <1>4. QED
    BY <1>2, <1>3

\* The application answers a link request that was held for it.
LEMMA LinkAnswerTells ==
  ASSUME Stands, NEW v \in View, Told(v), NEW mac \in MAC, NEW status,
         NEW supplied \in Supply \cup {NoMetrics},
         ModemAppLinkCharacteristicsResponse(mac, status, supplied)
  PROVE  Tells(v)
  <1> DEFINE metrics == merge_link_metrics(supplied, mMetrics[mac])
  <1>1. /\ mMetrics' = [mMetrics EXCEPT ![mac] = metrics]
        /\ UNCHANGED <<mTxDest, mAnnounced, mPendingMetrics, mAdvertised, mLocalAddrs,
                       mSessionMetrics>>
        /\ mac \in mPendingLink /\ mTxDest[mac] = Idle /\ valid_metrics(supplied)
    BY DEF ModemAppLinkCharacteristicsResponse, mPeer, mTx
  <1>2. mac \in mAnnounced /\ mac \in mKnown
    BY <1>1 DEF Stands, ModemOwn, ModemRequestsMatchDestinations
  <1>3. Supplied(metrics) = Types
    BY <1>1, <1>2, SuppliedTypes DEF Stands, ModemTypeOK, ModemOwn
  <1>4. PICK y : y = LinkReply(mac, status, metrics)
    OBVIOUS
  <1>5. toRouter' = Append(toRouter, y)
    BY <1>4 DEF ModemAppLinkCharacteristicsResponse, ModemSend
  <1> HIDE DEF metrics
  <1>6. OthersKept(mac) /\ mMetrics'[mac] = metrics /\ mAdvertised'[mac] = mAdvertised[mac]
    BY <1>1 DEF Stands, ModemTypeOK, OthersKept
  <1>7. mac \in ToldUp /\ mac \in ToldUp'
    BY <1>1, <1>2 DEF ToldUp, Idle
  <1>8. y \in ModemMessage
    BY <1>5, SentIs
  <1>9. y.type = "LINK_CHARACTERISTICS_RESPONSE" /\ y.mac = mac /\ y.metrics = mMetrics'[mac]
    BY <1>4, <1>6 DEF LinkReply, Msg
  <1>10. QED
    BY <1>3, <1>5, <1>6, <1>7, <1>8, <1>9, TellsMeasured

\* The session's metrics change, and with them every destination's.
LEMMA SessionUpdateTells ==
  ASSUME Stands, NEW v \in View, Told(v), NEW supplied \in Supply, ModemAppSessionUpdate(supplied)
  PROVE  Tells(v)
  <1>1. /\ mSessionMetrics' = merge_link_metrics(supplied, mSessionMetrics)
        /\ \A m \in mKnown : mMetrics'[m] = merge_link_metrics(supplied, mMetrics[m])
        /\ UNCHANGED <<mTxDest, mAnnounced, mPendingMetrics, mAdvertised, mLocalAddrs>>
        /\ valid_metrics(supplied)
    BY DEF ModemAppSessionUpdate, Stands, ModemTypeOK
  <1>2. PICK y : y = SessionMsg("SESSION_UPDATE", NoStatus, supplied, NoChanges)
    OBVIOUS
  <1>3. toRouter' = Append(toRouter, y)
    BY <1>2 DEF ModemAppSessionUpdate, ModemSend
  <1>4. y \in ModemMessage
    BY <1>3, SentIs
  <1>5. y.type = "SESSION_UPDATE" /\ y.metrics = supplied /\ y.addrs = NoChanges
    BY <1>2 DEF SessionMsg, Msg
  <1>6. After(v, y) = ViewSession(v, y) /\ Acceptable(v, y)
    BY <1>5, AfterSession, BetweenApplies DEF Acceptable
  <1>7. PICK w : w = ViewSession(v, y)
    OBVIOUS
  <1>8. /\ w.session = merge_link_metrics(supplied, v.session) /\ w.peer = v.peer
        /\ w.up = v.up /\ w.addrs = v.addrs
    BY <1>5, <1>7, BetweenApplies DEF ViewSession
  <1>9. \A m \in MAC : m \in v.up => w.metrics[m] = merge_link_metrics(supplied, v.metrics[m])
    BY <1>5, <1>7 DEF ViewSession
  <1>10. ToldUp' = ToldUp /\ v.up = ToldUp
    BY <1>1 DEF ToldUp, Told
  <1>11. ASSUME NEW m \in ToldUp
         PROVE  ToldDest(w, m)'
    <2>1. m \in mKnown /\ m \in MAC
      BY DEF ToldUp, Stands, ModemOwn, ModemRequestsMatchDestinations
    <2>2. /\ ToldDest(v, m) /\ v.metrics[m] \in Metrics
          /\ mMetrics'[m] = merge_link_metrics(supplied, mMetrics[m])
          /\ w.metrics[m] = merge_link_metrics(supplied, v.metrics[m])
      BY <1>1, <1>9, <1>10, <2>1 DEF Told, View
    <2>3. Supplied(w.metrics[m]) = Types
      BY <1>1, <2>2, SuppliedTypes, SMTT(30) DEF ToldDest
    <2>4. QED
      BY <1>1, <1>8, <2>2, <2>3 DEF ToldDest, Stands
  <1>12. Told(w)'
    BY <1>1, <1>8, <1>10, <1>11 DEF Told
  <1>13. QED
    BY <1>3, <1>4, <1>6, <1>7, <1>12 DEF Tells

\* The modem's own addresses change.
LEMMA SessionAddressesTells ==
  ASSUME Stands, NEW v \in View, Told(v), NEW ch, ModemAppSessionAddresses(ch)
  PROVE  Tells(v)
  <1>1. /\ toRouter' = Append(toRouter, SessionMsg("SESSION_UPDATE", NoStatus, NoMetrics,
                                                   between(mLocalAddrs, mLocalAddrs')))
        /\ UNCHANGED <<mTxDest, mAnnounced, mPendingMetrics, mMetrics, mAdvertised, mSessionMetrics>>
    BY DEF ModemAppSessionAddresses, ModemSend, mDests, mData
  <1>2. PICK y : y = SessionMsg("SESSION_UPDATE", NoStatus, NoMetrics,
                                between(mLocalAddrs, mLocalAddrs'))
    OBVIOUS
  <1>3. y \in ModemMessage /\ toRouter' = Append(toRouter, y)
    BY <1>1, <1>2, SentIs
  <1>4. y.type = "SESSION_UPDATE" /\ y.metrics = NoMetrics
        /\ y.addrs = between(v.peer, mLocalAddrs')
    BY <1>2 DEF SessionMsg, Msg, Told
  <1>5. After(v, y) = ViewSession(v, y) /\ Acceptable(v, y)
    BY <1>4, AfterSession, BetweenApplies, SMTT(30) DEF Acceptable
  <1>6. PICK w : w = ViewSession(v, y)
    OBVIOUS
  <1>7. w.peer = mLocalAddrs'
    BY <1>4, <1>6, BetweenApplies, SMTT(30) DEF ViewSession
  <1>8. v.session \in Metrics /\ \A m \in MAC : v.metrics[m] \in Metrics
    BY DEF View
  <1>9. /\ w.up = v.up /\ w.addrs = v.addrs /\ w.session = v.session
        /\ \A m \in MAC : w.metrics[m] = v.metrics[m]
    BY <1>4, <1>6, <1>8, MergeTold DEF ViewSession
  <1>10. ToldUp' = ToldUp /\ ToldUp \subseteq MAC
    BY <1>1 DEF ToldUp
  <1>11. ASSUME NEW m \in ToldUp
         PROVE  ToldDest(w, m)'
    BY <1>1, <1>9, <1>10 DEF Told, ToldDest, Stands
  <1>12. Told(w)'
    BY <1>1, <1>7, <1>9, <1>10, <1>11 DEF Told
  <1>13. QED
    BY <1>3, <1>5, <1>6, <1>12 DEF Tells

\* The end of the session tells nothing of its data.
LEMMA GoesTells ==
  ASSUME Stands, NEW v \in View, Told(v), ModemDoes, mState' \in Over
  PROVE  Tells(v)
  <1>0. ModemGoes
    BY DEF ModemDoes, ModemWaits, ModemEnters, ModemCloses, ModemHolds,
           ModemNotes, ModemTells, ModemReplies, ModemOpens, ModemAnswers,
           ModemStays, mLive, Over
  <1>1. UNCHANGED <<mTxDest, mAnnounced, mPendingMetrics, mMetrics, mAdvertised, mLocalAddrs,
                    mSessionMetrics>>
    BY <1>0 DEF ModemGoes, mTx, mDests, mData, mPeer
  <1>2. Told(v)'
    BY <1>1, ToldSame DEF Stands
  <1>3. ASSUME NEW y, toRouter' = Append(toRouter, y),
               y.type \in {"SESSION_TERMINATION", "SESSION_TERMINATION_RESPONSE"}
        PROVE  Tells(v)
    <2>1. y \in ModemMessage
      BY <1>3, SentIs
    <2>2. After(v, y) = v /\ Acceptable(v, y)
      BY <1>3, AfterSession DEF Acceptable
    <2>3. QED
      BY <1>2, <1>3, <2>1, <2>2 DEF Tells
  <1>4. \/ toRouter' = toRouter
        \/ \E y : /\ toRouter' = Append(toRouter, y)
                  /\ y.type \in {"SESSION_TERMINATION", "SESSION_TERMINATION_RESPONSE"}
    <2>1. /\ \A status : Termination(status).type = "SESSION_TERMINATION"
          /\ Bare("SESSION_TERMINATION_RESPONSE").type = "SESSION_TERMINATION_RESPONSE"
      BY DEF Termination, Bare, Msg
    <2>2. \/ toRouter' = toRouter
          \/ \E status \in Status : toRouter' = Append(toRouter, Termination(status))
          \/ toRouter' = Append(toRouter, Bare("SESSION_TERMINATION_RESPONSE"))
      BY <1>0 DEF ModemGoes
    <2>3. QED
      BY <2>1, <2>2
  <1>5. QED
    BY <1>2, <1>3, <1>4 DEF Tells

\* What a session's modem does with a message is told to the router.
LEMMA ModemReadsTells ==
  ASSUME Stands, toModem \in Seq(RouterMessage), ModemReads, ModemDoes,
         mState \notin Unbound, NEW v \in View, Told(v)
  PROVE  Tells(v)
  <1>1. PICK x : x = Head(toModem)
    OBVIOUS
  <1>2. /\ toModem # <<>> /\ toModem' = Tail(toModem) /\ UNCHANGED history
        /\ x \in RouterMessage /\ ModemRecv(x)
    BY <1>1, SMTT(30) DEF ModemReads
  <1>3. x \in Message /\ toModem \in Seq(Message) /\ (x.type \in ModemTypes => x.mac \in MAC)
    BY <1>2, MessageScope, SMTT(30) DEF RouterMessage
  <1>4. CASE \/ ModemRecvInvalid(x) \/ ModemRecvTermination(x)
             \/ ModemRecvTerminationResponse(x) \/ ModemIgnore(x)
    <2>1. mState' \in Over
      BY <1>4 DEF ModemRecvInvalid, ModemProtocolError, ModemRecvTermination, ModemTerminated,
                  ModemTerminating, ModemRecvTerminationResponse, ModemIgnore, modemVars, mControl,
                  Over
    <2>2. QED
      BY <2>1, GoesTells
  <1>5. CASE ModemRecvInit(x)
    BY <1>5 DEF ModemRecvInit, Unbound
  <1>6. CASE ModemRecvUpRefused(x)
    BY <1>2, <1>6, SMTT(30)
    DEF ModemRecvUpRefused, ModemAccepts, RouterMessage, RouterMsg, Bare,
        Termination, DestMsg, SessionMsg, Msg
  <1>7. CASE \/ ModemRecvSessionUpdate(x) \/ ModemRecvSessionUpdateResponse(x)
             \/ ModemRecvAnnounceUnknown(x) \/ ModemRecvHeartbeat(x)
    BY <1>7, NothingNewTells
  <1>8. CASE \/ ModemRecvUpAccepted(x) \/ ModemRecvDestinationDown(x) \/ ModemRecvDownResponse(x)
             \/ ModemRecvAnnounceKnown(x) \/ ModemRecvLinkRequest(x)
    <2>1. mState = "InSession" /\ ModemVerdict(x) = "SUCCESS" /\ x.type \in ModemTypes
      BY <1>8 DEF ModemRecvUpAccepted, ModemRecvDestinationDown, ModemRecvDownResponse,
                  ModemRecvAnnounceKnown, ModemRecvLinkRequest, ModemAccepts, ModemTypes
    <2>2. x.mac \in MAC /\ ModemTypeOK
      BY <1>3, <2>1 DEF Stands
    <2>3. CASE ModemRecvUpAccepted(x)
      <3>1. mTxDest[x.mac] = "DestinationUp"
        BY <1>3, <2>1, <2>2, <2>3, ModemAcceptedDestination DEF ModemRecvUpAccepted, ModemAccepts
      <3>2. QED
        BY <2>2, <2>3, <3>1, UpAcceptedTells
    <2>4. CASE ModemRecvDestinationDown(x)
      <3>1. x.mac \in mAnnounced /\ mTxDest[x.mac] = Idle
        BY <1>3, <2>1, <2>2, <2>4, ModemAcceptedDestination
        DEF ModemRecvDestinationDown, ModemAccepts
      <3>2. QED
        BY <2>2, <2>4, <3>1, DestinationDownTells
    <2>5. CASE ModemRecvDownResponse(x)
      <3>1. mTxDest[x.mac] = "DestinationDown"
        BY <1>3, <2>1, <2>2, <2>5, ModemAcceptedDestination DEF ModemRecvDownResponse, ModemAccepts
      <3>2. QED
        BY <2>2, <2>5, <3>1, DownResponseTells
    <2>6. CASE ModemRecvAnnounceKnown(x)
      <3>1. x.mac \notin mAnnounced /\ mTxDest[x.mac] = Idle
        BY <1>3, <2>1, <2>2, <2>6, ModemAcceptedDestination DEF ModemRecvAnnounceKnown, ModemAccepts
      <3>2. QED
        BY <2>2, <2>6, <3>1, AnnounceKnownTells
    <2>7. CASE ModemRecvLinkRequest(x)
      <3>1. x.mac \in mAnnounced /\ mTxDest[x.mac] = Idle
        BY <1>3, <2>1, <2>2, <2>7, ModemAcceptedDestination DEF ModemRecvLinkRequest, ModemAccepts
      <3>2. QED
        BY <2>2, <2>7, <3>1, LinkRequestTells
    <2>8. QED
      BY <1>8, <2>3, <2>4, <2>5, <2>6, <2>7
  <1>9. QED
    BY <1>2, <1>4, <1>5, <1>6, <1>7, <1>8 DEF ModemRecv

\* Every step of a session's modem is told to the router.
LEMMA ModemStepTells ==
  ASSUME Wire, Wire', ModemStep, ModemDoes, mState \notin Unbound, NEW v \in View, Told(v)
  PROVE  Tells(v)
  <1>1. contested => contested'
    BY DEF ModemStep, ModemTakesConnection, ModemReads, ModemCommands, ModemAnswersLink,
           ModemShutsDown, ModemBeats, ModemTimesOut, ModemSeesClose, history
  <1>2. Stands /\ toModem \in Seq(RouterMessage)
    BY <1>1 DEF Stands, Wire
  <1>3. CASE ModemTakesConnection
    BY <1>3 DEF ModemTakesConnection, ModemTcpAccepted, Unbound
  <1>4. CASE ModemBeats
    <2>1. ModemHeartbeatTick
      BY <1>4 DEF ModemBeats
    <2>2. QED
      BY <1>2, <2>1, NothingNewTells
  <1>5. CASE ModemShutsDown \/ ModemTimesOut \/ ModemSeesClose
    <2>1. mState' \in Over
      BY <1>5 DEF ModemShutsDown, ModemTimesOut, ModemSeesClose, ModemAppShutdown, ModemDeadline,
                  ModemSessionInitTimeout, ModemHeartbeatMissed, ModemTerminationTimeout,
                  ModemTcpClosed, ModemTerminated, ModemTerminating, Over
    <2>2. QED
      BY <1>2, <2>1, GoesTells
  <1>6. CASE ModemAnswersLink
    BY <1>2, <1>6, LinkAnswerTells DEF ModemAnswersLink
  <1>7. CASE ModemCommands
    BY <1>2, <1>7, AddDestinationTells, UpdateMetricsTells,
       UpdateAddressesTells, DropDestinationTells, SessionUpdateTells,
       SessionAddressesTells
    DEF ModemCommands
  <1>8. QED
    BY <1>2, <1>3, <1>4, <1>5, <1>6, <1>7, ModemReadsTells DEF ModemStep

-----------------------------------------------------------------------------
(* The messages under way to the router lead from what it holds to what it  *)
(* has been told.                                                           *)

\* Only a message about it makes a destination go up or down.
LEMMA AfterUp ==
  ASSUME NEW v \in View, NEW x \in ModemMessage, NEW m \in MAC, ~Match(x, m, UpChanging)
  PROVE  m \in After(v, x).up <=> m \in v.up
  <1>1. CASE x.type \in UpChanging
    <2>1. x.mac # m
      BY <1>1 DEF Match
    <2>2. \/ After(v, x) = ViewWith(v, x) \/ After(v, x) = ViewWithout(v, x.mac)
          \/ After(v, x) = v
      BY <1>1 DEF After, UpChanging
    <2>3. QED
      BY <2>1, <2>2, SMTT(30) DEF ViewWith, ViewWithout
  <1>2. CASE x.type \notin UpChanging
    <2>1. \/ After(v, x) = ViewUpdated(v, x) \/ After(v, x) = ViewMeasured(v, x)
          \/ After(v, x) = ViewSession(v, x) \/ After(v, x) = ViewGreeted(v, x)
          \/ After(v, x) = v
      BY <1>2 DEF After, UpChanging
    <2>2. QED
      BY <2>1, SMTT(30)
      DEF ViewUpdated, ViewMeasured, ViewSession, ViewGreeted
  <1>3. QED
    BY <1>1, <1>2

\* The router reads the first message.
LEMMA PathTail ==
  ASSUME NEW q \in Seq(ModemMessage), q # <<>>, NEW views \in Seq(View), Path(q, views)
  PROVE  /\ Tail(views) \in Seq(View) /\ Path(Tail(q), Tail(views))
         /\ Tail(views)[1] = After(views[1], Head(q))
         /\ Acceptable(views[1], Head(q))
         /\ Tail(views)[Len(Tail(views))] = views[Len(views)]
  <1> DEFINE p == Tail(q)
             vs == Tail(views)
  <1>1. /\ Len(views) = Len(q) + 1 /\ Len(q) \in Nat /\ Len(q) > 0
        /\ p \in Seq(ModemMessage) /\ Len(p) = Len(q) - 1 /\ \A i \in DOMAIN p : p[i] = q[i + 1]
        /\ Head(q) = q[1] /\ DOMAIN p = 1 .. Len(q) - 1 /\ DOMAIN q = 1 .. Len(q)
    BY SMTT(30) DEF Path
  <1>2. /\ vs \in Seq(View) /\ Len(vs) = Len(q) /\ \A i \in DOMAIN vs : vs[i] = views[i + 1]
        /\ DOMAIN vs = 1 .. Len(q) /\ DOMAIN views = 1 .. Len(q) + 1
    BY <1>1, SMTT(30)
  <1> HIDE DEF p, vs
  <1>3. \A i \in DOMAIN q : views[i + 1] = After(views[i], q[i]) /\ Acceptable(views[i], q[i])
    BY DEF Path
  <1>4. vs[Len(vs)] = views[Len(views)]
    BY <1>1, <1>2, SMTT(30)
  <1>5. \A i \in DOMAIN p : vs[i + 1] = After(vs[i], p[i]) /\ Acceptable(vs[i], p[i])
    BY <1>1, <1>2, <1>3, SMTT(30)
  <1>6. ASSUME NEW i \in DOMAIN vs, NEW m \in MAC,
               \A j \in DOMAIN p : j >= i => ~Match(p[j], m, UpChanging)
        PROVE  m \in vs[i].up <=> m \in vs[Len(vs)].up
    <2>1. ASSUME NEW j \in DOMAIN q, j >= i + 1
          PROVE  ~Match(q[j], m, UpChanging)
      <3>1. j - 1 \in DOMAIN p /\ j - 1 >= i /\ q[j] = p[j - 1]
        BY <1>1, <1>2, <2>1, SMTT(30)
      <3>2. QED
        BY <1>6, <3>1
    <2>2. i + 1 \in DOMAIN views /\ vs[i] = views[i + 1]
      BY <1>2, SMTT(30)
    <2>3. m \in views[i + 1].up <=> m \in views[Len(views)].up
      BY <2>1, <2>2 DEF Path
    <2>4. QED
      BY <1>4, <2>2, <2>3
  <1>7. Path(p, vs)
    BY <1>1, <1>2, <1>5, <1>6, SMTT(30) DEF Path
  <1>8. vs[1] = After(views[1], Head(q)) /\ Acceptable(views[1], Head(q))
    BY <1>1, <1>2, <1>3, SMTT(30)
  <1>9. QED
    BY <1>2, <1>4, <1>7, <1>8 DEF p, vs

\* The modem sends another.
LEMMA PathAppend ==
  ASSUME NEW q \in Seq(ModemMessage), NEW y \in ModemMessage, NEW views \in Seq(View),
         Path(q, views), NEW last, last = views[Len(views)], Acceptable(last, y)
  PROVE  LET vs == Append(views, After(last, y))
         IN  /\ vs \in Seq(View) /\ Path(Append(q, y), vs)
             /\ vs[1] = views[1] /\ vs[Len(vs)] = After(last, y)
  <1> DEFINE p == Append(q, y)
             w == After(last, y)
             vs == Append(views, w)
  <1>1. /\ Len(views) = Len(q) + 1 /\ Len(q) \in Nat
        /\ p \in Seq(ModemMessage) /\ Len(p) = Len(q) + 1 /\ \A i \in DOMAIN q : p[i] = q[i]
        /\ p[Len(q) + 1] = y /\ DOMAIN p = 1 .. Len(q) + 1 /\ DOMAIN q = 1 .. Len(q)
    BY SMTT(30) DEF Path
  <1>2. last \in View
    BY <1>1, SMTT(30)
  <1>3. w \in View
    BY <1>2, AfterType
  <1>4. \A m \in MAC : ~Match(y, m, UpChanging) => (m \in w.up <=> m \in last.up)
    BY <1>2, AfterUp
  <1> HIDE DEF w, p
  <1>5. /\ vs \in Seq(View) /\ Len(vs) = Len(q) + 2 /\ \A i \in DOMAIN views : vs[i] = views[i]
        /\ vs[Len(q) + 2] = w /\ vs[Len(q) + 1] = last
        /\ DOMAIN vs = 1 .. Len(q) + 2 /\ DOMAIN views = 1 .. Len(q) + 1
    BY <1>1, <1>3, SMTT(30)
  <1> HIDE DEF vs
  <1>6. ASSUME NEW i \in DOMAIN p
        PROVE  vs[i + 1] = After(vs[i], p[i]) /\ Acceptable(vs[i], p[i])
    <2>1. CASE i \in DOMAIN q
      <3>1. views[i + 1] = After(views[i], q[i]) /\ Acceptable(views[i], q[i])
        BY <2>1 DEF Path
      <3>2. vs[i + 1] = views[i + 1] /\ vs[i] = views[i] /\ p[i] = q[i]
        BY <1>1, <1>5, <2>1, SMTT(30)
      <3>3. QED
        BY <3>1, <3>2
    <2>2. CASE i = Len(q) + 1
      BY <1>1, <1>5, <2>2, SMTT(30) DEF w
    <2>3. QED
      BY <1>1, <2>1, <2>2, SMTT(30)
  <1>7. ASSUME NEW i \in DOMAIN vs, NEW m \in MAC,
               \A j \in DOMAIN p : j >= i => ~Match(p[j], m, UpChanging)
        PROVE  m \in vs[i].up <=> m \in vs[Len(vs)].up
    <2>1. CASE i = Len(vs)
      BY <2>1
    <2>2. CASE i \in DOMAIN views
      <3>1. ASSUME NEW j \in DOMAIN q, j >= i
            PROVE  ~Match(q[j], m, UpChanging)
        BY <1>1, <1>7, <3>1, SMTT(30)
      <3>2. m \in views[i].up <=> m \in last.up
        BY <2>2, <3>1 DEF Path
      <3>3. ~Match(y, m, UpChanging)
        <4>1. Len(q) + 1 \in DOMAIN p /\ Len(q) + 1 >= i /\ p[Len(q) + 1] = y
          BY <1>1, <1>5, <2>2, SMTT(30)
        <4>2. QED
          BY <1>7, <4>1
      <3>4. QED
        BY <1>4, <1>5, <2>2, <3>2, <3>3
    <2>3. QED
      BY <1>5, <2>1, <2>2, SMTT(30)
  <1>8. Path(p, vs)
    BY <1>1, <1>5, <1>6, <1>7, SMTT(30) DEF Path
  <1>9. QED
    BY <1>1, <1>5, <1>8, SMTT(30) DEF p, w, vs

\* Nothing is under way.
LEMMA PathEmpty ==
  ASSUME NEW v \in View
  PROVE  <<v>> \in Seq(View) /\ Path(<<>>, <<v>>) /\ <<v>>[Len(<<v>>)] = v
  BY SMTT(30) DEF Path

\* A step of the router's keeps what it will hold when it has read everything.
LEMMA RouterStepSync ==
  ASSUME Wire, RouterDoes, Sync
  PROVE  Sync'
  <1> SUFFICES ASSUME Greeted'
               PROVE  \E views \in Seq(View) : Chain(views)'
    BY DEF Sync
  <1>1. /\ UNCHANGED <<mTxDest, mAnnounced, mPendingMetrics, mMetrics, mAdvertised, mLocalAddrs,
                       mSessionMetrics>>
        /\ toRouter \in Seq(ModemMessage) /\ contested \in BOOLEAN
    BY DEF RouterDoes, RouterAlone, mTx, mDests, mData, mPeer, Wire
  <1>2. ASSUME NEW views, Told(views[Len(views)]), contested' = contested
        PROVE  Told(views[Len(views)])'
    <2>1. PICK v : v = views[Len(views)]
      OBVIOUS
    <2>2. Told(v)'
      BY <1>1, <1>2, <2>1, ToldSame
    <2>3. QED
      BY <2>1, <2>2
  <1>3. CASE RouterReadsHead /\ Greeted
    <2>1. PICK views \in Seq(View) : Chain(views)
      BY <1>3 DEF Sync
    <2>2. /\ toRouter # <<>> /\ toRouter' = Tail(toRouter)
          /\ RouterView' = After(RouterView, Head(toRouter)) /\ contested' = contested
      BY <1>3 DEF RouterReadsHead, history
    <2>3. Path(toRouter, views) /\ views[1] = RouterView /\ Told(views[Len(views)])
      BY <2>1 DEF Chain
    <2>4. PICK vs : vs = Tail(views)
      OBVIOUS
    <2>5. /\ vs \in Seq(View) /\ Path(Tail(toRouter), vs)
          /\ vs[1] = After(views[1], Head(toRouter))
          /\ vs[Len(vs)] = views[Len(views)]
      BY <1>1, <2>2, <2>3, <2>4, PathTail
    <2>6. Told(vs[Len(vs)])
      BY <2>3, <2>5
    <2>7. Told(vs[Len(vs)])'
      BY <1>2, <2>2, <2>6
    <2>8. Chain(vs)'
      BY <2>2, <2>3, <2>5, <2>7 DEF Chain
    <2>9. QED
      BY <2>5, <2>8
  <1>4. CASE Greeted /\ UNCHANGED <<rDests, rPeer, toRouter, contested>>
    <2>1. PICK views \in Seq(View) : Chain(views)
      BY <1>4 DEF Sync
    <2>2. Told(views[Len(views)])'
      BY <1>2, <1>4, <2>1 DEF Chain
    <2>3. RouterView' = RouterView
      BY <1>4 DEF RouterView, rDests, rPeer
    <2>4. Chain(views)'
      BY <1>4, <2>1, <2>2, <2>3 DEF Chain
    <2>5. QED
      BY <2>4
  <1>5. CASE RouterJoins
    <2>1. rState' = "SessionInitPending" /\ toRouter' = <<>>
      BY <1>5 DEF RouterJoins, Wire, Handshake, HandshakeStart
    <2>2. QED
      BY <2>1 DEF Greeted
  <1>6. CASE RouterGoes
    BY <1>6 DEF RouterGoes, Greeted, Over
  <1>7. CASE RouterEnters
    BY <1>3, <1>7 DEF RouterEnters, RouterReadsHead, Greeted
  <1>8. CASE RouterCloses \/ RouterNotes \/ \E y \in RouterMessage : RouterReplies(y)
    BY <1>3, <1>8 DEF RouterCloses, RouterNotes, RouterReplies, RouterStays, Greeted
  <1>9. CASE RouterTicks \/ \E y \in RouterMessage : RouterOpens(y)
    BY <1>4, <1>9 DEF RouterTicks, RouterOpens, RouterStays, Greeted, history
  <1>10. QED
    BY <1>5, <1>6, <1>7, <1>8, <1>9 DEF RouterDoes

\* The session starts: the router will hold what the modem starts with.
LEMMA ModemEntersSync ==
  ASSUME Wire, ModemAlone, ModemEnters, rState = "SessionInitPending"
  PROVE  \E views \in Seq(View) : Chain(views)'
  <1>1. /\ ModemFresh /\ RouterFresh /\ toRouter = <<>> /\ RouterTypeOK
    BY DEF Wire, Handshake, HandshakeUnbound, HandshakeStart, ModemEnters, Unbound
  <1>2. PICK v, y : /\ v = RouterView
                    /\ y = SessionMsg("SESSION_INITIALIZATION_RESPONSE", "SUCCESS",
                                      InitialMetrics, NoChanges)
    OBVIOUS
  <1>3. v \in View /\ RouterView' = v
    BY <1>1, <1>2 DEF RouterTypeOK, View, RouterView, ModemAlone, rDests, rPeer
  <1>4. y \in ModemMessage /\ toRouter' = Append(<<>>, y)
    BY <1>1, <1>2, ModemSends DEF ModemEnters
  <1>5. /\ y.type = "SESSION_INITIALIZATION_RESPONSE" /\ y.metrics = InitialMetrics
        /\ y.addrs = NoChanges
    BY <1>2 DEF SessionMsg, Msg
  <1>6. After(v, y) = ViewGreeted(v, y) /\ Acceptable(v, y)
    BY <1>5, AfterSession DEF Acceptable
  <1>7. PICK w : w = After(v, y)
    OBVIOUS
  <1>8. w.session = InitialMetrics /\ w.peer = {} /\ w.up = {}
    <2>1. merge_link_metrics(InitialMetrics, NoMetrics) = InitialMetrics
      <3>1. /\ InitialMetrics \in Metrics /\ NoMetrics \in Metrics
            /\ Supplied(NoMetrics) \subseteq Supplied(InitialMetrics)
        BY ModemConstants, NoDataTypes DEF LinkMetrics, Supplied, NoMetrics
      <3>2. QED
        BY <3>1, MergeTold
    <2>2. v.session = NoMetrics /\ v.up = {} /\ NoChanges.added = {}
      BY <1>1, <1>2 DEF RouterFresh, RouterView, NoChanges
    <2>3. QED
      BY <1>5, <1>6, <1>7, <2>1, <2>2, SMTT(30) DEF ViewGreeted
  <1>9. Told(w)'
    <2>1. mSessionMetrics' = InitialMetrics /\ mLocalAddrs' = {}
      BY <1>1 DEF ModemEnters, ModemFresh
    <2>2. \A m \in MAC : mTxDest'[m] = Idle /\ m \notin mAnnounced'
      BY <1>1, MessageConstants DEF ModemEnters, ModemFresh, mTx, mDests, MTx, Scope
    <2>3. ToldUp' = {}
      BY <2>2 DEF ToldUp, Idle
    <2>4. QED
      BY <1>8, <2>1, <2>3 DEF Told
  <1>10. PICK vs : vs = Append(<<v>>, w)
    OBVIOUS
  <1>11. vs \in Seq(View) /\ Path(toRouter', vs) /\ vs[1] = v /\ vs[Len(vs)] = w
    <2>1. <<v>> \in Seq(View) /\ Path(<<>>, <<v>>) /\ v = <<v>>[Len(<<v>>)] /\ <<v>>[1] = v
      BY <1>3, PathEmpty
    <2>2. <<>> \in Seq(ModemMessage)
      BY SMTT(30)
    <2>3. QED
      BY <1>4, <1>6, <1>7, <1>10, <2>1, <2>2, PathAppend
  <1>12. Chain(vs)'
    BY <1>3, <1>9, <1>11 DEF Chain
  <1>13. QED
    BY <1>11, <1>12

\* A step of the modem's.
LEMMA ModemStepSync ==
  ASSUME Wire, Wire', ModemStep, ModemDoes, Sync
  PROVE  Sync'
  <1> SUFFICES ASSUME Greeted'
               PROVE  \E views \in Seq(View) : Chain(views)'
    BY DEF Sync
  <1>1. ModemAlone /\ rState' = rState /\ RouterView' = RouterView
    BY DEF ModemDoes, ModemAlone, rControl, RouterView, rDests, rPeer
  <1>2. toRouter \in Seq(ModemMessage)
    BY DEF Wire
  <1>3. CASE mState \in Unbound
    <2>1. rState = "SessionInitPending" /\ toRouter = <<>> /\ toRouter' # <<>>
      BY <1>1, <1>3 DEF Wire, Handshake, HandshakeUnbound, HandshakeOnce, Greeted
    <2>2. ModemEnters
      BY <1>3, <2>1 DEF ModemDoes, ModemWaits, ModemGoes, ModemCloses, ModemHolds, ModemNotes,
                        ModemTells, ModemReplies, ModemOpens, ModemAnswers, ModemStays, mLive,
                        Unbound
    <2>3. QED
      BY <1>1, <2>1, <2>2, ModemEntersSync
  <1>4. CASE mState \notin Unbound
    <2>1. Greeted
      <3>1. CASE rState = "InSession"
        BY <3>1 DEF Greeted
      <3>2. CASE rState = "SessionInitPending" /\ toRouter = <<>>
        <4>1. ~mLive
          BY <3>2 DEF Wire, Handshake, HandshakeStart, mLive
        <4>2. toRouter' = toRouter
          BY <1>4, <4>1 DEF ModemDoes, ModemWaits, ModemGoes, ModemEnters, ModemCloses,
                            ModemHolds, ModemNotes, ModemTells, ModemReplies, ModemOpens,
                            ModemAnswers, ModemStays, Unbound
        <4>3. QED
          BY <1>1, <3>2, <4>2 DEF Greeted
      <3>3. QED
        BY <1>1, <3>1, <3>2 DEF Greeted
    <2>2. PICK views \in Seq(View) : Chain(views)
      BY <2>1 DEF Sync
    <2>3. PICK v : v = views[Len(views)]
      OBVIOUS
    <2>4. v \in View /\ Told(v) /\ Path(toRouter, views) /\ views[1] = RouterView
      BY <1>2, <2>2, <2>3, SMTT(30) DEF Chain, Path
    <2>5. Tells(v)
      BY <1>4, <2>4, ModemStepTells
    <2>6. CASE toRouter' = toRouter /\ Told(v)'
      <3>1. Chain(views)'
        BY <1>1, <2>3, <2>4, <2>6 DEF Chain
      <3>2. QED
        BY <3>1
    <2>7. ASSUME NEW y \in ModemMessage, toRouter' = Append(toRouter, y), Acceptable(v, y),
                 Told(After(v, y))'
          PROVE  \E vs \in Seq(View) : Chain(vs)'
      <3>1. PICK vs : vs = Append(views, After(v, y))
        OBVIOUS
      <3>2. /\ vs \in Seq(View) /\ Path(toRouter', vs) /\ vs[1] = views[1]
            /\ vs[Len(vs)] = After(v, y)
        BY <1>2, <2>3, <2>4, <2>7, <3>1, PathAppend, SMTT(30)
      <3>3. Chain(vs)'
        BY <1>1, <2>4, <2>7, <3>2 DEF Chain
      <3>4. QED
        BY <3>2, <3>3
    <2>8. QED
      BY <2>5, <2>6, <2>7 DEF Tells
  <1>5. QED
    BY <1>3, <1>4

-----------------------------------------------------------------------------
(* What the sides find in each other's messages.                            *)

\* The data items of a message.
LEMMA ItemsOf ==
  ASSUME NEW type, NEW mac, NEW status, NEW metrics, NEW ch
  PROVE  LET items == Items(Msg(type, mac, status, metrics, ch))
         IN  /\ items \subseteq {"mac", "status", "metrics", "address"}
             /\ "mac" \in items <=> mac # NoMac
             /\ "status" \in items <=> status # NoStatus
             /\ "metrics" \in items <=> Supplied(metrics) # {}
             /\ "address" \in items <=> ch.added # {} \/ ch.removed # {}
  BY DEF Items, Msg

\* A message without metrics, or without addresses, has no such item.
LEMMA NoItems ==
  Supplied(NoMetrics) = {} /\ NoChanges.added = {} /\ NoChanges.removed = {}
  BY DEF Supplied, NoMetrics, NoChanges

\* Statuses the sides send, other than in a Termination.
LEMMA HarmlessStatus ==
  /\ NoStatus # "SUCCESS" /\ NoStatus # "REQUEST_DENIED"
  /\ \A status \in {"SUCCESS", "REQUEST_DENIED", NoStatus} : ~terminates_session(status)
  /\ \A status \in Status : status # NoStatus
  BY DEF NoStatus, terminates_session, FatalStatus, Status

\* The items a message may and must carry are the ones it has.
Carries(x, router) ==
  Items(x) \subseteq Allowed(x.type, router) /\ Required(x.type) \subseteq Items(x)

\* What is about the session.
LEMMA SessionCarries ==
  ASSUME NEW router \in BOOLEAN, NEW metrics, NEW ch
  PROVE  /\ Carries(Bare("HEARTBEAT"), router)
         /\ \A status \in Status : Carries(Termination(status), router)
         /\ router \/ metrics = NoMetrics =>
              Carries(SessionMsg("SESSION_UPDATE", NoStatus, metrics, ch), router)
         /\ Carries(SessionMsg("SESSION_UPDATE_RESPONSE", "SUCCESS", NoMetrics, NoChanges), router)
         /\ Carries(SessionMsg("SESSION_INITIALIZATION_RESPONSE", "SUCCESS", metrics, NoChanges),
                    router)
         /\ Carries(Bare("SESSION_INITIALIZATION"), router)
  <1> USE NoItems, HarmlessStatus, ItemsOf DEF Carries, Allowed, Required
  <1>1. Carries(Bare("HEARTBEAT"), router) /\ Carries(Bare("SESSION_INITIALIZATION"), router)
    BY SMTT(30) DEF Bare, Msg
  <1>2. \A status \in Status : Carries(Termination(status), router)
    BY SMTT(30) DEF Termination, Msg
  <1>3. router \/ metrics = NoMetrics =>
          Carries(SessionMsg("SESSION_UPDATE", NoStatus, metrics, ch), router)
    BY SMTT(30) DEF SessionMsg, Msg
  <1>4. Carries(SessionMsg("SESSION_UPDATE_RESPONSE", "SUCCESS", NoMetrics, NoChanges), router)
    BY SMTT(30) DEF SessionMsg, Msg
  <1>5. Carries(SessionMsg("SESSION_INITIALIZATION_RESPONSE", "SUCCESS", metrics, NoChanges), router)
    BY SMTT(30) DEF SessionMsg, Msg
  <1>6. QED
    BY <1>1, <1>2, <1>3, <1>4, <1>5

\* What is about a destination.
LEMMA DestCarries ==
  ASSUME NEW router \in BOOLEAN, NEW mac \in MAC, NEW metrics, NEW ch
  PROVE  /\ \A type \in {"DESTINATION_DOWN", "DESTINATION_ANNOUNCE", "LINK_CHARACTERISTICS_REQUEST"} :
              Carries(DestMsg(type, mac, NoStatus), router)
         /\ \A type \in {"DESTINATION_UP_RESPONSE", "DESTINATION_DOWN_RESPONSE"} :
              Carries(DestMsg(type, mac, "SUCCESS"), router)
         /\ \A type \in {"DESTINATION_UP", "DESTINATION_UPDATE"} :
              Carries(Msg(type, mac, NoStatus, metrics, ch), router)
         /\ Carries(DestMsg("DESTINATION_ANNOUNCE_RESPONSE", mac, "REQUEST_DENIED"), router)
         /\ Carries(Msg("DESTINATION_ANNOUNCE_RESPONSE", mac, "SUCCESS", metrics, ch), router)
         /\ \A status \in {"SUCCESS", "REQUEST_DENIED"} :
              Carries(LinkReply(mac, status, metrics), router)
  <1> USE NoItems, HarmlessStatus, ItemsOf, MessageConstants DEF Carries, Allowed, Required
  <1>1. \A type \in {"DESTINATION_DOWN", "DESTINATION_ANNOUNCE", "LINK_CHARACTERISTICS_REQUEST"} :
          Carries(DestMsg(type, mac, NoStatus), router)
    BY SMTT(30) DEF DestMsg, Msg
  <1>2. \A type \in {"DESTINATION_UP_RESPONSE", "DESTINATION_DOWN_RESPONSE"} :
          Carries(DestMsg(type, mac, "SUCCESS"), router)
    BY SMTT(30) DEF DestMsg, Msg
  <1>3. \A type \in {"DESTINATION_UP", "DESTINATION_UPDATE"} :
          Carries(Msg(type, mac, NoStatus, metrics, ch), router)
    BY SMTT(30) DEF Msg
  <1>4. /\ Carries(DestMsg("DESTINATION_ANNOUNCE_RESPONSE", mac, "REQUEST_DENIED"), router)
        /\ Carries(Msg("DESTINATION_ANNOUNCE_RESPONSE", mac, "SUCCESS", metrics, ch), router)
    BY SMTT(30) DEF DestMsg, Msg
  <1>5. \A status \in {"SUCCESS", "REQUEST_DENIED"} : Carries(LinkReply(mac, status, metrics), router)
    BY SMTT(30) DEF LinkReply, Msg
  <1>6. QED
    BY <1>1, <1>2, <1>3, <1>4, <1>5

\* The router accepts the modem's messages as they are made.
LEMMA ModemMessageForm ==
  ASSUME NEW x \in ModemMessage,
         x.type \notin {"SESSION_INITIALIZATION_RESPONSE", "SESSION_TERMINATION_RESPONSE"}
  PROVE  /\ x.type \in SessionTypes \cup RouterTypes
         /\ Carries(x, TRUE)
         /\ x.type # "SESSION_TERMINATION" => ~terminates_session(x.status)
         /\ Supplied(x.metrics) \subseteq Types
         /\ x.type = "LINK_CHARACTERISTICS_RESPONSE" => Supplied(x.metrics) = Types
  <1>1. x.type \in SessionTypes \cup RouterTypes
    BY ModemMessageFields
  <1>2. Carries(x, TRUE)
    <2>1. ModemMsg(x)
      BY DEF ModemMessage
    <2>2. /\ x # Bare("SESSION_TERMINATION_RESPONSE")
          /\ x # SessionMsg("SESSION_INITIALIZATION_RESPONSE", "SUCCESS", InitialMetrics, NoChanges)
      BY SMTT(30) DEF Bare, SessionMsg, Msg
    <2>3. QED
      BY <2>1, <2>2, SessionCarries, DestCarries DEF ModemMsg
  <1>3. x.type # "SESSION_TERMINATION" => x.status \in {"SUCCESS", "REQUEST_DENIED", NoStatus}
    BY ModemMessageFields
  <1>4. /\ Supplied(x.metrics) \subseteq Types
        /\ x.type = "LINK_CHARACTERISTICS_RESPONSE" => Supplied(x.metrics) = Types
    BY ModemMessageFields
  <1>5. QED
    BY <1>1, <1>2, <1>3, <1>4, HarmlessStatus

\* So does the modem the router's.
LEMMA RouterMessageForm ==
  ASSUME NEW x \in RouterMessage,
         x.type \notin {"SESSION_INITIALIZATION", "SESSION_TERMINATION_RESPONSE"}
  PROVE  /\ x.type \in SessionTypes \cup ModemTypes
         /\ Carries(x, FALSE)
         /\ x.type # "SESSION_TERMINATION" => ~terminates_session(x.status)
  <1>1. x.type \in SessionTypes \cup ModemTypes
    BY RouterMessageFields
  <1>2. Carries(x, FALSE)
    <2>1. RouterMsg(x)
      BY DEF RouterMessage
    <2>2. /\ x # Bare("SESSION_TERMINATION_RESPONSE")
          /\ x # Bare("SESSION_INITIALIZATION")
      BY SMTT(30) DEF Bare, Msg
    <2>3. QED
      BY <2>1, <2>2, SessionCarries, DestCarries DEF RouterMsg
  <1>3. x.type # "SESSION_TERMINATION" => x.status \in {"SUCCESS", NoStatus}
    BY RouterMessageFields
  <1>4. QED
    BY <1>1, <1>2, <1>3, HarmlessStatus

\* The verdict on a conforming message: accepted, or unexpected after a crossing.
Tolerable(verdict) == verdict = "SUCCESS" \/ (verdict = "UNEXPECTED_MESSAGE" /\ crossed)

\* The checks of a message in session are passed.
LEMMA ValidInSession ==
  ASSUME NEW x, NEW router \in BOOLEAN, Carries(x, router),
         x.type \in SessionTypes \cup (IF router THEN RouterTypes ELSE ModemTypes)
  PROVE  validate_message(x, router, FALSE) = "SUCCESS"
  <1>1. /\ x.type \in Expected(router, FALSE) /\ x.type # "OTHER"
        /\ x.type # "SESSION_INITIALIZATION_RESPONSE"
    BY DEF Expected, SessionTypes, RouterTypes, ModemTypes
  <1>2. WellFormed(x, router, FALSE)
    BY <1>1 DEF WellFormed, Carries
  <1>3. QED
    BY <1>1, <1>2 DEF validate_message

\* Transactions: what a message finds, from its receiver's slot.
LEMMA ValidTransaction ==
  ASSUME NEW x, NEW session, NEW slot, NEW up \in BOOLEAN,
         x.type \in SessionTypes \cup RouterTypes \cup ModemTypes,
         SlotConflict(x, session, slot) => crossed,
         x.type \in NeedsUp /\ ~SlotConflict(x, session, slot) => up,
         x.type \in NeedsDown /\ ~SlotConflict(x, session, slot) => ~up
  PROVE  Tolerable(validate_transaction(x, session, slot, up))
  <1>1. CASE SlotConflict(x, session, slot)
    <2>1. validate_transaction(x, session, slot, up) = "UNEXPECTED_MESSAGE"
      BY <1>1 DEF validate_transaction
    <2>2. QED
      BY <1>1, <2>1 DEF Tolerable
  <1>2. CASE ~SlotConflict(x, session, slot)
    <2>1. validate_transaction(x, session, slot, up) = "SUCCESS"
      BY <1>2 DEF validate_transaction
    <2>2. QED
      BY <2>1 DEF Tolerable
  <1>3. QED
    BY <1>1, <1>2

\* tx is the slot that message x is checked against; reply and request are the
\* types its sender uses.
Slotted(x, session, slot, tx, reply, request) ==
  /\ x.type \in {"SESSION_UPDATE", "SESSION_UPDATE_RESPONSE"} => tx = session
  /\ x.type \in RouterTypes \cup ModemTypes => tx = slot
  /\ x.type \in SessionTypes => slot = Idle
  /\ {"SESSION_UPDATE_RESPONSE"} \subseteq reply /\ {"SESSION_UPDATE"} \subseteq request
  /\ x.type \in {"DESTINATION_UP_RESPONSE", "DESTINATION_DOWN_RESPONSE",
                 "DESTINATION_ANNOUNCE_RESPONSE", "LINK_CHARACTERISTICS_RESPONSE"}
       => x.type \in reply
  /\ x.type \in ExclusiveRequest => x.type \in request
  /\ x.type \in SessionTypes \cup RouterTypes \cup ModemTypes

\* A slot conflict is a crossing, when the slots are in order.
LEMMA ConflictCrosses ==
  ASSUME NEW x, NEW session, NEW slot, NEW tx, NEW held, NEW reply, NEW request,
         Slotted(x, session, slot, tx, reply, request),
         HeadFits(x, x.mac, reply, request, tx, held, crossed), SlotConflict(x, session, slot)
  PROVE  crossed
  <1> USE DEF Slotted
  <1>1. /\ x.type \in reply => tx = KindOf(x.type)
        /\ x.type \in request => tx = Idle \/ crossed = TRUE
    BY DEF HeadFits, Match
  <1>2. CASE x.type = "SESSION_UPDATE"
    BY <1>1, <1>2 DEF SlotConflict, RequestKindOf, ExclusiveRequest
  <1>3. CASE x.type = "SESSION_UPDATE_RESPONSE"
    BY <1>1, <1>3 DEF SlotConflict, RequestKindOf, ExclusiveRequest, KindOf
  <1>4. CASE x.type \in {"DESTINATION_UP_RESPONSE", "DESTINATION_DOWN_RESPONSE",
                         "DESTINATION_ANNOUNCE_RESPONSE", "LINK_CHARACTERISTICS_RESPONSE"}
    <2>1. tx = slot /\ tx = RequestKindOf(x.type)
      BY <1>1, <1>4 DEF RouterTypes, ModemTypes, KindOf, RequestKindOf
    <2>2. QED
      BY <1>4, <2>1 DEF SlotConflict, ExclusiveRequest
  <1>5. CASE x.type \in ExclusiveRequest
    <2>1. tx = slot
      BY <1>5 DEF RouterTypes, ModemTypes, ExclusiveRequest
    <2>2. RequestKindOf(x.type) = Idle
      BY <1>5 DEF ExclusiveRequest, RequestKindOf
    <2>3. QED
      BY <1>1, <1>5, <2>1, <2>2 DEF SlotConflict, ExclusiveRequest
  <1>6. CASE x.type \in {"HEARTBEAT", "SESSION_TERMINATION", "DESTINATION_UPDATE"}
    BY <1>6 DEF SlotConflict, RequestKindOf, ExclusiveRequest
  <1>7. QED
    BY <1>2, <1>3, <1>4, <1>5, <1>6 DEF SessionTypes, RouterTypes, ModemTypes, ExclusiveRequest

\* What the router finds in a message of the session.
LEMMA RouterFindsNothing ==
  ASSUME RouterTypeOK, rState = "InSession", rMetricTypes = Types, NEW x \in ModemMessage,
         x.type \notin {"SESSION_INITIALIZATION_RESPONSE", "SESSION_TERMINATION_RESPONSE"},
         HeadFits(x, x.mac, ModemReply, ModemRequest, RTx(x.mac), FALSE, crossed),
         Acceptable(RouterView, x)
  PROVE  Tolerable(RouterVerdict(x))
  <1> DEFINE slot == IF x.mac = NoMac THEN Idle ELSE rTxDest[x.mac]
             up == x.mac \in rUp
  <1>1. /\ x.type \in SessionTypes \cup RouterTypes /\ Carries(x, TRUE)
        /\ x.type # "SESSION_TERMINATION" => ~terminates_session(x.status)
        /\ Supplied(x.metrics) \subseteq Types
        /\ x.type = "LINK_CHARACTERISTICS_RESPONSE" => Supplied(x.metrics) = Types
    BY ModemMessageForm
  <1>2. /\ x.type \in SessionTypes => x.mac = NoMac
        /\ x.type \in RouterTypes => x.mac \in MAC
        /\ NoMac \notin MAC
    BY MessageScope, MessageConstants
  <1>3. validate_message(x, TRUE, FALSE) = "SUCCESS"
    BY <1>1, ValidInSession
  <1>4. x.type = "SESSION_UPDATE" => StrictOk(rPeerAddrs, x.addrs)
    BY DEF Acceptable, RouterView
  <1>5. RouterVerdict(x) = validate_transaction(x, rTxSession, slot, up)
    BY <1>1, <1>3, <1>4 DEF RouterVerdict
  <1>6. SlotConflict(x, rTxSession, slot) => crossed
    <2>1. Slotted(x, rTxSession, slot, RTx(x.mac), ModemReply, ModemRequest)
      BY <1>1, <1>2 DEF Slotted, RTx, ModemReply, ModemRequest, ExclusiveRequest, SessionTypes,
                        RouterTypes, ModemTypes
    <2> HIDE DEF slot
    <2>2. QED
      BY <2>1, ConflictCrosses
  <1>7. /\ x.type \in NeedsUp => up
        /\ x.type \in NeedsDown => ~up
    BY <1>1 DEF Acceptable, RouterView, NeedsUp, NeedsDown, SessionTypes, RouterTypes
  <1>8. up \in BOOLEAN /\ x.type \in SessionTypes \cup RouterTypes \cup ModemTypes
    BY <1>1, SMTT(30)
  <1> HIDE DEF slot, up
  <1>9. QED
    BY <1>5, <1>6, <1>7, <1>8, ValidTransaction

\* What the modem finds in a message of the session.
LEMMA ModemFindsNothing ==
  ASSUME ModemTypeOK, mState = "InSession", NEW x \in RouterMessage,
         x.type \notin {"SESSION_INITIALIZATION", "SESSION_TERMINATION_RESPONSE"},
         HeadFits(x, x.mac, RouterReply, RouterRequest, MTx(x.mac), x.mac \in mPendingLink, crossed),
         x.type = "SESSION_UPDATE" => StrictOk(mPeerAddrs, x.addrs),
         x.type \in Withdrawing /\ mTxDest[x.mac] = Idle => x.mac \in mAnnounced,
         x.type \in Asking /\ mTxDest[x.mac] = Idle => x.mac \notin mAnnounced
  PROVE  Tolerable(ModemVerdict(x))
  <1> DEFINE slot == IF x.mac = NoMac THEN Idle ELSE mTxDest[x.mac]
             up == x.mac \in mAnnounced
  <1>1. /\ x.type \in SessionTypes \cup ModemTypes /\ Carries(x, FALSE)
        /\ x.type # "SESSION_TERMINATION" => ~terminates_session(x.status)
    BY RouterMessageForm
  <1>2. /\ x.type \in SessionTypes => x.mac = NoMac
        /\ x.type \in ModemTypes => x.mac \in MAC
        /\ NoMac \notin MAC
    BY MessageScope, MessageConstants
  <1>3. validate_message(x, FALSE, FALSE) = "SUCCESS"
    BY <1>1, ValidInSession
  <1>4. x.type \in {"DESTINATION_DOWN", "LINK_CHARACTERISTICS_REQUEST"} => x.mac \notin mPendingLink
    BY DEF HeadFits, Match, RouterRequest
  <1>5. ModemVerdict(x) = validate_transaction(x, mTxSession, slot, up)
    BY <1>1, <1>3, <1>4 DEF ModemVerdict
  <1>6. SlotConflict(x, mTxSession, slot) => crossed
    <2>1. Slotted(x, mTxSession, slot, MTx(x.mac), RouterReply, RouterRequest)
      BY <1>1, <1>2 DEF Slotted, MTx, RouterReply, RouterRequest, ExclusiveRequest, SessionTypes,
                        RouterTypes, ModemTypes
    <2> HIDE DEF slot
    <2>2. QED
      BY <2>1, ConflictCrosses
  <1>7. ASSUME ~SlotConflict(x, mTxSession, slot)
        PROVE  /\ x.type \in NeedsUp => up
               /\ x.type \in NeedsDown => ~up
    <2>1. x.type \in ExclusiveRequest => mTxDest[x.mac] = Idle
      BY <1>1, <1>2, <1>7 DEF SlotConflict, ExclusiveRequest, SessionTypes, ModemTypes
    <2>2. x.type \in NeedsUp => x.type \in Withdrawing /\ x.type \in ExclusiveRequest
      BY <1>1 DEF NeedsUp, Withdrawing, ExclusiveRequest, SessionTypes, ModemTypes
    <2>3. x.type \in NeedsDown => x.type \in Asking /\ x.type \in ExclusiveRequest
      BY <1>1 DEF NeedsDown, Asking, ExclusiveRequest, SessionTypes, ModemTypes
    <2>4. QED
      BY <2>1, <2>2, <2>3
  <1>8. up \in BOOLEAN /\ x.type \in SessionTypes \cup RouterTypes \cup ModemTypes
    BY <1>1, SMTT(30)
  <1> HIDE DEF slot, up
  <1>9. QED
    BY <1>5, <1>6, <1>7, <1>8, ValidTransaction

\* The answer to the router's initialization is accepted.
LEMMA InitAccepted ==
  ASSUME RouterTypeOK, rState = "SessionInitPending", NEW x \in ModemMessage,
         x.type = "SESSION_INITIALIZATION_RESPONSE"
  PROVE  RouterVerdict(x) = "SUCCESS" /\ x.status = "SUCCESS"
  <1>1. x = SessionMsg("SESSION_INITIALIZATION_RESPONSE", "SUCCESS", InitialMetrics, NoChanges)
    BY ModemMessageFields
  <1>2. x.status = "SUCCESS" /\ x.addrs = NoChanges /\ x.metrics = InitialMetrics
    BY <1>1 DEF SessionMsg, Msg
  <1>3. Carries(x, TRUE) /\ ~terminates_session(x.status)
    BY <1>1, <1>2, SessionCarries, HarmlessStatus
  <1>4. WellFormed(x, TRUE, TRUE)
    BY <1>2, <1>3, NoItems, ModemConstants DEF WellFormed, Carries, LinkMetrics
  <1>5. validate_message(x, TRUE, TRUE) = "SUCCESS"
    <2>1. x.type \in Expected(TRUE, TRUE) /\ x.type # "OTHER"
      BY DEF Expected
    <2>2. QED
      BY <1>4, <2>1 DEF validate_message
  <1>6. StrictOk(rPeerAddrs, x.addrs)
    BY <1>2, BetweenApplies
  <1>7. QED
    BY <1>2, <1>3, <1>5, <1>6 DEF RouterVerdict
=============================================================================
