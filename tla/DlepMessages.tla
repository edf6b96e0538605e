--------------------------- MODULE DlepMessages ---------------------------
(***************************************************************************)
(* The vocabulary both session state machines share (crates/dlep-fsm):     *)
(* messages and the data items they may carry, link metrics and address    *)
(* changes, and the checks every inbound message passes before it reaches  *)
(* a handler (validation.rs).                                              *)
(*                                                                         *)
(* A message is a record with one field per kind of data item a property   *)
(* tells apart; a field that is not present holds NoMac, NoStatus,         *)
(* NoMetrics or the empty set.  Peer type, heartbeat interval and          *)
(* extension items are in every initialization message and are left out.   *)
(***************************************************************************)
EXTENDS Naturals, Sequences

CONSTANTS
  MAC,          \* the destinations
  Addr,         \* IP addresses and attached subnets, in canonical form
  MetricItem,   \* the metric data items
  Mandatory,    \* those every LinkMetrics holds; the others are Option<_>
  MetricValue,  \* values of a metric item
  Unset,        \* the value of a metric item that is not there
  NoMac         \* the MAC field of a message without a MAC address item

ASSUME MessageConstants ==
  /\ Mandatory \subseteq MetricItem
  /\ Unset \notin MetricValue
  /\ NoMac \notin MAC

-----------------------------------------------------------------------------
(* Status codes (dlep-core/src/status.rs).  REQUEST_DENIED stands for every *)
(* code below 128 other than SUCCESS.                                       *)

FatalStatus == {"UNKNOWN_MESSAGE", "UNEXPECTED_MESSAGE", "INVALID_DATA",
                "INVALID_DESTINATION", "TIMED_OUT", "SHUTTING_DOWN"}
Status == {"SUCCESS", "REQUEST_DENIED"} \cup FatalStatus
NoStatus == "NO_STATUS"
MaybeStatus == Status \cup {NoStatus}

terminates_session(status) == status \in FatalStatus

-----------------------------------------------------------------------------
(* Link metrics.  LinkMetrics always holds the mandatory items; a message   *)
(* or a command may supply any subset, and merging keeps what it omits.     *)

Metrics == [MetricItem -> MetricValue \cup {Unset}]
NoMetrics == [i \in MetricItem |-> Unset]
Supplied(metrics) == {i \in MetricItem : metrics[i] # Unset}
LinkMetrics == {x \in Metrics : Mandatory \subseteq Supplied(x)}

merge_link_metrics(supplied, stored) ==
  [i \in MetricItem |-> IF supplied[i] = Unset THEN stored[i] ELSE supplied[i]]

-----------------------------------------------------------------------------
(* Address changes (addresses.rs), on the set of canonical addresses: an    *)
(* AddressChanges value is a set of additions and a set of removals.        *)

AddressChanges == [added : SUBSET Addr, removed : SUBSET Addr]
NoChanges == [added |-> {}, removed |-> {}]

validate(ch) == ch.added \cap ch.removed = {}

apply_lenient(addrs, ch) ==
  (addrs \ (ch.removed \ ch.added)) \cup (ch.added \ ch.removed)

StrictOk(addrs, ch) ==
  /\ validate(ch)
  /\ ch.added \cap addrs = {}
  /\ ch.removed \subseteq addrs

between(old, new) == [added |-> new \ old, removed |-> old \ new]

-----------------------------------------------------------------------------
(* Messages.  "OTHER" stands for every message type outside 1..16.          *)

SessionTypes == {"SESSION_UPDATE", "SESSION_UPDATE_RESPONSE",
                 "SESSION_TERMINATION", "HEARTBEAT"}
RouterTypes == {"DESTINATION_UP", "DESTINATION_ANNOUNCE_RESPONSE",
                "DESTINATION_DOWN", "DESTINATION_DOWN_RESPONSE",
                "DESTINATION_UPDATE", "LINK_CHARACTERISTICS_RESPONSE"}
ModemTypes == {"DESTINATION_UP_RESPONSE", "DESTINATION_ANNOUNCE",
               "DESTINATION_DOWN", "DESTINATION_DOWN_RESPONSE",
               "LINK_CHARACTERISTICS_REQUEST"}
MessageType == SessionTypes \cup RouterTypes \cup ModemTypes \cup
               {"SESSION_INITIALIZATION", "SESSION_INITIALIZATION_RESPONSE",
                "SESSION_TERMINATION_RESPONSE", "OTHER"}

Message == [type : MessageType, mac : MAC \cup {NoMac}, status : MaybeStatus,
            metrics : Metrics, addrs : AddressChanges]

Msg(type, mac, status, metrics, addrs) ==
  [type |-> type, mac |-> mac, status |-> status, metrics |-> metrics,
   addrs |-> addrs]
Bare(type) == Msg(type, NoMac, NoStatus, NoMetrics, NoChanges)
Termination(status) ==
  Msg("SESSION_TERMINATION", NoMac, status, NoMetrics, NoChanges)
SessionMsg(type, status, metrics, addrs) ==
  Msg(type, NoMac, status, metrics, addrs)
DestMsg(type, mac, status) == Msg(type, mac, status, NoMetrics, NoChanges)

-----------------------------------------------------------------------------
(* The transaction tracker (transaction.rs): one slot for the session and   *)
(* one per destination, each idle or holding the kind of the open request.  *)

Idle == "Idle"
SessionSlot == {Idle, "SessionUpdate"}
DestSlot == {Idle, "DestinationUp", "DestinationDown", "DestinationAnnounce",
             "LinkCharacteristics"}

Timer == {"SessionInit", "Heartbeat", "HeartbeatMissed", "Termination"}

-----------------------------------------------------------------------------
(* validate_message: is the type expected here, and are its items the ones  *)
(* the type may and must carry?                                             *)

Expected(router, initializing) ==
  IF initializing
  THEN {IF router THEN "SESSION_INITIALIZATION_RESPONSE"
                  ELSE "SESSION_INITIALIZATION"}
  ELSE SessionTypes \cup (IF router THEN RouterTypes ELSE ModemTypes)

Items(msg) ==
  {item \in {"mac", "status", "metrics", "address"} :
     \/ item = "mac"     /\ msg.mac # NoMac
     \/ item = "status"  /\ msg.status # NoStatus
     \/ item = "metrics" /\ Supplied(msg.metrics) # {}
     \/ item = "address" /\ (msg.addrs.added # {} \/ msg.addrs.removed # {})}

Allowed(type, router) ==
  CASE type = "SESSION_INITIALIZATION"          -> {"address"}
    [] type = "SESSION_INITIALIZATION_RESPONSE" -> {"status", "address", "metrics"}
    [] type = "SESSION_UPDATE" ->
         {"address"} \cup (IF router THEN {"metrics"} ELSE {})
    [] type \in {"SESSION_UPDATE_RESPONSE", "SESSION_TERMINATION"} -> {"status"}
    [] type \in {"DESTINATION_UP", "DESTINATION_UPDATE"} ->
         {"mac", "address", "metrics"}
    [] type \in {"DESTINATION_UP_RESPONSE", "DESTINATION_DOWN_RESPONSE"} ->
         {"mac", "status"}
    [] type = "DESTINATION_ANNOUNCE" -> {"mac", "address"}
    [] type = "DESTINATION_ANNOUNCE_RESPONSE" ->
         {"mac", "status", "address", "metrics"}
    [] type = "LINK_CHARACTERISTICS_RESPONSE" -> {"mac", "status", "metrics"}
    [] type \in {"DESTINATION_DOWN", "LINK_CHARACTERISTICS_REQUEST"} -> {"mac"}
    [] OTHER -> {}

Required(type) ==
  CASE type \in {"SESSION_INITIALIZATION_RESPONSE", "SESSION_UPDATE_RESPONSE",
                 "SESSION_TERMINATION"} -> {"status"}
    [] type \in {"DESTINATION_UP_RESPONSE", "DESTINATION_ANNOUNCE_RESPONSE",
                 "DESTINATION_DOWN_RESPONSE", "LINK_CHARACTERISTICS_RESPONSE"} ->
         {"mac", "status"}
    [] type \in {"DESTINATION_UP", "DESTINATION_ANNOUNCE", "DESTINATION_DOWN",
                 "DESTINATION_UPDATE", "LINK_CHARACTERISTICS_REQUEST"} -> {"mac"}
    [] OTHER -> {}

WellFormed(msg, router, initializing) ==
  /\ Items(msg) \subseteq Allowed(msg.type, router)
  /\ Required(msg.type) \subseteq Items(msg)
  /\ initializing => msg.addrs.removed = {}
  /\ msg.type = "SESSION_INITIALIZATION_RESPONSE" =>
       Mandatory \subseteq Supplied(msg.metrics)

validate_message(msg, router, initializing) ==
  CASE msg.type = "OTHER" -> "UNKNOWN_MESSAGE"
    [] msg.type # "OTHER" /\ msg.type \notin Expected(router, initializing) ->
         "UNEXPECTED_MESSAGE"
    [] msg.type \in Expected(router, initializing)
         /\ ~WellFormed(msg, router, initializing) -> "INVALID_DATA"
    [] OTHER -> "SUCCESS"

-----------------------------------------------------------------------------
(* validate_transaction: session is the session slot, slot the addressed    *)
(* destination's slot, up whether that destination is up at the receiver.   *)

RequestKindOf(response) ==
  CASE response = "DESTINATION_UP_RESPONSE"       -> "DestinationUp"
    [] response = "DESTINATION_DOWN_RESPONSE"     -> "DestinationDown"
    [] response = "DESTINATION_ANNOUNCE_RESPONSE" -> "DestinationAnnounce"
    [] response = "LINK_CHARACTERISTICS_RESPONSE" -> "LinkCharacteristics"
    [] OTHER -> Idle

ExclusiveRequest == {"DESTINATION_UP", "DESTINATION_ANNOUNCE",
                     "DESTINATION_DOWN", "LINK_CHARACTERISTICS_REQUEST"}
NeedsUp == {"DESTINATION_UPDATE", "DESTINATION_DOWN",
            "LINK_CHARACTERISTICS_REQUEST"}
NeedsDown == {"DESTINATION_UP", "DESTINATION_ANNOUNCE"}

\* Mutant: a request is accepted while one of the receiver's own is open.
SlotConflict_AllowsCrossing(msg, session, slot) ==
  \/ msg.type = "SESSION_UPDATE" /\ session # Idle
  \/ msg.type = "SESSION_UPDATE_RESPONSE" /\ session # "SessionUpdate"
  \/ RequestKindOf(msg.type) \notin {Idle, slot}

SlotConflict(msg, session, slot) ==
  \/ msg.type = "SESSION_UPDATE" /\ session # Idle
  \/ msg.type = "SESSION_UPDATE_RESPONSE" /\ session # "SessionUpdate"
  \/ RequestKindOf(msg.type) \notin {Idle, slot}
  \/ msg.type \in ExclusiveRequest /\ slot # Idle

validate_transaction(msg, session, slot, up) ==
  CASE SlotConflict(msg, session, slot) -> "UNEXPECTED_MESSAGE"
    [] ~SlotConflict(msg, session, slot) /\ msg.type \in NeedsUp /\ ~up ->
         "INVALID_DESTINATION"
    [] ~SlotConflict(msg, session, slot) /\ msg.type \in NeedsDown /\ up ->
         "UNEXPECTED_MESSAGE"
    [] OTHER -> "SUCCESS"
=============================================================================
