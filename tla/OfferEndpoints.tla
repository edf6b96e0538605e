--------------------------- MODULE OfferEndpoints ---------------------------
(***************************************************************************)
(* What a modem offers and what a router makes of it: build_peer_offer and *)
(* offer_endpoints (crates/dlep-fsm/src/discovery_common.rs), the address  *)
(* the discovery task fills in (crates/dlep-daemon/src/discovery.rs), and  *)
(* connect_discovered (crates/dlep-daemon/src/router.rs), which tries the  *)
(* endpoints one after the other.                                          *)
(***************************************************************************)
EXTENDS Naturals, Sequences, SequencesExt

CONSTANTS
  Ipv4, Ipv6,        \* unicast addresses
  Port,
  DEFAULT_PORT,
  MaxItems,          \* bound: connection points in an offer
  NoPort

ASSUME OfferConstants ==
  /\ Ipv4 \cap Ipv6 = {}
  /\ DEFAULT_PORT \in Port /\ NoPort \notin Port
  /\ MaxItems \in Nat

VARIABLES
  use_tls,   \* the router's configuration
  offer,     \* the connection points of the Peer Offer, as they were sent
  from,      \* the address the offer came from
  endpoints, \* those connect_discovered has not looked at
  tried,     \* those it has tried to connect to
  result     \* of connect_discovered; "ignored" for an offer never reported

offerVars == <<use_tls, offer, from, endpoints, tried, result>>

\* Addresses no one can connect to.
Unspecified == {"0.0.0.0", "::"}
Multicast == {"multicast"}

V6 == Ipv6 \cup {"::"}
Ip == Ipv4 \cup Ipv6 \cup Unspecified \cup Multicast

ConnectionPoint == [ip : Ip, port : Port \cup {NoPort, 0}, tls : BOOLEAN]

\* valid_signal refuses an item that occurs twice.
valid_signal(items) == IsInjective(items)

PeerOffers == {items \in BoundedSeq(ConnectionPoint, MaxItems) : valid_signal(items)}

-----------------------------------------------------------------------------
(* The modem.                                                               *)

build_peer_offer(ip, port, tls) == <<[ip |-> ip, port |-> port, tls |-> tls]>>

\* Mutant: the address is offered as it was bound.
FillIn_AsBound(items, local) == items

\* A wildcard address becomes the one the discovery came in on, if that is of
\* its family.
FillIn(items, local) ==
  [i \in DOMAIN items |->
     IF \/ items[i].ip = "0.0.0.0" /\ local \in Ipv4
        \/ items[i].ip = "::" /\ local \in Ipv6
     THEN [items[i] EXCEPT !.ip = local] ELSE items[i]]

\* Offers of this program's modems; a daemon's socket and its discovery are of
\* one address family.
OwnOffers ==
  {FillIn(build_peer_offer(bound, port, tls), local) :
     bound \in {"0.0.0.0"} \cup Ipv4, port \in Port, tls \in BOOLEAN, local \in Ipv4}
  \cup
  {FillIn(build_peer_offer(bound, port, tls), local) :
     bound \in {"::"} \cup Ipv6, port \in Port, tls \in BOOLEAN, local \in Ipv6}

-----------------------------------------------------------------------------
(* The router.                                                              *)

Endpoint(item) ==
  [item EXCEPT !.port = IF @ = NoPort THEN DEFAULT_PORT ELSE @]

Usable(e) == e.ip \notin Unspecified \cup Multicast /\ e.port # 0

\* Those of seq with this TLS setting and address family, in their order.
Class(seq, tls, v6) == SelectSeq(seq, LAMBDA e : e.tls = tls /\ (e.ip \in V6) = v6)

\* Mutant: the family comes before TLS, and IPv4 first.
sort_by_key_V4First(seq) ==
  Class(seq, TRUE, FALSE) \o Class(seq, FALSE, FALSE)
    \o Class(seq, TRUE, TRUE) \o Class(seq, FALSE, TRUE)

\* A stable sort: TLS before plain, and of each IPv6 before IPv4.
sort_by_key(seq) ==
  Class(seq, TRUE, TRUE) \o Class(seq, TRUE, FALSE)
    \o Class(seq, FALSE, TRUE) \o Class(seq, FALSE, FALSE)

dedup(seq) ==
  FoldLeft(LAMBDA kept, e : IF kept # <<>> /\ Last(kept) = e THEN kept ELSE Append(kept, e),
           <<>>, seq)

offer_endpoints(items, source) ==
  LET listed == [i \in DOMAIN items |-> Endpoint(items[i])]
      all == IF listed = <<>>
             THEN <<[ip |-> source, port |-> DEFAULT_PORT, tls |-> FALSE]>> ELSE listed
  IN  dedup(sort_by_key(SelectSeq(all, Usable)))

\* An offer from which no endpoint is left is not reported.
OfferInit ==
  /\ use_tls \in BOOLEAN
  /\ offer \in PeerOffers
  /\ from \in Ipv4 \cup Ipv6
  /\ endpoints = offer_endpoints(offer, from)
  /\ tried = <<>>
  /\ result = IF endpoints = <<>> THEN "ignored" ELSE "trying"

Incompatible == Head(endpoints).tls # use_tls

Skip ==
  /\ result = "trying" /\ endpoints # <<>>
  /\ Incompatible
  /\ endpoints' = Tail(endpoints)
  /\ UNCHANGED <<use_tls, offer, from, tried, result>>

TryNext(works) ==
  /\ result = "trying" /\ endpoints # <<>>
  /\ ~Incompatible
  /\ tried' = Append(tried, Head(endpoints))
  /\ endpoints' = Tail(endpoints)
  /\ result' = IF works THEN "connected" ELSE "trying"
  /\ UNCHANGED <<use_tls, offer, from>>

NoneLeft ==
  /\ result = "trying" /\ endpoints = <<>>
  /\ result' = "failed"
  /\ UNCHANGED <<use_tls, offer, from, endpoints, tried>>

OfferNext == Skip \/ (\E works \in BOOLEAN : TryNext(works)) \/ NoneLeft

OfferSpec == OfferInit /\ [][OfferNext]_offerVars

-----------------------------------------------------------------------------
(* Properties, stated of the offer as it was sent.                          *)

\* The endpoints an offer stands for.
Offered ==
  IF offer = <<>> THEN {[ip |-> from, port |-> DEFAULT_PORT, tls |-> FALSE]}
  ELSE {e \in {Endpoint(offer[i]) : i \in DOMAIN offer} : Usable(e)}

Compatible == {e \in Offered : e.tls = use_tls}

\* The first place an endpoint has in the offer.
Place(e) == Min({i \in DOMAIN offer : Endpoint(offer[i]) = e})

Preferred(e, f) ==
  /\ offer # <<>>
  /\ \/ e.ip \in V6 /\ f.ip \notin V6
     \/ (e.ip \in V6) = (f.ip \in V6) /\ Place(e) < Place(f)

\* What the router does with an offer.
OfferIsExhausted ==
  /\ ToSet(tried) \subseteq Compatible
  /\ \A i \in DOMAIN tried : \A e \in Compatible :
       Preferred(e, tried[i]) => e \in ToSet(SubSeq(tried, 1, i))
  /\ result = "failed" => ToSet(tried) = Compatible
  /\ result = "ignored" => Offered = {}

\* What it does with one of this program's modems.
OwnOffersWork ==
  offer \in OwnOffers =>
    /\ result # "ignored"
    /\ result = "failed" => offer[1].tls # use_tls \/ tried = offer

\* The router tries the endpoints of the offer that match its configuration
\* ("TLS-required configuration never falls back to plaintext; --no-tls never
\* sends plaintext to an endpoint advertising TLS"), each only after all those
\* preferred to it: IPv6 before IPv4, and in the order of the offer otherwise.
\* It gives up when all have failed, and ignores only an offer without any.
\* A modem of this program is found also when it listens on a wildcard address:
\* its offer is reported, and the router fails to connect only if it could not
\* reach the modem's port or the two disagree on TLS.
OffersAreUsed == OfferIsExhausted /\ OwnOffersWork
=============================================================================
