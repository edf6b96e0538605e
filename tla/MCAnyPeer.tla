----------------------------- MODULE MCAnyPeer -----------------------------
(* The router's machine and the modem's, each alone against a peer that     *)
(* sends well-formed and ill-formed messages of every type in any order, on *)
(* two destinations, one address and two metric items, one of them          *)
(* optional.                                                                *)
EXTENDS AnyPeer

CONSTANTS m1, m2, a1

MCMac == {m1, m2}
MCAddr == {a1}
MCMetricItem == {"rate", "mtu"}
MCMandatory == {"rate"}
MCMetricValue == {1}

Full == [i \in MCMetricItem |-> 1]
RateOnly == [i \in MCMetricItem |-> IF i = "rate" THEN 1 ELSE Unset]
MCSupply == {Full, RateOnly}
MCChanges == {[added |-> add, removed |-> remove] :
                add \in SUBSET MCAddr, remove \in SUBSET MCAddr}
Adds == {ch \in MCChanges : ch.removed = {}}

\* Messages of both roles: updates' responses, terminations, and every type
\* with nothing in it.
Common ==
  {SessionMsg("SESSION_UPDATE_RESPONSE", s, NoMetrics, NoChanges) :
     s \in {"SUCCESS", "REQUEST_DENIED", "TIMED_OUT"}}
  \cup {Termination("SHUTTING_DOWN")}
  \cup {Bare(t) : t \in MessageType}

MCFromRouter ==
  Common
  \cup {SessionMsg(t, NoStatus, x, ch) : t \in {"SESSION_INITIALIZATION", "SESSION_UPDATE"},
          x \in {NoMetrics, RateOnly}, ch \in MCChanges}
  \cup {DestMsg(t, mac, s) : t \in MessageType, mac \in MCMac,
          s \in {NoStatus, "SUCCESS", "REQUEST_DENIED"}}

FromModemAbout(mac) ==
  {Msg(t, mac, NoStatus, x, ch) : t \in {"DESTINATION_UP", "DESTINATION_UPDATE"},
     x \in {NoMetrics, RateOnly, Full}, ch \in MCChanges}
  \cup {Msg("DESTINATION_ANNOUNCE_RESPONSE", mac, s, x, ch) :
          s \in {"SUCCESS", "REQUEST_DENIED"}, x \in {NoMetrics, Full}, ch \in Adds}
  \cup {Msg("LINK_CHARACTERISTICS_RESPONSE", mac, s, x, NoChanges) :
          s \in {"SUCCESS", "REQUEST_DENIED"}, x \in {NoMetrics, RateOnly, Full}}
  \cup {DestMsg(t, mac, s) : t \in MessageType, s \in {NoStatus, "SUCCESS"}}

MCFromModem ==
  Common
  \cup {SessionMsg("SESSION_INITIALIZATION_RESPONSE", s, x, ch) :
          s \in {"SUCCESS", "REQUEST_DENIED", "SHUTTING_DOWN"},
          x \in {Full, RateOnly, NoMetrics}, ch \in Adds}
  \cup {SessionMsg("SESSION_UPDATE", NoStatus, x, ch) :
          x \in {NoMetrics, RateOnly, Full}, ch \in MCChanges}
  \cup UNION {FromModemAbout(mac) : mac \in MCMac}
=============================================================================
