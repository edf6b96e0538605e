--------------------------- MODULE SessionMessages --------------------------
(***************************************************************************)
(* The messages each side sends, whatever it is sent, and the scope of a   *)
(* message: a destination, or NoMac for the session.                       *)
(***************************************************************************)
EXTENDS ModemSession

\* The scopes of requests: the destinations, and the session.
Scope == MAC \cup {NoMac}

\* The metrics the modem declares when the session is initialized.
Types == Supplied(InitialMetrics)

\* What the router sends.
RouterMsg(x) ==
  \/ x = Bare("SESSION_INITIALIZATION")
  \/ x = Bare("HEARTBEAT")
  \/ x = Bare("SESSION_TERMINATION_RESPONSE")
  \/ \E status \in Status : x = Termination(status)
  \/ \E type \in {"DESTINATION_UP_RESPONSE", "DESTINATION_DOWN_RESPONSE"}, m \in MAC :
       x = DestMsg(type, m, "SUCCESS")
  \/ \E type \in {"DESTINATION_ANNOUNCE", "DESTINATION_DOWN", "LINK_CHARACTERISTICS_REQUEST"},
        m \in MAC : x = DestMsg(type, m, NoStatus)
  \/ \E ch \in AddressChanges : x = SessionMsg("SESSION_UPDATE", NoStatus, NoMetrics, ch)
  \/ x = SessionMsg("SESSION_UPDATE_RESPONSE", "SUCCESS", NoMetrics, NoChanges)

\* What the modem sends.
ModemMsg(x) ==
  \/ x = SessionMsg("SESSION_INITIALIZATION_RESPONSE", "SUCCESS", InitialMetrics, NoChanges)
  \/ x = Bare("HEARTBEAT")
  \/ x = Bare("SESSION_TERMINATION_RESPONSE")
  \/ \E status \in Status : x = Termination(status)
  \/ \E m \in MAC : x = DestMsg("DESTINATION_DOWN_RESPONSE", m, "SUCCESS")
  \/ \E m \in MAC : x = DestMsg("DESTINATION_DOWN", m, NoStatus)
  \/ \E m \in MAC : x = DestMsg("DESTINATION_ANNOUNCE_RESPONSE", m, "REQUEST_DENIED")
  \/ \E metrics \in Metrics, ch \in AddressChanges :
       /\ Supplied(metrics) \subseteq Types
       /\ \/ x = SessionMsg("SESSION_UPDATE", NoStatus, metrics, ch)
          \/ \E type \in {"DESTINATION_UP", "DESTINATION_UPDATE"}, m \in MAC :
               x = Msg(type, m, NoStatus, metrics, ch)
          \/ \E m \in MAC : x = Msg("DESTINATION_ANNOUNCE_RESPONSE", m, "SUCCESS", metrics, ch)
          \/ \E m \in MAC, status \in {"SUCCESS", "REQUEST_DENIED"} :
               /\ Supplied(metrics) = Types
               /\ x = LinkReply(m, status, metrics)
  \/ x = SessionMsg("SESSION_UPDATE_RESPONSE", "SUCCESS", NoMetrics, NoChanges)

RouterMessage == {x \in Message : RouterMsg(x)}
ModemMessage == {x \in Message : ModemMsg(x)}
=============================================================================
