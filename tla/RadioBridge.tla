---------------------------- MODULE RadioBridge ----------------------------
(***************************************************************************)
(* The bridge between the modem's daemon and the program that drives the   *)
(* radio (crates/dlep-modem/src/radio.rs).  The adapter reports            *)
(* destinations and metrics; the bridge keeps them in a table, passes each *)
(* report to every session, repeats to a session what it refused as Busy,  *)
(* and gives a new session the whole table.                                *)
(*                                                                         *)
(* Sessions are modelled by what their commands depend on: whether the     *)
(* session is up, and for each destination the request it waits for (the   *)
(* whole machine is ModemSession).  A report goes to all sessions in one   *)
(* step, for sessions do not act on each other.  The commands of a replay  *)
(* and of a round of retries are steps of their own: routers answer in     *)
(* between.  Changes of addresses go the way of changes of metrics, and a  *)
(* report the daemon finds invalid changes nothing; both are left out.     *)
(***************************************************************************)
EXTENDS Naturals, Sequences, FiniteSets, SequencesExt, Functions, TLC

CONSTANTS
  MAC, Session, Field, Value,
  initial,         \* the configured metrics
  SessionReports,  \* bound: session metrics the adapter reports
  Reports,         \* bound: other reports of the adapter
  Requests         \* bound: link requests of the routers

ASSUME RadioConstants ==
  /\ IsFiniteSet(MAC) /\ IsFiniteSet(Session)
  /\ initial \in [Field -> Value]
  /\ SessionReports \in Nat /\ Reports \in Nat /\ Requests \in Nat

VARIABLES
  destinations,     \* the bridge's table: MAC -> metrics
  session_metrics,
  pending,          \* request -> its session, MAC, metrics, and whether its answer is open
  next_request,
  retries,          \* <<session, retry>>, the oldest first
  work,             \* the commands left of the handler that runs
  ups,              \* sessions whose SessionUp the bridge has not read
  phase,            \* of each session: "init", "up" or "gone"
  entry,            \* its destinations: "absent", "up", "withdrawn", or what it waits for
  held,             \* the metrics it holds for each
  linked,           \* <<session, MAC>> whose link request is unanswered
  answers,          \* <<session, MAC, metrics>> the session has not read
  updating,         \* sessions whose Session Update is unanswered
  reported          \* how many reports there were, of each kind

bridgeVars == <<destinations, session_metrics, pending, next_request, retries, work>>
linkVars == <<linked, answers>>
sessionVars == <<phase, entry, held, linkVars, updating>>
radioVars == <<bridgeVars, ups, sessionVars, reported>>

Metrics == [Field -> Value]
Partial == UNION {[fields -> Value] : fields \in SUBSET Field}
NoMetrics == [f \in {} |-> 0]

\* Metrics::overlay, and merge_link_metrics in the session.
overlay(update, base) ==
  [f \in Field |-> IF f \in DOMAIN update THEN update[f] ELSE base[f]]

Entry == {"absent", "upPending", "up", "withdrawn", "downPending"}

Add(m) == <<"Add", m>>
Drop(m) == <<"Drop", m>>
SessionMetrics == <<"SessionMetrics">>
Retry == {Add(m) : m \in MAC} \cup {Drop(m) : m \in MAC} \cup {SessionMetrics}

RadioInit ==
  /\ destinations = [m \in {} |-> initial]
  /\ session_metrics = initial
  /\ pending = [i \in {} |-> 0] /\ next_request = 1
  /\ retries = <<>> /\ work = <<>>
  /\ ups = {}
  /\ phase = [s \in Session |-> "init"]
  /\ entry = [s \in Session |-> [m \in MAC |-> "absent"]]
  /\ held = [s \in Session |-> [m \in MAC |-> initial]]
  /\ linked = {} /\ answers = {} /\ updating = {}
  /\ reported = <<0, 0>>

-----------------------------------------------------------------------------
(* What a session does with a command.                                      *)

Waits(s, m) == entry[s][m] \in {"upPending", "downPending"}

\* check_command.
Outcome(s, kind, m) ==
  IF phase[s] # "up" THEN "NotReady"
  ELSE IF kind = "SessionMetrics" THEN IF s \in updating THEN "Busy" ELSE "Ok"
  ELSE IF kind = "Drop" /\ <<s, m>> \in linked THEN "Busy"
  ELSE IF kind = "Update" /\ entry[s][m] = "upPending" THEN "Ok"
  ELSE IF Waits(s, m) THEN "Busy"
  ELSE IF kind = "Add" /\ entry[s][m] # "absent" THEN "AlreadyExists"
  ELSE IF kind # "Add" /\ entry[s][m] = "absent" THEN "UnknownDestination"
  ELSE "Ok"

\* The sessions of S that take the command take it.  A destination its router
\* has withdrawn goes at once; a Session Update is about all destinations.
Tell(S, kind, m, metrics) ==
  LET took == {s \in S : Outcome(s, kind, m) = "Ok"}
      Next(s) == CASE kind = "Add" -> "upPending"
                   [] kind = "Update" -> entry[s][m]
                   [] kind = "Drop" -> IF entry[s][m] = "withdrawn" THEN "absent" ELSE "downPending"
  IN  /\ entry' = IF kind = "SessionMetrics" THEN entry
                  ELSE [s \in Session |-> IF s \in took THEN [entry[s] EXCEPT ![m] = Next(s)]
                                                        ELSE entry[s]]
      /\ held' = [s \in Session |-> [d \in MAC |->
                    IF /\ s \in took
                       /\ \/ kind \in {"Add", "Update"} /\ d = m
                          \/ kind = "SessionMetrics" /\ entry[s][d] # "absent"
                    THEN metrics ELSE held[s][d]]]
      /\ updating' = IF kind = "SessionMetrics" THEN updating \cup took ELSE updating
      /\ UNCHANGED <<phase, linkVars>>

\* What schedule_busy adds to the retries; the sessions come in any order.
schedule_busy(S, retry, kind, m) ==
  LET busy == SetToSeq({s \in S : Outcome(s, kind, m) = "Busy"})
  IN  [i \in DOMAIN busy |-> <<busy[i], retry>>]

-----------------------------------------------------------------------------
(* inbound: reports of the adapter.                                         *)

Idle == work = <<>>

Reported ==
  /\ reported[1] < Reports
  /\ reported' = [reported EXCEPT ![1] = @ + 1]

\* A destination the table has is ignored.
DestinationUp(m, update) ==
  LET metrics == overlay(update, session_metrics)
  IN  /\ Idle
      /\ m \notin DOMAIN destinations
      /\ Tell(Session, "Add", m, metrics)
      /\ destinations' = (m :> metrics) @@ destinations
      /\ retries' = retries \o schedule_busy(Session, Add(m), "Add", m)
      /\ Reported
      /\ UNCHANGED <<session_metrics, pending, next_request, work, ups>>

DestinationUpdate(m, update) ==
  /\ Idle
  /\ m \in DOMAIN destinations
  /\ LET metrics == overlay(update, destinations[m])
     IN  /\ Tell(Session, "Update", m, metrics)
         /\ destinations' = [destinations EXCEPT ![m] = metrics]
  /\ Reported
  /\ UNCHANGED <<session_metrics, pending, next_request, retries, work, ups>>

DestinationDown(m) ==
  /\ Idle
  /\ m \in DOMAIN destinations
  /\ destinations' = Restrict(destinations, DOMAIN destinations \ {m})
  /\ Tell(Session, "Drop", m, initial)
  /\ retries' = retries \o schedule_busy(Session, Drop(m), "Drop", m)
  /\ Reported
  /\ UNCHANGED <<session_metrics, pending, next_request, work, ups>>

SessionMetricsReport(update) ==
  LET metrics == overlay(update, session_metrics)
  IN  /\ Idle
      /\ reported[2] < SessionReports
      /\ reported' = [reported EXCEPT ![2] = @ + 1]
      /\ Tell(Session, "SessionMetrics", CHOOSE m \in MAC : TRUE, metrics)
      /\ session_metrics' = metrics
      /\ destinations' = [m \in DOMAIN destinations |-> metrics]
      /\ retries' = retries \o schedule_busy(Session, SessionMetrics, "SessionMetrics", CHOOSE m \in MAC : TRUE)
      /\ UNCHANGED <<pending, next_request, work, ups>>

\* The adapter's answer; update is NoMetrics where it has none.  A request that
\* expired is only taken out.
LinkResponse(i, success, update) ==
  LET p == pending[i]
      metrics == IF update = NoMetrics THEN NoMetrics ELSE overlay(update, p.current)
  IN  /\ Idle
      /\ i \in DOMAIN pending
      /\ pending' = Restrict(pending, DOMAIN pending \ {i})
      /\ IF p.open
         THEN /\ answers' = answers \cup {<<p.session, p.mac, metrics>>}
              /\ destinations' = IF success /\ metrics # NoMetrics /\ p.mac \in DOMAIN destinations
                                 THEN [destinations EXCEPT ![p.mac] = metrics] ELSE destinations
         ELSE UNCHANGED <<answers, destinations>>
      /\ UNCHANGED <<session_metrics, next_request, retries, work, ups, phase, entry, held,
                     linked, updating, reported>>

-----------------------------------------------------------------------------
(* Link requests.                                                           *)

\* The requests of S are dropped with the jobs that wait for their answers.
Closed(table, S) ==
  [i \in DOMAIN table |-> [table[i] EXCEPT !.open = @ /\ table[i].session \notin S]]

\* A router asks for a link, its session defers the request, and ask passes it
\* on; requests that expired are taken out.
LinkRequest(s, m) ==
  /\ Idle
  /\ next_request <= Requests
  /\ phase[s] = "up" /\ entry[s][m] = "up" /\ <<s, m>> \notin linked
  /\ linked' = linked \cup {<<s, m>>}
  /\ LET live == Restrict(pending, {i \in DOMAIN pending : pending[i].open})
     IN  pending' = (next_request :> [session |-> s, mac |-> m, current |-> held[s][m], open |-> TRUE])
                      @@ live
  /\ next_request' = next_request + 1
  /\ UNCHANGED reported
  /\ UNCHANGED <<destinations, session_metrics, retries, work, ups, phase, entry, held,
                 answers, updating>>

\* Mutant: the timeout leaves the request to a late answer.
RequestExpires_NoAnswer(i) ==
  /\ i \in DOMAIN pending
  /\ pending[i].open
  /\ pending' = [pending EXCEPT ![i].open = FALSE]
  /\ UNCHANGED reported
  /\ UNCHANGED <<destinations, session_metrics, next_request, retries, work, ups, phase, entry,
                 held, linkVars, updating>>

\* RadioLink::request: the timeout denies the request.
RequestExpires(i) ==
  /\ i \in DOMAIN pending
  /\ pending[i].open
  /\ answers' = answers \cup {<<pending[i].session, pending[i].mac, NoMetrics>>}
  /\ pending' = [pending EXCEPT ![i].open = FALSE]
  /\ UNCHANGED reported
  /\ UNCHANGED <<destinations, session_metrics, next_request, retries, work, ups, phase, entry,
                 held, linked, updating>>

\* The session replies to its router.
AnswerRouter(a) ==
  /\ a \in answers
  /\ answers' = answers \ {a}
  /\ linked' = linked \ {<<a[1], a[2]>>}
  /\ held' = [held EXCEPT ![a[1]][a[2]] = overlay(a[3], @)]
  /\ UNCHANGED reported
  /\ UNCHANGED <<bridgeVars, ups, phase, entry, updating>>

-----------------------------------------------------------------------------
(* Sessions and their routers.                                              *)

SessionUp(s) ==
  /\ phase[s] = "init"
  /\ phase' = [phase EXCEPT ![s] = "up"]
  /\ ups' = ups \cup {s}
  /\ UNCHANGED reported
  /\ UNCHANGED <<bridgeVars, entry, held, linkVars, updating>>

SessionEnds(s) ==
  /\ phase[s] = "up"
  /\ phase' = [phase EXCEPT ![s] = "gone"]
  /\ entry' = [entry EXCEPT ![s] = [m \in MAC |-> "absent"]]
  /\ held' = [held EXCEPT ![s] = [m \in MAC |-> initial]]
  /\ linked' = {l \in linked : l[1] # s}
  /\ answers' = {a \in answers : a[1] # s}
  /\ updating' = updating \ {s}
  /\ pending' = Closed(pending, {s})
  /\ UNCHANGED reported
  /\ UNCHANGED <<destinations, session_metrics, next_request, retries, work, ups>>

\* The router's Destination Up Response or Destination Down Response.
RouterReplies(s, m) ==
  /\ Waits(s, m)
  /\ \E next \in IF entry[s][m] = "upPending" THEN {"up", "withdrawn"} ELSE {"absent"} :
       entry' = [entry EXCEPT ![s][m] = next]
  /\ UNCHANGED reported
  /\ UNCHANGED <<bridgeVars, ups, phase, held, linkVars, updating>>

\* A router's Destination Down, and its Destination Announce.
RouterWithdraws(s, m) ==
  /\ \/ /\ entry[s][m] = "up" /\ <<s, m>> \notin linked
        /\ entry' = [entry EXCEPT ![s][m] = "withdrawn"]
     \/ /\ entry[s][m] = "withdrawn"
        /\ entry' = [entry EXCEPT ![s][m] = "up"]
  /\ UNCHANGED reported
  /\ UNCHANGED <<bridgeVars, ups, phase, held, linkVars, updating>>

UpdateResponse(s) ==
  /\ s \in updating
  /\ updating' = updating \ {s}
  /\ UNCHANGED reported
  /\ UNCHANGED <<bridgeVars, ups, phase, entry, held, linkVars>>

-----------------------------------------------------------------------------
(* Replays and retries: the handler queues its commands, then sends them.   *)

Command(s, retry, again) == [session |-> s, retry |-> retry, again |-> again]

\* event: a new session is brought up to date.
ReadSessionUp(s) ==
  /\ Idle
  /\ s \in ups
  /\ ups' = ups \ {s}
  /\ LET macs == SetToSeq(DOMAIN destinations)
     IN  work' = (IF session_metrics # initial THEN <<Command(s, SessionMetrics, FALSE)>> ELSE <<>>)
                   \o [i \in DOMAIN macs |-> Command(s, Add(macs[i]), FALSE)]
  /\ UNCHANGED reported
  /\ UNCHANGED <<destinations, session_metrics, pending, next_request, retries, sessionVars>>

\* retry: deadlines are in the order of the queue.
RetriesDue ==
  /\ Idle
  /\ \E due \in 1..Len(retries) :
       /\ work' = [i \in 1..due |-> Command(retries[i][1], retries[i][2], TRUE)]
       /\ retries' = SubSeq(retries, due + 1, Len(retries))
  /\ UNCHANGED reported
  /\ UNCHANGED <<destinations, session_metrics, pending, next_request, ups, sessionVars>>

\* Mutant: a delayed Down is not followed by the new destination.
Again_NoReAdd(s, retry, m) == schedule_busy({s}, retry, retry[1], m)

\* Mutant: whatever was not taken is retried.
Again_Anything(s, retry, m) ==
  IF Outcome(s, retry[1], m) # "Ok" THEN <<<<s, retry>>>>
  ELSE IF retry[1] = "Drop" /\ m \in DOMAIN destinations THEN <<<<s, Add(m)>>>> ELSE <<>>

\* What is to be retried after a retry: what was Busy, and the new destination
\* once its predecessor is withdrawn.
Again(s, retry, m) ==
  schedule_busy({s}, retry, retry[1], m)
    \o IF /\ retry[1] = "Drop" /\ m \in DOMAIN destinations
          /\ Outcome(s, "Drop", m) = "Ok"
       THEN <<<<s, Add(m)>>>> ELSE <<>>

SendCommand ==
  /\ ~Idle
  /\ LET c == Head(work)
         s == c.session
         kind == c.retry[1]
         m == IF kind = "SessionMetrics" THEN CHOOSE d \in MAC : TRUE ELSE c.retry[2]
         stale == kind = "Add" /\ m \notin DOMAIN destinations
         metrics == CASE kind = "SessionMetrics" -> session_metrics
                      [] kind = "Add" /\ ~stale -> destinations[m]
                      [] OTHER -> initial
     IN  /\ Tell(IF stale THEN {} ELSE {s}, kind, m, metrics)
         /\ retries' = retries \o IF stale \/ ~c.again THEN <<>> ELSE Again(s, c.retry, m)
  /\ work' = Tail(work)
  /\ UNCHANGED reported
  /\ UNCHANGED <<destinations, session_metrics, pending, next_request, ups>>

-----------------------------------------------------------------------------
Adapter ==
  \/ \E m \in MAC : DestinationDown(m) \/ \E u \in Partial : DestinationUp(m, u) \/ DestinationUpdate(m, u)
  \/ \E u \in Partial : SessionMetricsReport(u)
  \/ \E i \in DOMAIN pending, success \in BOOLEAN, u \in Partial : LinkResponse(i, success, u)

Link ==
  \/ \E s \in Session, m \in MAC : LinkRequest(s, m)
  \/ \E i \in DOMAIN pending : RequestExpires(i)
  \/ \E a \in answers : AnswerRouter(a)

Router ==
  \/ \E s \in Session : SessionUp(s) \/ SessionEnds(s) \/ UpdateResponse(s)
  \/ \E s \in Session, m \in MAC : RouterReplies(s, m) \/ RouterWithdraws(s, m)

Bridge == (\E s \in Session : ReadSessionUp(s)) \/ RetriesDue \/ SendCommand

RadioNext == Adapter \/ Link \/ Router \/ Bridge

RadioSpec == RadioInit /\ [][RadioNext]_radioVars

\* The bridge's task, the sessions' tasks and the timeout run; a router answers
\* what its session asked, or the session ends.  The adapter owes nothing.
RadioFairSpec ==
  /\ RadioSpec
  /\ WF_radioVars(Bridge)
  /\ WF_radioVars(\E i \in DOMAIN pending : RequestExpires(i))
  /\ WF_radioVars(\E a \in answers : AnswerRouter(a))
  /\ \A s \in Session : WF_radioVars(UpdateResponse(s))
  /\ \A s \in Session, m \in MAC : WF_radioVars(RouterReplies(s, m))

-----------------------------------------------------------------------------
(* Properties.                                                              *)

\* The bridge has nothing left to say to the session, nor the session to hear.
Settled(s) ==
  /\ phase[s] = "up" /\ s \notin ups /\ Idle
  /\ \A i \in DOMAIN retries : retries[i][1] # s
  /\ \A m \in MAC : ~Waits(s, m) /\ <<s, m>> \notin linked

\* Every session ends up with exactly the adapter's destinations: those that
\* were there before the router came, those reported while a request of the
\* session was open, and none that the adapter withdrew meanwhile.
SessionsFollowTheTable ==
  \A s \in Session : Settled(s) =>
    {m \in MAC : entry[s][m] # "absent"} = DOMAIN destinations

\* A session's metrics for a destination are the bridge's: what its router is
\* told, now or when it announces the destination, is what the adapter said.
SessionMetricsFollowTheTable ==
  \A s \in Session : Settled(s) =>
    \A m \in DOMAIN destinations : entry[s][m] # "absent" => held[s][m] = destinations[m]

\* Retries come to an end once the adapter is silent: no session is asked the
\* same thing for ever, and none is Busy for ever.  A router's link request is
\* answered although the adapter may never do so, or its session ends.
BridgeComesToRest ==
  /\ <>[](retries = <<>> /\ Idle)
  /\ \A l \in Session \X MAC : l \in linked ~> l \notin linked
=============================================================================
