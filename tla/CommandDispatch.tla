--------------------------- MODULE CommandDispatch ---------------------------
(***************************************************************************)
(* Commands of the application to the sessions of one daemon               *)
(* (dispatch_command, crates/dlep-daemon/src/runtime.rs, and the dispatch  *)
(* of both daemons).  A call takes a snapshot of the command channels,     *)
(* sends the command into each in turn, waiting for room, then waits for   *)
(* the receipts and sums them up.  Sessions start and end meanwhile, and   *)
(* several calls run at once.                                              *)
(*                                                                         *)
(* A session is what SessionRuntime shows of it: it takes the commands of  *)
(* its channel in order, and one that is rejected or meant for another     *)
(* session has no effect.                                                  *)
(***************************************************************************)
EXTENDS Naturals, Sequences, FiniteSets

CONSTANTS
  Session,   \* sessions the daemon may have, by id
  Call,      \* calls of the application, each made at most once
  Capacity,  \* of a command channel
  NoSession, NoCall

ASSUME CommandDispatchConstants ==
  /\ IsFiniteSet(Session)
  /\ NoSession \notin Session /\ NoCall \notin Call
  /\ Capacity \in Nat \ {0}

VARIABLES
  alive,         \* sessions whose task holds the receiver of its channel
  born,          \* sessions that were ever started
  session_cmds,  \* the daemon's list of senders
  queue,         \* each session's channel
  serving,       \* the call whose command a session is carrying out
  executed,      \* <<call, session>>: the command had an effect there
  pc,            \* where each call is
  target,        \* the session each call is for, NoSession for all
  senders,       \* senders it has still to send to
  sentTo,        \* sessions whose receipts it has still to read, in order
  receipts,      \* what became of the receipt for each session
  report,        \* its CommandReport
  result,        \* what it returned
  asked          \* history: the sessions alive when it was made

sessions == <<alive, born, queue, serving, executed>>
calls == <<pc, target, senders, sentTo, report, result, asked>>
dispatchVars == <<sessions, session_cmds, calls, receipts>>

EmptyReport == [accepted |-> {}, rejected |-> {}, undelivered |-> 0, unknown |-> 0]

DispatchInit ==
  /\ alive = {} /\ born = {} /\ session_cmds = <<>>
  /\ queue = [s \in Session |-> <<>>]
  /\ serving = [s \in Session |-> NoCall]
  /\ executed = {}
  /\ pc = [c \in Call |-> "idle"]
  /\ target = [c \in Call |-> NoSession]
  /\ senders = [c \in Call |-> <<>>]
  /\ sentTo = [c \in Call |-> <<>>]
  /\ receipts = [c \in Call |-> [s \in Session |-> "none"]]
  /\ report = [c \in Call |-> EmptyReport]
  /\ result = [c \in Call |-> "none"]
  /\ asked = [c \in Call |-> {}]

-----------------------------------------------------------------------------
(* Sessions.                                                                *)

\* The list without the senders whose channel is closed (retain).
Retained ==
  LET kept == {i \in DOMAIN session_cmds : session_cmds[i] \in alive}
      Nth(n) == CHOOSE i \in kept : Cardinality({j \in kept : j <= i}) = n
  IN  [n \in 1..Cardinality(kept) |-> session_cmds[Nth(n)]]

\* A new session's sender joins the list, and closed ones leave it.
StartSession(s) ==
  /\ s \notin born
  /\ born' = born \cup {s}
  /\ alive' = alive \cup {s}
  /\ session_cmds' = Append(Retained, s)
  /\ UNCHANGED <<queue, serving, executed, calls, receipts>>

Answer(c, s, how) == receipts' = [receipts EXCEPT ![c][s] = how]

\* Mutant: the target of a request is not looked at.
TakeCommand_AnyTarget(s) ==
  /\ s \in alive /\ serving[s] = NoCall /\ queue[s] # <<>>
  /\ LET c == Head(queue[s])
     IN  /\ serving' = [serving EXCEPT ![s] = c]
         /\ UNCHANGED receipts
  /\ queue' = [queue EXCEPT ![s] = Tail(@)]
  /\ UNCHANGED <<alive, born, executed, session_cmds, calls>>

TakeCommand(s) ==
  /\ s \in alive /\ serving[s] = NoCall /\ queue[s] # <<>>
  /\ LET c == Head(queue[s])
     IN  IF target[c] \in {NoSession, s}
         THEN /\ serving' = [serving EXCEPT ![s] = c]
              /\ UNCHANGED receipts
         ELSE /\ Answer(c, s, "elsewhere")
              /\ UNCHANGED serving
  /\ queue' = [queue EXCEPT ![s] = Tail(@)]
  /\ UNCHANGED <<alive, born, executed, session_cmds, calls>>

\* The session's machine accepts the command, and has its first effect.
CarryOut(s) ==
  /\ serving[s] # NoCall
  /\ <<serving[s], s>> \notin executed
  /\ executed' = executed \cup {<<serving[s], s>>}
  /\ UNCHANGED <<alive, born, queue, serving, session_cmds, calls, receipts>>

AnswerCommand(s) ==
  /\ serving[s] # NoCall
  /\ Answer(serving[s], s,
            IF <<serving[s], s>> \in executed THEN "accepted" ELSE "rejected")
  /\ serving' = [serving EXCEPT ![s] = NoCall]
  /\ UNCHANGED <<alive, born, queue, executed, session_cmds, calls>>

\* Mutant: the command being carried out keeps its receipt open.
EndSession_KeepsReceipt(s) ==
  /\ s \in alive
  /\ alive' = alive \ {s}
  /\ LET held == {queue[s][i] : i \in DOMAIN queue[s]}
     IN  receipts' = [c \in Call |->
                        IF c \in held THEN [receipts[c] EXCEPT ![s] = "dropped"]
                        ELSE receipts[c]]
  /\ queue' = [queue EXCEPT ![s] = <<>>]
  /\ serving' = [serving EXCEPT ![s] = NoCall]
  /\ UNCHANGED <<born, executed, session_cmds, calls>>

\* The task ends: the channel closes and every receipt it held is dropped.
EndSession(s) ==
  /\ s \in alive
  /\ alive' = alive \ {s}
  /\ LET held == {queue[s][i] : i \in DOMAIN queue[s]} \cup {serving[s]}
     IN  receipts' = [c \in Call |->
                        IF c \in held THEN [receipts[c] EXCEPT ![s] = "dropped"]
                        ELSE receipts[c]]
  /\ queue' = [queue EXCEPT ![s] = <<>>]
  /\ serving' = [serving EXCEPT ![s] = NoCall]
  /\ UNCHANGED <<born, executed, session_cmds, calls>>

-----------------------------------------------------------------------------
(* Calls.                                                                   *)

\* A command may name its session, and the call too; they must agree.
ConflictingIds(c) ==
  /\ pc[c] = "idle"
  /\ pc' = [pc EXCEPT ![c] = "returned"]
  /\ result' = [result EXCEPT ![c] = "Config"]
  /\ session_cmds' = Retained
  /\ UNCHANGED <<sessions, target, senders, sentTo, report, receipts, asked>>

dispatch(c, wanted) ==
  /\ pc[c] = "idle"
  /\ session_cmds' = Retained
  /\ target' = [target EXCEPT ![c] = wanted]
  /\ senders' = [senders EXCEPT ![c] = session_cmds']
  /\ pc' = [pc EXCEPT ![c] = "sending"]
  /\ UNCHANGED <<sessions, sentTo, report, result, receipts>>
  /\ asked' = [asked EXCEPT ![c] = alive]

NextSender(c) == pc[c] = "sending" /\ senders[c] # <<>>

SendOne(c) ==
  /\ NextSender(c)
  /\ LET s == Head(senders[c])
     IN  /\ s \in alive
         /\ Len(queue[s]) < Capacity
         /\ queue' = [queue EXCEPT ![s] = Append(@, c)]
         /\ Answer(c, s, "waiting")
         /\ sentTo' = [sentTo EXCEPT ![c] = Append(@, s)]
  /\ senders' = [senders EXCEPT ![c] = Tail(@)]
  /\ UNCHANGED <<alive, born, serving, executed, session_cmds, pc, target, report, result,
                 asked>>

SendFails(c) ==
  /\ NextSender(c)
  /\ Head(senders[c]) \notin alive
  /\ report' = [report EXCEPT ![c].undelivered = @ + 1]
  /\ senders' = [senders EXCEPT ![c] = Tail(@)]
  /\ UNCHANGED <<sessions, session_cmds, pc, target, sentTo, result, receipts, asked>>

Added(r, s, how) ==
  CASE how = "accepted" -> [r EXCEPT !.accepted = @ \cup {s}]
    [] how = "rejected" -> [r EXCEPT !.rejected = @ \cup {s}]
    [] how = "dropped" -> [r EXCEPT !.unknown = @ + 1]
    [] OTHER -> r

ReadReceipt(c) ==
  /\ pc[c] = "sending" /\ senders[c] = <<>> /\ sentTo[c] # <<>>
  /\ LET s == Head(sentTo[c])
     IN  /\ receipts[c][s] # "waiting"
         /\ report' = [report EXCEPT ![c] = Added(@, s, receipts[c][s])]
  /\ sentTo' = [sentTo EXCEPT ![c] = Tail(@)]
  /\ UNCHANGED <<sessions, session_cmds, pc, target, senders, result, receipts, asked>>

\* Once the selected session replied, the others do not matter.
Selected(c) ==
  LET r == report[c]
  IN  IF target[c] # NoSession /\ r.accepted \cup r.rejected # {}
      THEN [r EXCEPT !.undelivered = 0, !.unknown = 0] ELSE r

\* Mutant: unknown outcomes do not count as failures.
Outcome_IgnoreUnknown(r) ==
  IF r.rejected # {} \/ r.undelivered # 0 THEN "CommandRejected"
  ELSE IF r.accepted = {} THEN "NoMatchingSession"
  ELSE "Ok"

Outcome(r) ==
  IF r.rejected # {} \/ r.undelivered # 0 \/ r.unknown # 0 THEN "CommandRejected"
  ELSE IF r.accepted = {} THEN "NoMatchingSession"
  ELSE "Ok"

Return(c) ==
  /\ pc[c] = "sending" /\ senders[c] = <<>> /\ sentTo[c] = <<>>
  /\ report' = [report EXCEPT ![c] = Selected(c)]
  /\ result' = [result EXCEPT ![c] = Outcome(Selected(c))]
  /\ pc' = [pc EXCEPT ![c] = "returned"]
  /\ UNCHANGED <<sessions, session_cmds, target, senders, sentTo, receipts, asked>>

Proceed(c) == SendOne(c) \/ SendFails(c) \/ ReadReceipt(c) \/ Return(c)

Serve(s) == TakeCommand(s) \/ AnswerCommand(s)

DispatchNext ==
  \/ \E s \in Session : StartSession(s) \/ Serve(s) \/ CarryOut(s) \/ EndSession(s)
  \/ \E c \in Call :
       \/ ConflictingIds(c) \/ Proceed(c)
       \/ \E wanted \in Session \cup {NoSession} : dispatch(c, wanted)

DispatchSpec == DispatchInit /\ [][DispatchNext]_dispatchVars

\* Session tasks take commands and finish them (NothingWaitsForEver and the
\* write timeout of SessionRuntime); a channel gives its free places to those
\* that wait for one in turn.
DispatchFairSpec ==
  /\ DispatchSpec
  /\ \A s \in Session : WF_dispatchVars(Serve(s))
  /\ \A c \in Call : SF_dispatchVars(Proceed(c))

-----------------------------------------------------------------------------
(* Properties.                                                              *)

Executed(c) == {s \in Session : <<c, s>> \in executed}

\* What Ok means.
OkMeansEverywhere ==
  \A c \in Call : result[c] = "Ok" =>
    IF target[c] = NoSession THEN asked[c] \subseteq Executed(c) /\ asked[c] # {}
    ELSE target[c] \in Executed(c)

\* What every other answer means.
NoHiddenEffect ==
  \A c \in Call :
    LET r == report[c]
    IN  /\ target[c] # NoSession => Executed(c) \subseteq {target[c]}
        /\ result[c] \in {"NoMatchingSession", "Config"} => Executed(c) = {}
        /\ r.rejected \cap Executed(c) = {}
        /\ (pc[c] = "returned" /\ target[c] = NoSession /\ result[c] # "Config") =>
             /\ Cardinality(r.accepted) + Cardinality(r.rejected) + r.undelivered + r.unknown
                  = Cardinality(asked[c])
             /\ r.accepted \subseteq Executed(c)
             /\ Cardinality(Executed(c) \ r.accepted) <= r.unknown

\* The answer tells what the command did.  Ok is said only if it took effect in
\* the session it was for, or, for a broadcast, in each session that was there
\* when the call was made, whichever of them ended while the call was under way.
\* It takes effect only where it was meant to; nowhere, when the call says that
\* no session matched or that its ids conflict; and a session reported as
\* rejecting it has not carried it out and never will.  A returned broadcast
\* accounts for each session it was meant for exactly once, and an effect that
\* is not reported as accepted is counted as unknown (CommandReport's comments:
\* undelivered "were not delivered", unknown "may have taken effect").
AnswersAreTrue == OkMeansEverywhere /\ NoHiddenEffect

\* Every call returns, although sessions end while it waits for room in their
\* channels or for their receipts.
DispatchReturns == \A c \in Call : pc[c] = "sending" ~> pc[c] = "returned"
=============================================================================
