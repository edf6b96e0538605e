--------------------------- MODULE SessionRuntime ---------------------------
(***************************************************************************)
(* The task that runs one session (run_session_tracked and process_actions,*)
(* crates/dlep-daemon/src/session.rs): it feeds events to the session's    *)
(* state machine and carries out the actions it answers with, one by one.  *)
(* A write may fail, and the task may be cancelled, at each await; what    *)
(* was not carried out then never is, and the drop of SessionLifecycle     *)
(* has to clean up.                                                        *)
(*                                                                         *)
(* The state machine is reduced to what the task can tell of it: whether   *)
(* the session is opening, up or terminating, and the order of the         *)
(* actions of each of its answers.  Timers are TimerSet's.                 *)
(***************************************************************************)
EXTENDS Naturals, Sequences, FiniteSets

CONSTANTS
  Extension,  \* the registered extensions
  Command,    \* commands with a receipt, sent at most once each
  Foreign,    \* those with another session as target
  Mac,        \* destinations the peer asks link characteristics of
  Capacity,   \* of the command channel
  NoCommand

ASSUME SessionRuntimeConstants ==
  /\ Foreign \subseteq Command
  /\ NoCommand \notin Command
  /\ Capacity \in Nat \ {0}

VARIABLES
  fsm,            \* the state machine's state, as far as the task can tell
  links,          \* its pending_link_requests
  pc,             \* where the task is
  batch,          \* the actions it still has to carry out
  branch,         \* the select branch they come from
  close,          \* whether CloseTcp was among them
  doing,          \* the command whose actions these are
  receipt,        \* its receipt, if it is still to be resolved, and the outcome
  pending_sends,  \* whether extensions have queued messages
  active_exts, down_emitted, jobs, connection,     \* SessionLifecycle
  commands,       \* the command channel
  senders,        \* whether anyone can still send to it
  commands_open,
  receipts,       \* what became of each command's receipt
  wrote,          \* commands that made the task write to the peer
  completed,      \* commands whose actions were all carried out
  events,         \* what subscribers were told, repeats of "Other" left out
  hooks           \* what each extension was told, repeats of "call" left out

lifecycle == <<active_exts, down_emitted, jobs, connection>>
machine == <<fsm, links>>
task == <<pc, batch, branch, close, doing, receipt, pending_sends>>
channel == <<commands, senders, commands_open, receipts>>
effects == <<wrote, completed>>
reports == <<events, hooks>>
runtimeVars == <<machine, task, lifecycle, channel, effects, reports>>

NoReceipt == [command |-> NoCommand, outcome |-> "accepted"]

-----------------------------------------------------------------------------
(* The state machines' answers: <<state, event, new state, actions>>, for   *)
(* both roles.  Timer actions are left out, and emitted events that are     *)
(* only published are all Other.                                            *)

FsmSteps ==
  {<<"opening", "Message", "up", <<"SessionUp", "Other">>>>,
   <<"opening", "Message", "up", <<"Send", "SessionUp", "Other">>>>,
   <<"opening", "Message", "terminating", <<"Send">>>>,
   <<"opening", "Message", "ended", <<"Close", "SessionDown">>>>,
   <<"opening", "Garbage", "terminating", <<"Send">>>>,
   <<"opening", "Garbage", "ended", <<"Close", "SessionDown">>>>,
   <<"opening", "Timer", "ended", <<"Close", "SessionDown">>>>,
   <<"opening", "Closed", "ended", <<"SessionDown">>>>,
   <<"opening", "Shutdown", "ended", <<"Close", "SessionDown">>>>,
   <<"opening", "Command", "opening", <<"Rejected">>>>,
   <<"up", "Message", "up", <<>>>>,
   <<"up", "Message", "up", <<"Send">>>>,
   <<"up", "Message", "up", <<"Other">>>>,
   <<"up", "Message", "up", <<"Other", "Send">>>>,
   <<"up", "Message", "up", <<"Destination">>>>,
   <<"up", "Message", "up", <<"Destination", "Send">>>>,
   <<"up", "Message", "up", <<"Send", "Destination">>>>,
   <<"up", "Message", "terminating", <<"Send">>>>,
   <<"up", "Message", "ended", <<"Send", "Close", "SessionDown">>>>,
   <<"up", "Garbage", "terminating", <<"Send">>>>,
   <<"up", "Extension", "up", <<>>>>,
   <<"up", "Timer", "up", <<"Send">>>>,
   <<"up", "Timer", "terminating", <<"Send">>>>,
   <<"up", "Closed", "ended", <<"SessionDown">>>>,
   <<"up", "Shutdown", "terminating", <<"Send">>>>,
   <<"up", "Command", "up", <<"Send">>>>,
   <<"up", "Command", "up", <<>>>>,
   <<"up", "Command", "up", <<"Rejected">>>>,
   <<"terminating", "Message", "terminating", <<>>>>,
   <<"terminating", "Message", "ended", <<"Close", "SessionDown">>>>,
   <<"terminating", "Garbage", "terminating", <<>>>>,
   <<"terminating", "Timer", "ended", <<"Close", "SessionDown">>>>,
   <<"terminating", "Closed", "ended", <<"SessionDown">>>>,
   <<"terminating", "Shutdown", "terminating", <<>>>>,
   <<"terminating", "Command", "terminating", <<"Rejected">>>>}

\* The machine takes event; the task starts to carry out its answer.
Step(event, from) ==
  \E step \in FsmSteps :
    /\ step[1] = fsm /\ step[2] = event
    /\ fsm' = step[3]
    /\ batch' = step[4]
    /\ pc' = "acting"
    /\ branch' = from
    /\ close' = FALSE

RuntimeInit ==
  /\ fsm = "opening" /\ links = {}
  /\ pc = "acting" /\ branch = "start" /\ close = FALSE
  /\ batch \in {<<"Send">>, <<>>}
  /\ doing = NoCommand /\ receipt = NoReceipt /\ pending_sends = FALSE
  /\ active_exts = {} /\ down_emitted = FALSE /\ jobs = {}
  /\ connection = "connecting"
  /\ commands = <<>> /\ senders = TRUE /\ commands_open = TRUE
  /\ receipts = [c \in Command |-> "unsent"] /\ wrote = {} /\ completed = {}
  /\ events = <<>> /\ hooks = [e \in Extension |-> <<>>]

-----------------------------------------------------------------------------
(* What subscribers and extensions are told.                                *)

Told(history, what) ==
  IF history # <<>> /\ history[Len(history)] = what /\ what \in {"Other", "call"}
  THEN history ELSE Append(history, what)

Dispatch(exts, what) ==
  [e \in Extension |-> IF e \in exts THEN Told(hooks[e], what) ELSE hooks[e]]

\* Hooks of any of the active extensions may queue messages.
MayQueue(exts) == pending_sends' \in {pending_sends, pending_sends \/ exts # {}}

-----------------------------------------------------------------------------
(* The end of the task, however it comes: the drop of SessionLifecycle, and *)
(* of the command channel with all receipts in it.                          *)

\* Mutant: the drop leaves the extensions out.
drop_NoHooks ==
  /\ events' = IF down_emitted THEN events ELSE Append(events, "SessionDown")
  /\ hooks' = hooks

drop ==
  /\ events' = IF down_emitted THEN events ELSE Append(events, "SessionDown")
  /\ hooks' = IF down_emitted THEN hooks ELSE Dispatch(active_exts, "down")

Queued == {commands[i] : i \in DOMAIN commands}

TaskEnds(answers, lost) ==
  /\ drop
  /\ pc' = "ended"
  /\ batch' = <<>> /\ doing' = NoCommand /\ receipt' = NoReceipt /\ pending_sends' = FALSE
  /\ jobs' = {} /\ connection' = "disconnected"
  /\ commands' = <<>>
  /\ receipts' = [c \in Command |-> IF c \in lost THEN "dropped" ELSE answers[c]]
  /\ UNCHANGED <<machine, branch, close, active_exts, down_emitted, senders,
                 commands_open, wrote>>

-----------------------------------------------------------------------------
(* process_actions: one action of the answer at a time.                     *)

Next1(action) ==
  /\ pc = "acting" /\ batch # <<>> /\ Head(batch) = action
  /\ batch' = Tail(batch)
  /\ UNCHANGED <<machine, branch, doing, receipt, channel, completed>>

SendMessage ==
  /\ Next1("Send")
  /\ wrote' = wrote \cup ({doing} \ {NoCommand})
  /\ UNCHANGED <<pc, close, pending_sends, lifecycle, reports>>

CloseTcp ==
  /\ Next1("Close") /\ UNCHANGED wrote
  /\ close' = TRUE
  /\ UNCHANGED <<pc, pending_sends, lifecycle, reports>>

\* Which extensions the peer supports and which of those accept it is open.
negotiate == SUBSET Extension

EmitSessionUp ==
  /\ Next1("SessionUp") /\ UNCHANGED wrote
  /\ active_exts' \in negotiate
  /\ connection' = "connected"
  /\ events' = Told(events, "SessionUp")
  /\ hooks' = Dispatch(active_exts', "up")
  /\ MayQueue(active_exts')
  /\ pc' = "flushing"
  /\ UNCHANGED <<close, down_emitted, jobs>>

\* Mutant: the guard is not told that the session has ended.
EmitSessionDown_Unmarked ==
  /\ Next1("SessionDown") /\ UNCHANGED wrote
  /\ events' = Told(events, "SessionDown")
  /\ hooks' = Dispatch(active_exts, "down")
  /\ MayQueue(active_exts)
  /\ active_exts' = {}
  /\ pc' = "flushing"
  /\ UNCHANGED <<close, down_emitted, jobs, connection>>

EmitSessionDown ==
  /\ Next1("SessionDown") /\ UNCHANGED wrote
  /\ down_emitted' = TRUE
  /\ events' = Told(events, "SessionDown")
  /\ hooks' = Dispatch(active_exts, "down")
  /\ MayQueue(active_exts)
  /\ active_exts' = {}
  /\ pc' = "flushing"
  /\ UNCHANGED <<close, jobs, connection>>

EmitDestination ==
  /\ Next1("Destination") /\ UNCHANGED wrote
  /\ events' = Told(events, "Other")
  /\ hooks' = Dispatch(active_exts, "call")
  /\ MayQueue(active_exts)
  /\ pc' = "flushing"
  /\ UNCHANGED <<close, lifecycle>>

\* A deferred link request starts its job.
EmitLinkRequest ==
  /\ Next1("LinkRequest") /\ UNCHANGED wrote
  /\ events' = Told(events, "Other")
  /\ \E mac \in links \ jobs : jobs' = jobs \cup {mac}
  /\ pc' = "flushing"
  /\ UNCHANGED <<close, pending_sends, active_exts, down_emitted, connection, hooks>>

EmitOther ==
  /\ \/ Next1("Other")
     \/ Next1("Rejected")
  /\ UNCHANGED wrote
  /\ events' = Told(events, "Other")
  /\ pc' = "flushing"
  /\ UNCHANGED <<close, pending_sends, lifecycle, hooks>>

flush_pending_sends ==
  /\ pc = "flushing"
  /\ pending_sends' = FALSE
  /\ pc' = IF branch = "flush" THEN "select" ELSE "acting"
  /\ UNCHANGED <<machine, batch, branch, close, doing, receipt, lifecycle, channel, effects,
                 reports>>

\* All actions are carried out.
BatchDone == pc = "acting" /\ batch = <<>>

Resolved ==
  [c \in Command |-> IF c = receipt.command THEN receipt.outcome ELSE receipts[c]]

Completed == completed' = completed \cup ({doing} \ {NoCommand})

NextRound ==
  /\ BatchDone
  /\ ~close /\ branch # "eof"
  /\ receipts' = Resolved
  /\ Completed
  /\ doing' = NoCommand /\ receipt' = NoReceipt
  /\ pc' = IF branch = "message" THEN "flushing" ELSE "select"
  /\ branch' = IF branch = "message" THEN "flush" ELSE branch
  /\ UNCHANGED <<machine, batch, close, pending_sends, lifecycle, commands, senders,
                 commands_open, wrote, reports>>

LeaveLoop ==
  /\ BatchDone
  /\ close \/ branch = "eof"
  /\ Completed
  /\ TaskEnds(Resolved, Queued)

\* Where the task can be stopped: at an await (the last is the shutdown of the
\* connection, before the receipt is resolved).
AtAwait ==
  \/ pc = "select"
  \/ pc = "flushing" /\ pending_sends
  \/ pc = "acting" /\ batch # <<>> /\ Head(batch) = "Send"
  \/ BatchDone /\ close

\* An I/O error, or the task is cancelled.
Interrupted ==
  /\ AtAwait
  /\ TaskEnds(receipts, Queued \cup {receipt.command})
  /\ UNCHANGED completed

-----------------------------------------------------------------------------
(* The branches of the select loop.                                         *)

Selecting == pc = "select"

\* Extensions are offered unknown items of messages in an established session.
ReadMessage ==
  /\ Selecting
  /\ Step("Message", "message")
  /\ \E called \in SUBSET active_exts :
       /\ called # {} => fsm = "up"
       /\ hooks' = Dispatch(called, "call")
       /\ MayQueue(called)
  /\ UNCHANGED <<links, doing, receipt, lifecycle, channel, effects, events>>

\* An extension claims an unknown message.
ReadExtensionMessage ==
  /\ Selecting
  /\ Step("Extension", "message")
  /\ \E called \in SUBSET active_exts \ {{}} :
       /\ hooks' = Dispatch(called, "call")
       /\ MayQueue(called)
  /\ UNCHANGED <<links, doing, receipt, lifecycle, channel, effects, events>>

\* The modem defers a link request to its backend.
ReadLinkRequest(mac) ==
  /\ Selecting
  /\ fsm = "up" /\ mac \notin links
  /\ links' = links \cup {mac}
  /\ batch' = <<"LinkRequest">> /\ pc' = "acting" /\ branch' = "message"
  /\ close' = FALSE
  /\ UNCHANGED <<fsm, doing, receipt, pending_sends, lifecycle, channel, effects, reports>>

ReadGarbage ==
  /\ Selecting
  /\ Step("Garbage", "other")
  /\ UNCHANGED <<links, doing, receipt, pending_sends, lifecycle, channel, effects, reports>>

ReadEof ==
  /\ Selecting
  /\ Step("Closed", "eof")
  /\ UNCHANGED <<links, doing, receipt, pending_sends, lifecycle, channel, effects, reports>>

TimerFires ==
  /\ Selecting
  /\ Step("Timer", "other")
  /\ UNCHANGED <<links, doing, receipt, pending_sends, lifecycle, channel, effects, reports>>

\* A command for another session is handed back; any other is given to the
\* machine, Shutdown or not.
ForeignCommand ==
  /\ Selecting /\ commands_open /\ commands # <<>> /\ Head(commands) \in Foreign
  /\ commands' = Tail(commands)
  /\ receipts' = [receipts EXCEPT ![Head(commands)] = "elsewhere"]
  /\ UNCHANGED <<machine, task, lifecycle, senders, commands_open, effects, reports>>

\* Mutant: the receipt is resolved before the actions are carried out.
ReadCommand_EarlyReceipt ==
  /\ Selecting /\ commands_open /\ commands # <<>> /\ Head(commands) \notin Foreign
  /\ Step("Command", "other") \/ Step("Shutdown", "other")
  /\ commands' = Tail(commands)
  /\ receipts' = [receipts EXCEPT ![Head(commands)] =
                    IF \E i \in DOMAIN batch' : batch'[i] = "Rejected"
                    THEN "rejected" ELSE "accepted"]
  /\ doing' = Head(commands)
  /\ UNCHANGED <<links, receipt, pending_sends, lifecycle, senders, commands_open,
                 effects, reports>>

ReadCommand ==
  /\ Selecting /\ commands_open /\ commands # <<>> /\ Head(commands) \notin Foreign
  /\ Step("Command", "other") \/ Step("Shutdown", "other")
  /\ receipt' = [command |-> Head(commands),
                 outcome |-> IF \E i \in DOMAIN batch' : batch'[i] = "Rejected"
                             THEN "rejected" ELSE "accepted"]
  /\ doing' = Head(commands)
  /\ commands' = Tail(commands)
  /\ UNCHANGED <<links, pending_sends, lifecycle, senders, commands_open, receipts,
                 effects, reports>>

\* Mutant: a closed command channel only disables its branch.
ChannelClosed_Ignored ==
  /\ Selecting /\ commands_open /\ commands = <<>> /\ ~senders
  /\ commands_open' = FALSE
  /\ UNCHANGED <<machine, task, lifecycle, commands, senders, receipts, effects, reports>>

\* The daemon has dropped the channel: shut down, once.
ChannelClosed ==
  /\ Selecting /\ commands_open /\ commands = <<>> /\ ~senders
  /\ commands_open' = FALSE
  /\ Step("Shutdown", "other")
  /\ UNCHANGED <<links, doing, receipt, pending_sends, lifecycle, commands, senders,
                 receipts, effects, reports>>

\* Mutant: an answer the machine does not accept is reported and forgotten.
LinkAnswered_NoFallback(mac) ==
  /\ Selecting /\ mac \in jobs
  /\ jobs' = jobs \ {mac}
  /\ \E valid \in BOOLEAN :
       IF fsm = "up" /\ valid
       THEN links' = links \ {mac} /\ batch' = <<"Send">>
       ELSE links' = links /\ batch' = <<"Rejected">>
  /\ pc' = "acting" /\ branch' = "other" /\ close' = FALSE
  /\ UNCHANGED <<fsm, doing, receipt, pending_sends, active_exts, down_emitted,
                 connection, channel, effects, reports>>

\* A backend's answer; an invalid one, or a backend that failed, is replaced
\* by a denial.  After the session was up the machine rejects either.
LinkAnswered(mac) ==
  /\ Selecting /\ mac \in jobs
  /\ jobs' = jobs \ {mac}
  /\ IF fsm = "up"
     THEN links' = links \ {mac} /\ batch' \in {<<"Send">>, <<"Rejected", "Send">>}
     ELSE links' = links /\ batch' = <<"Rejected">>
  /\ pc' = "acting" /\ branch' = "other" /\ close' = FALSE
  /\ UNCHANGED <<fsm, doing, receipt, pending_sends, active_exts, down_emitted,
                 connection, channel, effects, reports>>

-----------------------------------------------------------------------------
(* The daemon.                                                              *)

SendCommand(c) ==
  /\ senders /\ pc # "ended" /\ receipts[c] = "unsent"
  /\ Len(commands) < Capacity
  /\ commands' = Append(commands, c)
  /\ receipts' = [receipts EXCEPT ![c] = "waiting"]
  /\ UNCHANGED <<machine, task, lifecycle, senders, commands_open, effects, reports>>

DropSenders ==
  /\ senders
  /\ senders' = FALSE
  /\ UNCHANGED <<machine, task, lifecycle, commands, commands_open, receipts, effects,
                 reports>>

Execute ==
  \/ SendMessage \/ CloseTcp \/ EmitSessionUp \/ EmitSessionDown \/ EmitDestination
  \/ EmitLinkRequest \/ EmitOther \/ flush_pending_sends \/ NextRound \/ LeaveLoop

Receive == ForeignCommand \/ ReadCommand \/ ChannelClosed

RuntimeNext ==
  \/ Execute \/ Interrupted \/ Receive
  \/ ReadMessage \/ ReadExtensionMessage \/ ReadGarbage \/ ReadEof \/ TimerFires
  \/ \E mac \in Mac : ReadLinkRequest(mac) \/ LinkAnswered(mac)
  \/ \E c \in Command : SendCommand(c)
  \/ DropSenders

RuntimeSpec == RuntimeInit /\ [][RuntimeNext]_runtimeVars

\* Writes end within their timeout; select! takes each branch that is ready
\* again and again; backends answer; the timers of an opening or terminating
\* session go off.
RuntimeFairSpec ==
  /\ RuntimeSpec
  /\ WF_runtimeVars(Execute)
  /\ SF_runtimeVars(Receive)
  /\ SF_runtimeVars(TimerFires /\ fsm # "up")
  /\ \A mac \in Mac : SF_runtimeVars(LinkAnswered(mac))

-----------------------------------------------------------------------------
(* Properties.                                                              *)

Count(history, what) == Cardinality({i \in DOMAIN history : history[i] = what})

\* What subscribers are told.
OneSessionDown ==
  /\ Count(events, "SessionDown") = (IF down_emitted \/ pc = "ended" THEN 1 ELSE 0)
  /\ \A i \in DOMAIN events : events[i] = "SessionDown" => i = Len(events)
  /\ Count(events, "SessionUp") <= 1
  /\ connection = "connected" => Count(events, "SessionUp") = 1

\* What extensions are told.
HooksAreBracketed ==
  \A e \in Extension : hooks[e] # <<>> =>
    /\ hooks[e][1] = "up" /\ Count(hooks[e], "up") = 1
    /\ Count(hooks[e], "down") = (IF e \in active_exts /\ pc # "ended" THEN 0 ELSE 1)
    /\ \A i \in DOMAIN hooks[e] : hooks[e][i] = "down" => i = Len(hooks[e])

\* Subscribers are told once that the session is down, whichever way it ended
\* and wherever the task was stopped, and nothing of the session after that;
\* they are told at most once that it is up (SessionLifecycle's comment, and
\* doc/architecture.md 5.12: "exactly one SessionDown").  An extension is told
\* that the session is up before anything else, and once that it is down before
\* the task has ended, with nothing after it.
LifecycleIsReported == OneSessionDown /\ HooksAreBracketed

\* A receipt says accepted only after every action of the command was carried
\* out, and rejected or elsewhere only if the command had no effect; none is
\* left waiting when the task has ended (runtime.rs: "resolves it only after
\* checking FSM state and executing the resulting local actions").
ReceiptsAreHonest ==
  \A c \in Command :
    /\ receipts[c] = "accepted" => c \in completed
    /\ receipts[c] \in {"unsent", "rejected", "elsewhere"} => c \notin wrote
    /\ receipts[c] = "waiting" => c \in Queued \cup {doing}

\* When the daemon drops the command channel, or has asked for a shutdown, the
\* task ends, whatever the peer goes on sending; and a deferred link request is
\* answered or its session is no longer up.
NothingWaitsForEver ==
  /\ ~senders ~> pc = "ended"
  /\ \A mac \in Mac : mac \in links ~> (mac \notin links \/ fsm # "up" \/ pc = "ended")
=============================================================================
