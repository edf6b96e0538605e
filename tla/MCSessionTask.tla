--------------------------- MODULE MCSessionTask ---------------------------
(* The session task: one extension, which may opt out, three commands (one  *)
(* of them for another session) through a channel of two, and a destination *)
(* whose link requests are deferred; and its timers, a one-shot and a       *)
(* periodic one, with a channel of two.  SessionRuntime asks nothing of a   *)
(* timer but that it goes off, so one of the two rests while the other runs. *)
EXTENDS SessionRuntime, TimerSet

CONSTANTS e1, c1, c2, other, m1

MCExtension == {e1}
MCCommand == {c1, c2, other}
MCForeign == {other}
MCMac == {m1}
MCTimerId == {"one-shot", "periodic"}
MCPeriodic == {"periodic"}

TaskInit == RuntimeInit /\ TimerSetInit

TaskNext ==
  \/ TimerSetInit /\ RuntimeNext /\ UNCHANGED timerVars
  \/ RuntimeInit /\ TimerSetNext /\ UNCHANGED runtimeVars

\* The fairness of RuntimeFairSpec, when it is the task that runs.
TaskFairSpec ==
  /\ TaskInit
  /\ [][TaskNext]_<<runtimeVars, timerVars>>
  /\ WF_runtimeVars(TimerSetInit /\ Execute)
  /\ SF_runtimeVars(TimerSetInit /\ Receive)
  /\ SF_runtimeVars(TimerSetInit /\ TimerFires /\ fsm # "up")
  /\ \A mac \in Mac : SF_runtimeVars(TimerSetInit /\ LinkAnswered(mac))
=============================================================================
