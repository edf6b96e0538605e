--------------------------- MODULE SessionTimers ---------------------------
(***************************************************************************)
(* What a session state machine may assume of its timers: a timer it armed *)
(* goes off only after its full duration since it was last armed, and a    *)
(* timer it cancelled or armed again does not go off for the past.         *)
(* RouterSession and ModemSession rest on this; TimerSet implements it.    *)
(***************************************************************************)
EXTENDS Naturals

CONSTANTS
  TimerId,   \* the timers of one session
  Periodic   \* those started with periodic: true

VARIABLES
  armed,  \* the timers that are running
  due     \* how many of a timer's durations have passed and were not reported

timers == <<armed, due>>

Init ==
  /\ armed = {}
  /\ due = [id \in TimerId |-> 0]

Start(id) ==
  /\ armed' = armed \cup {id}
  /\ due' = [due EXCEPT ![id] = 0]

Cancel(id) ==
  /\ armed' = armed \ {id}
  /\ due' = [due EXCEPT ![id] = 0]

\* A duration of the timer has passed.
Elapse(id) ==
  /\ id \in armed
  /\ id \notin Periodic => due[id] = 0
  /\ due' = [due EXCEPT ![id] = @ + 1]
  /\ UNCHANGED armed

\* The state machine is told.
Fire(id) ==
  /\ id \in armed
  /\ due[id] > 0
  /\ due' = [due EXCEPT ![id] = @ - 1]
  /\ armed' = IF id \in Periodic THEN armed ELSE armed \ {id}

Stop ==
  /\ armed' = {}
  /\ due' = [id \in TimerId |-> 0]

Next == Stop \/ \E id \in TimerId : Start(id) \/ Cancel(id) \/ Elapse(id) \/ Fire(id)

Spec == Init /\ [][Next]_timers
=============================================================================
