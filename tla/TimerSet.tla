------------------------------ MODULE TimerSet ------------------------------
(***************************************************************************)
(* The timers of one session task (TimerSet, crates/dlep-daemon/src/       *)
(* session.rs) and the tasks that sleep for them.                          *)
(*                                                                         *)
(* Each arm of a timer spawns a task that sleeps and then sends the        *)
(* timer's id and generation into a bounded channel the session task       *)
(* reads.  Aborting a task stops it at its next await: one that has        *)
(* finished its sleep may still get its expiry into the channel, and an    *)
(* expiry in the channel is not retracted.                                 *)
(*                                                                         *)
(* The state machine may ask for any sequence of starts and cancels.       *)
(***************************************************************************)
EXTENDS Naturals, Sequences, FiniteSets

CONSTANTS
  TimerId,        \* the timers of one session
  Periodic,       \* those started with periodic: true
  ExpiryCapacity, \* of the expiry channel
  MaxGeneration   \* bound: arms of one timer

ASSUME TimerSetConstants ==
  /\ Periodic \subseteq TimerId
  /\ ExpiryCapacity \in Nat \ {0}
  /\ MaxGeneration \in Nat

VARIABLES
  handles,           \* the generation of each timer's entry, 0 for no entry
  last_generations,  \* the last generation each timer was given, 0 for none
  sleeping,          \* <<id, generation>> of the tasks in their sleep
  ringing,           \* of those that woke and have not sent their expiry
  expiries,          \* the expiry channel
  running            \* whether the session task still runs

timerVars == <<handles, last_generations, sleeping, ringing, expiries, running>>

Generation == 1..MaxGeneration
Task == TimerId \X Generation

\* The state of TimerSet and its tasks; the channel is never over its capacity.
TimerSetTypeOK ==
  /\ handles \in [TimerId -> 0..MaxGeneration]
  /\ last_generations \in [TimerId -> 0..MaxGeneration]
  /\ sleeping \subseteq Task
  /\ ringing \subseteq Task
  /\ expiries \in Seq(Task) /\ Len(expiries) <= ExpiryCapacity
  /\ running \in BOOLEAN

TimerSetInit ==
  /\ handles = [id \in TimerId |-> 0]
  /\ last_generations = [id \in TimerId |-> 0]
  /\ sleeping = {}
  /\ ringing = {}
  /\ expiries = <<>>
  /\ running = TRUE

-----------------------------------------------------------------------------
(* Operations of TimerSet, called by the session task.                      *)

\* Mutant: generations start again when the entry is gone.
next_generation_for_Entry(id) == handles[id] + 1

next_generation_for(id) == last_generations[id] + 1

\* A sleeping task is gone; one that woke may have been too fast.
Abort(tasks) ==
  /\ sleeping' = sleeping \ tasks
  /\ ringing' \in {ringing, ringing \ tasks}

Entry(id) == {<<id, handles[id]>>}

\* StartTimer and ResetHeartbeat: spawn the task, then arm.
StartTimer(id) ==
  LET generation == next_generation_for(id)
  IN  /\ running
      /\ generation <= MaxGeneration
      /\ last_generations' = [last_generations EXCEPT ![id] = generation]
      /\ handles' = [handles EXCEPT ![id] = generation]
      /\ sleeping' = (sleeping \ Entry(id)) \cup {<<id, generation>>}
      /\ ringing' \in {ringing, ringing \ Entry(id)}
      /\ UNCHANGED <<expiries, running>>

CancelTimer(id) ==
  /\ running
  /\ handles' = [handles EXCEPT ![id] = 0]
  /\ Abort(Entry(id))
  /\ UNCHANGED <<last_generations, expiries, running>>

is_current_generation(id, generation) == handles[id] = generation

forget(id) == IF id \in Periodic THEN handles ELSE [handles EXCEPT ![id] = 0]

-----------------------------------------------------------------------------
(* The session task reads an expiry.                                        *)

DiscardExpiry ==
  /\ running
  /\ expiries # <<>>
  /\ ~is_current_generation(Head(expiries)[1], Head(expiries)[2])
  /\ expiries' = Tail(expiries)
  /\ UNCHANGED <<handles, last_generations, sleeping, ringing, running>>

TimerExpired(id) ==
  /\ running
  /\ expiries # <<>>
  /\ Head(expiries)[1] = id
  /\ is_current_generation(id, Head(expiries)[2])
  /\ handles' = forget(id)
  /\ expiries' = Tail(expiries)
  /\ UNCHANGED <<last_generations, sleeping, ringing, running>>

\* The session task ends, by whatever way: TimerSet's drop aborts every task
\* and the channel is gone.
DropTimers ==
  /\ running
  /\ running' = FALSE
  /\ handles' = [id \in TimerId |-> 0]
  /\ sleeping' = sleeping \ UNION {Entry(id) : id \in TimerId}
  /\ ringing' = {}
  /\ expiries' = <<>>
  /\ UNCHANGED last_generations

-----------------------------------------------------------------------------
(* The sleeping tasks.                                                      *)

Wake(task) ==
  /\ task \in sleeping
  /\ sleeping' = sleeping \ {task}
  /\ ringing' = ringing \cup {task}
  /\ UNCHANGED <<handles, last_generations, expiries, running>>

\* Mutant: an expiry that finds the channel full is dropped.
SendExpiry_Drops(task) ==
  /\ task \in ringing
  /\ expiries' = IF Len(expiries) < ExpiryCapacity THEN Append(expiries, task) ELSE expiries
  /\ ringing' = ringing \ {task}
  /\ sleeping' = IF task[1] \in Periodic /\ handles[task[1]] = task[2]
                 THEN sleeping \cup {task} ELSE sleeping
  /\ UNCHANGED <<handles, last_generations, running>>

\* A periodic task sleeps again, unless it was aborted meanwhile.
SendExpiry(task) ==
  /\ task \in ringing
  /\ Len(expiries) < ExpiryCapacity
  /\ expiries' = Append(expiries, task)
  /\ ringing' = ringing \ {task}
  /\ sleeping' = IF task[1] \in Periodic /\ handles[task[1]] = task[2]
                 THEN sleeping \cup {task} ELSE sleeping
  /\ UNCHANGED <<handles, last_generations, running>>

TimerSetNext ==
  \/ \E id \in TimerId : StartTimer(id) \/ CancelTimer(id) \/ TimerExpired(id)
  \/ DiscardExpiry
  \/ DropTimers
  \/ \E task \in Task : Wake(task) \/ SendExpiry(task)

TimerSetSpec == TimerSetInit /\ [][TimerSetNext]_timerVars

-----------------------------------------------------------------------------
(* Properties.                                                              *)

Positions(seq, x) == {i \in DOMAIN seq : seq[i] = x}

QueuedExpiries(task) == Cardinality(Positions(expiries, task))

Current(id) == <<id, handles[id]>>

Ringing(task) == IF task \in ringing THEN 1 ELSE 0

Armed == {id \in TimerId : handles[id] # 0}

Due(id) == IF handles[id] = 0 THEN 0 ELSE QueuedExpiries(Current(id)) + Ringing(Current(id))

\* No deadline is lost: the task of every armed timer is sleeping, is about to
\* send its expiry, or has it in the channel (whatever was aborted, re-armed
\* or discarded before).
ArmedTimersRun ==
  \A id \in TimerId : handles[id] # 0 =>
    \/ Current(id) \in sleeping \cup ringing
    \/ id \notin Periodic /\ QueuedExpiries(Current(id)) > 0

\* A task that sleeps is the one its timer's entry names: it can be cancelled,
\* and none survives the session (the comment on forget: a periodic entry that
\* is forgotten is the only handle the runtime could cancel).
NoOrphanTask ==
  \A task \in sleeping : running /\ handles[task[1]] = task[2]

\* A one-shot timer reports each arming at most once.
OneShotsRingOnce ==
  \A id \in TimerId \ Periodic :
    handles[id] # 0 =>
      Due(id) = IF Current(id) \in sleeping THEN 0 ELSE 1

Promised == INSTANCE SessionTimers WITH
  armed <- Armed, due <- [id \in TimerId |-> Due(id)]

\* The session's state machine sees timers as SessionTimers promises: it is
\* never told of an expiry before the full duration since the timer was last
\* armed, nor of one it cancelled, although stale expiries are in the channel.
ImplementsSessionTimers == Promised!Spec
=============================================================================
