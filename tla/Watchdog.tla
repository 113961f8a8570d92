------------------------------ MODULE Watchdog ------------------------------
(***************************************************************************)
(* The watchdog: a loop that probes the database connection at intervals   *)
(* and tears it down after MaxFailures failed probes in a row.             *)
(*                                                                         *)
(* The loop is a task of its own event loop; each probe runs on a thread   *)
(* that is left behind when it does not answer in time.  What it watches   *)
(* are two callbacks: here a check may pass or fail at any time, and       *)
(* module Recovery says what makes it do so.  Failures are counted up to   *)
(* one more than MaxFailures: above that, the counter decides nothing.     *)
(***************************************************************************)
EXTENDS Naturals, Sequences

CONSTANT MaxFailures  \* config.watchdog_max_failures

ASSUME FailuresAssumption == MaxFailures \in Nat \ {0}

VARIABLES
  is_running,            \* _running
  stop_event,            \* _stop_event is set
  task,                  \* where the loop's task is; "none" before and after it
  caller,                \* what the one that starts and stops it waits for
  consecutive_failures,  \* _stats.consecutive_failures
  outcomes               \* history: the last MaxFailures outcomes since the last reset

control == <<is_running, stop_event, caller>>
vars    == <<control, task, consecutive_failures, outcomes>>

Init ==
  /\ is_running = FALSE
  /\ stop_event = FALSE
  /\ task = "none"
  /\ caller = "idle"
  /\ consecutive_failures = 0
  /\ outcomes = <<>>

-----------------------------------------------------------------------------
(* start() and stop(), called by one caller, one after the other.          *)

Start ==
  /\ caller = "idle"
  /\ ~is_running
  /\ is_running' = TRUE
  /\ stop_event' = FALSE
  /\ consecutive_failures' = 0
  /\ outcomes' = <<>>
  /\ task' = "waiting"
  /\ UNCHANGED caller

\* The loop, its awaits and stop() share one thread: while force_disconnect runs
\* nothing else does.
Stop ==
  /\ caller = "idle"
  /\ is_running
  /\ task # "forcing"
  /\ is_running' = FALSE
  /\ stop_event' = TRUE
  /\ caller' = "stopping"
  /\ UNCHANGED <<task, consecutive_failures, outcomes>>

\* Mutant of StopReturns: nobody waits for the task.
StopLeavesTask ==
  /\ caller = "stopping"
  /\ caller' = "idle"
  /\ UNCHANGED <<is_running, stop_event, task, consecutive_failures, outcomes>>

\* wait_for(task, 5): the task has ended, or is cancelled where it awaits.
StopReturns ==
  /\ caller = "stopping"
  /\ task # "forcing"
  /\ task' = "none"
  /\ caller' = "idle"
  /\ UNCHANGED <<is_running, stop_event, consecutive_failures, outcomes>>

-----------------------------------------------------------------------------
(* _watchdog_loop().                                                       *)

\* The interval passes, and a probe starts.
IntervalElapses ==
  /\ task = "waiting"
  /\ ~stop_event
  /\ task' = "checking"
  /\ UNCHANGED <<control, consecutive_failures, outcomes>>

\* The stop event, or the loop's condition once it was set during a check.
LoopEnds ==
  /\ task = "waiting"
  /\ stop_event
  /\ task' = "none"
  /\ UNCHANGED <<control, consecutive_failures, outcomes>>

Record(outcome) ==
  outcomes' = Append(IF Len(outcomes) = MaxFailures THEN Tail(outcomes) ELSE outcomes, outcome)

\* Mutant of CheckPasses: the counter is kept.
CheckPassesUnnoted ==
  /\ task = "checking"
  /\ Record("passed")
  /\ task' = "waiting"
  /\ UNCHANGED <<control, consecutive_failures>>

\* Every manager answered, or has no session.
CheckPasses ==
  /\ task = "checking"
  /\ consecutive_failures' = 0
  /\ Record("passed")
  /\ task' = "waiting"
  /\ UNCHANGED control

Counted(n) == IF n > MaxFailures THEN n ELSE n + 1

\* The probe fails, or nobody answers before watchdog_timeout.
CheckFails ==
  /\ task = "checking"
  /\ consecutive_failures' = Counted(consecutive_failures)
  /\ Record("failed")
  /\ task' = IF consecutive_failures' >= MaxFailures THEN "forcing" ELSE "waiting"
  /\ UNCHANGED control

\* The check itself raises: the loop pauses and goes on.
CheckRaises ==
  /\ task = "checking"
  /\ task' = "waiting"
  /\ UNCHANGED <<control, consecutive_failures, outcomes>>

\* _force_reconnect(): the counter starts again, unless force_disconnect raises.
ForceReconnect ==
  /\ task = "forcing"
  /\ task' = "waiting"
  /\ consecutive_failures' = 0
  /\ outcomes' = <<>>
  /\ UNCHANGED control

ForceRaises ==
  /\ task = "forcing"
  /\ task' = "waiting"
  /\ UNCHANGED <<control, consecutive_failures, outcomes>>

Next ==
  \/ Start \/ Stop \/ StopReturns
  \/ IntervalElapses \/ LoopEnds
  \/ CheckPasses \/ CheckFails \/ CheckRaises
  \/ ForceReconnect \/ ForceRaises

Spec == Init /\ [][Next]_vars

-----------------------------------------------------------------------------
TypeOK ==
  /\ is_running \in BOOLEAN
  /\ stop_event \in BOOLEAN
  /\ task \in {"none", "waiting", "checking", "forcing"}
  /\ caller \in {"idle", "stopping"}
  /\ consecutive_failures \in 0..(MaxFailures + 1)
  /\ outcomes \in Seq({"passed", "failed"})
  /\ Len(outcomes) <= MaxFailures

\* A connection is torn down only after MaxFailures failed checks in a row since
\* the watchdog was started or last tore one down: one answer saves it.
TeardownIsEarned ==
  task = "forcing" =>
    /\ Len(outcomes) = MaxFailures
    /\ \A i \in DOMAIN outcomes : outcomes[i] = "failed"

\* Once stop() has returned there is no loop left that could probe or tear down,
\* and while the watchdog runs there is one: start() never finds an old loop.
OneLoopPerStart ==
  /\ caller = "idle" /\ ~is_running => task = "none"
  /\ is_running => task # "none"
=============================================================================
