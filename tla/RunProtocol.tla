---------------------------- MODULE RunProtocol ----------------------------
(***************************************************************************)
(* The vocabulary shared by the execution modules: task and run statuses,  *)
(* the events an executor streams for a run, and what one event does to    *)
(* the status of the task and of the run it belongs to.                    *)
(***************************************************************************)

\* A task that has not been created yet has the status "absent".
TaskStatus == {"created", "queued", "waiting_executor", "running",
               "waiting_user_input", "paused", "completed", "failed", "cancelled"}

\* A run slot no run has been created in has the status "none".
RunStatus == {"assigned", "waiting_executor", "running", "blocked",
              "paused", "completed", "failed", "cancelled"}

EventType == {"progress", "plan", "waiting_executor", "blocked",
              "completed", "failed", "cancelled"}

\* The events after which HostedExecutor.run_task stops reading the run's queue.
TerminalEvents == {"waiting_executor", "blocked", "completed", "failed", "cancelled"}

\* The statuses the scheduler picks up.
Runnable == {"created", "queued"}

\* The statuses that keep a task's bro occupied, for _release_persona.
ActiveTask == {"created", "queued", "running", "waiting_executor",
               "waiting_user_input", "paused"}

\* Fault: a run that waits for the user frees the bro too.
EndedRun == {"completed", "failed", "cancelled", "blocked"}

\* The run statuses after which the reconcile loop frees the bro.
FinishedRun == {"completed", "failed", "cancelled"}

\* The run statuses a task command may act on.
CommandableRun == {"assigned", "running", "blocked", "paused"}

\* Fault: losing the executor parks the run and leaves the task running.
ParkRunOnly(e) ==
    [task |-> CASE e \in {"progress", "plan", "waiting_executor"} -> "running"
                [] e = "blocked" -> "waiting_user_input"
                [] OTHER -> e,
     run  |-> IF e \in {"progress", "plan"} THEN "running" ELSE e]

\* The statuses one event gives to the task and to the run.
StatusAfter(e) ==
    CASE e \in {"progress", "plan"} -> [task |-> "running", run |-> "running"]
      [] e = "waiting_executor"     -> [task |-> "waiting_executor", run |-> "waiting_executor"]
      [] e = "blocked"              -> [task |-> "waiting_user_input", run |-> "blocked"]
      [] e = "completed"            -> [task |-> "completed", run |-> "completed"]
      [] e = "failed"               -> [task |-> "failed", run |-> "failed"]
      [] e = "cancelled"            -> [task |-> "cancelled", run |-> "cancelled"]

\* Fault: a cancelled task takes late events.
ApplyEventUnguarded(st, e) == StatusAfter(e)

(***************************************************************************)
(* RunManager.apply_event: st is a record of a task status and a run       *)
(* status.  A cancelled task ignores everything but a cancellation.        *)
(***************************************************************************)
ApplyEvent(st, e) ==
    IF st.task = "cancelled" /\ e # "cancelled" THEN st ELSE StatusAfter(e)
=============================================================================
