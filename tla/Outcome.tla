------------------------------ MODULE Outcome ------------------------------
(***************************************************************************)
(* The result algebra of greenlit-engine (execution/outcome.rs), the       *)
(* status functions of greenlit-expr and the matrix roll-up of the         *)
(* executor: pure operators that the scheduler and the step loop share.    *)
(***************************************************************************)

(* Conclusion: the terminal states of a step or a job.                     *)
Conclusions == {"success", "failure", "cancelled", "skipped"}

(* RunStatus: what success(), failure() and cancelled() are evaluated on.  *)
RunStatuses == {"success", "failure", "cancelled", "blocked"}

(* StepExit: how a step's body ended once it ran.                          *)
StepExits == {"success", "failed", "timed_out", "cancelled"}

(* The conditions an `if:` is abstracted to: "implicit" has no status      *)
(* function and evaluates to true, "false" has none and evaluates to       *)
(* false; the others are the bare status functions.                        *)
Conditions == {"implicit", "false", "success", "always", "failure", "cancelled"}

(* Whether the engine wraps the condition in the implicit success() gate.  *)
ImplicitGate(cond) == cond \in {"implicit", "false"}

(* The value of the authored condition under a run status.                 *)
ConditionTrue(cond, status) ==
  \/ cond \in {"implicit", "always"}
  \/ cond \in {"success", "failure", "cancelled"} /\ status = cond

step_activates(status, implicit_status_gate, condition_true) ==
  /\ implicit_status_gate => status = "success"
  /\ condition_true

(* continue-on-error rescues a failure's conclusion, never a cancellation. *)
step_result_from_exit(exit, continue_on_error) ==
  LET outcome == CASE exit = "success" -> "success"
                   [] exit \in {"failed", "timed_out"} -> "failure"
                   [] exit = "cancelled" -> "cancelled"
  IN  [outcome |-> outcome,
       conclusion |-> IF continue_on_error /\ outcome = "failure"
                        THEN "success" ELSE outcome]

step_result_skipped == [outcome |-> "skipped", conclusion |-> "skipped"]

(* The rolling job status only ever becomes more severe.                   *)
advance_status(current, conclusion) ==
  CASE conclusion = "cancelled" -> "cancelled"
    [] conclusion = "failure"   -> IF current = "cancelled" THEN current ELSE "failure"
    [] conclusion \in {"success", "skipped"} -> current

job_result_from_status(status) == IF status = "blocked" THEN "skipped" ELSE status

(* NeedRecord: what a dependent sees of a finished job.                    *)
NeedRecords == [result : Conclusions, chain_failed : BOOLEAN, chain_cancelled : BOOLEAN]

(* The status a job-level `if:` sees, from its direct needs' records.      *)
needs_status(needs) ==
  CASE \E n \in needs : n.chain_cancelled -> "cancelled"
    [] ~(\E n \in needs : n.chain_cancelled)
       /\ \E n \in needs : n.chain_failed -> "failure"
    [] OTHER -> IF \A n \in needs : n.result = "success"
                  THEN "success" ELSE "blocked"

job_activates(cond, needs) ==
  /\ ImplicitGate(cond) => \A n \in needs : n.result = "success"
  /\ ConditionTrue(cond, needs_status(needs))

(* A matrix job reports its worst leg; a job without legs is skipped.      *)
aggregate(results) ==
  CASE "failure" \in results -> "failure"
    [] "cancelled" \in results /\ "failure" \notin results -> "cancelled"
    [] results \subseteq {"skipped"} -> "skipped"
    [] OTHER -> "success"
=============================================================================
