------------------------------- MODULE DagRun -------------------------------
(***************************************************************************)
(* What `run` promises about a plan's dependency graph, without waves,     *)
(* legs or limits: a job group starts only after every group it needs has  *)
(* finished with a report, each group ends once, and a group that failed   *)
(* to execute never lets a dependent start.                                *)
(***************************************************************************)
CONSTANTS Groups, Needs

VARIABLE status   \* group: "idle", "running", "done", "failed"

Init == status = [g \in Groups |-> "idle"]

Enabled(g) == status[g] = "idle" /\ \A n \in Needs[g] : status[n] = "done"

Start(g) == Enabled(g) /\ status' = [status EXCEPT ![g] = "running"]

Refuse(g) == Enabled(g) /\ status' = [status EXCEPT ![g] = "failed"]

Finish(g) ==
  /\ status[g] = "running"
  /\ \E s \in {"done", "failed"} : status' = [status EXCEPT ![g] = s]

Next == \E g \in Groups : Start(g) \/ Refuse(g) \/ Finish(g)

Spec == Init /\ [][Next]_status
=============================================================================
