------------------------------- MODULE MCRun -------------------------------
(***************************************************************************)
(* What a run does and leaves: a job and the engine's resources, the body  *)
(* of a job, and the evidence of runs that share a store.  One behaviour   *)
(* works on one of them; the others stay as they are at the start.         *)
(*                                                                         *)
(* The body has a JavaScript action with pre and post; a composite of a    *)
(* run step, an action whose post runs on failure() and an inner, rescued  *)
(* composite with an action; a checkout; a timed, rescued run step; a run  *)
(* step on failure().                                                      *)
(***************************************************************************)
EXTENDS JobLifecycle, RunStore

VARIABLES
  part,
  phase, stack, cur, stepTodo, chain, saved, got, exported, log, reports, open, alive

DeepSteps == {"setup", "comp", "sh", "act", "inner", "leaf", "checkout", "timed", "report"}
DeepChildren == [s \in DeepSteps \cup {"job"} |->
  CASE s = "job"   -> <<"setup", "comp", "checkout", "timed", "report">>
    [] s = "comp"  -> <<"sh", "act", "inner">>
    [] s = "inner" -> <<"leaf">>
    [] OTHER -> <<>>]
DeepKind == [s \in DeepSteps |->
  CASE s \in {"setup", "act", "leaf"} -> "node"
    [] s \in {"comp", "inner"} -> "composite"
    [] s = "checkout" -> "checkout"
    [] OTHER -> "run"]
DeepIf == [s \in DeepSteps |-> IF s = "report" THEN "failure" ELSE
                               IF s = "leaf" THEN "always" ELSE "implicit"]
DeepRescue == [s \in DeepSteps |-> s \in {"inner", "timed"}]
DeepPre == [s \in DeepSteps |-> IF s = "setup" THEN "always" ELSE "none"]
DeepPost == [s \in DeepSteps |->
  CASE s \in {"setup", "leaf"} -> "always" [] s = "act" -> "failure" [] OTHER -> "none"]

Body == INSTANCE StepLoop WITH Root <- "job", Timed <- {"timed"}, Steps <- DeepSteps,
  Children <- DeepChildren, Kind <- DeepKind, If <- DeepIf, Rescue <- DeepRescue, Pre <- DeepPre, Post <- DeepPost, todo <- stepTodo

ASSUME PartAssumptions == Body!StepAssumption /\ BoundIsNatural

bodyVars == <<
  phase, stack, cur, stepTodo, chain, saved, got, exported, log, reports, open, alive>>

RunInit ==
  /\ part \in {"job", "body", "runs"}
  /\ Init /\ Body!Init /\ StoreInit
  /\ part # "job" => opts = [o \in DOMAIN opts |-> FALSE]
RunNext ==
  /\ UNCHANGED part
  /\ \/ part = "job" /\ Next /\ UNCHANGED <<bodyVars, storeVars>>
     \/ part = "body" /\ Body!Next /\ UNCHANGED <<vars, storeVars>>
     \/ part = "runs" /\ StoreNext /\ UNCHANGED <<vars, bodyVars>>
     \/ part = "runs" /\ UNCHANGED <<vars, bodyVars, storeVars>>   \* no process is at work

\* The fairness of each part, as its module explains it.
RunFairness ==
  /\ WF_vars(part = "job" /\ JobStep)
  /\ \A r \in Runs :
       /\ WF_storeVars(part = "runs" /\ RunStep(r))
       /\ WF_storeVars(part = "runs" /\ pc[r] = "dead" /\ (Expire(r) \/ Age(r)))
  /\ WF_storeVars(part = "runs" /\ DaemonStep)
  /\ WF_storeVars(part = "runs" /\ (GcList \/ GcUnlink \/ GcForget))
RunSpec == RunInit /\ [][RunNext]_<<part, vars, bodyVars, storeVars>> /\ RunFairness

\* The properties of the parts; each is explained in its module, those of the
\* job and of the runs are used as they stand there.
\* Posts run newest first, one for each main phase that registered one.
PostsMirrorMains == Body!PostsMirrorMains
\* A failure nobody rescued is the failure of all that contains it.
FailureSurfaces == Body!FailureIsFinal /\ Body!NestedFailureSurfaces
\* What ran is reported, and later steps see its exports; no process stays.
ReportsAreComplete == Body!ReportsAreComplete /\ Body!ExportsAreJobWide /\ Body!OneProcess
\* A job whose process lives returns (job/mod.rs).
JobReturns == part = "job" => Returns
=============================================================================
