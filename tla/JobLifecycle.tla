---------------------------- MODULE JobLifecycle ----------------------------
(***************************************************************************)
(* One job instance (greenlit-runtime, executor/job/mod.rs `run_instance`) *)
(* and the engine resources it acquires and releases: its network and      *)
(* cache shim, service containers, job container, Docker-sibling volumes,  *)
(* network-guard sidecars and Docker-in-Docker sidecar.  A Rust future     *)
(* that loses a select! is dropped where it stands, so what it had created *)
(* and not yet stored is out of reach of the clean-up that follows.        *)
(*                                                                         *)
(* The process may be killed at any point; the daemon's start-up           *)
(* reconciliation (docker.rs) then removes what it recognises as the run's.*)
(* Engine calls that acquire may fail; removals succeed unless the engine  *)
(* refuses them (a network in use, a volume in use).                       *)
(***************************************************************************)
EXTENDS Naturals, Sequences

CONSTANT ServiceCount    \* services of the job, started in file order

ASSUME ServiceAssumption == ServiceCount \in Nat

VARIABLES
  opts,      \* what the run and the job ask for, fixed at the start
  at,        \* where run_instance is
  idx,       \* the service being started
  cancel,    \* the job's cancellation token
  live,      \* engine resources that exist
  guarded,   \* containers whose network policy is in place
  healthy,   \* services that passed their health gate
  ran,       \* workflow code has run in the job container
  todo,      \* removals the current exit path still performs
  result,    \* the report's conclusion, "error", or "none"
  events,    \* lifecycle events emitted
  rec        \* start-up reconciliation of the ended run

vars == <<opts, at, idx, cancel, live, guarded, healthy, ran, todo, result, events, rec>>

-----------------------------------------------------------------------------
(* Resources are pairs of a kind and a service number (0: the job's own).  *)
Network == <<"network", 0>>
Shim    == <<"shim", 0>>
Job     == <<"container", 0>>
Volumes == <<"volumes", 0>>
Dind    == <<"dind", 0>>
Guard(i)   == <<"netguard", i>>
Service(i) == <<"container", i>>

ServiceIds == 1..ServiceCount
Attached == {Job, Dind} \cup {Service(i) : i \in ServiceIds}
Resources == Attached \cup {Network, Shim, Volumes} \cup {Guard(i) : i \in 0..ServiceCount}

(* What the engine keeps when it is asked to remove r from S.              *)
RemoveFrom(S, r) ==
  IF \/ r = Network /\ S \cap Attached # {}
     \/ r = Volumes /\ Job \in S
    THEN S ELSE S \ {r}

StopServices == [i \in 1..idx |-> Service(i)]   \* services::stop
DropNetwork  == <<Shim, Network>>               \* JobNetwork::teardown

Stages == {"start", "inspect", "activate", "env", "actions", "node", "resolve",
           "svcimage", "svccreate", "svcstart", "svcguard", "svcguarding", "svchealth",
           "image", "boot", "bootstart", "guardimage", "guard", "guarding",
           "dind", "dindstart", "wrapper", "ready", "body",
           "unwind", "teardown", "returned", "crashed"}

Options == [docker : BOOLEAN, node : BOOLEAN, sibling : BOOLEAN,
            writeBack : BOOLEAN, locked : BOOLEAN, store : BOOLEAN]

TypeOK ==
  /\ opts \in Options
  /\ at \in Stages
  /\ idx \in 0..ServiceCount
  /\ cancel \in BOOLEAN
  /\ live \subseteq Resources
  /\ guarded \subseteq 0..ServiceCount
  /\ healthy \subseteq ServiceIds
  /\ ran \in BOOLEAN
  /\ todo \in Seq(Resources)
  /\ result \in {"none", "success", "failure", "cancelled", "skipped", "error"}
  /\ events \in Seq({"skipped", "started", "finished"})
  /\ rec \in {"none", "containers", "networks", "done", "failed"}

Init ==
  /\ opts \in Options
  /\ at = "start" /\ idx = 0 /\ cancel = FALSE
  /\ live = {} /\ guarded = {} /\ healthy = {} /\ ran = FALSE
  /\ todo = <<>> /\ result = "none" /\ events = <<>> /\ rec = "none"

-----------------------------------------------------------------------------
(* Ways to move on and ways out                                            *)

Running == at \notin {"returned", "crashed"}

Go(from, to) == at = from /\ at' = to

(* Nothing but the control point and the resources changes.                *)
Rest == UNCHANGED <<opts, idx, cancel, guarded, healthy, ran, todo, result, events, rec>>
Keep == UNCHANGED live /\ Rest

(* An early `return` or `?`: nothing is released but the shim, which stops *)
(* when its handle is dropped.                                             *)
Return(from, r) ==
  /\ Go(from, "returned") /\ result' = r
  /\ live' = live \ {Shim}
  /\ UNCHANGED <<opts, idx, cancel, guarded, healthy, ran, todo, rec>>

(* A handled failure or cancellation: release `order`, then return r.      *)
Unwind(from, order, r) ==
  /\ Go(from, "unwind") /\ todo' = order /\ result' = r
  /\ UNCHANGED <<opts, idx, cancel, live, guarded, healthy, ran, events, rec>>

(* A call that may fail or, inside a select!, lose to the cancellation.    *)
FailOrCancel(from, order) ==
  \/ Unwind(from, order, "error")
  \/ cancel /\ Unwind(from, order, "cancelled")

-----------------------------------------------------------------------------
(* run_instance up to the services                                         *)

StartCancelled ==
  /\ cancel /\ Return("start", "cancelled")
  /\ events' = Append(events, "finished")

CreateNetwork ==
  \/ ~cancel /\ Return("start", "error") /\ UNCHANGED events
  \/ ~cancel /\ Go("start", "inspect") /\ live' = live \cup {Network} /\ Rest

(* inspect_network, then the shim if its address can be bound.             *)
InspectNetwork ==
  \/ Return("inspect", "error") /\ UNCHANGED events
  \/ /\ Go("inspect", "activate")
     /\ live' \in {live} \cup IF opts.store THEN {live \cup {Shim}} ELSE {}
     /\ Rest

(* The display name and the job's `if:` are evaluated.                     *)
Activate ==
  \/ Return("activate", "error") /\ UNCHANGED events
  \/ Return("activate", "skipped") /\ events' = Append(events, "skipped")
  \/ /\ Go("activate", "env") /\ events' = Append(events, "started")
     /\ UNCHANGED <<opts, idx, cancel, live, guarded, healthy, ran, todo, result, rec>>

ResolveEnv ==
  \/ Return("env", "error") /\ UNCHANGED events
  \/ Go("env", "actions") /\ Keep

ResolveActions ==
  \/ FailOrCancel("actions", DropNetwork)
  \/ Go("actions", IF opts.node THEN "node" ELSE "resolve") /\ Keep

EnsureNode ==
  \/ FailOrCancel("node", DropNetwork)
  \/ Go("node", "resolve") /\ Keep

(* resolve_services, then services::start with its first service.          *)
NextService == IF idx < ServiceCount THEN "svcimage" ELSE "image"

ResolveServices ==
  \/ Unwind("resolve", DropNetwork, "error")
  \/ Go("resolve", NextService) /\ Keep

-----------------------------------------------------------------------------
(* services::start, one service after the other                            *)

SvcExit == StopServices \o DropNetwork

ServiceImage ==
  \/ FailOrCancel("svcimage", SvcExit)
  \/ Go("svcimage", "svccreate") /\ Keep

CreateService ==
  \/ Unwind("svccreate", SvcExit, "error")
  \/ /\ Go("svccreate", "svcstart")
     /\ idx' = idx + 1 /\ live' = live \cup {Service(idx + 1)}
     /\ UNCHANGED <<opts, cancel, guarded, healthy, ran, todo, result, events, rec>>

StartService ==
  \/ FailOrCancel("svcstart", SvcExit)
  \/ Go("svcstart", "svcguard") /\ Keep

(* netguard::apply: the guard image, the sidecar's creation, then its run  *)
(* and removal.  Cancelled while the sidecar runs, the dropped future      *)
(* leaves it behind.                                                       *)
GuardService ==
  \/ FailOrCancel("svcguard", SvcExit)
  \/ Go("svcguard", "svcguarding") /\ live' = live \cup {Guard(idx)} /\ Rest

FinishServiceGuard ==
  \/ cancel /\ Unwind("svcguarding", SvcExit, "cancelled")
  \/ /\ Go("svcguarding", "unwind") /\ live' = live \ {Guard(idx)}
     /\ todo' = SvcExit /\ result' = "error"
     /\ UNCHANGED <<opts, idx, cancel, guarded, healthy, ran, events, rec>>
  \/ /\ Go("svcguarding", "svchealth") /\ live' = live \ {Guard(idx)}
     /\ guarded' = guarded \cup {idx}
     /\ UNCHANGED <<opts, idx, cancel, healthy, ran, todo, result, events, rec>>

(* wait_healthy ends by health, by the probe or exit failing, by its       *)
(* deadline, or by cancellation.                                           *)
ServiceHealth ==
  \/ FailOrCancel("svchealth", SvcExit)
  \/ /\ Go("svchealth", NextService) /\ healthy' = healthy \cup {idx}
     /\ UNCHANGED <<opts, idx, cancel, live, guarded, ran, todo, result, events, rec>>

-----------------------------------------------------------------------------
(* The job container, its guard and the Docker-in-Docker sidecar           *)

JobExit == <<Job>> \o SvcExit

ResolveImage ==
  \/ FailOrCancel("image", SvcExit)
  \/ Go("image", "boot") /\ Keep

BootContainer ==
  \/ Unwind("boot", SvcExit, "error")
  \/ /\ Go("boot", "bootstart") /\ Rest
     /\ live' = live \cup {Job} \cup IF opts.sibling THEN {Volumes} ELSE {}

StartContainer ==
  \/ FailOrCancel("bootstart", JobExit)
  \/ Go("bootstart", "guardimage") /\ Keep

(* locked_image and image_exists fail through `?`; a guard image that is   *)
(* gone is handled.                                                        *)
CheckGuardImage ==
  \/ Return("guardimage", "error") /\ UNCHANGED events
  \/ opts.locked /\ Unwind("guardimage", JobExit, "error")
  \/ Go("guardimage", "guard") /\ Keep

GuardJob ==
  \/ Unwind("guard", JobExit, IF cancel THEN "cancelled" ELSE "error")
  \/ Go("guard", "guarding") /\ live' = live \cup {Guard(0)} /\ Rest

(* The policy is in place, or refused; a cancellation seen afterwards wins.*)
MutIgnoresGuardFailure ==
  /\ Go("guarding", IF opts.docker THEN "dind" ELSE "ready")
  /\ live' = live \ {Guard(0)}
  /\ Rest

FinishGuardJob ==
  \/ /\ cancel /\ Go("guarding", "unwind") /\ live' \in {live, live \ {Guard(0)}}
     /\ todo' = JobExit /\ result' = "cancelled"
     /\ UNCHANGED <<opts, idx, cancel, guarded, healthy, ran, events, rec>>
  \/ /\ ~cancel /\ Go("guarding", "unwind") /\ live' = live \ {Guard(0)}
     /\ todo' = JobExit /\ result' = "error"
     /\ UNCHANGED <<opts, idx, cancel, guarded, healthy, ran, events, rec>>
  \/ /\ ~cancel /\ Go("guarding", IF opts.docker THEN "dind" ELSE "ready")
     /\ live' = live \ {Guard(0)} /\ guarded' = guarded \cup {0}
     /\ UNCHANGED <<opts, idx, cancel, healthy, ran, todo, result, events, rec>>

CreateDind ==
  \/ FailOrCancel("dind", JobExit)
  \/ Go("dind", "dindstart") /\ live' = live \cup {Dind} /\ Rest

(* start_container and wait_ready: an error or a lost select! loses the    *)
(* only handle on the sidecar.                                             *)
StartDind ==
  \/ FailOrCancel("dindstart", JobExit)
  \/ Go("dindstart", "wrapper") /\ Keep

InstallWrapper ==
  \/ Unwind("wrapper", JobExit, "error")
  \/ Go("wrapper", "ready") /\ Keep

-----------------------------------------------------------------------------
(* job_work and the teardown                                               *)

(* teardown::teardown: container, volumes, sidecar, services, network; the *)
(* container (and its volumes) stay for --write-back.                      *)
MutNetworkFirst(keep) ==
  DropNetwork
  \o (IF keep THEN <<>> ELSE <<Job>> \o IF opts.sibling THEN <<Volumes>> ELSE <<>>)
  \o (IF opts.docker THEN <<Dind>> ELSE <<>>)
  \o StopServices

TeardownOrder(keep) ==
  (IF keep THEN <<>> ELSE <<Job>> \o IF opts.sibling THEN <<Volumes>> ELSE <<>>)
  \o (IF opts.docker THEN <<Dind>> ELSE <<>>)
  \o StopServices \o DropNetwork

Teardown(from, r) ==
  /\ Go(from, "teardown") /\ result' = r
  /\ todo' = TeardownOrder(opts.writeBack /\ r # "cancelled")
  /\ UNCHANGED <<opts, idx, cancel, live, guarded, healthy, ran, events, rec>>

(* Readiness, the container's PATH and the event file, before any step.    *)
WaitReady ==
  \/ Teardown("ready", "error")
  \/ cancel /\ Teardown("ready", "cancelled")
  \/ /\ Go("ready", "body") /\ ran' = TRUE
     /\ UNCHANGED <<opts, idx, cancel, live, guarded, healthy, todo, result, events, rec>>

(* run_job_body (StepLoop models the inside).                              *)
JobBody ==
  \/ \E r \in {"success", "failure", "error"} : Teardown("body", r)
  \/ cancel /\ Teardown("body", "cancelled")

(* The next removal of an exit path.                                       *)
MutRetriesRefusedRemoval ==
  /\ at \in {"unwind", "teardown"} /\ todo # <<>>
  /\ live' = RemoveFrom(live, Head(todo))
  /\ todo' = IF Head(todo) \in live' THEN todo ELSE Tail(todo)
  /\ UNCHANGED <<opts, at, idx, cancel, guarded, healthy, ran, result, events, rec>>

Release ==
  /\ at \in {"unwind", "teardown"} /\ todo # <<>>
  /\ live' = RemoveFrom(live, Head(todo)) /\ todo' = Tail(todo)
  /\ UNCHANGED <<opts, at, idx, cancel, guarded, healthy, ran, result, events, rec>>

(* All removals done: JobFinished only on the teardown path, after `?`.    *)
MutFinishedDespiteError ==
  /\ at \in {"unwind", "teardown"} /\ todo = <<>>
  /\ at' = "returned"
  /\ events' = IF at = "teardown" THEN Append(events, "finished") ELSE events
  /\ UNCHANGED <<opts, idx, cancel, live, guarded, healthy, ran, todo, result, rec>>

Finish ==
  /\ at \in {"unwind", "teardown"} /\ todo = <<>>
  /\ at' = "returned"
  /\ events' = IF at = "teardown" /\ result # "error"
                 THEN Append(events, "finished") ELSE events
  /\ UNCHANGED <<opts, idx, cancel, live, guarded, healthy, ran, todo, result, rec>>

(* litci run removes the container a --write-back report names.            *)
CallerCleanup ==
  /\ at = "returned" /\ rec = "none" /\ Job \in live
  /\ opts.writeBack /\ ran /\ result # "error"
  /\ live' = RemoveFrom(live, Job)
  /\ UNCHANGED <<opts, at, idx, cancel, guarded, healthy, ran, todo, result, events, rec>>

-----------------------------------------------------------------------------
(* Cancellation, death of the process, and start-up reconciliation         *)

Cancel ==
  /\ Running /\ ~cancel /\ cancel' = TRUE
  /\ UNCHANGED <<opts, at, idx, live, guarded, healthy, ran, todo, result, events, rec>>

Crash ==
  /\ Running /\ at' = "crashed" /\ live' = live \ {Shim}
  /\ UNCHANGED <<opts, idx, cancel, guarded, healthy, ran, todo, result, events, rec>>

(* Containers whose greenlit.run label is the run's id; the job's guard    *)
(* and the DinD sidecar are labelled with the job's namespace instead.     *)
Labelled == {Job} \cup UNION {{Service(i), Guard(i)} : i \in ServiceIds}

MutReconcileNetworksFirst ==
  /\ ~Running /\ rec = "none"
  /\ live' = RemoveFrom(live, Network)
  /\ rec' = IF Network \in live /\ live \cap Attached # {} THEN "failed" ELSE "containers"
  /\ UNCHANGED <<opts, at, idx, cancel, guarded, healthy, ran, todo, result, events>>

(* The run is terminal and holds no lease: its process has ended.          *)
ReconcileContainers ==
  /\ ~Running /\ rec = "none"
  /\ live' = live \ Labelled /\ rec' = "containers"
  /\ UNCHANGED <<opts, at, idx, cancel, guarded, healthy, ran, todo, result, events>>

(* A refused removal ends the whole reconciliation with an error.          *)
ReconcileNetworks ==
  /\ rec = "containers"
  /\ live' = RemoveFrom(live, Network)
  /\ rec' = IF Network \in live' THEN "failed" ELSE "networks"
  /\ UNCHANGED <<opts, at, idx, cancel, guarded, healthy, ran, todo, result, events>>

ReconcileVolumes ==
  /\ rec = "networks"
  /\ live' = RemoveFrom(live, Volumes) /\ rec' = "done"
  /\ UNCHANGED <<opts, at, idx, cancel, guarded, healthy, ran, todo, result, events>>

(* The daemon's next start tries again.                                    *)
ReconcileAgain ==
  /\ rec = "failed" /\ rec' = "none"
  /\ UNCHANGED <<opts, at, idx, cancel, live, guarded, healthy, ran, todo, result, events>>

-----------------------------------------------------------------------------
JobStep ==
  \/ StartCancelled \/ CreateNetwork \/ InspectNetwork \/ Activate \/ ResolveEnv
  \/ ResolveActions \/ EnsureNode \/ ResolveServices
  \/ ServiceImage \/ CreateService \/ StartService \/ GuardService
  \/ FinishServiceGuard \/ ServiceHealth
  \/ ResolveImage \/ BootContainer \/ StartContainer \/ CheckGuardImage
  \/ GuardJob \/ FinishGuardJob \/ CreateDind \/ StartDind \/ InstallWrapper
  \/ WaitReady \/ JobBody \/ Release \/ Finish

Reconcile ==
  ReconcileContainers \/ ReconcileNetworks \/ ReconcileVolumes \/ ReconcileAgain

Idle == rec = "done" /\ UNCHANGED vars

Next == JobStep \/ CallerCleanup \/ Cancel \/ Crash \/ Reconcile \/ Idle

Spec == Init /\ [][Next]_vars

(* Every engine call returns or times out, so the job's future goes on.    *)
FairSpec == Spec /\ WF_vars(JobStep)

-----------------------------------------------------------------------------
(* Properties                                                              *)

\* Workflow steps run only in a container whose network policy is in place,
\* with every service contained and past its health gate (job/mod.rs 427-466,
\* services.rs 372-416), whatever failed or was cancelled on the way.
StepsAreContained ==
  ran => 0 \in guarded /\ ServiceIds \subseteq guarded /\ ServiceIds \subseteq healthy

\* A job whose steps began leaves nothing behind when it returns, on success,
\* failure, error and cancellation alike (teardown.rs); --write-back keeps its
\* container, and with it the volumes and the network the engine then refuses
\* to remove, and nothing else (job/mod.rs 585-600).
WorkLeavesNothing ==
  at = "returned" /\ ran =>
    live \subseteq IF opts.writeBack /\ result # "cancelled" THEN {Job, Volumes, Network} ELSE {}

\* The lifecycle events of a returned job agree with its report.
EventsMatchReport ==
  at = "returned" =>
    /\ result \in {"success", "failure"} => events = <<"started", "finished">>
    /\ result = "skipped" <=> events = <<"skipped">>
    /\ result = "error" => events \in {<<>>, <<"started">>}

\* A returned job has released what it acquired and its events tell what its
\* report tells.
JobEndsCleanly == WorkLeavesNothing /\ EventsMatchReport

\* Start-up reconciliation after a crash at any point: it only stops short
\* because of a Docker-in-Docker sidecar, and otherwise leaves no network,
\* volume or labelled container of the run.
ReconcileReclaims ==
  /\ rec = "failed" => Dind \in live
  /\ rec = "done" => live \subseteq {Guard(0), Dind}

\* A job whose process lives returns, and its unwinding ends.
Returns == <>(at \in {"returned", "crashed"})

\* "A job was skipped before creating resources" (events.rs 52).
SkippedBeforeResources == result = "skipped" => live = {}

\* "Cancellation ... tears down active job containers, services, sidecars,
\* volumes, and networks before returning a cancelled report" (executor/mod.rs
\* 431-433).
CancelTearsDown == at = "returned" /\ result = "cancelled" => live = {}

\* A readiness error "still flows through the teardown below rather than
\* returning early and leaking the container" (job/mod.rs 525-527).
WorkErrorReleasesContainer ==
  at = "returned" /\ result = "error" /\ ran => Job \notin live

\* "Every engine resource carries an exact run identity" (PHASE-8-SUMMARY 21):
\* what a crash leaves behind is all reconciled.
ReconcileReclaimsAll == rec \in {"done", "failed"} => live = {}
=============================================================================
