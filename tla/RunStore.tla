------------------------------ MODULE RunStore ------------------------------
(***************************************************************************)
(* The durable side of runs (greenlit-app run_evidence.rs, doctor_cmd.rs,  *)
(* daemon.rs, clean_cmd.rs over the catalog of greenlit-store): runs that  *)
(* ingest their source into the content store, lock, pin and lease it, run *)
(* their jobs and write a result; `litci clean`, which collects what       *)
(* nobody references; and the daemon, which at its start marks the runs    *)
(* that died as aborted and removes their containers.                      *)
(*                                                                         *)
(* They are separate processes that share the run directories, the object  *)
(* files and the catalog, and each can be killed between any two steps.    *)
(* All runs freeze the same source, so there is one object.                *)
(***************************************************************************)
EXTENDS Naturals, FiniteSets

CONSTANTS
  Runs,
  MaxFaults   \* processes killed, heartbeats later than the lease lasts, and
              \* preparations that outlast PRELOCK_GRACE, together (bound)

BoundIsNatural == MaxFaults \in Nat

VARIABLES
  file, row,  \* the object's file, and its row in the objects table
  pins,       \* runs with a row in object_refs
  lease,      \* rows of leases, and whether they have expired
  state,      \* the runs table
  runResult,     \* result.json of the run directory
  aged,       \* runs whose directory was not written for PRELOCK_GRACE
  work,       \* runs with containers and networks in the engine
  pc,         \* where a run is
  gc,         \* where the collector is
  daemon,     \* where the daemon is in its start-up
  runTodo,       \* run directories the daemon has not looked at
  target,     \* the run the daemon is working on, or the runs it will reclaim
  kills, stalls, slow,
  exposed     \* history: a collection was removing the object while a run that
              \* found or published it had not pinned it

catalog == <<file, row, pins>>
bounds == <<kills, stalls, slow>>
storeVars == <<file, row, pins, lease, state, runResult, aged, work, pc, gc, daemon, runTodo, target,
          kills, stalls, slow, exposed>>

Ingested == {"rename", "record", "prepare", "pin"}
PreLock == Ingested \cup {"probe", "resolve", "lease"}
Locked == {"start", "jobs"}
Live(r) == pc[r] \notin {"idle", "done", "dead"}

StoreTypeOK ==
  /\ file \in BOOLEAN /\ row \in BOOLEAN /\ pins \subseteq Runs
  /\ lease \in [Runs -> {"none", "active", "expired"}]
  /\ state \in [Runs -> {"absent", "resolved", "completed", "aborted"}]
  /\ runResult \in [Runs -> {"none", "final", "aborted"}]
  /\ aged \subseteq Runs /\ work \subseteq Runs
  /\ pc \in [Runs -> PreLock \cup Locked \cup
                     {"idle", "result", "complete", "release", "done", "dead"}]
  /\ gc \in {"idle", "partials", "unlink", "forget"}
  /\ daemon \in {"off", "scan", "write", "record", "doctor", "list", "remove"}
  /\ runTodo \subseteq Runs /\ target \subseteq Runs
  /\ kills \in 0..MaxFaults /\ stalls \in 0..MaxFaults /\ slow \in 0..MaxFaults
  /\ exposed \in BOOLEAN

StoreInit ==
  /\ file = FALSE /\ row = FALSE /\ pins = {}
  /\ lease = [r \in Runs |-> "none"]
  /\ state = [r \in Runs |-> "absent"]
  /\ runResult = [r \in Runs |-> "none"]
  /\ aged = {} /\ work = {}
  /\ pc = [r \in Runs |-> "idle"]
  /\ gc = "idle" /\ daemon = "off" /\ runTodo = {} /\ target = {}
  /\ kills = 0 /\ stalls = 0 /\ slow = 0 /\ exposed = FALSE

Goto(r, label) == pc' = [pc EXCEPT ![r] = label]

MayFail == kills + stalls + slow < MaxFaults

-----------------------------------------------------------------------------
(* A run: RunEvidence::capture, ::lock and ::write_result.                 *)

Others == <<gc, daemon, runTodo, target, bounds, exposed>>

(* The run directory is created.                                           *)
Capture(r) ==
  /\ pc[r] = "idle"
  /\ Goto(r, "probe")
  /\ UNCHANGED <<catalog, lease, state, runResult, aged, work, Others>>

(* ingest_source: an object that is there is a hit, and nothing is written *)
(* to the catalog; else it is renamed into place and then recorded.        *)
Probe(r) ==
  /\ pc[r] = "probe"
  /\ Goto(r, IF file THEN "prepare" ELSE "rename")
  /\ exposed' = (exposed \/ gc \in {"unlink", "forget"})
  /\ UNCHANGED <<catalog, lease, state, runResult, aged, work, gc, daemon, runTodo, target, bounds>>

RenameObject(r) ==
  /\ pc[r] = "rename"
  /\ file' = TRUE
  /\ Goto(r, "record")
  /\ UNCHANGED <<row, pins, lease, state, runResult, aged, work, Others>>

RecordObject(r) ==
  /\ pc[r] = "record"
  /\ row' = TRUE
  /\ Goto(r, "prepare")
  /\ UNCHANGED <<file, pins, lease, state, runResult, aged, work, Others>>

(* The workflow is planned and its actions and images are resolved; then   *)
(* run-lock.json, the plan and the job locks are written.                  *)
WriteLock(r) ==
  /\ pc[r] = "prepare"
  /\ aged' = aged \ {r}
  /\ Goto(r, "pin")
  /\ UNCHANGED <<catalog, lease, state, runResult, work, Others>>

(* Preparation fails, and Drop writes the result.                          *)
PreparationFails(r) ==
  /\ pc[r] = "prepare"
  /\ Goto(r, "result")
  /\ UNCHANGED <<catalog, lease, state, runResult, aged, work, Others>>

PinObjects(r) ==
  /\ pc[r] = "pin"
  /\ pins' = pins \cup {r}
  /\ Goto(r, "resolve")
  /\ UNCHANGED <<file, row, lease, state, runResult, aged, work, Others>>

RecordResolved(r) ==
  /\ pc[r] = "resolve"
  /\ state' = [state EXCEPT ![r] = "resolved"]
  /\ Goto(r, "lease")
  /\ UNCHANGED <<catalog, lease, runResult, aged, work, Others>>

AcquireLease(r) ==
  /\ pc[r] = "lease"
  /\ lease' = [lease EXCEPT ![r] = "active"]
  /\ Goto(r, "start")
  /\ UNCHANGED <<catalog, state, runResult, aged, work, Others>>

StartJobs(r) ==
  /\ pc[r] = "start"
  /\ work' = work \cup {r}
  /\ Goto(r, "jobs")
  /\ UNCHANGED <<catalog, lease, state, runResult, aged, Others>>

(* The executor returns after it has torn its resources down.              *)
EndJobs(r) ==
  /\ pc[r] = "jobs"
  /\ work' = work \ {r}
  /\ Goto(r, "result")
  /\ UNCHANGED <<catalog, lease, state, runResult, aged, Others>>

WriteResult(r) ==
  /\ pc[r] = "result"
  /\ runResult' = [runResult EXCEPT ![r] = "final"]
  /\ aged' = aged \ {r}
  /\ Goto(r, "complete")
  /\ UNCHANGED <<catalog, lease, state, work, Others>>

MutCompletesAbsent(r) ==
  /\ pc[r] = "complete"
  /\ state' = [state EXCEPT ![r] = IF @ = "absent" THEN @ ELSE "completed"]
  /\ Goto(r, "release")
  /\ UNCHANGED <<catalog, lease, runResult, aged, work, Others>>

RecordCompleted(r) ==
  /\ pc[r] = "complete"
  /\ state' = [state EXCEPT ![r] = "completed"]
  /\ Goto(r, "release")
  /\ UNCHANGED <<catalog, lease, runResult, aged, work, Others>>

(* The guard stops the heartbeat and deletes the lease.                    *)
ReleaseLease(r) ==
  /\ pc[r] = "release"
  /\ lease' = [lease EXCEPT ![r] = "none"]
  /\ Goto(r, "done")
  /\ UNCHANGED <<catalog, state, runResult, aged, work, Others>>

(* The heartbeat thread extends the lease, if its row is still there.      *)
Heartbeat(r) ==
  /\ Live(r) /\ lease[r] = "expired"
  /\ lease' = [lease EXCEPT ![r] = "active"]
  /\ UNCHANGED <<catalog, state, runResult, aged, work, pc, Others>>

-----------------------------------------------------------------------------
(* Time and failures.                                                      *)

(* The lease of a dead run runs out; that of a live one only if its        *)
(* heartbeat is late by more than fifty seconds (a suspended machine).     *)
Expire(r) ==
  /\ lease[r] = "active"
  /\ IF pc[r] = "dead" THEN UNCHANGED stalls
     ELSE MayFail /\ stalls' = stalls + 1
  /\ lease' = [lease EXCEPT ![r] = "expired"]
  /\ UNCHANGED <<catalog, state, runResult, aged, work, pc, gc, daemon, runTodo, target, kills,
                 slow, exposed>>

(* PRELOCK_GRACE passes without an entry made in the run directory.  It is *)
(* only looked at where there is neither a result nor an active lease.     *)
Age(r) ==
  /\ pc[r] # "idle" /\ r \notin aged /\ lease[r] # "active" /\ runResult[r] = "none"
  /\ IF Live(r) /\ lease[r] = "none" THEN MayFail /\ slow' = slow + 1 ELSE UNCHANGED slow
  /\ aged' = aged \cup {r}
  /\ UNCHANGED <<catalog, lease, state, runResult, work, pc, gc, daemon, runTodo, target, kills,
                 stalls, exposed>>

Kill(r) ==
  /\ Live(r) /\ MayFail
  /\ kills' = kills + 1
  /\ Goto(r, "dead")
  /\ UNCHANGED <<catalog, lease, state, runResult, aged, work, gc, daemon, runTodo, target, stalls,
                 slow, exposed>>

-----------------------------------------------------------------------------
(* The catalog's view.                                                     *)

(* doctor: no reference to an absent row, no row without its file.         *)
Consistent == (pins # {} => row) /\ (row => file)

ActiveLeases == {r \in Runs : lease[r] = "active"}

(* reclaimable_objects: rows without a reference and without an unexpired  *)
(* lease.                                                                  *)
MutIgnoresPins == row /\ ActiveLeases = {}
Reclaimable == row /\ pins = {} /\ ActiveLeases = {}

-----------------------------------------------------------------------------
(* collect_garbage.                                                        *)

Bystanders == <<lease, state, runResult, aged, work, pc, daemon, runTodo, target, stalls, slow>>

(* It starts only on a consistent catalog (without rows it has nothing to  *)
(* do here), and removes the partials.                                     *)
GcDoctor ==
  /\ gc = "idle" /\ row /\ Consistent
  /\ gc' = "partials"
  /\ UNCHANGED <<catalog, Bystanders, kills, exposed>>

GcList ==
  /\ gc = "partials"
  /\ gc' = IF Reclaimable THEN "unlink" ELSE "idle"
  /\ exposed' = (exposed \/ (Reclaimable /\ \E r \in Runs : pc[r] \in Ingested))
  /\ UNCHANGED <<catalog, Bystanders, kills>>

(* A file that is not there is an error, which ends the collection.        *)
GcUnlink ==
  /\ gc = "unlink"
  /\ file' = FALSE
  /\ gc' = IF file THEN "forget" ELSE "idle"
  /\ UNCHANGED <<row, pins, Bystanders, kills, exposed>>

MutKeepsRow ==
  /\ gc = "forget"
  /\ gc' = "idle"
  /\ UNCHANGED <<catalog, Bystanders, kills, exposed>>

GcForget ==
  /\ gc = "forget"
  /\ row' = FALSE
  /\ gc' = "idle"
  /\ UNCHANGED <<file, pins, Bystanders, kills, exposed>>

GcKill ==
  /\ gc # "idle" /\ MayFail
  /\ kills' = kills + 1
  /\ gc' = "idle"
  /\ UNCHANGED <<catalog, Bystanders, exposed>>

-----------------------------------------------------------------------------
(* The daemon's start-up: reconcile_interrupted_runs over the run          *)
(* directories, then reconcile_runtime_resources.                          *)

Runners == <<catalog, lease, aged, pc, gc, stalls, slow, exposed>>

DaemonStart ==
  /\ daemon = "off"
  /\ daemon' = "scan" /\ runTodo' = {r \in Runs : pc[r] # "idle"} /\ target' = {}
  /\ UNCHANGED <<Runners, state, runResult, work, kills>>

(* Interrupted: no result, no unexpired lease, and old enough.             *)
Interrupted(r) == runResult[r] = "none" /\ lease[r] # "active" /\ r \in aged

Inspect(r) ==
  /\ daemon = "scan" /\ r \in runTodo
  /\ runTodo' = runTodo \ {r}
  /\ IF Interrupted(r)
       THEN daemon' = "write" /\ target' = {r}
       ELSE UNCHANGED <<daemon, target>>
  /\ UNCHANGED <<Runners, state, runResult, work, kills>>

(* write_json_atomic renames over whatever is there.                       *)
WriteAborted ==
  /\ daemon = "write"
  /\ runResult' = [r \in Runs |-> IF r \in target THEN "aborted" ELSE runResult[r]]
  /\ aged' = aged \ target
  /\ daemon' = "record"
  /\ UNCHANGED <<catalog, lease, pc, gc, stalls, slow, exposed, state, work, runTodo, target, kills>>

MutForgetsState ==
  /\ daemon = "record"
  /\ daemon' = "scan" /\ target' = {}
  /\ UNCHANGED <<Runners, state, runResult, work, runTodo, kills>>

RecordAborted ==
  /\ daemon = "record"
  /\ state' = [r \in Runs |-> IF r \in target THEN "aborted" ELSE state[r]]
  /\ daemon' = "scan" /\ target' = {}
  /\ UNCHANGED <<Runners, runResult, work, runTodo, kills>>

(* Nothing is removed unless the catalog is consistent and no run at all   *)
(* holds a lease.                                                          *)
DaemonDoctor ==
  /\ daemon = "scan" /\ runTodo = {}
  /\ daemon' = IF Consistent /\ ActiveLeases = {} THEN "list" ELSE "off"
  /\ UNCHANGED <<Runners, state, runResult, work, runTodo, target, kills>>

(* reclaimable_run_ids.                                                    *)
MutListsAllRuns ==
  /\ daemon = "list"
  /\ target' = {r \in Runs : state[r] # "absent" /\ lease[r] # "active"}
  /\ daemon' = "remove"
  /\ UNCHANGED <<Runners, state, runResult, work, runTodo, kills>>

ListTerminal ==
  /\ daemon = "list"
  /\ target' = {r \in Runs : state[r] \in {"completed", "aborted"} /\ lease[r] # "active"}
  /\ daemon' = "remove"
  /\ UNCHANGED <<Runners, state, runResult, work, runTodo, kills>>

(* reconcile_managed_resources, once the engine answers.  What the daemon  *)
(* does until it exits does not touch this state.                          *)
RemoveResources ==
  /\ daemon = "remove"
  /\ work' = work \ target
  /\ daemon' = "off" /\ target' = {}
  /\ UNCHANGED <<Runners, state, runResult, runTodo, kills>>

DaemonKill ==
  /\ daemon # "off" /\ MayFail
  /\ kills' = kills + 1
  /\ daemon' = "off" /\ runTodo' = {} /\ target' = {}
  /\ UNCHANGED <<Runners, state, runResult, work>>

-----------------------------------------------------------------------------
RunStep(r) ==
  \/ Probe(r) \/ RenameObject(r) \/ RecordObject(r) \/ WriteLock(r) \/ PreparationFails(r)
  \/ PinObjects(r) \/ RecordResolved(r) \/ AcquireLease(r) \/ StartJobs(r) \/ EndJobs(r)
  \/ WriteResult(r) \/ RecordCompleted(r) \/ ReleaseLease(r)
Collect == GcDoctor \/ GcList \/ GcUnlink \/ GcForget
DaemonStep ==
  \/ DaemonStart \/ (\E r \in Runs : Inspect(r)) \/ WriteAborted \/ RecordAborted
  \/ DaemonDoctor \/ ListTerminal \/ RemoveResources

StoreNext ==
  \/ \E r \in Runs : Capture(r) \/ RunStep(r) \/ Heartbeat(r) \/ Kill(r) \/ Expire(r) \/ Age(r)
  \/ Collect \/ GcKill \/ DaemonStep \/ DaemonKill

StoreSpec == StoreInit /\ [][StoreNext]_storeVars

(* Runs and collections that have begun go on, time passes, and the daemon *)
(* is started again (every `litci run` does).                              *)
Fairness ==
  /\ \A r \in Runs :
       /\ WF_storeVars(RunStep(r))
       /\ WF_storeVars(pc[r] = "dead" /\ (Expire(r) \/ Age(r)))
  /\ WF_storeVars(DaemonStep)
  /\ WF_storeVars((GcList \/ GcUnlink \/ GcForget))
StoreFairSpec == StoreSpec /\ Fairness

-----------------------------------------------------------------------------
(* Properties.                                                             *)

(* No live run was without its lease or its grace period.                  *)
Punctual == stalls = 0 /\ slow = 0

(* A run that ended by itself keeps its own result, and the catalog says   *)
(* completed, whatever the daemon found while it was under way.            *)
EndedRunKeepsResult ==
  Punctual => \A r \in Runs :
    pc[r] = "done" => runResult[r] = "final" /\ state[r] = "completed"

(* Reconciliation takes no container from a run that is executing jobs.    *)
ReconcileSparesLive ==
  Punctual => \A r \in Runs : pc[r] = "jobs" => r \in work

(* The source a run has locked stays in the store while it runs: the only  *)
(* way to lose it is a collection that had listed the object as            *)
(* reclaimable before the run, which had found it there, pinned it.        *)
LockedContentStays ==
  ~exposed => \A r \in Runs : pc[r] \in Locked => file

(* When all processes have come to rest and none was killed the catalog is *)
(* consistent, so that the next collection is not refused.                 *)
CollectionStaysPossible ==
  kills = 0 /\ ~exposed /\ gc = "idle" /\ (\A r \in Runs : pc[r] \in {"idle", "done"})
    => Consistent

(* Recovery takes nothing from a run that lives or has ended by itself.    *)
RecoveryIsSafe == EndedRunKeepsResult /\ ReconcileSparesLive

(* Collection takes nothing from a run, and the catalog stays consistent.  *)
LockedContentSurvives == LockedContentStays /\ CollectionStaysPossible

(* Nothing of a run that died stays behind: it gets a result, at whatever  *)
(* step it died, and what it left in the engine is removed, as long as the *)
(* catalog stays consistent, nothing else is killed and no live run was    *)
(* taken for dead.                                                         *)
Healthy == Punctual /\ Consistent /\ kills <= 1
DeadRunsAreRecovered ==
  \A r \in Runs : pc[r] = "dead" ~> runResult[r] # "none" /\ (r \notin work \/ ~Healthy)
=============================================================================
