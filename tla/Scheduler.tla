----------------------------- MODULE Scheduler -----------------------------
(***************************************************************************)
(* The run scheduler of greenlit-runtime (executor/scheduler.rs).          *)
(*                                                                         *)
(* A plan is a set of job groups in dependency waves; a group is a matrix  *)
(* of legs.  `run` drives one wave after the other, `run_group` keeps at   *)
(* most max-parallel legs of a group in flight, and each leg passes        *)
(* through a concurrency group's gate, the run's worker semaphore and the  *)
(* machine-wide slot pool before its job runs.  Leg futures are polled     *)
(* cooperatively, so one action is the code between two await points; the  *)
(* run's cancellation comes from another thread at any time.               *)
(*                                                                         *)
(* The gate is tokio's fair semaphore of one permit: releasing it hands    *)
(* the permit to the first queued leg at once, but that leg only writes    *)
(* itself into `owner` when it is next polled.                             *)
(***************************************************************************)
EXTENDS Naturals, Sequences, FiniteSets, SequencesExt, Outcome

CONSTANTS
  Groups,            \* job ids
  Legs,              \* the concrete instances of all groups
  Keys,              \* lower-cased concurrency group names
  NoKey, NoLeg,      \* "no concurrency policy", "no leg"
  GroupOf,           \* the group of a leg
  Index,             \* a leg's 1-based position in its group
  LegCount,          \* number of legs of a group
  MaxParallel,       \* strategy.max-parallel of a group
  FailFast,          \* strategy.fail-fast of a group
  Wave,              \* dependency wave of a group
  MaxWave,           \* the last wave
  Needs,             \* direct dependencies of a group
  Condition,         \* the `if:` of a group
  Key,               \* a leg's concurrency key, or NoKey
  CancelInProgress,  \* a leg's cancel-in-progress
  Workers            \* permits of the run's worker semaphore

ASSUME PlanAssumption ==
  /\ Wave \in [Groups -> Nat] /\ MaxWave \in Nat
  /\ \A g \in Groups : Wave[g] \in 0..MaxWave
  /\ Needs \in [Groups -> SUBSET Groups]
  /\ \A g \in Groups : \A n \in Needs[g] : Wave[n] < Wave[g]
  /\ Condition \in [Groups -> Conditions]

ASSUME LegAssumption ==
  /\ GroupOf \in [Legs -> Groups] /\ NoLeg \notin Legs /\ IsFiniteSet(Legs)
  /\ LegCount \in [Groups -> Nat]
  /\ Index \in [Legs -> Nat \ {0}]
  /\ \A l \in Legs : Index[l] \in 1..LegCount[GroupOf[l]]
  /\ \A l, m \in Legs : GroupOf[l] = GroupOf[m] /\ Index[l] = Index[m] => l = m
  /\ \A g \in Groups : \A i \in 1..LegCount[g] :
       \E l \in Legs : GroupOf[l] = g /\ Index[l] = i
  /\ MaxParallel \in [Groups -> Nat \ {0}]
  /\ FailFast \in [Groups -> BOOLEAN]

ASSUME LimitAssumption ==
  /\ NoKey \notin Keys
  /\ Key \in [Legs -> Keys \cup {NoKey}]
  /\ CancelInProgress \in [Legs -> BOOLEAN]
  /\ Workers \in Nat \ {0}

VARIABLES
  cancelled,   \* the run's Cancellation token
  wave,        \* the wave `run` is draining
  run,         \* "running", "ok" (a report), "error"
  gst,         \* group: "idle", "running", "done", "failed"
  pushed,      \* legs of a group given to its FuturesUnordered
  stop,        \* fail_fast_triggered of a group
  gerr,        \* first_error of a group is set
  completed,   \* the NeedRecord a finished group leaves
  pc,          \* where a leg is
  res,         \* a leg's report: a conclusion, "error" or "none"
  jobCancel,   \* a leg's job_cancellation token
  gate,        \* the leg that holds a key's permit
  queue,       \* the legs queued on a key's gate
  owner        \* ConcurrencyGroup.owner: whose token is cancelled

vars == <<cancelled, wave, run, gst, pushed, stop, gerr, completed,
          pc, res, jobCancel, gate, queue, owner>>
groupVars == <<gst, pushed, stop, gerr, completed>>
runVars == <<cancelled, wave, run>>
gateVars == <<gate, queue, owner>>

-----------------------------------------------------------------------------
(* pending: still in the group's iterator; ready: pushed, not yet polled;  *)
(* queued and granted: in the gate's queue, without and with its permit;   *)
(* gated: through the gate, waiting for a worker; worker: waiting for a    *)
(* machine slot; running: inside run_instance; done: collected.            *)
PCs == {"pending", "ready", "queued", "granted", "gated", "worker", "running", "done"}

Inside == {"granted", "gated", "worker", "running"}   \* owns a gate permit
Admitted == {"worker", "running"}                     \* owns a worker permit
InFlight == PCs \ {"pending", "done"}

NoRecord == [result |-> "skipped", chain_failed |-> FALSE, chain_cancelled |-> FALSE]

LegsOf(g) == {l \in Legs : GroupOf[l] = g}
Min2(a, b) == IF a < b THEN a ELSE b

TypeOK ==
  /\ cancelled \in BOOLEAN
  /\ wave \in 0..MaxWave
  /\ run \in {"running", "ok", "error"}
  /\ gst \in [Groups -> {"idle", "running", "done", "failed"}]
  /\ pushed \in [Groups -> Nat]
  /\ stop \in [Groups -> BOOLEAN]
  /\ gerr \in [Groups -> BOOLEAN]
  /\ completed \in [Groups -> NeedRecords]
  /\ pc \in [Legs -> PCs]
  /\ res \in [Legs -> Conclusions \cup {"error", "none"}]
  /\ jobCancel \in [Legs -> BOOLEAN]
  /\ gate \in [Keys -> Legs \cup {NoLeg}]
  /\ queue \in [Keys -> Seq(Legs)]
  /\ owner \in [Keys -> Legs \cup {NoLeg}]

Init ==
  /\ cancelled = FALSE
  /\ wave = 0
  /\ run = "running"
  /\ gst = [g \in Groups |-> "idle"]
  /\ pushed = [g \in Groups |-> 0]
  /\ stop = [g \in Groups |-> FALSE]
  /\ gerr = [g \in Groups |-> FALSE]
  /\ completed = [g \in Groups |-> NoRecord]
  /\ pc = [l \in Legs |-> "pending"]
  /\ res = [l \in Legs |-> "none"]
  /\ jobCancel = [l \in Legs |-> FALSE]
  /\ gate = [k \in Keys |-> NoLeg]
  /\ queue = [k \in Keys |-> <<>>]
  /\ owner = [k \in Keys |-> NoLeg]

-----------------------------------------------------------------------------
(* The end of a leg: its future resolves, dropping its permits, and the    *)
(* group loop collects the report and pushes the next pending leg.         *)

(* The leg a released gate's permit is handed to, or NoLeg.                *)
Grantee(l) ==
  IF Key[l] \in Keys /\ gate[Key[l]] = l /\ queue[Key[l]] # <<>>
    THEN Head(queue[Key[l]]) ELSE NoLeg

(* A leg that leaves gives up the permit it holds or its place in line.    *)
MutForgetsPermit(l) ==
  /\ UNCHANGED <<gate, owner>>
  /\ queue' = [k \in Keys |-> SelectSeq(queue[k], LAMBDA x : x # l)]

LeaveGate(l) ==
  /\ gate' = [k \in Keys |-> IF gate[k] = l THEN Grantee(l) ELSE gate[k]]
  /\ queue' = [k \in Keys |->
       CASE gate[k] = l /\ queue[k] # <<>> -> Tail(queue[k])
         [] gate[k] # l /\ \E i \in DOMAIN queue[k] : queue[k][i] = l ->
              RemoveAt(queue[k], CHOOSE i \in DOMAIN queue[k] : queue[k][i] = l)
         [] OTHER -> queue[k]]
  /\ UNCHANGED owner

(* fail-fast: a failed or cancelled leg stops the legs still pending.      *)
Triggers(g, r) == FailFast[g] /\ r \in {"failure", "cancelled"}

(* The leg the group loop pushes after collecting r from a leg of g.       *)
MutIgnoresFailFast(g, r) ==
  IF ~gerr[g] /\ r # "error"
    THEN {m \in LegsOf(g) : Index[m] = pushed[g] + 1} ELSE {}

Successor(g, r) ==
  IF ~stop[g] /\ ~Triggers(g, r) /\ ~gerr[g] /\ r # "error"
    THEN {m \in LegsOf(g) : Index[m] = pushed[g] + 1} ELSE {}

EndLeg(l, r) ==
  LET g == GroupOf[l]
      next == Successor(g, r)
  IN  /\ pc' = [m \in Legs |-> CASE m = l -> "done"
                                 [] m # l /\ m \in next -> "ready"
                                 [] m # l /\ m = Grantee(l) -> "granted"
                                 [] OTHER -> pc[m]]
      /\ res' = [res EXCEPT ![l] = r]
      /\ stop' = [stop EXCEPT ![g] = @ \/ Triggers(g, r)]
      /\ gerr' = [gerr EXCEPT ![g] = @ \/ r = "error"]
      /\ pushed' = [pushed EXCEPT ![g] = IF next = {} THEN @ ELSE @ + 1]
      /\ LeaveGate(l)
      /\ UNCHANGED <<runVars, gst, completed, jobCancel>>

Move(l, from, to) == pc[l] = from /\ pc' = [pc EXCEPT ![l] = to]

-----------------------------------------------------------------------------
(* run and run_group                                                       *)

(* The user interrupts the run (another thread).                           *)
CancelRun ==
  /\ run = "running" /\ ~cancelled
  /\ cancelled' = TRUE
  /\ UNCHANGED <<wave, run, groupVars, pc, res, jobCancel, gateVars>>

(* First poll of run_group: the strategy materializes and the first        *)
(* max-parallel legs are pushed.                                           *)
StartGroup(g) ==
  /\ run = "running" /\ gst[g] = "idle" /\ Wave[g] = wave
  /\ gst' = [gst EXCEPT ![g] = "running"]
  /\ pushed' = [pushed EXCEPT ![g] = Min2(MaxParallel[g], LegCount[g])]
  /\ pc' = [l \in Legs |-> IF GroupOf[l] = g /\ Index[l] <= MaxParallel[g]
                             THEN "ready" ELSE pc[l]]
  /\ UNCHANGED <<runVars, stop, gerr, completed, res, jobCancel, gateVars>>

(* materialize fails: the group has no leg and resolves to an error.       *)
FailGroup(g) ==
  /\ run = "running" /\ gst[g] = "idle" /\ Wave[g] = wave
  /\ gst' = [gst EXCEPT ![g] = "failed"]
  /\ UNCHANGED <<runVars, pushed, stop, gerr, completed, pc, res, jobCancel, gateVars>>

(* The records of a group's needs, from the groups already completed.      *)
needs_records(g) == {completed[n] : n \in {m \in Needs[g] : gst[m] = "done"}}

(* What the group's dependents see: the worst leg, and whether this job or *)
(* any ancestor failed or was cancelled.                                   *)
MutChainOwnResultOnly(g, result) ==
  [result |-> result,
   chain_failed |-> result = "failure",
   chain_cancelled |-> result = "cancelled"]

Record(g, result) ==
  [result |-> result,
   chain_failed |-> result = "failure" \/ \E n \in needs_records(g) : n.chain_failed,
   chain_cancelled |-> result = "cancelled" \/ \E n \in needs_records(g) : n.chain_cancelled]

(* Legs that fail-fast kept pending get a cancelled report.                *)
MutDropsPendingReports(g) == res

FinalReports(g) ==
  [l \in Legs |-> IF GroupOf[l] = g /\ stop[g] /\ pc[l] = "pending"
                    THEN "cancelled" ELSE res[l]]

(* No leg is in flight: the loop ends.  With an error the group fails;     *)
(* otherwise the pending legs are reported and the group's record is       *)
(* inserted into `completed`.                                              *)
FinishGroup(g) ==
  LET final == FinalReports(g)
      result == aggregate({final[l] : l \in LegsOf(g)})
  IN  /\ gst[g] = "running"
      /\ \A l \in LegsOf(g) : pc[l] \notin InFlight
      /\ IF gerr[g]
           THEN /\ gst' = [gst EXCEPT ![g] = "failed"]
                /\ UNCHANGED <<res, completed>>
           ELSE /\ gst' = [gst EXCEPT ![g] = "done"]
                /\ res' = final
                /\ completed' = [completed EXCEPT ![g] = Record(g, result)]
      /\ UNCHANGED <<runVars, pushed, stop, gerr, pc, jobCancel, gateVars>>

(* The wave is drained: fail with its first error, go on, or report.       *)
WaveDrained == \A g \in Groups : Wave[g] = wave => gst[g] \in {"done", "failed"}

MutRunsOnePastLastWave ==
  /\ run = "running" /\ WaveDrained
  /\ IF \E g \in Groups : gst[g] = "failed"
       THEN run' = "error" /\ UNCHANGED wave
       ELSE IF wave > MaxWave THEN run' = "ok" /\ UNCHANGED wave
                              ELSE wave' = wave + 1 /\ UNCHANGED run
  /\ UNCHANGED <<cancelled, groupVars, pc, res, jobCancel, gateVars>>

MutIgnoresFailedGroup ==
  /\ run = "running" /\ WaveDrained
  /\ IF wave = MaxWave THEN run' = "ok" /\ UNCHANGED wave
                       ELSE wave' = wave + 1 /\ UNCHANGED run
  /\ UNCHANGED <<cancelled, groupVars, pc, res, jobCancel, gateVars>>

EndWave ==
  /\ run = "running" /\ WaveDrained
  /\ IF \E g \in Groups : gst[g] = "failed"
       THEN run' = "error" /\ UNCHANGED wave
       ELSE IF wave = MaxWave THEN run' = "ok" /\ UNCHANGED wave
                              ELSE wave' = wave + 1 /\ UNCHANGED run
  /\ UNCHANGED <<cancelled, groupVars, pc, res, jobCancel, gateVars>>

-----------------------------------------------------------------------------
(* One leg, from its first poll to run_instance                            *)

(* The run was cancelled before the leg was first polled.                  *)
BeginCancelled(l) == pc[l] = "ready" /\ cancelled /\ EndLeg(l, "cancelled")

(* materialize_concurrency fails to evaluate the policy.                   *)
PolicyError(l) ==
  pc[l] = "ready" /\ ~cancelled /\ Key[l] \in Keys /\ EndLeg(l, "error")

(* No concurrency policy: straight to the worker queue.                    *)
BeginFree(l) ==
  /\ ~cancelled /\ Key[l] = NoKey /\ Move(l, "ready", "gated")
  /\ UNCHANGED <<runVars, groupVars, res, jobCancel, gateVars>>

(* ConcurrencyCoordinator::enter up to its first await: cancel the         *)
(* registered owner if asked to, then take the permit or queue for it.     *)
CancelOwner(l) ==
  jobCancel' = [m \in Legs |-> \/ jobCancel[m]
                               \/ CancelInProgress[l] /\ m = owner[Key[l]]]

MutEnterAlwaysTakes(l) ==
  LET k == Key[l]
  IN  /\ ~cancelled /\ k \in Keys
      /\ CancelOwner(l)
      /\ gate' = [gate EXCEPT ![k] = l] /\ owner' = [owner EXCEPT ![k] = l]
      /\ Move(l, "ready", "gated") /\ UNCHANGED queue
      /\ UNCHANGED <<runVars, groupVars, res>>

Enter(l) ==
  LET k == Key[l]
  IN  /\ ~cancelled /\ k \in Keys
      /\ CancelOwner(l)
      /\ IF gate[k] = NoLeg
           THEN /\ gate' = [gate EXCEPT ![k] = l]
                /\ owner' = [owner EXCEPT ![k] = l]
                /\ Move(l, "ready", "gated")
                /\ UNCHANGED queue
           ELSE /\ queue' = [queue EXCEPT ![k] = Append(@, l)]
                /\ Move(l, "ready", "queued")
                /\ UNCHANGED <<gate, owner>>
      /\ UNCHANGED <<runVars, groupVars, res>>

(* A queued leg that was handed the permit is polled: it becomes owner.    *)
Promote(l) ==
  /\ Move(l, "granted", "gated")
  /\ owner' = [owner EXCEPT ![Key[l]] = l]
  /\ UNCHANGED <<runVars, groupVars, res, jobCancel, gate, queue>>

(* The select on the gate takes the cancellation arm; a permit already     *)
(* handed to the dropped waiter goes to the next one.                      *)
QueueCancelled(l) ==
  pc[l] \in {"queued", "granted"} /\ cancelled /\ EndLeg(l, "cancelled")

AdmittedLegs == {l \in Legs : pc[l] \in Admitted}

MutWorkerOffByOne(l) ==
  /\ Cardinality(AdmittedLegs) <= Workers
  /\ Move(l, "gated", "worker")
  /\ UNCHANGED <<runVars, groupVars, res, jobCancel, gateVars>>

AcquireWorker(l) ==
  /\ Cardinality(AdmittedLegs) < Workers
  /\ Move(l, "gated", "worker")
  /\ UNCHANGED <<runVars, groupVars, res, jobCancel, gateVars>>

MutBusyPoolCancels(l) == pc[l] = "gated" /\ EndLeg(l, "cancelled")

WorkerCancelled(l) == pc[l] = "gated" /\ cancelled /\ EndLeg(l, "cancelled")

(* pool.acquire fails, by an I/O error or by the run's cancellation.       *)
SlotError(l) == pc[l] = "worker" /\ EndLeg(l, "error")
SlotCancelled(l) == pc[l] = "worker" /\ cancelled /\ EndLeg(l, "cancelled")

(* A machine slot is acquired (WorkerPool) and run_instance begins; it     *)
(* returns at once when the job's token is already cancelled.              *)
AcquireSlot(l) ==
  \/ jobCancel[l] /\ pc[l] = "worker" /\ EndLeg(l, "cancelled")
  \/ /\ ~jobCancel[l] /\ Move(l, "worker", "running")
     /\ UNCHANGED <<runVars, groupVars, res, jobCancel, gateVars>>

(* The select around run_instance passes the run's cancellation on.        *)
RelayCancel(l) ==
  /\ pc[l] = "running" /\ cancelled /\ ~jobCancel[l]
  /\ jobCancel' = [jobCancel EXCEPT ![l] = TRUE]
  /\ UNCHANGED <<runVars, groupVars, pc, res, gateVars>>

(* What run_instance may return: an error of the infrastructure, skipped   *)
(* when the job's condition does not hold, otherwise what its steps gave;  *)
(* cancelled only after its token was.  (JobLifecycle models the inside.)  *)
Results(l) ==
  IF job_activates(Condition[GroupOf[l]], needs_records(GroupOf[l]))
    THEN {"error", "success", "failure"} \cup IF jobCancel[l] THEN {"cancelled"} ELSE {}
    ELSE {"error", "skipped"}

FinishJob(l) == pc[l] = "running" /\ \E r \in Results(l) : EndLeg(l, r)

-----------------------------------------------------------------------------
LegStep(l) ==
  \/ BeginCancelled(l) \/ PolicyError(l) \/ BeginFree(l) \/ Enter(l) \/ Promote(l)
  \/ QueueCancelled(l) \/ AcquireWorker(l) \/ WorkerCancelled(l)
  \/ SlotError(l) \/ SlotCancelled(l) \/ AcquireSlot(l)
  \/ RelayCancel(l) \/ FinishJob(l)

GroupStep(g) == StartGroup(g) \/ FailGroup(g) \/ FinishGroup(g)

Over == run # "running" /\ UNCHANGED vars

Next ==
  \/ CancelRun
  \/ EndWave
  \/ \E g \in Groups : GroupStep(g)
  \/ \E l \in Legs : LegStep(l)
  \/ Over

Spec == Init /\ [][Next]_vars

(* The executor polls every woken future, so a leg or group that can go on *)
(* does; a job's steps are assumed to end.                                 *)
FairSpec ==
  /\ Spec
  /\ WF_vars(EndWave)
  /\ \A g \in Groups : WF_vars(GroupStep(g))
  /\ \A l \in Legs : WF_vars(LegStep(l))

-----------------------------------------------------------------------------
(* Properties                                                              *)

\* Jobs of one concurrency group are serialized: at most one leg of a key is
\* past the gate, also while a permit is being handed over (enter, 62-99).
GateExclusive ==
  \A l, m \in Legs :
    /\ Key[l] = Key[m] /\ Key[l] \in Keys
    /\ pc[l] \in Inside /\ pc[m] \in Inside
    => l = m

\* No permit is lost: a gate with legs in line is held by a leg that is still
\* going to release it, on every exit path of the leg (280-383).
NoLegWaitsAtOpenGate ==
  \A k \in Keys : queue[k] # <<>> =>
    gate[k] # NoLeg /\ pc[gate[k]] \in Inside /\ Key[gate[k]] = k

\* The nested limits hold together: the run's worker semaphore bounds the
\* admitted legs and max-parallel bounds a group's legs in flight, also when
\* the loop refills after a completion (178-179, 386-412).
LimitsRespected ==
  /\ Cardinality(AdmittedLegs) <= Workers
  /\ \A g \in Groups :
       Cardinality({l \in LegsOf(g) : pc[l] \in InFlight}) <= MaxParallel[g]

\* No leg leaves the pending iterator before every job its group needs has
\* completed with a record (the wave barrier, 197-229).
NeedsSettled ==
  \A l \in Legs : pc[l] # "pending" =>
    \A n \in Needs[GroupOf[l]] : gst[n] = "done"

(* What a group needs, directly or not: the least set closed under Needs. *)
NeedClosed(S) == \A s \in S : Needs[s] \subseteq S

Ancestors ==
  [g \in Groups |-> {a \in Groups : \A S \in SUBSET Groups :
                       Needs[g] \subseteq S /\ NeedClosed(S) => a \in S}]

\* A completed job's chain flags say whether it or ANY transitive ancestor
\* failed or was cancelled, also through skipped jobs in between (431-441).
ChainIsTransitive ==
  \A g \in Groups : gst[g] = "done" =>
    LET line == Ancestors[g] \cup {g}
    IN  /\ completed[g].chain_failed <=> \E a \in line : completed[a].result = "failure"
        /\ completed[g].chain_cancelled <=> \E a \in line : completed[a].result = "cancelled"

\* A cancelled report always has a cause: the run's token, the leg's own
\* token (cancel-in-progress), or fail-fast after another leg of the matrix
\* failed or was cancelled, the leg itself never having been started.
CancelledHasCause ==
  \A l \in Legs : res[l] = "cancelled" =>
    \/ cancelled
    \/ jobCancel[l]
    \/ /\ pc[l] = "pending" /\ FailFast[GroupOf[l]]
       /\ \E m \in LegsOf(GroupOf[l]) \ {l} :
            pc[m] = "done" /\ res[m] \in {"failure", "cancelled"}

\* The report is complete: a run that ends with a report has a conclusion for
\* every leg of every group, and a leg's error is never swallowed.
ReportComplete ==
  /\ run = "ok" => \A l \in Legs : res[l] \in Conclusions
  /\ (\E l \in Legs : res[l] = "error") => run # "ok"

\* What a run reports is what happened, and nothing ran beyond its limits or
\* before its needs.
ReportsAreHonest ==
  /\ LimitsRespected /\ NeedsSettled
  /\ CancelledHasCause /\ ReportComplete /\ ChainIsTransitive

\* From the step that collects a failing or erring leg on, fail-fast or the
\* error keeps the group from pushing any further leg (393-412).
StopsAfterFailure ==
  [][\A g \in Groups : stop'[g] \/ gerr'[g] => pushed'[g] = pushed[g]]_vars

\* cancel-in-progress: a leg that queues behind another one of its
\* concurrency group has cancelled the job that holds the group
\* (ARCHITECTURE.md, 252-253).
CancelsTheHolder ==
  [][\A l \in Legs : pc[l] = "ready" /\ pc'[l] = "queued" /\ CancelInProgress[l]
       => jobCancel'[gate[Key[l]]]]_vars

\* Every run ends, in a report or an error: gates, workers and the barrier
\* never leave all legs waiting for each other.
Terminates == <>(run # "running")

Dag == INSTANCE DagRun WITH status <- gst

\* The waves implement the dependency order (abstract specification DagRun).
DagSpec == Dag!Spec
=============================================================================
