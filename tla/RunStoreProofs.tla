--------------------------- MODULE RunStoreProofs ---------------------------
(***************************************************************************)
(* Runs, the collector and the daemon over one store, for any set of runs  *)
(* and any number of faults.                                               *)
(*                                                                         *)
(* Recovery: while no live run was late (Punctual), a run directory that   *)
(* looks interrupted belongs to a dead run, so what the daemon writes and  *)
(* removes is never a live or ended run's (DaemonIsRight).                 *)
(* Collection: unless a run was between finding the object and pinning it  *)
(* when the collector listed it (exposed), a collector that removes has no *)
(* run in its way (CollectorIsAlone), and without kills file and row only  *)
(* differ while somebody is at work on them (CatalogFollows).              *)
(***************************************************************************)
EXTENDS RunStore, TLAPS

Labels == PreLock \cup Locked \cup {"idle", "result", "complete", "release", "done", "dead"}

(* Runs that rely on the object being there, and those that have pinned it.*)
Pinned == {"resolve", "lease", "start", "jobs"}
Using == {"record", "prepare", "pin"} \cup Pinned

IdleIsFresh ==
  \A r \in Runs : pc[r] = "idle" => lease[r] = "none" /\ r \notin aged

LiveIsOnTime ==
  \A r \in Runs : Live(r) => lease[r] # "expired" /\ r \notin aged

DaemonIsRight ==
  /\ daemon \in {"write", "record"} => \A r \in target : pc[r] = "dead"
  /\ daemon = "remove" => \A r \in target : pc[r] \in {"release", "done", "dead"}

ResultsAreKept ==
  \A r \in Runs :
    /\ pc[r] \in {"complete", "release", "done"} => runResult[r] = "final"
    /\ pc[r] \in {"release", "done"} => state[r] = "completed"
    /\ state[r] \in {"completed", "aborted"} => pc[r] \in {"release", "done", "dead"}
    /\ pc[r] = "jobs" => r \in work

RecoveryInv == Punctual => LiveIsOnTime /\ DaemonIsRight /\ ResultsAreKept

PinnedRuns == \A r \in Runs : pc[r] \in Pinned => r \in pins

CollectorIsAlone ==
  gc \in {"unlink", "forget"} =>
    pins = {} /\ \A r \in Runs : pc[r] \notin Ingested \cup Pinned

ContentIsThere ==
  /\ \A r \in Runs : pc[r] \in Using => file
  /\ pins # {} => file

CatalogFollows ==
  /\ gc = "unlink" => row /\ file
  /\ gc = "forget" => row /\ ~file
  /\ row => file \/ gc = "forget"
  /\ file => row \/ \E q \in Runs : pc[q] = "record"

CollectionInv ==
  ~exposed => CollectorIsAlone /\ ContentIsThere /\ (kills = 0 => CatalogFollows)

IInv == StoreTypeOK /\ IdleIsFresh /\ RecoveryInv /\ PinnedRuns /\ CollectionInv

-----------------------------------------------------------------------------
(* The steps by who takes them                                             *)

RunAction(r) == Capture(r) \/ RunStep(r)
TimeAction(r) == Heartbeat(r) \/ Expire(r) \/ Age(r) \/ Kill(r)
StoreAction ==
  \/ Collect \/ GcKill \/ DaemonStart \/ WriteAborted \/ RecordAborted \/ DaemonDoctor
  \/ ListTerminal \/ RemoveResources \/ DaemonKill

LEMMA Steps ==
  ASSUME [StoreNext]_storeVars
  PROVE  \/ \E r \in Runs : RunAction(r)
         \/ \E r \in Runs : TimeAction(r)
         \/ \E r \in Runs : Inspect(r)
         \/ StoreAction
         \/ UNCHANGED storeVars
  BY DEF StoreNext, DaemonStep, RunAction, TimeAction, StoreAction

LEMMA NextTypeOK ==
  ASSUME BoundIsNatural, StoreTypeOK, [StoreNext]_storeVars
  PROVE  StoreTypeOK'
<1> USE BoundIsNatural DEF StoreTypeOK, Goto, MayFail, BoundIsNatural, Ingested, PreLock, Locked, Others, catalog,
           bounds, Bystanders, Runners
<1>1. ASSUME NEW r \in Runs, RunAction(r) PROVE StoreTypeOK'
  <2>1. CASE Capture(r)
    BY <2>1 DEF Capture
  <2>2. CASE Probe(r)
    BY <2>2 DEF Probe
  <2>3. CASE RenameObject(r)
    BY <2>3 DEF RenameObject
  <2>4. CASE RecordObject(r)
    BY <2>4 DEF RecordObject
  <2>5. CASE WriteLock(r)
    BY <2>5 DEF WriteLock
  <2>6. CASE PreparationFails(r)
    BY <2>6 DEF PreparationFails
  <2>7. CASE PinObjects(r)
    BY <2>7 DEF PinObjects
  <2>8. CASE RecordResolved(r)
    BY <2>8 DEF RecordResolved
  <2>9. CASE AcquireLease(r)
    BY <2>9 DEF AcquireLease
  <2>10. CASE StartJobs(r)
    BY <2>10 DEF StartJobs
  <2>11. CASE EndJobs(r)
    BY <2>11 DEF EndJobs
  <2>12. CASE WriteResult(r)
    BY <2>12 DEF WriteResult
  <2>13. CASE RecordCompleted(r)
    BY <2>13 DEF RecordCompleted
  <2>14. CASE ReleaseLease(r)
    BY <2>14 DEF ReleaseLease
  <2>15. QED
    BY <1>1, <2>1, <2>2, <2>3, <2>4, <2>5, <2>6, <2>7, <2>8, <2>9, <2>10, <2>11, <2>12, <2>13, <2>14 DEF RunAction, RunStep
<1>2. ASSUME NEW r \in Runs, TimeAction(r) PROVE StoreTypeOK'
  <2>1. CASE Heartbeat(r)
    BY <2>1 DEF Heartbeat
  <2>2. CASE Expire(r)
    BY <2>2 DEF Expire
  <2>3. CASE Age(r)
    BY <2>3 DEF Age
  <2>4. CASE Kill(r)
    BY <2>4 DEF Kill
  <2>5. QED
    BY <1>2, <2>1, <2>2, <2>3, <2>4 DEF TimeAction
<1>3. ASSUME NEW r \in Runs, Inspect(r) PROVE StoreTypeOK'
  BY <1>3 DEF Inspect
<1>4. CASE StoreAction
  <2>1. CASE GcDoctor
    BY <2>1 DEF GcDoctor
  <2>2. CASE GcList
    BY <2>2 DEF GcList
  <2>3. CASE GcUnlink
    BY <2>3 DEF GcUnlink
  <2>4. CASE GcForget
    BY <2>4 DEF GcForget
  <2>5. CASE GcKill
    BY <2>5 DEF GcKill
  <2>6. CASE DaemonStart
    BY <2>6 DEF DaemonStart
  <2>7. CASE WriteAborted
    BY <2>7 DEF WriteAborted
  <2>8. CASE RecordAborted
    BY <2>8 DEF RecordAborted
  <2>9. CASE DaemonDoctor
    BY <2>9 DEF DaemonDoctor
  <2>10. CASE ListTerminal
    BY <2>10 DEF ListTerminal
  <2>11. CASE RemoveResources
    BY <2>11 DEF RemoveResources
  <2>12. CASE DaemonKill
    BY <2>12 DEF DaemonKill
  <2>13. QED
    BY <1>4, <2>1, <2>2, <2>3, <2>4, <2>5, <2>6, <2>7, <2>8, <2>9, <2>10, <2>11, <2>12 DEF StoreAction, Collect
<1>5. CASE UNCHANGED storeVars
  BY <1>5 DEF storeVars
<1>6. QED
  BY <1>1, <1>2, <1>3, <1>4, <1>5, Steps

(* What a fault has spoilt stays spoilt.                                   *)
LEMMA Monotone ==
  ASSUME BoundIsNatural, StoreTypeOK, [StoreNext]_storeVars
  PROVE  (Punctual' => Punctual) /\ (~exposed' => ~exposed) /\ (kills' = 0 => kills = 0)
<1> USE DEF StoreTypeOK, BoundIsNatural, Punctual, Goto, Ingested, PreLock, Locked, Others, catalog, bounds, Bystanders, Runners
<1>1. ASSUME NEW r \in Runs, RunAction(r) PROVE (Punctual' => Punctual) /\ (~exposed' => ~exposed) /\ (kills' = 0 => kills = 0)
  <2>1. CASE Capture(r)
    BY <2>1 DEF Capture
  <2>2. CASE Probe(r)
    BY <2>2 DEF Probe
  <2>3. CASE RenameObject(r)
    BY <2>3 DEF RenameObject
  <2>4. CASE RecordObject(r)
    BY <2>4 DEF RecordObject
  <2>5. CASE WriteLock(r)
    BY <2>5 DEF WriteLock
  <2>6. CASE PreparationFails(r)
    BY <2>6 DEF PreparationFails
  <2>7. CASE PinObjects(r)
    BY <2>7 DEF PinObjects
  <2>8. CASE RecordResolved(r)
    BY <2>8 DEF RecordResolved
  <2>9. CASE AcquireLease(r)
    BY <2>9 DEF AcquireLease
  <2>10. CASE StartJobs(r)
    BY <2>10 DEF StartJobs
  <2>11. CASE EndJobs(r)
    BY <2>11 DEF EndJobs
  <2>12. CASE WriteResult(r)
    BY <2>12 DEF WriteResult
  <2>13. CASE RecordCompleted(r)
    BY <2>13 DEF RecordCompleted
  <2>14. CASE ReleaseLease(r)
    BY <2>14 DEF ReleaseLease
  <2>15. QED
    BY <1>1, <2>1, <2>2, <2>3, <2>4, <2>5, <2>6, <2>7, <2>8, <2>9, <2>10, <2>11, <2>12, <2>13, <2>14 DEF RunAction, RunStep
<1>2. ASSUME NEW r \in Runs, TimeAction(r) PROVE (Punctual' => Punctual) /\ (~exposed' => ~exposed) /\ (kills' = 0 => kills = 0)
  <2>1. CASE Heartbeat(r)
    BY <2>1 DEF Heartbeat
  <2>2. CASE Expire(r)
    BY <2>2 DEF Expire
  <2>3. CASE Age(r)
    BY <2>3 DEF Age
  <2>4. CASE Kill(r)
    BY <2>4 DEF Kill
  <2>5. QED
    BY <1>2, <2>1, <2>2, <2>3, <2>4 DEF TimeAction
<1>3. ASSUME NEW r \in Runs, Inspect(r) PROVE (Punctual' => Punctual) /\ (~exposed' => ~exposed) /\ (kills' = 0 => kills = 0)
  BY <1>3 DEF Inspect
<1>4. CASE StoreAction
  <2>1. CASE GcDoctor
    BY <2>1 DEF GcDoctor
  <2>2. CASE GcList
    BY <2>2 DEF GcList
  <2>3. CASE GcUnlink
    BY <2>3 DEF GcUnlink
  <2>4. CASE GcForget
    BY <2>4 DEF GcForget
  <2>5. CASE GcKill
    BY <2>5 DEF GcKill
  <2>6. CASE DaemonStart
    BY <2>6 DEF DaemonStart
  <2>7. CASE WriteAborted
    BY <2>7 DEF WriteAborted
  <2>8. CASE RecordAborted
    BY <2>8 DEF RecordAborted
  <2>9. CASE DaemonDoctor
    BY <2>9 DEF DaemonDoctor
  <2>10. CASE ListTerminal
    BY <2>10 DEF ListTerminal
  <2>11. CASE RemoveResources
    BY <2>11 DEF RemoveResources
  <2>12. CASE DaemonKill
    BY <2>12 DEF DaemonKill
  <2>13. QED
    BY <1>4, <2>1, <2>2, <2>3, <2>4, <2>5, <2>6, <2>7, <2>8, <2>9, <2>10, <2>11, <2>12 DEF StoreAction, Collect
<1>5. CASE UNCHANGED storeVars
  BY <1>5 DEF storeVars
<1>6. QED
  BY <1>1, <1>2, <1>3, <1>4, <1>5, Steps

LEMMA NextIdle ==
  ASSUME StoreTypeOK, IdleIsFresh, [StoreNext]_storeVars
  PROVE  IdleIsFresh'
<1> USE DEF StoreTypeOK, IdleIsFresh, Live, Goto, Ingested, PreLock, Locked, Others, catalog, bounds, Bystanders, Runners
<1>1. ASSUME NEW r \in Runs, RunAction(r) PROVE IdleIsFresh'
  <2>1. CASE Capture(r)
    BY <2>1 DEF Capture
  <2>2. CASE Probe(r)
    BY <2>2 DEF Probe
  <2>3. CASE RenameObject(r)
    BY <2>3 DEF RenameObject
  <2>4. CASE RecordObject(r)
    BY <2>4 DEF RecordObject
  <2>5. CASE WriteLock(r)
    BY <2>5 DEF WriteLock
  <2>6. CASE PreparationFails(r)
    BY <2>6 DEF PreparationFails
  <2>7. CASE PinObjects(r)
    BY <2>7 DEF PinObjects
  <2>8. CASE RecordResolved(r)
    BY <2>8 DEF RecordResolved
  <2>9. CASE AcquireLease(r)
    BY <2>9 DEF AcquireLease
  <2>10. CASE StartJobs(r)
    BY <2>10 DEF StartJobs
  <2>11. CASE EndJobs(r)
    BY <2>11 DEF EndJobs
  <2>12. CASE WriteResult(r)
    BY <2>12 DEF WriteResult
  <2>13. CASE RecordCompleted(r)
    BY <2>13 DEF RecordCompleted
  <2>14. CASE ReleaseLease(r)
    BY <2>14 DEF ReleaseLease
  <2>15. QED
    BY <1>1, <2>1, <2>2, <2>3, <2>4, <2>5, <2>6, <2>7, <2>8, <2>9, <2>10, <2>11, <2>12, <2>13, <2>14 DEF RunAction, RunStep
<1>2. ASSUME NEW r \in Runs, TimeAction(r) PROVE IdleIsFresh'
  <2>1. CASE Heartbeat(r)
    BY <2>1 DEF Heartbeat
  <2>2. CASE Expire(r)
    BY <2>2 DEF Expire
  <2>3. CASE Age(r)
    BY <2>3 DEF Age
  <2>4. CASE Kill(r)
    BY <2>4 DEF Kill
  <2>5. QED
    BY <1>2, <2>1, <2>2, <2>3, <2>4 DEF TimeAction
<1>3. ASSUME NEW r \in Runs, Inspect(r) PROVE IdleIsFresh'
  BY <1>3 DEF Inspect
<1>4. CASE StoreAction
  <2>1. CASE GcDoctor
    BY <2>1 DEF GcDoctor
  <2>2. CASE GcList
    BY <2>2 DEF GcList
  <2>3. CASE GcUnlink
    BY <2>3 DEF GcUnlink
  <2>4. CASE GcForget
    BY <2>4 DEF GcForget
  <2>5. CASE GcKill
    BY <2>5 DEF GcKill
  <2>6. CASE DaemonStart
    BY <2>6 DEF DaemonStart
  <2>7. CASE WriteAborted
    BY <2>7 DEF WriteAborted
  <2>8. CASE RecordAborted
    BY <2>8 DEF RecordAborted
  <2>9. CASE DaemonDoctor
    BY <2>9 DEF DaemonDoctor
  <2>10. CASE ListTerminal
    BY <2>10 DEF ListTerminal
  <2>11. CASE RemoveResources
    BY <2>11 DEF RemoveResources
  <2>12. CASE DaemonKill
    BY <2>12 DEF DaemonKill
  <2>13. QED
    BY <1>4, <2>1, <2>2, <2>3, <2>4, <2>5, <2>6, <2>7, <2>8, <2>9, <2>10, <2>11, <2>12 DEF StoreAction, Collect
<1>5. CASE UNCHANGED storeVars
  BY <1>5 DEF storeVars
<1>6. QED
  BY <1>1, <1>2, <1>3, <1>4, <1>5, Steps

LEMMA NextOnTime ==
  ASSUME StoreTypeOK, BoundIsNatural, IdleIsFresh, Punctual, LiveIsOnTime, Punctual', [StoreNext]_storeVars
  PROVE  LiveIsOnTime'
<1> USE DEF StoreTypeOK, BoundIsNatural, LiveIsOnTime, Live, Punctual, IdleIsFresh, Goto, Ingested, PreLock, Locked, Others, catalog, bounds, Bystanders, Runners
<1>1. ASSUME NEW r \in Runs, RunAction(r) PROVE LiveIsOnTime'
  <2>1. CASE Capture(r)
    BY <2>1 DEF Capture
  <2>2. CASE Probe(r)
    BY <2>2 DEF Probe
  <2>3. CASE RenameObject(r)
    BY <2>3 DEF RenameObject
  <2>4. CASE RecordObject(r)
    BY <2>4 DEF RecordObject
  <2>5. CASE WriteLock(r)
    BY <2>5 DEF WriteLock
  <2>6. CASE PreparationFails(r)
    BY <2>6 DEF PreparationFails
  <2>7. CASE PinObjects(r)
    BY <2>7 DEF PinObjects
  <2>8. CASE RecordResolved(r)
    BY <2>8 DEF RecordResolved
  <2>9. CASE AcquireLease(r)
    BY <2>9 DEF AcquireLease
  <2>10. CASE StartJobs(r)
    BY <2>10 DEF StartJobs
  <2>11. CASE EndJobs(r)
    BY <2>11 DEF EndJobs
  <2>12. CASE WriteResult(r)
    BY <2>12 DEF WriteResult
  <2>13. CASE RecordCompleted(r)
    BY <2>13 DEF RecordCompleted
  <2>14. CASE ReleaseLease(r)
    BY <2>14 DEF ReleaseLease
  <2>15. QED
    BY <1>1, <2>1, <2>2, <2>3, <2>4, <2>5, <2>6, <2>7, <2>8, <2>9, <2>10, <2>11, <2>12, <2>13, <2>14 DEF RunAction, RunStep
<1>2. ASSUME NEW r \in Runs, TimeAction(r) PROVE LiveIsOnTime'
  <2>1. CASE Heartbeat(r)
    BY <2>1 DEF Heartbeat
  <2>2. CASE Expire(r)
    BY <2>2 DEF Expire
  <2>3. CASE Age(r)
    BY <2>3 DEF Age
  <2>4. CASE Kill(r)
    BY <2>4 DEF Kill
  <2>5. QED
    BY <1>2, <2>1, <2>2, <2>3, <2>4 DEF TimeAction
<1>3. ASSUME NEW r \in Runs, Inspect(r) PROVE LiveIsOnTime'
  BY <1>3 DEF Inspect
<1>4. CASE StoreAction
  <2>1. CASE GcDoctor
    BY <2>1 DEF GcDoctor
  <2>2. CASE GcList
    BY <2>2 DEF GcList
  <2>3. CASE GcUnlink
    BY <2>3 DEF GcUnlink
  <2>4. CASE GcForget
    BY <2>4 DEF GcForget
  <2>5. CASE GcKill
    BY <2>5 DEF GcKill
  <2>6. CASE DaemonStart
    BY <2>6 DEF DaemonStart
  <2>7. CASE WriteAborted
    BY <2>7 DEF WriteAborted
  <2>8. CASE RecordAborted
    BY <2>8 DEF RecordAborted
  <2>9. CASE DaemonDoctor
    BY <2>9 DEF DaemonDoctor
  <2>10. CASE ListTerminal
    BY <2>10 DEF ListTerminal
  <2>11. CASE RemoveResources
    BY <2>11 DEF RemoveResources
  <2>12. CASE DaemonKill
    BY <2>12 DEF DaemonKill
  <2>13. QED
    BY <1>4, <2>1, <2>2, <2>3, <2>4, <2>5, <2>6, <2>7, <2>8, <2>9, <2>10, <2>11, <2>12 DEF StoreAction, Collect
<1>5. CASE UNCHANGED storeVars
  BY <1>5 DEF storeVars
<1>6. QED
  BY <1>1, <1>2, <1>3, <1>4, <1>5, Steps

LEMMA NextDaemon ==
  ASSUME StoreTypeOK, IdleIsFresh, LiveIsOnTime, DaemonIsRight, ResultsAreKept, [StoreNext]_storeVars
  PROVE  DaemonIsRight'
<1> USE DEF StoreTypeOK, DaemonIsRight, Goto, Ingested, PreLock, Locked, Others, catalog, bounds, Bystanders, Runners
<1>1. ASSUME NEW r \in Runs, RunAction(r) PROVE DaemonIsRight'
  <2>1. CASE Capture(r)
    BY <2>1 DEF Capture
  <2>2. CASE Probe(r)
    BY <2>2 DEF Probe
  <2>3. CASE RenameObject(r)
    BY <2>3 DEF RenameObject
  <2>4. CASE RecordObject(r)
    BY <2>4 DEF RecordObject
  <2>5. CASE WriteLock(r)
    BY <2>5 DEF WriteLock
  <2>6. CASE PreparationFails(r)
    BY <2>6 DEF PreparationFails
  <2>7. CASE PinObjects(r)
    BY <2>7 DEF PinObjects
  <2>8. CASE RecordResolved(r)
    BY <2>8 DEF RecordResolved
  <2>9. CASE AcquireLease(r)
    BY <2>9 DEF AcquireLease
  <2>10. CASE StartJobs(r)
    BY <2>10 DEF StartJobs
  <2>11. CASE EndJobs(r)
    BY <2>11 DEF EndJobs
  <2>12. CASE WriteResult(r)
    BY <2>12 DEF WriteResult
  <2>13. CASE RecordCompleted(r)
    BY <2>13 DEF RecordCompleted
  <2>14. CASE ReleaseLease(r)
    BY <2>14 DEF ReleaseLease
  <2>15. QED
    BY <1>1, <2>1, <2>2, <2>3, <2>4, <2>5, <2>6, <2>7, <2>8, <2>9, <2>10, <2>11, <2>12, <2>13, <2>14 DEF RunAction, RunStep
<1>2. ASSUME NEW r \in Runs, TimeAction(r) PROVE DaemonIsRight'
  <2>1. CASE Heartbeat(r)
    BY <2>1 DEF Heartbeat
  <2>2. CASE Expire(r)
    BY <2>2 DEF Expire
  <2>3. CASE Age(r)
    BY <2>3 DEF Age
  <2>4. CASE Kill(r)
    BY <2>4 DEF Kill
  <2>5. QED
    BY <1>2, <2>1, <2>2, <2>3, <2>4 DEF TimeAction
<1>3. ASSUME NEW r \in Runs, Inspect(r) PROVE DaemonIsRight'
  BY <1>3 DEF Inspect, Interrupted, IdleIsFresh, LiveIsOnTime, Live, ResultsAreKept
<1>4. CASE StoreAction
  <2>1. CASE GcDoctor
    BY <2>1 DEF GcDoctor
  <2>2. CASE GcList
    BY <2>2 DEF GcList
  <2>3. CASE GcUnlink
    BY <2>3 DEF GcUnlink
  <2>4. CASE GcForget
    BY <2>4 DEF GcForget
  <2>5. CASE GcKill
    BY <2>5 DEF GcKill
  <2>6. CASE DaemonStart
    BY <2>6 DEF DaemonStart
  <2>7. CASE WriteAborted
    BY <2>7 DEF WriteAborted
  <2>8. CASE RecordAborted
    BY <2>8 DEF RecordAborted
  <2>9. CASE DaemonDoctor
    BY <2>9 DEF DaemonDoctor
  <2>10. CASE ListTerminal
    BY <2>10 DEF ListTerminal, ResultsAreKept
  <2>11. CASE RemoveResources
    BY <2>11 DEF RemoveResources
  <2>12. CASE DaemonKill
    BY <2>12 DEF DaemonKill
  <2>13. QED
    BY <1>4, <2>1, <2>2, <2>3, <2>4, <2>5, <2>6, <2>7, <2>8, <2>9, <2>10, <2>11, <2>12 DEF StoreAction, Collect
<1>5. CASE UNCHANGED storeVars
  BY <1>5 DEF storeVars
<1>6. QED
  BY <1>1, <1>2, <1>3, <1>4, <1>5, Steps

LEMMA NextResults ==
  ASSUME StoreTypeOK, DaemonIsRight, ResultsAreKept, [StoreNext]_storeVars
  PROVE  ResultsAreKept'
<1> USE DEF StoreTypeOK, ResultsAreKept, Goto, Ingested, PreLock, Locked, Others, catalog, bounds, Bystanders, Runners
<1>1. ASSUME NEW r \in Runs, RunAction(r) PROVE ResultsAreKept'
  <2>1. CASE Capture(r)
    BY <2>1 DEF Capture
  <2>2. CASE Probe(r)
    BY <2>2 DEF Probe
  <2>3. CASE RenameObject(r)
    BY <2>3 DEF RenameObject
  <2>4. CASE RecordObject(r)
    BY <2>4 DEF RecordObject
  <2>5. CASE WriteLock(r)
    BY <2>5 DEF WriteLock
  <2>6. CASE PreparationFails(r)
    BY <2>6 DEF PreparationFails
  <2>7. CASE PinObjects(r)
    BY <2>7 DEF PinObjects
  <2>8. CASE RecordResolved(r)
    BY <2>8 DEF RecordResolved
  <2>9. CASE AcquireLease(r)
    BY <2>9 DEF AcquireLease
  <2>10. CASE StartJobs(r)
    BY <2>10 DEF StartJobs
  <2>11. CASE EndJobs(r)
    BY <2>11 DEF EndJobs
  <2>12. CASE WriteResult(r)
    BY <2>12 DEF WriteResult
  <2>13. CASE RecordCompleted(r)
    BY <2>13 DEF RecordCompleted
  <2>14. CASE ReleaseLease(r)
    BY <2>14 DEF ReleaseLease
  <2>15. QED
    BY <1>1, <2>1, <2>2, <2>3, <2>4, <2>5, <2>6, <2>7, <2>8, <2>9, <2>10, <2>11, <2>12, <2>13, <2>14 DEF RunAction, RunStep
<1>2. ASSUME NEW r \in Runs, TimeAction(r) PROVE ResultsAreKept'
  <2>1. CASE Heartbeat(r)
    BY <2>1 DEF Heartbeat
  <2>2. CASE Expire(r)
    BY <2>2 DEF Expire
  <2>3. CASE Age(r)
    BY <2>3 DEF Age
  <2>4. CASE Kill(r)
    BY <2>4 DEF Kill
  <2>5. QED
    BY <1>2, <2>1, <2>2, <2>3, <2>4 DEF TimeAction
<1>3. ASSUME NEW r \in Runs, Inspect(r) PROVE ResultsAreKept'
  BY <1>3 DEF Inspect
<1>4. CASE StoreAction
  <2>1. CASE GcDoctor
    BY <2>1 DEF GcDoctor
  <2>2. CASE GcList
    BY <2>2 DEF GcList
  <2>3. CASE GcUnlink
    BY <2>3 DEF GcUnlink
  <2>4. CASE GcForget
    BY <2>4 DEF GcForget
  <2>5. CASE GcKill
    BY <2>5 DEF GcKill
  <2>6. CASE DaemonStart
    BY <2>6 DEF DaemonStart
  <2>7. CASE WriteAborted
    BY <2>7 DEF WriteAborted, DaemonIsRight
  <2>8. CASE RecordAborted
    BY <2>8 DEF RecordAborted, DaemonIsRight
  <2>9. CASE DaemonDoctor
    BY <2>9 DEF DaemonDoctor
  <2>10. CASE ListTerminal
    BY <2>10 DEF ListTerminal
  <2>11. CASE RemoveResources
    BY <2>11 DEF RemoveResources, DaemonIsRight
  <2>12. CASE DaemonKill
    BY <2>12 DEF DaemonKill
  <2>13. QED
    BY <1>4, <2>1, <2>2, <2>3, <2>4, <2>5, <2>6, <2>7, <2>8, <2>9, <2>10, <2>11, <2>12 DEF StoreAction, Collect
<1>5. CASE UNCHANGED storeVars
  BY <1>5 DEF storeVars
<1>6. QED
  BY <1>1, <1>2, <1>3, <1>4, <1>5, Steps

LEMMA NextPinned ==
  ASSUME StoreTypeOK, PinnedRuns, [StoreNext]_storeVars
  PROVE  PinnedRuns'
<1> USE DEF StoreTypeOK, PinnedRuns, Goto, Ingested, Pinned, PreLock, Locked, Others, catalog, bounds, Bystanders, Runners
<1>1. ASSUME NEW r \in Runs, RunAction(r) PROVE PinnedRuns'
  <2>1. CASE Capture(r)
    BY <2>1 DEF Capture
  <2>2. CASE Probe(r)
    BY <2>2 DEF Probe
  <2>3. CASE RenameObject(r)
    BY <2>3 DEF RenameObject
  <2>4. CASE RecordObject(r)
    BY <2>4 DEF RecordObject
  <2>5. CASE WriteLock(r)
    BY <2>5 DEF WriteLock
  <2>6. CASE PreparationFails(r)
    BY <2>6 DEF PreparationFails
  <2>7. CASE PinObjects(r)
    BY <2>7 DEF PinObjects
  <2>8. CASE RecordResolved(r)
    BY <2>8 DEF RecordResolved
  <2>9. CASE AcquireLease(r)
    BY <2>9 DEF AcquireLease
  <2>10. CASE StartJobs(r)
    BY <2>10 DEF StartJobs
  <2>11. CASE EndJobs(r)
    BY <2>11 DEF EndJobs
  <2>12. CASE WriteResult(r)
    BY <2>12 DEF WriteResult
  <2>13. CASE RecordCompleted(r)
    BY <2>13 DEF RecordCompleted
  <2>14. CASE ReleaseLease(r)
    BY <2>14 DEF ReleaseLease
  <2>15. QED
    BY <1>1, <2>1, <2>2, <2>3, <2>4, <2>5, <2>6, <2>7, <2>8, <2>9, <2>10, <2>11, <2>12, <2>13, <2>14 DEF RunAction, RunStep
<1>2. ASSUME NEW r \in Runs, TimeAction(r) PROVE PinnedRuns'
  <2>1. CASE Heartbeat(r)
    BY <2>1 DEF Heartbeat
  <2>2. CASE Expire(r)
    BY <2>2 DEF Expire
  <2>3. CASE Age(r)
    BY <2>3 DEF Age
  <2>4. CASE Kill(r)
    BY <2>4 DEF Kill
  <2>5. QED
    BY <1>2, <2>1, <2>2, <2>3, <2>4 DEF TimeAction
<1>3. ASSUME NEW r \in Runs, Inspect(r) PROVE PinnedRuns'
  BY <1>3 DEF Inspect
<1>4. CASE StoreAction
  <2>1. CASE GcDoctor
    BY <2>1 DEF GcDoctor
  <2>2. CASE GcList
    BY <2>2 DEF GcList
  <2>3. CASE GcUnlink
    BY <2>3 DEF GcUnlink
  <2>4. CASE GcForget
    BY <2>4 DEF GcForget
  <2>5. CASE GcKill
    BY <2>5 DEF GcKill
  <2>6. CASE DaemonStart
    BY <2>6 DEF DaemonStart
  <2>7. CASE WriteAborted
    BY <2>7 DEF WriteAborted
  <2>8. CASE RecordAborted
    BY <2>8 DEF RecordAborted
  <2>9. CASE DaemonDoctor
    BY <2>9 DEF DaemonDoctor
  <2>10. CASE ListTerminal
    BY <2>10 DEF ListTerminal
  <2>11. CASE RemoveResources
    BY <2>11 DEF RemoveResources
  <2>12. CASE DaemonKill
    BY <2>12 DEF DaemonKill
  <2>13. QED
    BY <1>4, <2>1, <2>2, <2>3, <2>4, <2>5, <2>6, <2>7, <2>8, <2>9, <2>10, <2>11, <2>12 DEF StoreAction, Collect
<1>5. CASE UNCHANGED storeVars
  BY <1>5 DEF storeVars
<1>6. QED
  BY <1>1, <1>2, <1>3, <1>4, <1>5, Steps

LEMMA NextAlone ==
  ASSUME StoreTypeOK, PinnedRuns, CollectorIsAlone, ~exposed', [StoreNext]_storeVars
  PROVE  CollectorIsAlone'
<1> USE DEF StoreTypeOK, CollectorIsAlone, Goto, Ingested, Pinned, PreLock, Locked, Others, catalog, bounds, Bystanders, Runners
<1>1. ASSUME NEW r \in Runs, RunAction(r) PROVE CollectorIsAlone'
  <2>1. CASE Capture(r)
    BY <2>1 DEF Capture
  <2>2. CASE Probe(r)
    BY <2>2 DEF Probe
  <2>3. CASE RenameObject(r)
    BY <2>3 DEF RenameObject
  <2>4. CASE RecordObject(r)
    BY <2>4 DEF RecordObject
  <2>5. CASE WriteLock(r)
    BY <2>5 DEF WriteLock
  <2>6. CASE PreparationFails(r)
    BY <2>6 DEF PreparationFails
  <2>7. CASE PinObjects(r)
    BY <2>7 DEF PinObjects
  <2>8. CASE RecordResolved(r)
    BY <2>8 DEF RecordResolved
  <2>9. CASE AcquireLease(r)
    BY <2>9 DEF AcquireLease
  <2>10. CASE StartJobs(r)
    BY <2>10 DEF StartJobs
  <2>11. CASE EndJobs(r)
    BY <2>11 DEF EndJobs
  <2>12. CASE WriteResult(r)
    BY <2>12 DEF WriteResult
  <2>13. CASE RecordCompleted(r)
    BY <2>13 DEF RecordCompleted
  <2>14. CASE ReleaseLease(r)
    BY <2>14 DEF ReleaseLease
  <2>15. QED
    BY <1>1, <2>1, <2>2, <2>3, <2>4, <2>5, <2>6, <2>7, <2>8, <2>9, <2>10, <2>11, <2>12, <2>13, <2>14 DEF RunAction, RunStep
<1>2. ASSUME NEW r \in Runs, TimeAction(r) PROVE CollectorIsAlone'
  <2>1. CASE Heartbeat(r)
    BY <2>1 DEF Heartbeat
  <2>2. CASE Expire(r)
    BY <2>2 DEF Expire
  <2>3. CASE Age(r)
    BY <2>3 DEF Age
  <2>4. CASE Kill(r)
    BY <2>4 DEF Kill
  <2>5. QED
    BY <1>2, <2>1, <2>2, <2>3, <2>4 DEF TimeAction
<1>3. ASSUME NEW r \in Runs, Inspect(r) PROVE CollectorIsAlone'
  BY <1>3 DEF Inspect
<1>4. CASE StoreAction
  <2>1. CASE GcDoctor
    BY <2>1 DEF GcDoctor
  <2>2. CASE GcList
    BY <2>2 DEF GcList, PinnedRuns, Reclaimable
  <2>3. CASE GcUnlink
    BY <2>3 DEF GcUnlink
  <2>4. CASE GcForget
    BY <2>4 DEF GcForget
  <2>5. CASE GcKill
    BY <2>5 DEF GcKill
  <2>6. CASE DaemonStart
    BY <2>6 DEF DaemonStart
  <2>7. CASE WriteAborted
    BY <2>7 DEF WriteAborted
  <2>8. CASE RecordAborted
    BY <2>8 DEF RecordAborted
  <2>9. CASE DaemonDoctor
    BY <2>9 DEF DaemonDoctor
  <2>10. CASE ListTerminal
    BY <2>10 DEF ListTerminal
  <2>11. CASE RemoveResources
    BY <2>11 DEF RemoveResources
  <2>12. CASE DaemonKill
    BY <2>12 DEF DaemonKill
  <2>13. QED
    BY <1>4, <2>1, <2>2, <2>3, <2>4, <2>5, <2>6, <2>7, <2>8, <2>9, <2>10, <2>11, <2>12 DEF StoreAction, Collect
<1>5. CASE UNCHANGED storeVars
  BY <1>5 DEF storeVars
<1>6. QED
  BY <1>1, <1>2, <1>3, <1>4, <1>5, Steps

LEMMA NextContent ==
  ASSUME StoreTypeOK, CollectorIsAlone, ContentIsThere, [StoreNext]_storeVars
  PROVE  ContentIsThere'
<1> USE DEF StoreTypeOK, ContentIsThere, Using, Goto, Ingested, Pinned, PreLock, Locked, Others, catalog, bounds, Bystanders, Runners
<1>1. ASSUME NEW r \in Runs, RunAction(r) PROVE ContentIsThere'
  <2>1. CASE Capture(r)
    BY <2>1 DEF Capture
  <2>2. CASE Probe(r)
    BY <2>2 DEF Probe
  <2>3. CASE RenameObject(r)
    BY <2>3 DEF RenameObject
  <2>4. CASE RecordObject(r)
    BY <2>4 DEF RecordObject
  <2>5. CASE WriteLock(r)
    BY <2>5 DEF WriteLock
  <2>6. CASE PreparationFails(r)
    BY <2>6 DEF PreparationFails
  <2>7. CASE PinObjects(r)
    BY <2>7 DEF PinObjects
  <2>8. CASE RecordResolved(r)
    BY <2>8 DEF RecordResolved
  <2>9. CASE AcquireLease(r)
    BY <2>9 DEF AcquireLease
  <2>10. CASE StartJobs(r)
    BY <2>10 DEF StartJobs
  <2>11. CASE EndJobs(r)
    BY <2>11 DEF EndJobs
  <2>12. CASE WriteResult(r)
    BY <2>12 DEF WriteResult
  <2>13. CASE RecordCompleted(r)
    BY <2>13 DEF RecordCompleted
  <2>14. CASE ReleaseLease(r)
    BY <2>14 DEF ReleaseLease
  <2>15. QED
    BY <1>1, <2>1, <2>2, <2>3, <2>4, <2>5, <2>6, <2>7, <2>8, <2>9, <2>10, <2>11, <2>12, <2>13, <2>14 DEF RunAction, RunStep
<1>2. ASSUME NEW r \in Runs, TimeAction(r) PROVE ContentIsThere'
  <2>1. CASE Heartbeat(r)
    BY <2>1 DEF Heartbeat
  <2>2. CASE Expire(r)
    BY <2>2 DEF Expire
  <2>3. CASE Age(r)
    BY <2>3 DEF Age
  <2>4. CASE Kill(r)
    BY <2>4 DEF Kill
  <2>5. QED
    BY <1>2, <2>1, <2>2, <2>3, <2>4 DEF TimeAction
<1>3. ASSUME NEW r \in Runs, Inspect(r) PROVE ContentIsThere'
  BY <1>3 DEF Inspect
<1>4. CASE StoreAction
  <2>1. CASE GcDoctor
    BY <2>1 DEF GcDoctor
  <2>2. CASE GcList
    BY <2>2 DEF GcList
  <2>3. CASE GcUnlink
    BY <2>3 DEF GcUnlink, CollectorIsAlone
  <2>4. CASE GcForget
    BY <2>4 DEF GcForget
  <2>5. CASE GcKill
    BY <2>5 DEF GcKill
  <2>6. CASE DaemonStart
    BY <2>6 DEF DaemonStart
  <2>7. CASE WriteAborted
    BY <2>7 DEF WriteAborted
  <2>8. CASE RecordAborted
    BY <2>8 DEF RecordAborted
  <2>9. CASE DaemonDoctor
    BY <2>9 DEF DaemonDoctor
  <2>10. CASE ListTerminal
    BY <2>10 DEF ListTerminal
  <2>11. CASE RemoveResources
    BY <2>11 DEF RemoveResources
  <2>12. CASE DaemonKill
    BY <2>12 DEF DaemonKill
  <2>13. QED
    BY <1>4, <2>1, <2>2, <2>3, <2>4, <2>5, <2>6, <2>7, <2>8, <2>9, <2>10, <2>11, <2>12 DEF StoreAction, Collect
<1>5. CASE UNCHANGED storeVars
  BY <1>5 DEF storeVars
<1>6. QED
  BY <1>1, <1>2, <1>3, <1>4, <1>5, Steps

LEMMA NextFollows ==
  ASSUME BoundIsNatural, StoreTypeOK, CollectorIsAlone, ContentIsThere, CatalogFollows, kills' = 0, [StoreNext]_storeVars
  PROVE  CatalogFollows'
<1> USE DEF StoreTypeOK, BoundIsNatural, CatalogFollows, Goto, Ingested, Pinned, PreLock, Locked, Others, catalog, bounds, Bystanders, Runners
<1>1. ASSUME NEW r \in Runs, RunAction(r) PROVE CatalogFollows'
  <2>1. CASE Capture(r)
    BY <2>1 DEF Capture
  <2>2. CASE Probe(r)
    BY <2>2 DEF Probe
  <2>3. CASE RenameObject(r)
    BY <2>3 DEF RenameObject, CollectorIsAlone
  <2>4. CASE RecordObject(r)
    BY <2>4 DEF RecordObject, ContentIsThere, CollectorIsAlone, Using
  <2>5. CASE WriteLock(r)
    BY <2>5 DEF WriteLock
  <2>6. CASE PreparationFails(r)
    BY <2>6 DEF PreparationFails
  <2>7. CASE PinObjects(r)
    BY <2>7 DEF PinObjects
  <2>8. CASE RecordResolved(r)
    BY <2>8 DEF RecordResolved
  <2>9. CASE AcquireLease(r)
    BY <2>9 DEF AcquireLease
  <2>10. CASE StartJobs(r)
    BY <2>10 DEF StartJobs
  <2>11. CASE EndJobs(r)
    BY <2>11 DEF EndJobs
  <2>12. CASE WriteResult(r)
    BY <2>12 DEF WriteResult
  <2>13. CASE RecordCompleted(r)
    BY <2>13 DEF RecordCompleted
  <2>14. CASE ReleaseLease(r)
    BY <2>14 DEF ReleaseLease
  <2>15. QED
    BY <1>1, <2>1, <2>2, <2>3, <2>4, <2>5, <2>6, <2>7, <2>8, <2>9, <2>10, <2>11, <2>12, <2>13, <2>14 DEF RunAction, RunStep
<1>2. ASSUME NEW r \in Runs, TimeAction(r) PROVE CatalogFollows'
  <2>1. CASE Heartbeat(r)
    BY <2>1 DEF Heartbeat
  <2>2. CASE Expire(r)
    BY <2>2 DEF Expire
  <2>3. CASE Age(r)
    BY <2>3 DEF Age
  <2>4. CASE Kill(r)
    BY <2>4 DEF Kill
  <2>5. QED
    BY <1>2, <2>1, <2>2, <2>3, <2>4 DEF TimeAction
<1>3. ASSUME NEW r \in Runs, Inspect(r) PROVE CatalogFollows'
  BY <1>3 DEF Inspect
<1>4. CASE StoreAction
  <2>1. CASE GcDoctor
    BY <2>1 DEF GcDoctor, Consistent
  <2>2. CASE GcList
    BY <2>2 DEF GcList, Reclaimable
  <2>3. CASE GcUnlink
    BY <2>3 DEF GcUnlink
  <2>4. CASE GcForget
    BY <2>4 DEF GcForget
  <2>5. CASE GcKill
    BY <2>5 DEF GcKill
  <2>6. CASE DaemonStart
    BY <2>6 DEF DaemonStart
  <2>7. CASE WriteAborted
    BY <2>7 DEF WriteAborted
  <2>8. CASE RecordAborted
    BY <2>8 DEF RecordAborted
  <2>9. CASE DaemonDoctor
    BY <2>9 DEF DaemonDoctor
  <2>10. CASE ListTerminal
    BY <2>10 DEF ListTerminal
  <2>11. CASE RemoveResources
    BY <2>11 DEF RemoveResources
  <2>12. CASE DaemonKill
    BY <2>12 DEF DaemonKill
  <2>13. QED
    BY <1>4, <2>1, <2>2, <2>3, <2>4, <2>5, <2>6, <2>7, <2>8, <2>9, <2>10, <2>11, <2>12 DEF StoreAction, Collect
<1>5. CASE UNCHANGED storeVars
  BY <1>5 DEF storeVars
<1>6. QED
  BY <1>1, <1>2, <1>3, <1>4, <1>5, Steps

-----------------------------------------------------------------------------
LEMMA InitIInv == ASSUME BoundIsNatural, StoreInit PROVE IInv
<1> USE DEF StoreInit
<1>1. StoreTypeOK
  <2>1. file \in BOOLEAN /\ row \in BOOLEAN /\ exposed \in BOOLEAN
    OBVIOUS
  <2>2. QED
    BY <2>1 DEF StoreTypeOK, BoundIsNatural
<1>2. IdleIsFresh /\ RecoveryInv
  BY DEF IdleIsFresh, RecoveryInv, LiveIsOnTime, Live, DaemonIsRight, ResultsAreKept
<1>3. PinnedRuns /\ CollectionInv
  BY DEF PinnedRuns, Pinned, CollectionInv, CollectorIsAlone, ContentIsThere, Using, CatalogFollows
<1>4. QED
  BY <1>1, <1>2, <1>3 DEF IInv

LEMMA NextIInv == ASSUME BoundIsNatural, IInv, [StoreNext]_storeVars PROVE IInv'
<1> USE DEF IInv
<1>1. StoreTypeOK' /\ IdleIsFresh' /\ PinnedRuns'
  BY NextTypeOK, NextIdle, NextPinned
<1>2. RecoveryInv'
  <2> SUFFICES ASSUME Punctual' PROVE LiveIsOnTime' /\ DaemonIsRight' /\ ResultsAreKept'
    BY DEF RecoveryInv
  <2>1. Punctual /\ LiveIsOnTime /\ DaemonIsRight /\ ResultsAreKept
    BY Monotone DEF RecoveryInv
  <2>2. QED
    BY <2>1, NextOnTime, NextDaemon, NextResults
<1>3. CollectionInv'
  <2> SUFFICES ASSUME ~exposed'
               PROVE  CollectorIsAlone' /\ ContentIsThere' /\ (kills' = 0 => CatalogFollows')
    BY DEF CollectionInv
  <2>1. CollectorIsAlone /\ ContentIsThere /\ (kills' = 0 => CatalogFollows)
    BY Monotone DEF CollectionInv
  <2>2. QED
    BY <2>1, NextAlone, NextContent, NextFollows
<1>4. QED
  BY <1>1, <1>2, <1>3

LEMMA SpecIInv == ASSUME BoundIsNatural PROVE StoreSpec => []IInv
  BY InitIInv, NextIInv, PTL DEF StoreSpec

(* As long as no live run was late, the daemon's recovery changes neither  *)
(* the result nor the state of a run that ended by itself and removes      *)
(* nothing from a run that is executing jobs, whoever is killed when.      *)
THEOREM RecoverySafe == ASSUME BoundIsNatural PROVE StoreSpec => []RecoveryIsSafe
<1>1. IInv => RecoveryIsSafe
  BY DEF IInv, RecoveryInv, ResultsAreKept, RecoveryIsSafe, EndedRunKeepsResult, ReconcileSparesLive
<1>2. QED
  BY <1>1, SpecIInv, PTL

(* The source a run has locked stays in the store, and collections leave a *)
(* catalog on which the next one can start.                                *)
THEOREM ContentSurvives == ASSUME BoundIsNatural PROVE StoreSpec => []LockedContentSurvives
<1>1. ASSUME IInv PROVE LockedContentSurvives
  <2>1. LockedContentStays
    BY <1>1 DEF IInv, CollectionInv, ContentIsThere, Using, Pinned, Locked, LockedContentStays
  <2>2. CollectionStaysPossible
    <3> SUFFICES ASSUME kills = 0, ~exposed, gc = "idle", \A r \in Runs : pc[r] \in {"idle", "done"}
                 PROVE  Consistent
      BY DEF CollectionStaysPossible
    <3>1. ContentIsThere /\ CatalogFollows
      BY <1>1 DEF IInv, CollectionInv
    <3>2. QED
      BY <3>1 DEF ContentIsThere, CatalogFollows, Consistent
  <2>3. QED
    BY <2>1, <2>2 DEF LockedContentSurvives
<1>2. QED
  BY <1>1, SpecIInv, PTL
=============================================================================
