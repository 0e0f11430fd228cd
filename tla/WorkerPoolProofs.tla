-------------------------- MODULE WorkerPoolProofs --------------------------
(***************************************************************************)
(* Worker admission for any number of runs, jobs and slots.  A scan locks  *)
(* one slot file at a time and a process may die at any step, so that a    *)
(* slot has one owner rests on a job never scanning while it holds one     *)
(* (OwnersHold); that a run leaves a slot rests on the permits of its      *)
(* semaphore, which bound the slots it holds because each slot belongs to  *)
(* a different permit (PermitsBounded).                                    *)
(***************************************************************************)
EXTENDS WorkerPool, FiniteSetTheorems, FunctionTheorems, TLAPS

(* The owner of a slot has returned from acquire.                          *)
OwnersHold == \A s \in SlotIds : held[s] # Nobody => pc[held[s]] = "held"

(* The semaphore of a run has one permit fewer than there are slots.       *)
PermitsBounded ==
  \A r \in Runs : IsFiniteSet(Permits(r)) /\ Cardinality(Permits(r)) <= PerRunWorkers

IInv == PoolTypeOK /\ HoldersOwnSlots /\ OwnersHold /\ PermitsBounded

-----------------------------------------------------------------------------
(* A step that takes permits of r or leaves them alone keeps the bound.    *)
LEMMA FewerPermits ==
  ASSUME PoolAssumption, PermitsBounded,
         \A r \in Runs : Permits(r)' \subseteq Permits(r)
  PROVE  PermitsBounded'
<1> SUFFICES ASSUME NEW r \in Runs
             PROVE  IsFiniteSet(Permits(r)') /\ Cardinality(Permits(r)') <= PerRunWorkers
  BY DEF PermitsBounded, PerRunWorkers
<1>1. IsFiniteSet(Permits(r)) /\ Cardinality(Permits(r)) <= PerRunWorkers
  BY DEF PermitsBounded
<1>2. /\ IsFiniteSet(Permits(r)')
      /\ Cardinality(Permits(r)') <= Cardinality(Permits(r))
  BY <1>1, FS_Subset
<1>3. Cardinality(Permits(r)) \in Nat /\ Cardinality(Permits(r)') \in Nat
  BY <1>1, <1>2, FS_CardinalityType
<1>4. PerRunWorkers \in Int
  BY DEF PoolAssumption, PerRunWorkers
<1>5. QED
  BY <1>1, <1>2, <1>3, <1>4

LEMMA InitIInv == ASSUME PoolAssumption, PoolInit PROVE IInv
<1> USE DEF PoolAssumption, PoolInit, Nobody, SlotIds
<1>1. PoolTypeOK
  BY DEF PoolTypeOK
<1>2. HoldersOwnSlots /\ OwnersHold
  BY DEF HoldersOwnSlots, OwnersHold
<1>3. PermitsBounded
  <2>1. ASSUME NEW r \in Runs PROVE Permits(r) = {}
    BY DEF Permits
  <2>2. 0 <= PerRunWorkers
    BY DEF PerRunWorkers
  <2>3. QED
    BY <2>1, <2>2, FS_EmptySet DEF PermitsBounded
<1>4. QED
  BY <1>1, <1>2, <1>3 DEF IInv

LEMMA BeginIInv ==
  ASSUME PoolAssumption, IInv, NEW j \in Jobs, Begin(j) PROVE IInv'
<1> USE DEF PoolAssumption, IInv, Begin
<1>1. PoolTypeOK'
  BY DEF PoolTypeOK, SlotIds
<1>2. HoldersOwnSlots' /\ OwnersHold'
  BY DEF PoolTypeOK, HoldersOwnSlots, OwnersHold, Alive, Nobody, SlotIds
<1>3. PermitsBounded'
  <2> SUFFICES ASSUME NEW r \in Runs
               PROVE  IsFiniteSet(Permits(r)') /\ Cardinality(Permits(r)') <= PerRunWorkers
    BY DEF PermitsBounded, PerRunWorkers
  <2>1. IsFiniteSet(Permits(r)) /\ Cardinality(Permits(r)) <= PerRunWorkers
    BY DEF PermitsBounded
  <2>2. CASE r = RunOf[j]
    <3>1. Permits(r)' = Permits(r) \cup {j} /\ j \notin Permits(r)
      BY <2>2 DEF Permits, PoolTypeOK
    <3>2. /\ IsFiniteSet(Permits(r)')
          /\ Cardinality(Permits(r)') = Cardinality(Permits(r)) + 1
      BY <2>1, <3>1, FS_AddElement
    <3>3. Cardinality(Permits(r)) \in Nat /\ Cardinality(Permits(r)) < PerRunWorkers
      BY <2>1, <2>2, FS_CardinalityType
    <3>4. QED
      BY <3>2, <3>3 DEF PerRunWorkers
  <2>3. CASE r # RunOf[j]
    <3>1. Permits(r)' = Permits(r)
      BY <2>3 DEF Permits, PoolTypeOK
    <3>2. QED
      BY <2>1, <3>1
  <2>4. QED
    BY <2>2, <2>3
<1>4. QED
  BY <1>1, <1>2, <1>3

LEMMA TryLockIInv ==
  ASSUME PoolAssumption, IInv, NEW j \in Jobs, TryLock(j) PROVE IInv'
<1> USE DEF PoolAssumption, IInv, TryLock
<1>1. Candidate(j) \in SlotIds
  BY DEF Candidate, PoolTypeOK, SlotIds
<1>2. CASE held[Candidate(j)] = Nobody
  <2>1. PoolTypeOK'
    BY <1>1, <1>2 DEF PoolTypeOK
  <2>2. \A s \in SlotIds : held[s] # j
    BY DEF OwnersHold, Nobody
  <2>3. HoldersOwnSlots' /\ OwnersHold'
    BY <1>1, <1>2, <2>2 DEF PoolTypeOK, HoldersOwnSlots, OwnersHold, Alive, Nobody
  <2>4. \A r \in Runs : Permits(r)' \subseteq Permits(r)
    BY <1>2 DEF Permits, PoolTypeOK
  <2>5. QED
    BY <2>1, <2>3, <2>4, FewerPermits
<1>3. CASE held[Candidate(j)] # Nobody
  <2>0. offset' = [offset EXCEPT ![j] = offset[j] + 1] /\ offset[j] + 1 \in 0..Slots
    BY <1>3 DEF PoolTypeOK
  <2>1. PoolTypeOK'
    BY <1>3, <2>0 DEF PoolTypeOK
  <2>2. HoldersOwnSlots' /\ OwnersHold'
    BY <1>3 DEF HoldersOwnSlots, OwnersHold, Alive
  <2>3. \A r \in Runs : Permits(r)' \subseteq Permits(r)
    BY <1>3 DEF Permits
  <2>4. QED
    BY <2>1, <2>2, <2>3, FewerPermits
<1>4. QED
  BY <1>2, <1>3

(* A job that holds no slot moves on, and takes no permit.                 *)
LEMMA WaitIInv ==
  ASSUME PoolAssumption, IInv, NEW j \in Jobs,
         NEW label \in {"scan", "sleep", "gone"},
         pc[j] \in {"scan", "sleep"}, pc' = [pc EXCEPT ![j] = label],
         offset' = offset \/ offset' = [offset EXCEPT ![j] = 0],
         UNCHANGED <<held, start, next, dead>>
  PROVE  IInv'
<1> USE DEF PoolAssumption, IInv
<1>1. PoolTypeOK'
  BY DEF PoolTypeOK, SlotIds
<1>2. HoldersOwnSlots' /\ OwnersHold'
  BY DEF PoolTypeOK, HoldersOwnSlots, OwnersHold, Alive, Nobody
<1>3. \A r \in Runs : Permits(r)' \subseteq Permits(r)
  BY DEF Permits, PoolTypeOK
<1>4. QED
  BY <1>1, <1>2, <1>3, FewerPermits

LEMMA ReleaseIInv ==
  ASSUME PoolAssumption, IInv, NEW j \in Jobs, Release(j) PROVE IInv'
<1> USE DEF PoolAssumption, IInv, Release
<1>1. PoolTypeOK'
  BY DEF PoolTypeOK
<1>2. HoldersOwnSlots' /\ OwnersHold'
  BY DEF PoolTypeOK, HoldersOwnSlots, OwnersHold, Alive, Nobody
<1>3. \A r \in Runs : Permits(r)' \subseteq Permits(r)
  BY DEF Permits, PoolTypeOK
<1>4. QED
  BY <1>1, <1>2, <1>3, FewerPermits

LEMMA CrashIInv ==
  ASSUME PoolAssumption, IInv, NEW q \in Runs, Crash(q) PROVE IInv'
<1> USE DEF PoolAssumption, IInv, Crash
<1>1. PoolTypeOK'
  BY DEF PoolTypeOK
<1>2. \A s \in SlotIds : held'[s] # Nobody => held'[s] = held[s] /\ RunOf[held[s]] # q
  BY DEF PoolTypeOK, HeldBy, Nobody
<1>3. \A s \in SlotIds : held[s] # Nobody /\ RunOf[held[s]] # q => held'[s] = held[s]
  BY DEF PoolTypeOK, HeldBy, Nobody
<1>4. HoldersOwnSlots' /\ OwnersHold'
  BY <1>2, <1>3 DEF PoolTypeOK, HoldersOwnSlots, OwnersHold, Alive, Nobody
<1>5. \A r \in Runs : Permits(r)' \subseteq Permits(r)
  BY DEF Permits
<1>6. QED
  BY <1>1, <1>4, <1>5, FewerPermits

LEMMA NextIInv == ASSUME PoolAssumption, IInv, [PoolNext]_poolVars PROVE IInv'
<1>1. CASE UNCHANGED poolVars
  <2>1. \A r \in Runs : Permits(r)' \subseteq Permits(r)
    BY <1>1 DEF poolVars, Permits
  <2>2. PermitsBounded'
    BY <2>1, FewerPermits DEF IInv
  <2>3. QED
    BY <1>1, <2>2 DEF poolVars, IInv, PoolTypeOK, HoldersOwnSlots, OwnersHold, Alive
<1>2. ASSUME NEW j \in Jobs, Begin(j) \/ TryLock(j) \/ ScanFails(j) \/ Retry(j)
                             \/ CancelWait(j) \/ ScanError(j) \/ Release(j)
      PROVE  IInv'
  <2>1. CASE ScanFails(j) \/ Retry(j) \/ CancelWait(j) \/ ScanError(j)
    BY <2>1, WaitIInv DEF ScanFails, Retry, CancelWait, ScanError
  <2>2. QED
    BY <1>2, <2>1, BeginIInv, TryLockIInv, ReleaseIInv
<1>3. ASSUME NEW r \in Runs, Crash(r) PROVE IInv'
  BY <1>3, CrashIInv
<1>4. QED
  BY <1>1, <1>2, <1>3 DEF PoolNext

-----------------------------------------------------------------------------
(* Each slot of a run belongs to another of its permits.                   *)
LEMMA SlotsWithinPermits ==
  ASSUME PoolAssumption, IInv PROVE RunLeavesOneSlot
<1> SUFFICES ASSUME NEW r \in Runs PROVE Cardinality(HeldBy(r)) < Slots
  BY DEF RunLeavesOneSlot
<1> DEFINE owner == [s \in HeldBy(r) |-> held[s]]
<1>1. owner \in [HeldBy(r) -> Permits(r)]
  BY DEF IInv, PoolTypeOK, OwnersHold, HeldBy, Permits, Nobody
<1>2. \A s, t \in HeldBy(r) : owner[s] = owner[t] => s = t
  BY DEF IInv, HoldersOwnSlots, HeldBy
<1>3. owner \in Injection(HeldBy(r), Permits(r))
  BY <1>1, <1>2, Fun_IsInj
<1>4. IsFiniteSet(Permits(r)) /\ Cardinality(Permits(r)) <= PerRunWorkers
  BY DEF IInv, PermitsBounded
<1>5. IsFiniteSet(HeldBy(r)) /\ Cardinality(HeldBy(r)) <= Cardinality(Permits(r))
  BY <1>3, <1>4, FS_Injection
<1>6. Cardinality(HeldBy(r)) \in Nat /\ Cardinality(Permits(r)) \in Nat
  BY <1>4, <1>5, FS_CardinalityType
<1>7. QED
  BY <1>4, <1>5, <1>6 DEF PerRunWorkers, PoolAssumption

\* Admission across processes: whatever interleaving of scans, releases and
\* deaths, a slot file has one owner, which is alive and knows it, and no run
\* takes all slots of the machine (worker_pool.rs, scheduler.rs).
THEOREM SlotsShared == ASSUME PoolAssumption PROVE PoolSpec => []SlotsAreShared
<1>1. PoolInit => IInv
  BY InitIInv
<1>2. IInv /\ [PoolNext]_poolVars => IInv'
  BY NextIInv
<1>3. IInv => SlotsAreShared
  BY SlotsWithinPermits DEF IInv, SlotsAreShared
<1>4. QED
  BY <1>1, <1>2, <1>3, PTL DEF PoolSpec
=============================================================================
