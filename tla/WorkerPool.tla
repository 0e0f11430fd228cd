----------------------------- MODULE WorkerPool -----------------------------
(***************************************************************************)
(* Machine-wide worker admission (executor/worker_pool.rs) by runs in      *)
(* separate processes.  A slot is a file; holding it is holding the        *)
(* kernel's exclusive flock on it.  `acquire` scans all slots from a       *)
(* rotating start, one non-blocking flock at a time, and after a scan      *)
(* without success sleeps and scans again.  The kernel frees the locks of  *)
(* a process that dies.  Inside a run the worker semaphore of the          *)
(* scheduler admits one fewer leg than there are slots.                    *)
(***************************************************************************)
EXTENDS Naturals, FiniteSets

CONSTANTS
  Runs,      \* processes
  Jobs,      \* legs that want a slot
  RunOf,     \* the run of a job
  Slots      \* machine workers: available_parallelism, at least 2

PoolAssumption ==
  /\ RunOf \in [Jobs -> Runs]
  /\ Slots \in Nat /\ Slots >= 2
  /\ "nobody" \notin Jobs

VARIABLES
  held,    \* slot: the job that has its flock, or Nobody
  pc,      \* job: "queued" (no worker permit), "scan", "sleep", "held", "gone"
  start,   \* where the job's scans begin
  offset,  \* the next offset of the current scan
  next,    \* a run's NEXT_SLOT
  dead     \* runs whose process crashed

poolVars == <<held, pc, start, offset, next, dead>>

Nobody == "nobody"
SlotIds == 0..(Slots - 1)
PerRunWorkers == Slots - 1
Permits(r) == {j \in Jobs : RunOf[j] = r /\ pc[j] \in {"scan", "sleep", "held"}}
HeldBy(r) == {s \in SlotIds : held[s] # Nobody /\ RunOf[held[s]] = r}

PoolTypeOK ==
  /\ held \in [SlotIds -> Jobs \cup {Nobody}]
  /\ pc \in [Jobs -> {"queued", "scan", "sleep", "held", "gone"}]
  /\ start \in [Jobs -> SlotIds]
  /\ offset \in [Jobs -> 0..Slots]
  /\ next \in [Runs -> SlotIds]
  /\ dead \subseteq Runs

PoolInit ==
  /\ held = [s \in SlotIds |-> Nobody]
  /\ pc = [j \in Jobs |-> "queued"]
  /\ start = [j \in Jobs |-> 0]
  /\ offset = [j \in Jobs |-> 0]
  /\ next = [r \in Runs |-> 0]
  /\ dead = {}

-----------------------------------------------------------------------------
Alive(j) == RunOf[j] \notin dead

(* The job gets a worker permit of its run and calls acquire; NEXT_SLOT    *)
(* matters only modulo the number of slots.                                *)
MutNoRunLimit(j) ==
  /\ Alive(j) /\ pc[j] = "queued"
  /\ pc' = [pc EXCEPT ![j] = "scan"]
  /\ start' = [start EXCEPT ![j] = next[RunOf[j]]]
  /\ next' = [next EXCEPT ![RunOf[j]] = (@ + 1) % Slots]
  /\ offset' = [offset EXCEPT ![j] = 0]
  /\ UNCHANGED <<held, dead>>

Begin(j) ==
  /\ Alive(j) /\ pc[j] = "queued"
  /\ Cardinality(Permits(RunOf[j])) < PerRunWorkers
  /\ pc' = [pc EXCEPT ![j] = "scan"]
  /\ start' = [start EXCEPT ![j] = next[RunOf[j]]]
  /\ next' = [next EXCEPT ![RunOf[j]] = (@ + 1) % Slots]
  /\ offset' = [offset EXCEPT ![j] = 0]
  /\ UNCHANGED <<held, dead>>

(* One flock of try_acquire, on slot (start + offset) % slots.             *)
Candidate(j) == (start[j] + offset[j]) % Slots

MutStealsSlot(j) ==
  /\ Alive(j) /\ pc[j] = "scan" /\ offset[j] < Slots
  /\ held' = [held EXCEPT ![Candidate(j)] = j]
  /\ pc' = [pc EXCEPT ![j] = "held"]
  /\ UNCHANGED <<start, offset, next, dead>>

TryLock(j) ==
  /\ Alive(j) /\ pc[j] = "scan" /\ offset[j] < Slots
  /\ IF held[Candidate(j)] = Nobody
       THEN /\ held' = [held EXCEPT ![Candidate(j)] = j]
            /\ pc' = [pc EXCEPT ![j] = "held"]
            /\ UNCHANGED offset
       ELSE /\ offset' = [offset EXCEPT ![j] = @ + 1]
            /\ UNCHANGED <<held, pc>>
  /\ UNCHANGED <<start, next, dead>>

(* The scan found every slot busy.                                         *)
MutStopsOneShort(j) ==
  /\ Alive(j) /\ pc[j] = "scan" /\ offset[j] >= Slots - 1
  /\ pc' = [pc EXCEPT ![j] = "sleep"]
  /\ UNCHANGED <<held, start, offset, next, dead>>

ScanFails(j) ==
  /\ Alive(j) /\ pc[j] = "scan" /\ offset[j] = Slots
  /\ pc' = [pc EXCEPT ![j] = "sleep"]
  /\ UNCHANGED <<held, start, offset, next, dead>>

(* After 25 ms the job scans again, from the same start.                   *)
Retry(j) ==
  /\ Alive(j) /\ pc[j] = "sleep"
  /\ pc' = [pc EXCEPT ![j] = "scan"]
  /\ offset' = [offset EXCEPT ![j] = 0]
  /\ UNCHANGED <<held, start, next, dead>>

(* The run's cancellation ends a wait, only while the job sleeps.          *)
CancelWait(j) ==
  /\ Alive(j) /\ pc[j] = "sleep"
  /\ pc' = [pc EXCEPT ![j] = "gone"]
  /\ UNCHANGED <<held, start, offset, next, dead>>

(* Opening or locking a slot file fails: acquire returns the error.        *)
ScanError(j) ==
  /\ Alive(j) /\ pc[j] = "scan" /\ offset[j] < Slots
  /\ pc' = [pc EXCEPT ![j] = "gone"]
  /\ UNCHANGED <<held, start, offset, next, dead>>

(* The job ends and its permit's file is closed.                           *)
Release(j) ==
  /\ Alive(j) /\ pc[j] = "held"
  /\ pc' = [pc EXCEPT ![j] = "gone"]
  /\ held' = [s \in SlotIds |-> IF held[s] = j THEN Nobody ELSE held[s]]
  /\ UNCHANGED <<start, offset, next, dead>>

(* A process dies; the kernel closes its files.                            *)
Crash(r) ==
  /\ r \notin dead /\ dead' = dead \cup {r}
  /\ held' = [s \in SlotIds |-> IF s \in HeldBy(r) THEN Nobody ELSE held[s]]
  /\ UNCHANGED <<pc, start, offset, next>>

PoolNext ==
  \/ \E j \in Jobs : Begin(j) \/ TryLock(j) \/ ScanFails(j) \/ Retry(j)
                     \/ CancelWait(j) \/ ScanError(j) \/ Release(j)
  \/ \E r \in Runs : Crash(r)

PoolSpec == PoolInit /\ [][PoolNext]_poolVars

(* A waiting job keeps scanning; a job that holds a slot may run forever.  *)
PoolFairSpec ==
  PoolSpec /\ \A j \in Jobs : WF_poolVars(Begin(j) \/ TryLock(j) \/ ScanFails(j) \/ Retry(j))

-----------------------------------------------------------------------------
\* A job that believes it holds a slot is the one the kernel locked it for,
\* and it holds exactly one, so admitted jobs never exceed the machine's slots;
\* and no slot stays locked by a process that died.
HoldersOwnSlots ==
  /\ \A j \in Jobs : pc[j] = "held" /\ Alive(j) => \E s \in SlotIds : held[s] = j
  /\ \A s, t \in SlotIds : held[s] # Nobody /\ held[s] = held[t] => s = t
  /\ \A s \in SlotIds : held[s] # Nobody => Alive(held[s])

\* A run leaves a slot to the others: it never holds all of them
\* (ARCHITECTURE.md 400-402), however its legs and the scans interleave.
RunLeavesOneSlot == \A r \in Runs : Cardinality(HeldBy(r)) < Slots

\* Both together: a slot has one owner, and no run has them all.
SlotsAreShared == HoldersOwnSlots /\ RunLeavesOneSlot

\* The scan misses no slot: when a slot stays free, no job of a live run waits
\* for ever, even if all other holders run for ever.
FreeSlotIsFound ==
  \A j \in Jobs :
    <>[](\E s \in SlotIds : held[s] = Nobody)
      => [](pc[j] \in {"scan", "sleep"} => <>(pc[j] \in {"held", "gone"} \/ ~Alive(j)))
=============================================================================
