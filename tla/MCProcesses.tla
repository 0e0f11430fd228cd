---------------------------- MODULE MCProcesses ----------------------------
(***************************************************************************)
(* What waits for other threads and processes: the cancellation token, the *)
(* worker slots, the daemon's socket and the fetching of a digest.  One    *)
(* behaviour works on one of them; the others stay as they are at the      *)
(* start.                                                                  *)
(***************************************************************************)
EXTENDS Cancellation, WorkerPool, CasFetch

VARIABLES
  part,
  path, d, guard, ask

\* Two runs on a machine of three slots; one has more jobs than it may admit.
MCJobs == {"a1", "a2", "a3", "b1"}
MCRunOf == [j \in MCJobs |-> IF j = "b1" THEN "b" ELSE "a"]
Daemon == INSTANCE DaemonSocket WITH Asking <- {"c1", "c2"}, Daemons <- {"d1", "d2"}, Nobody <- "nobody"

ASSUME PartAssumptions == PoolAssumption /\ CasAssumption

socketVars == <<
  path, d, guard, ask>>

ProcessesInit ==
  /\ part \in {"token", "pool", "daemon", "cas"}
  /\ Init /\ PoolInit /\ Daemon!Init /\ CasInit
ProcessesNext ==
  /\ UNCHANGED part
  /\ \/ part = "token" /\ Next /\ UNCHANGED <<poolVars, socketVars, casVars>>
     \/ part = "pool" /\ PoolNext /\ UNCHANGED <<vars, socketVars, casVars>>
     \/ part = "daemon" /\ Daemon!Next /\ UNCHANGED <<vars, poolVars, casVars>>
     \/ part = "cas" /\ CasNext /\ UNCHANGED <<vars, poolVars, socketVars>>

\* The fairness of each part, as its module explains it.
TokenFairness ==
  /\ \A c \in Cancellers : WF_vars(part = "token" /\ NotifyWaiters(c))
  /\ \A w \in Waiters : WF_vars(part = "token" /\ (Register(w) \/ Check(w) \/ Wake(w)))
PoolFairness ==
  \A j \in Jobs :
    WF_poolVars(part = "pool" /\ (Begin(j) \/ TryLock(j) \/ ScanFails(j) \/ Retry(j)))
DaemonFairness ==
  /\ \A c \in {"c1", "c2"} : WF_socketVars(part = "daemon" /\ Daemon!Client(c))
  /\ \A x \in {"d1", "d2"} :
       WF_socketVars(part = "daemon" /\ Daemon!Daemon(x)) /\ WF_socketVars(part = "daemon" /\ Daemon!Leave(x))
CasFairness == \A p \in Procs : WF_casVars(part = "cas" /\ Step(p))
ProcessesSpec ==
  /\ ProcessesInit /\ [][ProcessesNext]_<<part, vars, poolVars, socketVars, casVars>>
  /\ TokenFairness /\ PoolFairness /\ DaemonFairness /\ CasFairness

\* The properties of the parts; each is explained in its module, those of the
\* token, the slots and the fetching are used as they stand there.
\* Nobody waits for ever: a cancellation reaches all who wait for it, a job
\* finds a slot that stays free, a run goes on whatever its daemon does and the
\* daemon ends, and every call of ensure_with returns.
WaitsEnd ==
  /\ part = "token" => CancelReachesAll
  /\ part = "pool" => FreeSlotIsFound
  /\ part = "daemon" => Daemon!DaemonsSettle
  /\ part = "cas" => CallsReturn
=============================================================================
