------------------------- MODULE JobLifecycleProofs -------------------------
(***************************************************************************)
(* One job instance with any number of services: what must be in place     *)
(* when its steps run, what is left when it returns, what its events say   *)
(* and what reconciliation reclaims after a crash at any point.            *)
(*                                                                         *)
(* The properties speak of the end; the invariant says for every point of  *)
(* run_instance which services are up (ServicesUpTo), which resources      *)
(* there can be (Exists), what the exit path will still remove and in      *)
(* which order (ExitCovers), and what was emitted (EventsSoFar).           *)
(***************************************************************************)
EXTENDS JobLifecycle, SequenceTheorems, TLAPS

Early == {"start", "inspect", "activate"}
BeforeServices == Early \cup {"env", "actions", "node", "resolve"}
InService == {"svcstart", "svcguard", "svcguarding", "svchealth"}
AfterServices == {"image", "boot", "bootstart", "guardimage", "guard", "guarding",
                  "dind", "dindstart", "wrapper", "ready", "body"}
Guarded == {"dind", "dindstart", "wrapper", "ready", "body"}
Exiting == {"unwind", "teardown"}
Ended == {"returned", "crashed"}

(* The services before idx have passed their gates; so has, for what it    *)
(* has gone through, the one being started.                                *)
ServicesUpTo ==
  /\ at \in BeforeServices => idx = 0
  /\ at \in {"svcimage", "svccreate"} =>
       idx < ServiceCount /\ 1..idx \subseteq guarded /\ 1..idx \subseteq healthy
  /\ at \in InService =>
       idx > 0 /\ 1..(idx - 1) \subseteq guarded /\ 1..(idx - 1) \subseteq healthy
  /\ at = "svchealth" => idx \in guarded
  /\ at \in AfterServices => ServiceIds \subseteq guarded /\ ServiceIds \subseteq healthy
  /\ at \in Guarded => 0 \in guarded
  /\ ran => at \in {"body", "teardown"} \cup Ended
  /\ StepsAreContained

(* Which resources can exist while the job runs.                           *)
Exists ==
  /\ at \notin Ended => \A i \in ServiceIds : Service(i) \in live => i <= idx
  /\ at \notin Exiting \cup Ended =>
       /\ \A i \in 0..ServiceCount :
            Guard(i) \in live => \/ at = "svcguarding" /\ i = idx
                                 \/ at = "guarding" /\ i = 0
       /\ at \in {"dind", "dindstart"} \/ Dind \in live => opts.docker
       /\ Volumes \in live => opts.sibling
  /\ at = "teardown" => \A i \in 0..ServiceCount : Guard(i) \notin live

Pending(r) == \E k \in 1..Len(todo) : todo[k] = r
Kept == opts.writeBack /\ result # "cancelled"

(* What the exit path has still to do: it comes to the shim, and in the    *)
(* teardown to everything, in an order the engine accepts.                 *)
ExitCovers ==
  /\ at \in Exiting => (Shim \in live => Pending(Shim))
  /\ at = "teardown" =>
       /\ \A r \in live : Pending(r) \/ (Kept /\ r \in {Job, Volumes, Network})
       /\ ~Kept => \A k, m \in 1..Len(todo) :
            k < m => /\ todo[k] = Network => todo[m] \notin Attached
                     /\ todo[k] = Volumes => todo[m] # Job
  /\ at \in Ended => Shim \notin live

(* Events and result at every point.                                       *)
EventsSoFar ==
  /\ at \in Early => events = <<>> /\ result = "none"
  /\ at \notin Early \cup Ended => events = <<"started">>
  /\ at = "unwind" => result \in {"error", "cancelled"}
  /\ at = "teardown" => result \in {"success", "failure", "error", "cancelled"}
  /\ at = "returned" =>
       \/ result \in {"success", "failure"} /\ events = <<"started", "finished">>
       \/ result = "skipped" /\ events = <<"skipped">>
       \/ result = "error" /\ events \in {<<>>, <<"started">>}
       \/ result = "cancelled" /\ events \in {<<"finished">>, <<"started">>, <<"started", "finished">>}

(* What reconciliation has reached.                                        *)
Reconciled ==
  /\ rec # "none" => at \in Ended
  /\ rec \in {"containers", "networks", "done"} => live \cap Labelled = {}
  /\ rec \in {"networks", "done"} => Network \notin live
  /\ rec = "done" => Volumes \notin live
  /\ rec = "failed" => Dind \in live

IInv ==
  /\ TypeOK /\ ServicesUpTo /\ Exists /\ ExitCovers /\ EventsSoFar /\ Reconciled
  /\ WorkLeavesNothing

-----------------------------------------------------------------------------
(* The exit paths as sequences                                             *)

LEMMA ConcatFacts ==
  ASSUME NEW S, NEW s \in Seq(S), NEW t \in Seq(S)
  PROVE  /\ s \o t \in Seq(S) /\ Len(s \o t) = Len(s) + Len(t)
         /\ \A k \in 1..Len(s) : (s \o t)[k] = s[k]
         /\ \A k \in 1..Len(t) : (s \o t)[Len(s) + k] = t[k]
  OBVIOUS

(* What an exit path removes.                                              *)
In(s, x) == \E k \in 1..Len(s) : s[k] = x

LEMMA InConcat ==
  ASSUME NEW s \in Seq(Resources), NEW t \in Seq(Resources)
  PROVE  s \o t \in Seq(Resources) /\ \A x : In(s \o t, x) <=> In(s, x) \/ In(t, x)
<1> SUFFICES ASSUME NEW x PROVE In(s \o t, x) <=> In(s, x) \/ In(t, x)
  BY ConcatFacts
<1>1. ASSUME NEW k \in 1..Len(s), s[k] = x PROVE In(s \o t, x)
  <2>1. k \in 1..Len(s \o t) /\ (s \o t)[k] = x
    BY <1>1, ConcatFacts
  <2>2. QED
    BY <2>1 DEF In
<1>2. ASSUME NEW k \in 1..Len(t), t[k] = x PROVE In(s \o t, x)
  <2>1. Len(s) + k \in 1..Len(s \o t) /\ (s \o t)[Len(s) + k] = x
    BY <1>2, ConcatFacts
  <2>2. QED
    BY <2>1 DEF In
<1>3. ASSUME NEW k \in 1..Len(s \o t), (s \o t)[k] = x, \A m \in 1..Len(s) : s[m] # x
      PROVE  In(t, x)
  <2>1. k - Len(s) \in 1..Len(t) /\ k = Len(s) + (k - Len(s))
    BY <1>3, ConcatFacts
  <2>2. t[k - Len(s)] = x
    BY <1>3, <2>1, ConcatFacts
  <2>3. QED
    BY <2>1, <2>2 DEF In
<1>4. QED
  BY <1>1, <1>2, <1>3 DEF In

LEMMA StopServicesFacts ==
  ASSUME TypeOK
  PROVE  /\ StopServices \in Seq(Resources)
         /\ \A x : In(StopServices, x) <=> \E i \in 1..idx : x = Service(i)
<1>1. idx \in Nat /\ \A i \in 1..idx : Service(i) \in Resources
  BY ServiceAssumption DEF TypeOK, Resources, Attached, ServiceIds
<1>2. StopServices \in Seq(Resources) /\ Len(StopServices) = idx
  BY <1>1 DEF StopServices
<1>3. QED
  BY <1>1, <1>2 DEF StopServices, In

LEMMA DropNetworkFacts ==
  /\ DropNetwork \in Seq(Resources) /\ Len(DropNetwork) = 2
  /\ DropNetwork[1] = Shim /\ DropNetwork[2] = Network
  /\ \A x : In(DropNetwork, x) <=> x \in {Shim, Network}
<1>1. Shim \in Resources /\ Network \in Resources
  BY DEF Resources
<1>2. DropNetwork \in Seq(Resources) /\ Len(DropNetwork) = 2
  BY <1>1 DEF DropNetwork
<1>3. DropNetwork[1] = Shim /\ DropNetwork[2] = Network
  BY DEF DropNetwork
<1>4. 1..Len(DropNetwork) = {1, 2}
  BY <1>2
<1>5. QED
  BY <1>2, <1>3, <1>4 DEF In

LEMMA SvcExitFacts ==
  ASSUME TypeOK PROVE SvcExit \in Seq(Resources) /\ In(SvcExit, Shim)
  BY StopServicesFacts, DropNetworkFacts, InConcat DEF SvcExit

LEMMA JobExitFacts ==
  ASSUME TypeOK PROVE JobExit \in Seq(Resources) /\ In(JobExit, Shim)
<1>1. <<Job>> \in Seq(Resources)
  BY DEF Resources, Attached
<1>2. QED
  BY <1>1, SvcExitFacts, InConcat DEF JobExit

(* The first part of a teardown: the container and its volumes.            *)
LEMMA FirstFacts ==
  ASSUME TypeOK, NEW first,
         first = <<>> \/ first = <<Job>> \o (IF opts.sibling THEN <<Volumes>> ELSE <<>>)
  PROVE  /\ first \in Seq(Resources)
         /\ \A k \in 1..Len(first) : first[k] # Network /\ (first[k] = Job => k = 1)
         /\ first # <<>> => In(first, Job) /\ (opts.sibling => In(first, Volumes))
<1>1. Job \in Resources /\ Volumes \in Resources
  BY DEF Resources, Attached
<1>2. CASE first = <<>>
  BY <1>2
<1>3. CASE first # <<>> /\ ~opts.sibling
  <2>1. first = <<Job>>
    BY <1>3
  <2>2. QED
    BY <1>1, <1>3, <2>1 DEF In, Job, Network
<1>4. CASE first # <<>> /\ opts.sibling
  <2>1. first = <<Job>> \o <<Volumes>>
    BY <1>4
  <2>2. /\ <<Job>> \in Seq(Resources) /\ <<Volumes>> \in Seq(Resources)
        /\ Len(<<Job>>) = 1 /\ Len(<<Volumes>>) = 1
        /\ <<Job>>[1] = Job /\ <<Volumes>>[1] = Volumes
    BY <1>1
  <2>3. first \in Seq(Resources) /\ Len(first) = 2 /\ first[1] = Job /\ first[2] = Volumes
    BY <2>1, <2>2, ConcatFacts
  <2>4. 1..Len(first) = {1, 2}
    BY <2>3
  <2>5. Job # Network /\ Volumes # Network /\ Volumes # Job
    BY DEF Job, Network, Volumes
  <2>6. QED
    BY <2>3, <2>4, <2>5 DEF In
<1>5. QED
  BY <1>2, <1>3, <1>4

(* What a teardown must name.                                              *)
ToRemove(keep, x) ==
  \/ x \in {Shim, Network}
  \/ x = Dind /\ opts.docker
  \/ \E i \in 1..idx : x = Service(i)
  \/ ~keep /\ (x = Job \/ (x = Volumes /\ opts.sibling))

LEMMA TeardownFacts ==
  ASSUME TypeOK, NEW keep \in BOOLEAN
  PROVE  /\ TeardownOrder(keep) \in Seq(Resources)
         /\ \A x : ToRemove(keep, x) => In(TeardownOrder(keep), x)
         /\ \A k, m \in 1..Len(TeardownOrder(keep)) :
              k < m => /\ TeardownOrder(keep)[k] # Network
                       /\ TeardownOrder(keep)[m] # Job
<1> DEFINE first == IF keep THEN <<>> ELSE <<Job>> \o IF opts.sibling THEN <<Volumes>> ELSE <<>>
           dind == IF opts.docker THEN <<Dind>> ELSE <<>>
           front == (first \o dind) \o StopServices
<1>1. TeardownOrder(keep) = front \o DropNetwork
  BY DEF TeardownOrder
<1>2. /\ first \in Seq(Resources)
      /\ \A k \in 1..Len(first) : first[k] # Network /\ (first[k] = Job => k = 1)
      /\ ~keep => In(first, Job) /\ (opts.sibling => In(first, Volumes))
  <2>1. ~keep => first # <<>>
    OBVIOUS
  <2>2. QED
    BY <2>1, FirstFacts
<1> HIDE DEF first
<1>3. /\ dind \in Seq(Resources)
      /\ \A k \in 1..Len(dind) : dind[k] # Network /\ dind[k] # Job
      /\ opts.docker => In(dind, Dind)
  <2>1. Dind \in Resources
    BY DEF Resources, Attached
  <2>2. QED
    BY <2>1 DEF In, Dind, Network, Job
<1> HIDE DEF dind
<1>4. /\ StopServices \in Seq(Resources)
      /\ \A k \in 1..Len(StopServices) : StopServices[k] # Network /\ StopServices[k] # Job
      /\ \A i \in 1..idx : In(StopServices, Service(i))
  <2>1. \A k \in 1..Len(StopServices) : \E i \in 1..idx : StopServices[k] = Service(i)
    BY StopServicesFacts DEF In
  <2>2. \A i \in 1..idx : Service(i) # Network /\ Service(i) # Job
    BY ServiceAssumption DEF Service, Network, Job, TypeOK
  <2>3. QED
    BY <2>1, <2>2, StopServicesFacts
<1>5. /\ first \o dind \in Seq(Resources)
      /\ \A k \in 1..Len(first \o dind) :
           (first \o dind)[k] # Network /\ ((first \o dind)[k] = Job => k = 1)
  <2>1. first \o dind \in Seq(Resources) /\ Len(first \o dind) = Len(first) + Len(dind)
    BY <1>2, <1>3, ConcatFacts
  <2>2. ASSUME NEW k \in 1..Len(first \o dind)
        PROVE  (first \o dind)[k] # Network /\ ((first \o dind)[k] = Job => k = 1)
    <3>1. CASE k \in 1..Len(first)
      BY <1>2, <1>3, <3>1, ConcatFacts
    <3>2. CASE k \notin 1..Len(first)
      <4>1. k - Len(first) \in 1..Len(dind) /\ k = Len(first) + (k - Len(first))
        BY <1>2, <1>3, <2>1, <3>2
      <4>2. (first \o dind)[k] = dind[k - Len(first)]
        BY <1>2, <1>3, <4>1, ConcatFacts
      <4>3. QED
        BY <1>3, <4>1, <4>2
    <3>3. QED
      BY <3>1, <3>2
  <2>3. QED
    BY <2>1, <2>2
<1> DEFINE jobs == first \o dind
<1> HIDE DEF jobs
<1>6. /\ front \in Seq(Resources)
      /\ \A k \in 1..Len(front) : front[k] # Network /\ (front[k] = Job => k = 1)
  <2>0. jobs = first \o dind /\ front = jobs \o StopServices
    BY DEF jobs
  <2>1. front \in Seq(Resources) /\ Len(front) = Len(jobs) + Len(StopServices)
    BY <1>4, <1>5, <2>0, ConcatFacts
  <2>2. ASSUME NEW k \in 1..Len(front)
        PROVE  front[k] # Network /\ (front[k] = Job => k = 1)
    <3>1. CASE k \in 1..Len(jobs)
      BY <1>4, <1>5, <2>0, <3>1, ConcatFacts
    <3>2. CASE k \notin 1..Len(jobs)
      <4>1. /\ k - Len(jobs) \in 1..Len(StopServices)
            /\ k = Len(jobs) + (k - Len(jobs))
        BY <1>4, <1>5, <2>0, <2>1, <3>2
      <4>2. front[k] = StopServices[k - Len(jobs)]
        BY <1>4, <1>5, <2>0, <4>1, ConcatFacts
      <4>3. QED
        BY <1>4, <4>1, <4>2
    <3>3. QED
      BY <3>1, <3>2
  <2>3. QED
    BY <2>1, <2>2
<1>7. ASSUME NEW x, In(first, x) \/ In(dind, x) \/ In(StopServices, x) PROVE In(front, x)
  BY <1>2, <1>3, <1>4, <1>5, <1>7, InConcat
<1> HIDE DEF front
<1>8. /\ TeardownOrder(keep) \in Seq(Resources)
      /\ Len(TeardownOrder(keep)) = Len(front) + 2
      /\ \A k \in 1..Len(front) : TeardownOrder(keep)[k] = front[k]
      /\ TeardownOrder(keep)[Len(front) + 1] = Shim
      /\ TeardownOrder(keep)[Len(front) + 2] = Network
  <2>1. /\ front \o DropNetwork \in Seq(Resources)
        /\ Len(front \o DropNetwork) = Len(front) + 2
        /\ \A k \in 1..Len(front) : (front \o DropNetwork)[k] = front[k]
        /\ \A k \in 1..2 : (front \o DropNetwork)[Len(front) + k] = DropNetwork[k]
    BY <1>6, DropNetworkFacts, ConcatFacts
  <2>2. QED
    BY <1>1, <2>1, DropNetworkFacts
<1>9. ASSUME NEW k \in 1..Len(TeardownOrder(keep)), NEW m \in 1..Len(TeardownOrder(keep)), k < m
      PROVE  TeardownOrder(keep)[k] # Network /\ TeardownOrder(keep)[m] # Job
  <2>1. Shim # Network /\ Shim # Job /\ Network # Job
    BY DEF Shim, Network, Job
  <2>2. k \in 1..Len(front) \/ k = Len(front) + 1
    BY <1>6, <1>8, <1>9
  <2>3. m \in 2..Len(front) \/ m = Len(front) + 1 \/ m = Len(front) + 2
    BY <1>6, <1>8, <1>9
  <2>4. QED
    BY <1>6, <1>8, <2>1, <2>2, <2>3
<1>10. ASSUME NEW x, ToRemove(keep, x)
       PROVE  In(TeardownOrder(keep), x)
  <2>1. In(DropNetwork, x) \/ In(front, x)
    BY <1>2, <1>3, <1>4, <1>7, <1>10, DropNetworkFacts DEF ToRemove
  <2>2. QED
    BY <1>1, <1>6, <2>1, DropNetworkFacts, InConcat
<1>11. TeardownOrder(keep) \in Seq(Resources)
  BY <1>8
<1> HIDE DEF TeardownOrder
<1>12. \A k, m \in 1..Len(TeardownOrder(keep)) :
         k < m => TeardownOrder(keep)[k] # Network /\ TeardownOrder(keep)[m] # Job
  BY <1>9
<1>13. QED
  BY <1>10, <1>11, <1>12

-----------------------------------------------------------------------------
(* The steps of the job by phase                                           *)

Opening ==
  \/ StartCancelled \/ CreateNetwork \/ InspectNetwork \/ Activate \/ ResolveEnv
  \/ ResolveActions \/ EnsureNode \/ ResolveServices
ServiceStep ==
  \/ ServiceImage \/ CreateService \/ StartService \/ GuardService \/ FinishServiceGuard
  \/ ServiceHealth
ContainerStep ==
  \/ ResolveImage \/ BootContainer \/ StartContainer \/ CheckGuardImage \/ GuardJob
  \/ FinishGuardJob \/ CreateDind \/ StartDind \/ InstallWrapper
Aftermath == CallerCleanup \/ Crash \/ Reconcile

LEMMA ResourceFacts ==
  /\ {Network, Shim, Job, Volumes, Dind} \subseteq Resources
  /\ \A i \in 0..ServiceCount : Guard(i) \in Resources
  /\ \A i \in ServiceIds : Service(i) \in Resources
  BY DEF Resources, Attached

LEMMA EventTypes ==
  ASSUME TypeOK
  PROVE  \A e \in {"skipped", "started", "finished"} :
           Append(events, e) \in Seq({"skipped", "started", "finished"})
<1>1. events \in Seq({"skipped", "started", "finished"})
  BY DEF TypeOK
<1>2. QED
  BY <1>1

LEMMA NextTypeOK == ASSUME TypeOK, ServicesUpTo, [Next]_vars PROVE TypeOK'
<1> USE ServiceAssumption, ResourceFacts DEF TypeOK, Go, Keep, Rest, Stages
<1>1. CASE Opening
  <2>1. CASE StartCancelled
    BY <2>1, DropNetworkFacts DEF StartCancelled, NextService, Return, Unwind, FailOrCancel
  <2>2. CASE CreateNetwork
    BY <2>2, DropNetworkFacts DEF CreateNetwork, NextService, Return, Unwind, FailOrCancel
  <2>3. CASE InspectNetwork
    BY <2>3, DropNetworkFacts DEF InspectNetwork, NextService, Return, Unwind, FailOrCancel
  <2>4. CASE Activate
    <3>1. events' \in Seq({"skipped", "started", "finished"})
      BY <2>4, EventTypes DEF Activate
    <3>2. QED
      BY <2>4, <3>1 DEF Activate, Return
  <2>5. CASE ResolveEnv
    BY <2>5, DropNetworkFacts DEF ResolveEnv, NextService, Return, Unwind, FailOrCancel
  <2>6. CASE ResolveActions
    BY <2>6, DropNetworkFacts DEF ResolveActions, NextService, Return, Unwind, FailOrCancel
  <2>7. CASE EnsureNode
    BY <2>7, DropNetworkFacts DEF EnsureNode, NextService, Return, Unwind, FailOrCancel
  <2>8. CASE ResolveServices
    BY <2>8, DropNetworkFacts DEF ResolveServices, NextService, Return, Unwind, FailOrCancel
  <2>9. QED
    BY <1>1, <2>1, <2>2, <2>3, <2>4, <2>5, <2>6, <2>7, <2>8 DEF Opening
<1>2. CASE ServiceStep
  <2>1. CASE ServiceImage
    BY <2>1, SvcExitFacts DEF ServiceImage, NextService, Unwind, FailOrCancel, ServiceIds
  <2>2. CASE CreateService
    <3>1. CASE Unwind("svccreate", SvcExit, "error")
      BY <3>1, SvcExitFacts DEF Unwind
    <3>2. CASE ~Unwind("svccreate", SvcExit, "error")
      <4>1. idx + 1 \in 1..ServiceCount
        BY <2>2, <3>2 DEF CreateService, ServicesUpTo
      <4>2. Service(idx + 1) \in Resources
        BY <4>1 DEF ServiceIds
      <4>3. /\ idx' = idx + 1 /\ live' = live \cup {Service(idx + 1)} /\ at' = "svcstart"
            /\ UNCHANGED <<opts, cancel, guarded, healthy, ran, todo, result, events, rec>>
        BY <2>2, <3>2 DEF CreateService
      <4>4. QED
        BY <4>1, <4>2, <4>3
    <3>3. QED
      BY <3>1, <3>2
  <2>3. CASE StartService
    BY <2>3, SvcExitFacts DEF StartService, NextService, Unwind, FailOrCancel, ServiceIds
  <2>4. CASE GuardService
    BY <2>4, SvcExitFacts DEF GuardService, NextService, Unwind, FailOrCancel, ServiceIds
  <2>5. CASE FinishServiceGuard
    BY <2>5, SvcExitFacts DEF FinishServiceGuard, NextService, Unwind, FailOrCancel, ServiceIds
  <2>6. CASE ServiceHealth
    <3>1. CASE FailOrCancel("svchealth", SvcExit)
      BY <3>1, SvcExitFacts DEF FailOrCancel, Unwind
    <3>2. CASE ~FailOrCancel("svchealth", SvcExit)
      <4>1. idx \in ServiceIds
        BY <2>6, <3>2 DEF ServiceHealth, ServicesUpTo, InService, ServiceIds
      <4>2. QED
        BY <2>6, <3>2, <4>1 DEF ServiceHealth, NextService
    <3>3. QED
      BY <3>1, <3>2
  <2>7. QED
    BY <1>2, <2>1, <2>2, <2>3, <2>4, <2>5, <2>6 DEF ServiceStep
<1>3. CASE ContainerStep
  <2>1. CASE ResolveImage
    BY <2>1, SvcExitFacts, JobExitFacts DEF ResolveImage, Return, Unwind, FailOrCancel
  <2>2. CASE BootContainer
    BY <2>2, SvcExitFacts, JobExitFacts DEF BootContainer, Return, Unwind, FailOrCancel
  <2>3. CASE StartContainer
    BY <2>3, SvcExitFacts, JobExitFacts DEF StartContainer, Return, Unwind, FailOrCancel
  <2>4. CASE CheckGuardImage
    BY <2>4, SvcExitFacts, JobExitFacts DEF CheckGuardImage, Return, Unwind, FailOrCancel
  <2>5. CASE GuardJob
    <3>1. CASE Go("guard", "guarding") /\ live' = live \cup {Guard(0)} /\ Rest
      BY <3>1
    <3>2. ASSUME NEW res \in {"cancelled", "error"}, Unwind("guard", JobExit, res) PROVE TypeOK'
      BY <3>2, JobExitFacts DEF Unwind
    <3>3. QED
      BY <2>5, <3>1, <3>2 DEF GuardJob
  <2>6. CASE FinishGuardJob
    <3>1. live' \subseteq live /\ guarded' \subseteq guarded \cup {0} /\ at' \in Stages
      <4>1. live' \subseteq live
        BY <2>6 DEF FinishGuardJob
      <4>2. guarded' \subseteq guarded \cup {0}
        BY <2>6 DEF FinishGuardJob
      <4>3. at' \in Stages
        BY <2>6 DEF FinishGuardJob
      <4>4. QED
        BY <4>1, <4>2, <4>3
    <3>2. result' \in {result, "cancelled", "error"} /\ todo' \in Seq(Resources)
      BY <2>6, JobExitFacts DEF FinishGuardJob
    <3>3. QED
      BY <2>6, <3>1, <3>2 DEF FinishGuardJob
  <2>7. CASE CreateDind
    BY <2>7, SvcExitFacts, JobExitFacts DEF CreateDind, Return, Unwind, FailOrCancel
  <2>8. CASE StartDind
    BY <2>8, SvcExitFacts, JobExitFacts DEF StartDind, Return, Unwind, FailOrCancel
  <2>9. CASE InstallWrapper
    BY <2>9, SvcExitFacts, JobExitFacts DEF InstallWrapper, Return, Unwind, FailOrCancel
  <2>10. QED
    BY <1>3, <2>1, <2>2, <2>3, <2>4, <2>5, <2>6, <2>7, <2>8, <2>9 DEF ContainerStep
<1>4. CASE WaitReady \/ JobBody
  BY <1>4, TeardownFacts DEF WaitReady, JobBody, Teardown
<1>5. CASE Release
  BY <1>5 DEF Release, RemoveFrom
<1>6. CASE Finish \/ Cancel
  <2> cancel' \in BOOLEAN
    BY <1>6 DEF Finish, Cancel
  <2>1. events' \in Seq({"skipped", "started", "finished"})
    BY <1>6, EventTypes DEF Finish, Cancel
  <2>2. QED
    BY <1>6, <2>1 DEF Finish, Cancel
<1>7. CASE Aftermath
  BY <1>7 DEF Aftermath, CallerCleanup, Crash, Reconcile, ReconcileContainers, ReconcileNetworks,
              ReconcileVolumes, ReconcileAgain, RemoveFrom
<1>8. CASE UNCHANGED vars
  BY <1>8 DEF vars
<1>9. QED
  BY <1>1, <1>2, <1>3, <1>4, <1>5, <1>6, <1>7, <1>8
     DEF Next, JobStep, Opening, ServiceStep, ContainerStep, Aftermath, Idle

(* A step that starts no service, sets no policy and runs no workflow code *)
(* keeps what the services and the guard have reached.                     *)
LEMMA NextServicesUpTo == ASSUME TypeOK, ServicesUpTo, [Next]_vars PROVE ServicesUpTo'
<1> USE ServiceAssumption DEF TypeOK, ServicesUpTo, Go, Keep, Rest, Early, BeforeServices, InService,
                              AfterServices, Guarded, Ended, ServiceIds, StepsAreContained
<1>1. CASE Opening
  BY <1>1
     DEF Opening, StartCancelled, CreateNetwork, InspectNetwork, Activate, ResolveEnv,
         ResolveActions, EnsureNode, ResolveServices, NextService, Return, Unwind, FailOrCancel
<1>2. CASE ServiceStep
  <2>1. CASE ServiceImage
    BY <2>1 DEF ServiceImage, NextService, Unwind, FailOrCancel
  <2>2. CASE CreateService
    BY <2>2 DEF CreateService, NextService, Unwind, FailOrCancel
  <2>3. CASE StartService
    BY <2>3 DEF StartService, NextService, Unwind, FailOrCancel
  <2>4. CASE GuardService
    BY <2>4 DEF GuardService, NextService, Unwind, FailOrCancel
  <2>5. CASE FinishServiceGuard
    BY <2>5 DEF FinishServiceGuard, NextService, Unwind, FailOrCancel
  <2>6. CASE ServiceHealth
    BY <2>6 DEF ServiceHealth, NextService, Unwind, FailOrCancel
  <2>7. QED
    BY <1>2, <2>1, <2>2, <2>3, <2>4, <2>5, <2>6 DEF ServiceStep
<1>3. CASE ContainerStep
  BY <1>3
     DEF ContainerStep, ResolveImage, BootContainer, StartContainer, CheckGuardImage, GuardJob,
         FinishGuardJob, CreateDind, StartDind, InstallWrapper, Return, Unwind, FailOrCancel
<1>4. CASE WaitReady \/ JobBody
  BY <1>4 DEF WaitReady, JobBody, Teardown
<1>5. CASE Release
  BY <1>5 DEF Release
<1>6. CASE Finish \/ Cancel
  BY <1>6 DEF Finish, Cancel
<1>7. CASE Aftermath
  BY <1>7 DEF Aftermath, CallerCleanup, Crash, Reconcile, ReconcileContainers, ReconcileNetworks,
              ReconcileVolumes, ReconcileAgain
<1>8. CASE UNCHANGED vars
  BY <1>8 DEF vars
<1>9. QED
  BY <1>1, <1>2, <1>3, <1>4, <1>5, <1>6, <1>7, <1>8
     DEF Next, JobStep, Opening, ServiceStep, ContainerStep, Aftermath, Idle

LEMMA Appends ==
  /\ Append(<<>>, "finished") = <<"finished">>
  /\ Append(<<>>, "skipped") = <<"skipped">>
  /\ Append(<<>>, "started") = <<"started">>
  /\ Append(<<"started">>, "finished") = <<"started", "finished">>
<1>1. ASSUME NEW S, NEW e \in S PROVE Append(<<>>, e) = <<e>>
  <2>1. <<>> \in Seq(S) /\ <<e>> \in Seq(S) /\ Len(<<>>) = 0 /\ Len(<<e>>) = 1 /\ <<e>>[1] = e
    OBVIOUS
  <2>2. QED
    BY <2>1, AppendProperties, SeqEqual
<1>2. ASSUME NEW S, NEW d \in S, NEW e \in S PROVE Append(<<d>>, e) = <<d, e>>
  <2>1. /\ <<d>> \in Seq(S) /\ Len(<<d>>) = 1 /\ <<d>>[1] = d
        /\ <<d, e>> \in Seq(S) /\ Len(<<d, e>>) = 2 /\ <<d, e>>[1] = d /\ <<d, e>>[2] = e
    OBVIOUS
  <2>2. /\ Append(<<d>>, e) \in Seq(S) /\ Len(Append(<<d>>, e)) = 2
        /\ Append(<<d>>, e)[1] = d /\ Append(<<d>>, e)[2] = e
    BY <2>1, AppendProperties
  <2>3. \A i \in 1..2 : Append(<<d>>, e)[i] = <<d, e>>[i]
    <3>1. 1..2 = {1, 2}
      OBVIOUS
    <3>2. QED
      BY <2>1, <2>2, <3>1
  <2>4. QED
    BY <2>1, <2>2, <2>3, SeqEqual
<1> DEFINE E == {"skipped", "started", "finished"}
<1>3. "finished" \in E /\ "skipped" \in E /\ "started" \in E
  OBVIOUS
<1> HIDE DEF E
<1>4. QED
  BY <1>1, <1>2, <1>3

LEMMA NextEventsSoFar == ASSUME TypeOK, ServicesUpTo, EventsSoFar, [Next]_vars PROVE EventsSoFar'
<1> USE DEF TypeOK, EventsSoFar, Go, Keep, Rest, Early, Ended
<1>1. CASE Opening
  <2>1. CASE StartCancelled
    BY <2>1, Appends DEF StartCancelled, NextService, Return, Unwind, FailOrCancel
  <2>2. CASE CreateNetwork
    BY <2>2, Appends DEF CreateNetwork, NextService, Return, Unwind, FailOrCancel
  <2>3. CASE InspectNetwork
    BY <2>3, Appends DEF InspectNetwork, NextService, Return, Unwind, FailOrCancel
  <2>4. CASE Activate
    BY <2>4, Appends DEF Activate, NextService, Return, Unwind, FailOrCancel
  <2>5. CASE ResolveEnv
    BY <2>5, Appends DEF ResolveEnv, NextService, Return, Unwind, FailOrCancel
  <2>6. CASE ResolveActions
    BY <2>6, Appends DEF ResolveActions, NextService, Return, Unwind, FailOrCancel
  <2>7. CASE EnsureNode
    BY <2>7, Appends DEF EnsureNode, NextService, Return, Unwind, FailOrCancel
  <2>8. CASE ResolveServices
    BY <2>8, Appends DEF ResolveServices, NextService, Return, Unwind, FailOrCancel
  <2>9. QED
    BY <1>1, <2>1, <2>2, <2>3, <2>4, <2>5, <2>6, <2>7, <2>8 DEF Opening
<1>2. CASE ServiceStep
  BY <1>2
     DEF ServiceStep, ServiceImage, CreateService, StartService, GuardService, FinishServiceGuard,
         ServiceHealth, NextService, Unwind, FailOrCancel
<1>3. CASE ContainerStep
  BY <1>3
     DEF ContainerStep, ResolveImage, BootContainer, StartContainer, CheckGuardImage, GuardJob,
         FinishGuardJob, CreateDind, StartDind, InstallWrapper, Return, Unwind, FailOrCancel
<1>4. CASE WaitReady \/ JobBody
  BY <1>4 DEF WaitReady, JobBody, Teardown
<1>5. CASE Release
  BY <1>5 DEF Release
<1>6. CASE Finish \/ Cancel
  <2>1. CASE Cancel
    BY <2>1 DEF Cancel
  <2>2. CASE Finish /\ at = "unwind"
    <3>1. result' = result /\ events' = events /\ at' = "returned"
      BY <2>2 DEF Finish
    <3>2. result \in {"error", "cancelled"} /\ events = <<"started">>
      BY <2>2
    <3>3. QED
      BY <3>1, <3>2
  <2>3. CASE Finish /\ at = "teardown"
    <3>1. result' = result /\ at' = "returned"
      BY <2>3 DEF Finish
    <3>2. result \in {"success", "failure", "error", "cancelled"} /\ events = <<"started">>
      BY <2>3
    <3>3. events' = IF result = "error" THEN <<"started">> ELSE <<"started", "finished">>
      BY <2>3, <3>2, Appends DEF Finish
    <3>4. QED
      BY <3>1, <3>2, <3>3
  <2>4. QED
    BY <1>6, <2>1, <2>2, <2>3 DEF Finish
<1>7. CASE Aftermath
  BY <1>7 DEF Aftermath, CallerCleanup, Crash, Reconcile, ReconcileContainers, ReconcileNetworks,
              ReconcileVolumes, ReconcileAgain
<1>8. CASE UNCHANGED vars
  BY <1>8 DEF vars
<1>9. QED
  BY <1>1, <1>2, <1>3, <1>4, <1>5, <1>6, <1>7, <1>8
     DEF Next, JobStep, Opening, ServiceStep, ContainerStep, Aftermath, Idle

-----------------------------------------------------------------------------
(* Which resources there are                                               *)

(* Resources of different kinds, or of different services, are different.  *)
LEMMA Distinct ==
  /\ Network # Shim /\ Network # Job /\ Network # Volumes /\ Network # Dind
  /\ Shim # Job /\ Shim # Volumes /\ Shim # Dind
  /\ Job # Volumes /\ Job # Dind /\ Volumes # Dind
  /\ \A i \in 0..ServiceCount : Guard(i) \notin {Network, Shim, Job, Volumes, Dind}
  /\ \A i \in ServiceIds : Service(i) \notin {Network, Shim, Job, Volumes, Dind}
  /\ \A i, j \in 0..ServiceCount : Guard(i) = Guard(j) => i = j
  /\ \A i, j \in ServiceIds : Service(i) = Service(j) => i = j
  /\ \A i \in 0..ServiceCount, j \in ServiceIds : Guard(i) # Service(j)
  BY ServiceAssumption DEF Network, Shim, Job, Volumes, Dind, Guard, Service, ServiceIds

LEMMA NextExists ==
  ASSUME TypeOK, ServicesUpTo, Exists, Reconciled, [Next]_vars PROVE Exists'
<1> USE ServiceAssumption, Distinct DEF TypeOK, Exists, Go, Keep, Rest, Exiting, Ended
<1>1. CASE Opening
  <2>1. CASE StartCancelled
    BY <2>1 DEF StartCancelled, NextService, Return, Unwind, FailOrCancel
  <2>2. CASE CreateNetwork
    BY <2>2 DEF CreateNetwork, NextService, Return, Unwind, FailOrCancel
  <2>3. CASE InspectNetwork
    BY <2>3 DEF InspectNetwork, NextService, Return, Unwind, FailOrCancel
  <2>4. CASE Activate
    BY <2>4 DEF Activate, NextService, Return, Unwind, FailOrCancel
  <2>5. CASE ResolveEnv
    BY <2>5 DEF ResolveEnv, NextService, Return, Unwind, FailOrCancel
  <2>6. CASE ResolveActions
    BY <2>6 DEF ResolveActions, NextService, Return, Unwind, FailOrCancel
  <2>7. CASE EnsureNode
    BY <2>7 DEF EnsureNode, NextService, Return, Unwind, FailOrCancel
  <2>8. CASE ResolveServices
    BY <2>8 DEF ResolveServices, NextService, Return, Unwind, FailOrCancel
  <2>9. QED
    BY <1>1, <2>1, <2>2, <2>3, <2>4, <2>5, <2>6, <2>7, <2>8 DEF Opening
<1>2. CASE ServiceStep
  <2>1. CASE ServiceImage
    BY <2>1 DEF ServiceImage, NextService, Unwind, FailOrCancel, ServicesUpTo, InService
  <2>2. CASE CreateService
    <3>1. CASE Unwind("svccreate", SvcExit, "error")
      BY <3>1 DEF Unwind
    <3>2. CASE ~Unwind("svccreate", SvcExit, "error")
      <4>1. idx + 1 \in ServiceIds
        BY <2>2, <3>2 DEF CreateService, ServicesUpTo, ServiceIds
      <4>2. /\ idx' = idx + 1 /\ live' = live \cup {Service(idx + 1)}
            /\ at = "svccreate" /\ at' = "svcstart" /\ opts' = opts
        BY <2>2, <3>2 DEF CreateService
      <4>3. \A i \in ServiceIds : Service(i) \in live' => i <= idx'
        BY <4>1, <4>2 DEF ServiceIds
      <4>4. QED
        BY <4>1, <4>2, <4>3
    <3>3. QED
      BY <3>1, <3>2
  <2>3. CASE StartService
    BY <2>3 DEF StartService, NextService, Unwind, FailOrCancel, ServicesUpTo, InService
  <2>4. CASE GuardService
    BY <2>4 DEF GuardService, NextService, Unwind, FailOrCancel, ServicesUpTo, InService
  <2>5. CASE FinishServiceGuard
    BY <2>5 DEF FinishServiceGuard, NextService, Unwind, FailOrCancel, ServicesUpTo, InService
  <2>6. CASE ServiceHealth
    BY <2>6 DEF ServiceHealth, NextService, Unwind, FailOrCancel, ServicesUpTo, InService
  <2>7. QED
    BY <1>2, <2>1, <2>2, <2>3, <2>4, <2>5, <2>6 DEF ServiceStep
<1>3. CASE ContainerStep
  <2>1. CASE ResolveImage
    BY <2>1 DEF ResolveImage, Return, Unwind, FailOrCancel, ServiceIds
  <2>2. CASE BootContainer
    BY <2>2 DEF BootContainer, Return, Unwind, FailOrCancel, ServiceIds
  <2>3. CASE StartContainer
    BY <2>3 DEF StartContainer, Return, Unwind, FailOrCancel, ServiceIds
  <2>4. CASE CheckGuardImage
    BY <2>4 DEF CheckGuardImage, Return, Unwind, FailOrCancel, ServiceIds
  <2>5. CASE GuardJob
    BY <2>5 DEF GuardJob, Return, Unwind, FailOrCancel, ServiceIds
  <2>6. CASE FinishGuardJob
    BY <2>6 DEF FinishGuardJob, Return, Unwind, FailOrCancel, ServiceIds
  <2>7. CASE CreateDind
    BY <2>7 DEF CreateDind, Return, Unwind, FailOrCancel, ServiceIds
  <2>8. CASE StartDind
    BY <2>8 DEF StartDind, Return, Unwind, FailOrCancel, ServiceIds
  <2>9. CASE InstallWrapper
    BY <2>9 DEF InstallWrapper, Return, Unwind, FailOrCancel, ServiceIds
  <2>10. QED
    BY <1>3, <2>1, <2>2, <2>3, <2>4, <2>5, <2>6, <2>7, <2>8, <2>9 DEF ContainerStep
<1>4. CASE WaitReady \/ JobBody
  BY <1>4 DEF WaitReady, JobBody, Teardown
<1>5. CASE Release
  BY <1>5 DEF Release, RemoveFrom
<1>6. CASE Finish \/ Cancel
  BY <1>6 DEF Finish, Cancel
<1>7. CASE Aftermath
  BY <1>7 DEF Aftermath, Running, Reconciled, CallerCleanup, Crash, Reconcile, ReconcileContainers, ReconcileNetworks,
              ReconcileVolumes, ReconcileAgain
<1>8. CASE UNCHANGED vars
  BY <1>8 DEF vars
<1>9. QED
  BY <1>1, <1>2, <1>3, <1>4, <1>5, <1>6, <1>7, <1>8
     DEF Next, JobStep, Opening, ServiceStep, ContainerStep, Aftermath, Idle

-----------------------------------------------------------------------------
(* The way out                                                             *)

Before == Opening \/ ServiceStep \/ ContainerStep

(* Before the steps run, a job that leaves drops its shim or has it on its *)
(* list.                                                                   *)
LEMMA WaysOut ==
  ASSUME Before
  PROVE  \/ at' \notin Exiting \cup Ended
         \/ at' = "returned" /\ Shim \notin live'
         \/ at' = "unwind" /\ todo' \in {DropNetwork, SvcExit, JobExit}
<1> USE DEF Go, Keep, Rest, Exiting, Ended
<1>1. CASE Opening
  BY <1>1
     DEF Opening, StartCancelled, CreateNetwork, InspectNetwork, Activate, ResolveEnv,
         ResolveActions, EnsureNode, ResolveServices, NextService, Return, Unwind, FailOrCancel
<1>2. CASE ServiceStep
  BY <1>2
     DEF ServiceStep, ServiceImage, CreateService, StartService, GuardService, FinishServiceGuard,
         ServiceHealth, NextService, Unwind, FailOrCancel
<1>3. CASE ContainerStep
  BY <1>3
     DEF ContainerStep, ResolveImage, BootContainer, StartContainer, CheckGuardImage, GuardJob,
         FinishGuardJob, CreateDind, StartDind, InstallWrapper, Return, Unwind, FailOrCancel
<1>4. QED
  BY <1>1, <1>2, <1>3 DEF Before

(* Everything there is when the teardown starts is on its list, or kept.   *)
LEMMA TeardownCovers ==
  ASSUME TypeOK, ServicesUpTo, Exists, at \in {"ready", "body"},
         NEW res, Teardown(at, res)
  PROVE  ExitCovers'
<1> DEFINE keep == opts.writeBack /\ res # "cancelled"
           order == TeardownOrder(keep)
<1>1. /\ at' = "teardown" /\ todo' = order /\ live' = live /\ opts' = opts /\ result' = res
  BY DEF Teardown, Go
<1>2. keep \in BOOLEAN /\ Kept' = keep
  BY <1>1 DEF Kept
<1> HIDE DEF keep
<1>3. /\ \A x : ToRemove(keep, x) => In(order, x)
      /\ \A k, m \in 1..Len(order) : k < m => order[k] # Network /\ order[m] # Job
  BY <1>2, TeardownFacts
<1> HIDE DEF order
<1>4. ASSUME NEW r \in live
      PROVE  ToRemove(keep, r) \/ (keep /\ r \in {Job, Volumes, Network})
  <2>1. /\ \A i \in 0..ServiceCount : Guard(i) \notin live
        /\ \A i \in ServiceIds : Service(i) \in live => i \in 1..idx
        /\ Dind \in live => opts.docker
        /\ Volumes \in live => opts.sibling
    BY ServiceAssumption DEF Exists, Exiting, Ended, TypeOK, ServiceIds
  <2>2. \/ r \in {Shim, Network, Job, Dind, Volumes}
        \/ \E i \in ServiceIds : r = Service(i)
        \/ \E i \in 0..ServiceCount : r = Guard(i)
    BY <1>4 DEF TypeOK, Resources, Attached
  <2>3. QED
    BY <1>2, <1>4, <2>1, <2>2 DEF ToRemove
<1>5. In(order, Shim)
  BY <1>3 DEF ToRemove
<1>6. \A x : Pending(x)' <=> In(order, x)
  BY <1>1 DEF Pending, In
<1>7. \A r \in live' : Pending(r)' \/ (Kept' /\ r \in {Job, Volumes, Network})
  BY <1>1, <1>2, <1>3, <1>4, <1>6
<1>8. \A k, m \in 1..Len(todo') :
         k < m => /\ todo'[k] = Network => todo'[m] \notin Attached
                  /\ todo'[k] = Volumes => todo'[m] # Job
  BY <1>1, <1>3
<1>9. QED
  BY <1>1, <1>5, <1>6, <1>7, <1>8 DEF ExitCovers, Exiting, Ended

(* One removal: what is done is gone, or is kept for --write-back; the     *)
(* rest is still on the list.                                              *)
LEMMA ReleaseCovers == ASSUME TypeOK, ExitCovers, Release PROVE ExitCovers'
<1>1. /\ todo \in Seq(Resources) /\ todo # <<>> /\ at \in Exiting /\ at' = at
      /\ todo' = Tail(todo) /\ live' = RemoveFrom(live, Head(todo))
      /\ opts' = opts /\ result' = result
  BY DEF Release, TypeOK, Exiting
<1>2. /\ Head(todo) = todo[1] /\ Len(todo) \in Nat /\ Len(todo) > 0
      /\ Len(todo') = Len(todo) - 1
      /\ \A k \in 1..Len(todo') : todo'[k] = todo[k + 1]
  BY <1>1, HeadTailProperties, EmptySeq
<1>3. ASSUME NEW x, Pending(x), x # todo[1] PROVE Pending(x)'
  <2>1. PICK k \in 1..Len(todo) : todo[k] = x
    BY <1>3 DEF Pending
  <2>2. k - 1 \in 1..Len(todo') /\ todo'[k - 1] = x
    BY <1>2, <1>3, <2>1
  <2>3. QED
    BY <2>2 DEF Pending
<1>4. live' \subseteq live
  BY <1>1 DEF RemoveFrom
<1>5. todo[1] = Shim => Shim \notin live'
  BY <1>1, <1>2, Distinct DEF RemoveFrom
<1>6. Shim \in live' => Pending(Shim)'
  BY <1>1, <1>3, <1>4, <1>5 DEF ExitCovers
<1>7. CASE at = "teardown"
  <2>1. Kept' = Kept
    BY <1>1 DEF Kept
  <2>2. todo[1] \in live' => Kept /\ todo[1] \in {Job, Volumes, Network}
    <3>1. SUFFICES ASSUME todo[1] \in live' PROVE Kept /\ todo[1] \in {Job, Volumes, Network}
      OBVIOUS
    <3>2. \/ todo[1] = Network /\ live \cap Attached # {}
          \/ todo[1] = Volumes /\ Job \in live
      BY <1>1, <1>2, <3>1 DEF RemoveFrom
    <3>3. ASSUME ~Kept PROVE FALSE
      <4>1. \A r \in live : Pending(r)
        BY <1>7, <3>3 DEF ExitCovers
      <4>2. \A m \in 1..Len(todo) :
              1 < m => /\ todo[1] = Network => todo[m] \notin Attached
                       /\ todo[1] = Volumes => todo[m] # Job
        BY <1>2, <1>7, <3>3 DEF ExitCovers
      <4>3. Network \notin Attached
        BY Distinct DEF Attached
      <4>4. CASE todo[1] = Network /\ live \cap Attached # {}
        BY <1>2, <4>1, <4>2, <4>3, <4>4 DEF Pending
      <4>5. CASE todo[1] = Volumes /\ Job \in live
        BY <1>2, <4>1, <4>2, <4>5, Distinct DEF Pending
      <4>6. QED
        BY <3>2, <4>4, <4>5
    <3>4. QED
      BY <3>2, <3>3
  <2>3. \A r \in live' : Pending(r)' \/ (Kept' /\ r \in {Job, Volumes, Network})
    BY <1>3, <1>4, <1>7, <2>1, <2>2 DEF ExitCovers
  <2>4. ASSUME ~Kept', NEW k \in 1..Len(todo'), NEW m \in 1..Len(todo'), k < m
        PROVE  /\ todo'[k] = Network => todo'[m] \notin Attached
               /\ todo'[k] = Volumes => todo'[m] # Job
    <3>1. k + 1 \in 1..Len(todo) /\ m + 1 \in 1..Len(todo) /\ k + 1 < m + 1
      BY <1>2, <2>4
    <3>2. QED
      BY <1>2, <1>7, <2>1, <2>4, <3>1 DEF ExitCovers
  <2>5. QED
    BY <1>1, <1>6, <1>7, <2>3, <2>4 DEF ExitCovers, Ended
<1>8. CASE at = "unwind"
  BY <1>1, <1>6, <1>8 DEF ExitCovers, Ended
<1>9. QED
  BY <1>1, <1>7, <1>8 DEF Exiting

LEMMA NextExitCovers ==
  ASSUME TypeOK, ServicesUpTo, Exists, ExitCovers, Reconciled, [Next]_vars PROVE ExitCovers'
<1>1. CASE Before
  <2>1. CASE at' \notin Exiting \cup Ended
    BY <2>1 DEF ExitCovers, Exiting
  <2>2. CASE at' = "returned" /\ Shim \notin live'
    BY <2>2 DEF ExitCovers, Exiting
  <2>3. CASE at' = "unwind" /\ todo' \in {DropNetwork, SvcExit, JobExit}
    <3>1. In(todo', Shim)
      BY <2>3, DropNetworkFacts, SvcExitFacts, JobExitFacts
    <3>2. QED
      BY <2>3, <3>1 DEF ExitCovers, Pending, In, Ended
  <2>4. QED
    BY <1>1, <2>1, <2>2, <2>3, WaysOut
<1>2. CASE WaitReady \/ JobBody
  <2>1. CASE \E res : Teardown(at, res) /\ at \in {"ready", "body"}
    BY <2>1, TeardownCovers
  <2>2. CASE at' = "body"
    BY <2>2 DEF ExitCovers, Exiting, Ended
  <2>3. QED
    BY <1>2, <2>1, <2>2 DEF WaitReady, JobBody, Teardown, Go
<1>3. CASE Release
  BY <1>3, ReleaseCovers
<1>4. CASE Finish
  BY <1>4 DEF Finish, ExitCovers, Exiting, Ended, Pending
<1>5. CASE Cancel \/ UNCHANGED vars
  BY <1>5 DEF Cancel, vars, ExitCovers, Pending, Kept
<1>6. CASE Aftermath
  BY <1>6 DEF Aftermath, CallerCleanup, Crash, Reconcile, ReconcileContainers, ReconcileNetworks,
              ReconcileVolumes, ReconcileAgain, Running, Reconciled, RemoveFrom, ExitCovers, Exiting, Ended
<1>7. QED
  BY <1>1, <1>2, <1>3, <1>4, <1>5, <1>6
     DEF Next, JobStep, Before, Opening, ServiceStep, ContainerStep, Aftermath, Idle

-----------------------------------------------------------------------------
(* What is left                                                            *)

LEMMA JobStepsRun ==
  ASSUME JobStep
  PROVE  at \notin Ended /\ rec' = rec
<1> USE DEF Go, Keep, Rest, Ended
<1>1. CASE Opening
  BY <1>1
     DEF Opening, StartCancelled, CreateNetwork, InspectNetwork, Activate, ResolveEnv,
         ResolveActions, EnsureNode, ResolveServices, NextService, Return, Unwind, FailOrCancel
<1>2. CASE ServiceStep
  BY <1>2
     DEF ServiceStep, ServiceImage, CreateService, StartService, GuardService, FinishServiceGuard,
         ServiceHealth, NextService, Unwind, FailOrCancel
<1>3. CASE ContainerStep
  BY <1>3
     DEF ContainerStep, ResolveImage, BootContainer, StartContainer, CheckGuardImage, GuardJob,
         FinishGuardJob, CreateDind, StartDind, InstallWrapper, Return, Unwind, FailOrCancel
<1>4. CASE WaitReady \/ JobBody \/ Release \/ Finish
  BY <1>4 DEF WaitReady, JobBody, Teardown, Release, Finish
<1>5. QED
  BY <1>1, <1>2, <1>3, <1>4 DEF JobStep, Opening, ServiceStep, ContainerStep

(* Of what attaches to the network, only the DinD sidecar has no label.    *)
LEMMA LabelFacts ==
  /\ Attached \subseteq Labelled \cup {Dind} /\ Job \in Labelled
  /\ Network \notin Labelled
  /\ Resources \subseteq Labelled \cup {Network, Shim, Volumes, Dind, Guard(0)}
<1>1. \A i \in 0..ServiceCount : i = 0 \/ i \in ServiceIds
  BY ServiceAssumption DEF ServiceIds
<1>2. QED
  BY <1>1, Distinct, ServiceAssumption DEF Attached, Labelled, Resources, ServiceIds

LEMMA NextReconciled == ASSUME TypeOK, Reconciled, [Next]_vars PROVE Reconciled'
<1>1. CASE JobStep
  BY <1>1, JobStepsRun DEF Reconciled
<1>2. CASE CallerCleanup \/ Crash \/ Cancel
  BY <1>2 DEF CallerCleanup, Crash, Cancel, Running, Reconciled, Ended
<1>3. CASE ReconcileContainers
  BY <1>3 DEF ReconcileContainers, Reconciled, Running, Ended
<1>4. CASE ReconcileNetworks
  <2>1. /\ live' = RemoveFrom(live, Network) /\ live \cap Labelled = {} /\ at \in Ended /\ at' = at
        /\ rec' = IF Network \in live' THEN "failed" ELSE "networks"
    BY <1>4 DEF ReconcileNetworks, Reconciled
  <2>2. live' \subseteq live
    BY <2>1 DEF RemoveFrom
  <2>3. ASSUME Network \in live' PROVE Dind \in live'
    BY <2>1, <2>3, LabelFacts DEF RemoveFrom
  <2>4. QED
    BY <2>1, <2>2, <2>3 DEF Reconciled
<1>5. CASE ReconcileVolumes
  <2>1. /\ live' = RemoveFrom(live, Volumes) /\ live \cap Labelled = {} /\ at \in Ended /\ at' = at
        /\ Network \notin live /\ rec' = "done"
    BY <1>5 DEF ReconcileVolumes, Reconciled
  <2>2. live' = live \ {Volumes}
    BY <2>1, LabelFacts, Distinct DEF RemoveFrom
  <2>3. QED
    BY <2>1, <2>2 DEF Reconciled
<1>6. CASE ReconcileAgain
  BY <1>6 DEF ReconcileAgain, Reconciled
<1>7. CASE UNCHANGED vars
  BY <1>7 DEF vars, Reconciled
<1>8. QED
  BY <1>1, <1>2, <1>3, <1>4, <1>5, <1>6, <1>7 DEF Next, Reconcile, Idle

LEMMA NextWorkLeavesNothing ==
  ASSUME TypeOK, ServicesUpTo, ExitCovers, Reconciled, WorkLeavesNothing, [Next]_vars
  PROVE  WorkLeavesNothing'
<1>1. CASE Before
  <2>1. ran' = ran /\ at \notin {"body", "teardown"} \cup Ended
    <3> USE DEF Go, Keep, Rest, Ended
    <3>1. CASE Opening
      BY <3>1
         DEF Opening, StartCancelled, CreateNetwork, InspectNetwork, Activate, ResolveEnv,
             ResolveActions, EnsureNode, ResolveServices, NextService, Return, Unwind,
             FailOrCancel
    <3>2. CASE ServiceStep
      BY <3>2
         DEF ServiceStep, ServiceImage, CreateService, StartService, GuardService,
             FinishServiceGuard, ServiceHealth, NextService, Unwind, FailOrCancel
    <3>3. CASE ContainerStep
      BY <3>3
         DEF ContainerStep, ResolveImage, BootContainer, StartContainer, CheckGuardImage,
             GuardJob, FinishGuardJob, CreateDind, StartDind, InstallWrapper, Return, Unwind,
             FailOrCancel
    <3>4. QED
      BY <1>1, <3>1, <3>2, <3>3 DEF Before
  <2>2. QED
    BY <2>1 DEF ServicesUpTo, WorkLeavesNothing
<1>2. CASE WaitReady \/ JobBody \/ Release \/ Crash
  BY <1>2 DEF WaitReady, JobBody, Teardown, Go, Release, Crash, WorkLeavesNothing
<1>3. CASE Finish
  <2>1. CASE at = "unwind"
    BY <1>3, <2>1 DEF Finish, ServicesUpTo, WorkLeavesNothing, Ended
  <2>2. CASE at = "teardown"
    <3>1. /\ todo = <<>> /\ live' = live /\ opts' = opts /\ result' = result
      BY <1>3 DEF Finish
    <3>2. \A r \in live : Kept /\ r \in {Job, Volumes, Network}
      BY <2>2, <3>1 DEF ExitCovers, Pending
    <3>3. QED
      BY <3>1, <3>2 DEF WorkLeavesNothing, Kept
  <2>3. QED
    BY <1>3, <2>1, <2>2 DEF Finish
<1>4. CASE CallerCleanup \/ Reconcile
  <2>1. live' \subseteq live /\ UNCHANGED <<at, ran, opts, result>>
    BY <1>4 DEF CallerCleanup, Reconcile, ReconcileContainers, ReconcileNetworks, ReconcileVolumes,
                ReconcileAgain, RemoveFrom
  <2>2. QED
    BY <2>1 DEF WorkLeavesNothing
<1>5. CASE Cancel \/ UNCHANGED vars
  BY <1>5 DEF Cancel, vars, WorkLeavesNothing
<1>6. QED
  BY <1>1, <1>2, <1>3, <1>4, <1>5
     DEF Next, JobStep, Before, Opening, ServiceStep, ContainerStep, Idle

-----------------------------------------------------------------------------
LEMMA InitIInv == ASSUME Init PROVE IInv
<1> USE ServiceAssumption DEF Init
<1>1. TypeOK
  <2>1. cancel \in BOOLEAN /\ ran \in BOOLEAN
    OBVIOUS
  <2>2. QED
    BY <2>1 DEF TypeOK, Stages
<1>2. ServicesUpTo
  BY DEF ServicesUpTo, BeforeServices, Early, InService, AfterServices, Guarded, StepsAreContained
<1>3. Exists /\ ExitCovers /\ Reconciled /\ WorkLeavesNothing
  BY DEF Exists, ExitCovers, Reconciled, WorkLeavesNothing, Exiting, Ended
<1>4. EventsSoFar
  BY DEF EventsSoFar, Early, Ended
<1>5. QED
  BY <1>1, <1>2, <1>3, <1>4 DEF IInv

LEMMA NextIInv == ASSUME IInv, [Next]_vars PROVE IInv'
  BY NextTypeOK, NextServicesUpTo, NextExists, NextExitCovers, NextEventsSoFar, NextReconciled,
     NextWorkLeavesNothing DEF IInv

LEMMA SpecIInv == Spec => []IInv
  BY InitIInv, NextIInv, PTL DEF Spec

(* Workflow code only ever runs behind a network policy and with all       *)
(* services contained and healthy, for any number of services.             *)
THEOREM StepsContained == Spec => []StepsAreContained
<1>1. IInv => StepsAreContained
  BY DEF IInv, ServicesUpTo
<1>2. QED
  BY <1>1, SpecIInv, PTL

(* A job whose steps began releases everything it may release, in an order *)
(* the engine accepts, and its events agree with its report.               *)
THEOREM EndsCleanly == Spec => []JobEndsCleanly
<1>1. IInv => JobEndsCleanly
  BY DEF IInv, EventsSoFar, Early, Ended, JobEndsCleanly, EventsMatchReport
<1>2. QED
  BY <1>1, SpecIInv, PTL

(* Reconciliation after a crash at any point is only stopped by a sidecar, *)
(* and otherwise leaves no network, volume or labelled container.          *)
THEOREM CrashesAreReclaimed == Spec => []ReconcileReclaims
<1>1. IInv => ReconcileReclaims
  BY LabelFacts DEF IInv, TypeOK, Reconciled, ExitCovers, ReconcileReclaims
<1>2. QED
  BY <1>1, SpecIInv, PTL
=============================================================================
