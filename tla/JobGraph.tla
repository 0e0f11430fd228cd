------------------------------ MODULE JobGraph ------------------------------
(***************************************************************************)
(* The needs graph of a workflow: dependency lists without repetitions, an *)
(* iterative search for strongly connected components, one displayed cycle *)
(* for each, the topological order and the waves.  Before it, constructs   *)
(* that are not supported refuse the workflow; after it, the jobs are      *)
(* planned in file order and the static skips follow along the graph.  One *)
(* step of the search is one turn of the code's loop.                      *)
(***************************************************************************)
EXTENDS Integers, Sequences, FiniteSets, SequencesExt, Relation

CONSTANTS
  N,         \* number of jobs; job i is the i-th of the file
  Needs,     \* the needs lists a job may have: sequences over 0..N, 0 is unknown
  Traits,    \* what a job may look like: [cond, reads, legs, outs, refs, size]
  Supports,  \* constructs of the workflow and the jobs: [call, oidc, jobs]
  MaxSize    \* MAX_EXECUTION_PLAN_JSON_BYTES, in the units of `size`

\* cond is "none", "false", "open" (deferred) or "always"; reads are the
\* contexts the condition names; legs is "one", "pending" or a number of
\* matrix legs; outs are declared outputs, refs pairs <<need, output>>.

VARIABLES
  needs, deps,                       \* authored lists; resolved, deduplicated lists
  phase,                             \* the stage of plan(), or why it refused
  index, low, stack, calls, sccs,    \* the search: index 0 is "not visited"
  order, indegree, ready,            \* Kahn's algorithm; ready is the heap
  support, traits,                   \* what the workflow and its jobs contain
  done, used, lints, skip            \* jobs planned, size so far, lints, static skips

graphVars == <<needs, deps, phase, index, low, stack, calls, sccs, order, indegree, ready,
               support, traits, done, used, lints, skip>>
searchVars == <<index, low, stack, calls, sccs>>
orderVars == <<order, indegree, ready>>
planVars == <<traits, done, used, lints, skip>>
Job == 1..N

Init ==
  /\ needs \in [Job -> Needs]
  /\ support \in Supports
  /\ deps = [j \in Job |-> <<>>] /\ phase = "support"
  /\ index = [j \in Job |-> 0] /\ low = [j \in Job |-> 0]
  /\ stack = <<>> /\ calls = <<>> /\ sccs = <<>>
  /\ order = <<>> /\ indegree = [j \in Job |-> 0] /\ ready = {}
  /\ traits = [j \in Job |-> <<>>] /\ skip = [j \in Job |-> "no"]
  /\ done = 0 /\ used = 0 /\ lints = {}

\* --------------------------------------------------- supported constructs
\* A job's own permissions replace the workflow's; "write-all" and a written
\* id-token ask for OIDC.
Effective(own) == IF own = "absent" THEN support.oidc ELSE own
RequestsOidc(level) == level \in {"write-all", "id-token"}
MutUnsupported(j) ==   \* the workflow's permissions are not inherited
  \/ support.jobs[j].environment \/ support.jobs[j].reusable
  \/ RequestsOidc(support.jobs[j].permissions)
Unsupported(j) ==
  \/ support.jobs[j].environment \/ support.jobs[j].reusable
  \/ RequestsOidc(Effective(support.jobs[j].permissions))
ValidateSupport ==
  /\ phase = "support"
  /\ phase' = IF support.call \/ \E j \in Job : Unsupported(j) THEN "unsupported" ELSE "resolve"
  /\ UNCHANGED <<needs, deps, searchVars, orderVars, support, planVars>>
\* The report beside the plan lists every finding, not only the first.
AnalyzeSupport ==
  (IF support.call THEN {<<"workflow.reusable_trigger", 0>>} ELSE {})
  \cup UNION {(IF support.jobs[j].environment THEN {<<"job.environment", j>>} ELSE {})
              \cup (IF support.jobs[j].reusable THEN {<<"job.reusable_workflow", j>>} ELSE {})
              \cup (IF RequestsOidc(Effective(support.jobs[j].permissions)) THEN {<<"github.oidc", j>>} ELSE {})
              : j \in Job}

\* Unknown names are an error; a repeated name counts once, at its first place.
FirstUses(s) ==
  SelectSeq([i \in DOMAIN s |-> <<i, s[i]>>], LAMBDA p : \A k \in 1..(p[1] - 1) : s[k] # p[2])
Resolve ==
  /\ phase = "resolve"
  /\ phase' = IF \E j \in Job : 0 \in ToSet(needs[j]) THEN "unknown" ELSE "search"
  /\ deps' = [j \in Job |-> LET u == FirstUses(needs[j]) IN [i \in DOMAIN u |-> u[i][2]]]
  /\ UNCHANGED <<needs, searchVars, orderVars, support, planVars>>

\* ------------------------------------------ strongly connected components
Visited(j) == index[j] # 0
NextIndex == Cardinality({j \in Job : Visited(j)}) + 1
MinOf(a, b) == IF a < b THEN a ELSE b
Visit(j, below) ==
  /\ index' = [index EXCEPT ![j] = NextIndex]
  /\ low' = [low EXCEPT ![j] = NextIndex]
  /\ stack' = Append(stack, j)
  /\ calls' = Append(below, <<j, 0>>)
  /\ UNCHANGED <<sccs, needs, deps, phase, orderVars, support, planVars>>

StartSearch ==
  /\ phase = "search" /\ calls = <<>>
  /\ \E j \in Job : ~Visited(j) /\ (\A k \in 1..(j - 1) : Visited(k)) /\ Visit(j, <<>>)

Current == Last(calls)[1]
Advanced == [calls EXCEPT ![Len(calls)][2] = @ + 1]
FollowEdge ==
  /\ phase = "search" /\ calls # <<>> /\ Last(calls)[2] < Len(deps[Current])
  /\ LET w == deps[Current][Last(calls)[2] + 1]
     IN IF ~Visited(w) THEN Visit(w, Advanced)
        ELSE /\ calls' = Advanced
             /\ low' = IF w \in ToSet(stack) THEN [low EXCEPT ![Current] = MinOf(@, index[w])] ELSE low
             /\ UNCHANGED <<index, stack, sccs, needs, deps, phase, orderVars, support, planVars>>

Component(v) == LET at == CHOOSE i \in DOMAIN stack : stack[i] = v IN SubSeq(stack, at, Len(stack))
Return ==
  /\ phase = "search" /\ calls # <<>> /\ Last(calls)[2] = Len(deps[Current])
  /\ LET v == Current
         rest == Front(calls)
         closes == low[v] = index[v]
     IN /\ calls' = rest
        /\ low' = IF rest = <<>> THEN low ELSE [low EXCEPT ![Last(rest)[1]] = MinOf(@, low[v])]
        /\ stack' = IF closes THEN SubSeq(stack, 1, Len(stack) - Len(Component(v))) ELSE stack
        /\ sccs' = IF closes THEN Append(sccs, ToSet(Component(v))) ELSE sccs
  /\ UNCHANGED <<index, needs, deps, phase, orderVars, support, planVars>>

MutIsCycle(scc) == Cardinality(scc) > 1   \* a job that needs itself is no cycle
IsCycle(scc) == Cardinality(scc) > 1 \/ \E j \in scc : j \in ToSet(deps[j])
\* The displayed cycle: from the smallest name, neighbours in name order,
\* never back into the path, until an edge returns to the start.  (Names
\* sort as the job numbers do.)
RECURSIVE CyclePath(_, _, _)
CyclePath(path, tried, scc) ==
  LET from == Last(path)
      options == {w \in ToSet(deps[from]) \cap scc : w \notin tried}
      w == CHOOSE x \in options : \A y \in options : x <= y
      deeper == CyclePath(Append(path, w), {}, scc)
  IN IF options = {} THEN <<>>
     ELSE IF w = path[1] THEN path
     ELSE IF w \in ToSet(path) \/ deeper = <<>> THEN CyclePath(path, tried \cup {w}, scc)
     ELSE deeper
CycleOf(scc) == CyclePath(<<CHOOSE j \in scc : \A k \in scc : j <= k>>, {}, scc)
Cycles == {CycleOf(scc) : scc \in {s \in ToSet(sccs) : IsCycle(s)}}

Dependents(j) == {k \in Job : j \in ToSet(deps[k])}
EndSearch ==
  /\ phase = "search" /\ calls = <<>> /\ \A j \in Job : Visited(j)
  /\ phase' = IF Cycles = {} THEN "order" ELSE "cyclic"
  /\ indegree' = [j \in Job |-> Len(deps[j])]
  /\ ready' = {j \in Job : deps[j] = <<>>}
  /\ UNCHANGED <<needs, deps, searchVars, order, support, planVars>>

\* ----------------------------------------------------- order and waves
PopReady ==
  /\ phase = "order" /\ ready # {}
  /\ LET j == CHOOSE x \in ready : \A y \in ready : x <= y
         left == [k \in Job |-> IF k \in Dependents(j) THEN indegree[k] - 1 ELSE indegree[k]]
     IN /\ order' = Append(order, j)
        /\ indegree' = left
        /\ ready' = (ready \ {j}) \cup {k \in Dependents(j) : left[k] = 0}
  /\ UNCHANGED <<needs, deps, phase, searchVars, support, planVars>>
EndOrder ==
  /\ phase = "order" /\ ready = {}
  /\ phase' = "jobs"
  /\ traits' \in [Job -> Traits]
  /\ UNCHANGED <<needs, deps, searchVars, orderVars, support, done, used, lints, skip>>

Wave ==
  FoldLeft(LAMBDA wave, j : [wave EXCEPT ![j] =
             FoldLeft(LAMBDA m, d : IF wave[d] + 1 > m THEN wave[d] + 1 ELSE m, 0, deps[j])],
           [j \in Job |-> 0], order)

\* --------------------------------------------------------- the jobs' plans
\* In file order.  A condition may only name contexts that exist before the
\* run; every part of the plan counts against its size limit; a reference to
\* an output that the needed job does not declare is reported once.
JobConditionContexts == {"github", "needs", "vars", "inputs"}
Repeats(j) == \E a, b \in DOMAIN needs[j] : a < b /\ needs[j][a] = needs[j][b]
UndeclaredRefs(j) == {r \in traits[j].refs : r[1] \in ToSet(deps[j]) /\ r[2] \notin traits[r[1]].outs}
PlannedLegs(t) == IF t.legs \in {"one", "pending"} THEN 1 ELSE t.count
PlanJob ==
  /\ phase = "jobs" /\ done < N
  /\ LET j == done + 1
         size == used + PlannedLegs(traits[j]) * traits[j].size
     IN IF ~traits[j].reads \subseteq JobConditionContexts
        THEN phase' = "unavailable" /\ UNCHANGED <<done, used, lints>>
        ELSE IF size > MaxSize THEN phase' = "too_large" /\ UNCHANGED <<done, used, lints>>
        ELSE /\ done' = j /\ used' = size
             /\ lints' = lints \cup {<<"undeclared", j, r>> : r \in UndeclaredRefs(j)}
                               \cup (IF Repeats(j) THEN {<<"duplicate_needs", j>>} ELSE {})
             /\ UNCHANGED phase
  /\ UNCHANGED <<needs, deps, searchVars, orderVars, support, traits, skip>>

\* -------------------------------------------------------- static skips
\* In topological order: a condition that is statically false, or the
\* implicit gate behind a need that is skipped itself.  A matrix is skipped
\* when it has legs and all of them are.
HasGate(c) == c # "always"
DecideSkip(c, skippedNeed) ==
  IF c = "false" THEN "condition" ELSE IF HasGate(c) /\ skippedNeed THEN "need" ELSE "no"
NoLegs(t) == t.legs = "matrix" /\ t.count = 0
Referenced == UNION {{r[1] : r \in traits[j].refs} \cap ToSet(deps[j]) : j \in Job}
PropagateSkips ==
  /\ phase = "jobs" /\ done = N
  /\ skip' = FoldLeft(LAMBDA s, j : [s EXCEPT ![j] =
                        IF NoLegs(traits[j]) THEN "no"
                        ELSE DecideSkip(traits[j].cond, \E i \in DOMAIN deps[j] : s[deps[j][i]] # "no")],
                      skip, order)
  /\ lints' = lints \cup {<<"collision", j>> : j \in {k \in Referenced :
                            traits[k].legs = "matrix" /\ traits[k].count > 1 /\ traits[k].outs # {}}}
  /\ phase' = "planned"
  /\ UNCHANGED <<needs, deps, searchVars, orderVars, support, traits, done, used>>

Next ==
  \/ ValidateSupport \/ Resolve \/ StartSearch \/ FollowEdge \/ Return \/ EndSearch
  \/ PopReady \/ EndOrder \/ PlanJob \/ PropagateSkips

Spec == Init /\ [][Next]_graphVars

\* --------------------------------------------------------- correctness
Edges == {<<j, d>> \in Job \X Job : d \in ToSet(needs[j])}
Reaches == TransitiveClosure([e \in Job \X Job |-> e \in Edges], Job)
OnCycle == {j \in Job : Reaches[<<j, j>>]}
RECURSIVE Longest(_)
Longest(j) == IF needs[j] = <<>> THEN 0
              ELSE LET ws == {Longest(d) + 1 : d \in ToSet(needs[j])}
                   IN CHOOSE w \in ws : \A x \in ws : x <= w

\* A workflow is refused for its needs (build_graph, find_cycles) exactly when
\* some job waits for itself, and the message shows one real cycle for every
\* group of jobs that wait for each other, none twice.
CyclesAreExact ==
  /\ phase \in {"order", "jobs", "planned"} => OnCycle = {}
  /\ phase = "cyclic" =>
       /\ OnCycle # {}
       /\ \A c \in Cycles : c # <<>> /\ \A i \in DOMAIN c : <<c[i], c[(i % Len(c)) + 1]>> \in Edges
       /\ \A j \in OnCycle : Cardinality({c \in Cycles : Reaches[<<j, c[1]>>] /\ Reaches[<<c[1], j>>]}) = 1

\* Every job is ordered after all it needs and gets the earliest wave in
\* which all of them have ended, whatever order and repetition the file has.
OrderIsTopological ==
  phase \in {"jobs", "planned"} =>
    /\ Len(order) = N /\ ToSet(order) = Job
    /\ \A a, b \in DOMAIN order : <<order[a], order[b]>> \in Edges => b < a
    /\ \A j \in Job : Wave[j] = Longest(j)

\* What the run may still do when it decides for itself (job_activates): a job
\* can run unless its condition is false, or the gate asks for the success of
\* a need that cannot run; a matrix without legs has nothing to skip.
RECURSIVE CanRun(_)
CanRun(j) ==
  \/ NoLegs(traits[j])
  \/ /\ traits[j].cond # "false"
     /\ HasGate(traits[j].cond) => \A d \in ToSet(needs[j]) : CanRun(d)
\* The plan skips a job in advance exactly when no run could have run it.
SkipsAreExact == phase = "planned" => \A j \in Job : (skip[j] # "no") <=> ~CanRun(j)

\* A plan exists only for a workflow without a support finding (the report
\* and the refusal are computed separately), within the size limit, and its
\* lints name every output that a dependent reads in vain or reads from
\* several legs at once.
PlanIsHonest ==
  /\ phase = "unsupported" <=> phase # "support" /\ AnalyzeSupport # {}
  /\ used <= MaxSize
  /\ phase = "planned" => \A j \in Job : \A r \in traits[j].refs :
       <<j, r[1]>> \in Edges =>
         /\ r[2] \in traits[r[1]].outs \/ <<"undeclared", j, r>> \in lints
         /\ traits[r[1]].legs = "matrix" /\ traits[r[1]].count > 1 /\ r[2] \in traits[r[1]].outs
              => <<"collision", r[1]>> \in lints
=============================================================================
