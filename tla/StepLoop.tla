------------------------------ MODULE StepLoop ------------------------------
(***************************************************************************)
(* The body of a job (executor/job/mod.rs run_job_body, executor/step.rs,  *)
(* executor/actions): the `pre:` scripts of the job's actions, its steps,  *)
(* with the steps nested in composite actions, and the `post:` scripts.    *)
(*                                                                         *)
(* The steps of a job and of its composites form a tree.  A frame of       *)
(* `stack` is one run of a step list with its own rolling status: the      *)
(* job's, or a composite's, which starts at success.  A step begins and    *)
(* ends in two actions, so that an error, a cancellation (the body future  *)
(* is dropped) or a timeout can come while it runs.                        *)
(***************************************************************************)
EXTENDS Naturals, Sequences, FiniteSets, SequencesExt, Outcome

CONSTANTS
  Steps,     \* step instances of the job, nested ones included
  Root,      \* the job itself, owner of the outermost step list
  Children,  \* the step list of the job and of each composite
  Kind,      \* "run", "node", "checkout", "docker" or "composite"
  If,        \* a step's `if:`, in Conditions
  Rescue,    \* continue-on-error
  Pre,       \* pre-if of an action with a pre script, or "none"
  Post,      \* post-if of an action with a post script, or "none"
  Timed      \* run steps with timeout-minutes

StepAssumption ==
  /\ Root \notin Steps
  /\ Children \in [Steps \cup {Root} -> Seq(Steps)]
  /\ Kind \in [Steps -> {"run", "node", "checkout", "docker", "composite"}]
  /\ If \in [Steps -> Conditions] /\ Rescue \in [Steps -> BOOLEAN]
  /\ Pre \in [Steps -> Conditions \cup {"none"}]
  /\ Post \in [Steps -> Conditions \cup {"none"}]
  /\ Timed \subseteq Steps

VARIABLES
  phase,     \* "pre", "main", "post", or how run_job_body ended
  stack,     \* the frames being executed, innermost last
  cur,       \* the phase script being executed: "idle", "running", "overrun"
  todo,      \* pre or post scripts still to run
  chain,     \* post_chain: the registered posts
  saved,     \* action_state: <<state key, the instance that wrote last>>
  got,       \* what each post script received as STATE_: the writer
  exported,  \* instances whose GITHUB_ENV exports later steps see
  log,       \* what ended so far, in order: [phase, step, conclusion]
  reports,   \* the StepReports: [phase, step, conclusion]
  open,      \* started events without a finished event
  alive      \* instances with a process in the container

vars == <<phase, stack, cur, todo, chain, saved, got, exported, log, reports, open, alive>>

-----------------------------------------------------------------------------
Ended == {"returned", "error", "cancelled"}
Active == phase \notin Ended

Top == stack[Len(stack)]
AtTopLevel == Len(stack) = 1
HasItem == Top.pos <= Len(Children[Top.of])
Item == Children[Top.of][Top.pos]
status == stack[1].status

(* The key of an instance's STATE_ map: a top-level step's index, or       *)
(* outer * 1000 + nested.                                                  *)
StateKey == IF AtTopLevel THEN Top.pos - 1 ELSE Top.base * 1000 + Top.pos - 1

(* Top-level JavaScript actions whose pre-if holds before any step ran.    *)
PreSteps ==
  SelectSeq(Children[Root],
    LAMBDA s : Kind[s] = "node" /\ Pre[s] # "none" /\ ConditionTrue(Pre[s], "success"))

Init ==
  /\ phase = "pre"
  /\ stack = <<[of |-> Root, pos |-> 1, status |-> "success", base |-> 0]>>
  /\ cur = "idle"
  /\ todo = PreSteps
  /\ chain = <<>> /\ saved = {} /\ got = {} /\ exported = {}
  /\ log = <<>> /\ reports = <<>> /\ open = {} /\ alive = {}

-----------------------------------------------------------------------------
(* run_pre_steps: the exit code, the exports and the state of a pre script *)
(* are dropped and the step is always reported finished.                   *)
StartPre ==
  /\ phase = "pre" /\ cur = "idle" /\ todo # <<>>
  /\ cur' = "running" /\ open' = {<<"pre", Head(todo)>>} /\ alive' = {Head(todo)}
  /\ UNCHANGED <<phase, stack, todo, chain, saved, got, exported, log, reports>>

EndPre ==
  /\ phase = "pre" /\ cur = "running"
  /\ cur' = "idle" /\ open' = {} /\ alive' = {}
  /\ todo' = Tail(todo)
  /\ log' = Append(log, [phase |-> "pre", step |-> Head(todo), conclusion |-> "success"])
  /\ UNCHANGED <<phase, stack, chain, saved, got, exported, reports>>

BeginMain ==
  /\ phase = "pre" /\ cur = "idle" /\ todo = <<>>
  /\ phase' = "main"
  /\ UNCHANGED <<stack, cur, todo, chain, saved, got, exported, log, reports, open, alive>>

-----------------------------------------------------------------------------
(* execute_step and composite::execute_inner                               *)

Activated == step_activates(Top.status, ImplicitGate(If[Item]), ConditionTrue(If[Item], Top.status))

AtItem == phase = "main" /\ cur = "idle" /\ HasItem

(* A frame after its current step ended with a conclusion.                 *)
Advance(frame, conclusion) ==
  [frame EXCEPT !.pos = @ + 1, !.status = advance_status(@, conclusion)]

(* Only the job's own steps have events and reports.                       *)
Conclude(frames, step, conclusion) ==
  LET entry == [phase |-> "main", step |-> step, conclusion |-> conclusion]
  IN  /\ stack' = [frames EXCEPT ![Len(frames)] = Advance(@, conclusion)]
      /\ log' = Append(log, entry)
      /\ IF Len(frames) = 1
           THEN reports' = Append(reports, entry) /\ open' = {}
           ELSE UNCHANGED <<reports, open>>

MutSkipUnreported ==
  /\ AtItem /\ ~Activated
  /\ stack' = [stack EXCEPT ![Len(stack)] = Advance(@, "skipped")]
  /\ UNCHANGED <<phase, cur, todo, chain, saved, got, exported, log, reports, open, alive>>

SkipStep ==
  /\ AtItem /\ ~Activated
  /\ Conclude(stack, Item, step_result_skipped.conclusion)
  /\ UNCHANGED <<phase, cur, todo, chain, saved, got, exported, alive>>

Announce == open' = IF AtTopLevel THEN {<<"main", Item>>} ELSE open

StartStep ==
  /\ AtItem /\ Activated /\ Kind[Item] # "composite"
  /\ cur' = "running" /\ alive' = alive \cup {Item} /\ Announce
  /\ UNCHANGED <<phase, stack, todo, chain, saved, got, exported, log, reports>>

EnterComposite ==
  /\ AtItem /\ Activated /\ Kind[Item] = "composite"
  /\ stack' = Append(stack, [of |-> Item, pos |-> 1, status |-> "success", base |-> StateKey])
  /\ Announce
  /\ UNCHANGED <<phase, cur, todo, chain, saved, got, exported, log, reports, alive>>

(* A JavaScript action may save state, which replaces what its key held;   *)
(* a step with a post phase is pushed onto the job-wide chain.             *)
Remember ==
  IF Kind[Item] = "node"
    THEN {s \in saved : s[1] # StateKey} \cup {<<StateKey, Item>>} ELSE saved

Registered ==
  IF Kind[Item] = "checkout" \/ (Kind[Item] = "node" /\ Post[Item] # "none")
    THEN Append(chain, [step |-> Item, key |-> StateKey]) ELSE chain

(* GITHUB_ENV and GITHUB_PATH of the phase are job-wide; checkout has none.*)
MutNestedExportsVanish ==
  exported \cup IF Kind[Item] = "checkout" \/ (Kind[Item] = "node" /\ ~AtTopLevel)
                  THEN {} ELSE {Item}

Effects == exported \cup IF Kind[Item] = "checkout" THEN {} ELSE {Item}

(* The step's main phase ended without an infrastructure error.            *)
EndStep(exit) ==
  /\ Conclude(stack, Item, step_result_from_exit(exit, Rescue[Item]).conclusion)
  /\ cur' = "idle"
  /\ saved' \in {saved, Remember} /\ chain' = Registered /\ exported' = Effects
  /\ UNCHANGED <<phase, todo, got>>

ExitStep ==
  /\ phase = "main" /\ cur = "running"
  /\ alive' = alive \ {Item}
  /\ \E exit \in {"success", "failed"} :
       (Kind[Item] = "checkout" => exit = "success") /\ EndStep(exit)

(* timeout-minutes of a top-level run step: the exec is dropped, then its  *)
(* process is terminated, then the step fails.                             *)
TimeOut ==
  /\ phase = "main" /\ cur = "running" /\ AtTopLevel
  /\ Kind[Item] = "run" /\ Item \in Timed
  /\ cur' = "overrun"
  /\ UNCHANGED <<phase, stack, todo, chain, saved, got, exported, log, reports, open, alive>>

MutLeavesProcess ==
  phase = "main" /\ cur = "overrun" /\ UNCHANGED alive /\ EndStep("timed_out")

Terminate ==
  /\ phase = "main" /\ cur = "overrun"
  /\ alive' = alive \ {Item}
  /\ EndStep("timed_out")

(* A composite's exit is its own rolling status.                           *)
MutCompositeSucceeds ==
  LET outer == SubSeq(stack, 1, Len(stack) - 1)
      item  == Top.of
  IN  /\ phase = "main" /\ cur = "idle" /\ ~AtTopLevel /\ ~HasItem
      /\ Conclude(outer, item, "success")
      /\ UNCHANGED <<phase, cur, todo, chain, saved, got, exported, alive>>

LeaveComposite ==
  LET outer == SubSeq(stack, 1, Len(stack) - 1)
      item  == Top.of
      exit  == IF Top.status = "failure" THEN "failed" ELSE "success"
  IN  /\ phase = "main" /\ cur = "idle" /\ ~AtTopLevel /\ ~HasItem
      /\ Conclude(outer, item, step_result_from_exit(exit, Rescue[item]).conclusion)
      /\ UNCHANGED <<phase, cur, todo, chain, saved, got, exported, alive>>

-----------------------------------------------------------------------------
(* run_post_steps: the chain is drained once, newest first; the job status *)
(* that post-if sees does not move while posts run.                        *)
MutDrainsForward == chain

DrainReverse == Reverse(chain)

BeginPost ==
  /\ phase = "main" /\ cur = "idle" /\ AtTopLevel /\ ~HasItem
  /\ phase' = "post" /\ todo' = DrainReverse /\ chain' = <<>>
  /\ UNCHANGED <<stack, cur, saved, got, exported, log, reports, open, alive>>

PostRuns(s) == Kind[s] = "checkout" \/ ConditionTrue(Post[s], status)

ReportPost(s, conclusion) ==
  LET entry == [phase |-> "post", step |-> s, conclusion |-> conclusion]
  IN  /\ reports' = Append(reports, entry) /\ log' = Append(log, entry)
      /\ todo' = Tail(todo)

SkipPost ==
  /\ phase = "post" /\ cur = "idle" /\ todo # <<>> /\ ~PostRuns(Head(todo).step)
  /\ ReportPost(Head(todo).step, "skipped")
  /\ UNCHANGED <<phase, stack, cur, chain, saved, got, exported, open, alive>>

(* STATE_ comes from whatever the entry's key holds now.                   *)
StartPost ==
  /\ phase = "post" /\ cur = "idle" /\ todo # <<>> /\ PostRuns(Head(todo).step)
  /\ cur' = "running"
  /\ open' = {<<"post", Head(todo).step>>} /\ alive' = alive \cup {Head(todo).step}
  /\ got' = got \cup {<<Head(todo).step, s[2]>> : s \in
               {x \in saved : Kind[Head(todo).step] = "node" /\ x[1] = Head(todo).key}}
  /\ UNCHANGED <<phase, stack, todo, chain, saved, exported, log, reports>>

EndPost ==
  LET s == Head(todo).step
  IN  /\ phase = "post" /\ cur = "running"
      /\ cur' = "idle" /\ open' = {} /\ alive' = alive \ {s}
      /\ \E exit \in {"success", "failed"} :
           /\ Kind[s] = "checkout" => exit = "success"
           /\ ReportPost(s, step_result_from_exit(exit, FALSE).conclusion)
      /\ UNCHANGED <<phase, stack, chain, saved, got, exported>>

(* The posts' conclusions reach the job status, and the body returns.      *)
PostReports == SelectSeq(reports, LAMBDA r : r.phase = "post")

MutIgnoresPosts == status

FinalStatus == 
  FoldLeft(LAMBDA s, r : advance_status(s, r.conclusion), status, PostReports)

Return ==
  /\ phase = "post" /\ cur = "idle" /\ todo = <<>>
  /\ phase' = "returned"
  /\ stack' = [stack EXCEPT ![1].status = FinalStatus]
  /\ UNCHANGED <<cur, todo, chain, saved, got, exported, log, reports, open, alive>>

(* An engine or evaluation error leaves through `?`; a cancellation drops  *)
(* the future.  Both skip everything that is left.                         *)
Fail ==
  /\ Active /\ phase' = "error"
  /\ UNCHANGED <<stack, cur, todo, chain, saved, got, exported, log, reports, open, alive>>

Cancel ==
  /\ Active /\ phase' = "cancelled"
  /\ UNCHANGED <<stack, cur, todo, chain, saved, got, exported, log, reports, open, alive>>

Over == ~Active /\ UNCHANGED vars

Step ==
  \/ StartPre \/ EndPre \/ BeginMain
  \/ SkipStep \/ StartStep \/ ExitStep \/ TimeOut \/ Terminate
  \/ EnterComposite \/ LeaveComposite
  \/ BeginPost \/ SkipPost \/ StartPost \/ EndPost \/ Return

Next == Step \/ Fail \/ Cancel \/ Over

Spec == Init /\ [][Next]_vars

(* The body makes progress; scripts are assumed to exit.                   *)
FairSpec == Spec /\ WF_vars(Step)

-----------------------------------------------------------------------------
(* Properties                                                              *)

(* The steps whose main phase ran, in the order they ended.                *)
Mains ==
  LET ended == SelectSeq(log, LAMBDA e : e.phase = "main" /\ e.conclusion # "skipped")
  IN  [i \in DOMAIN ended |-> ended[i].step]

TypeOK ==
  /\ phase \in {"pre", "main", "post"} \cup Ended
  /\ cur \in {"idle", "running", "overrun"}
  /\ \A i \in DOMAIN stack :
       /\ stack[i].of \in Steps \cup {Root}
       /\ stack[i].status \in RunStatuses
       /\ stack[i].pos \in 1..(Len(Children[stack[i].of]) + 1)
  /\ exported \subseteq Steps /\ alive \subseteq Steps

\* Posts run newest first: the posts handled so far are the main phases that
\* registered one, nested ones included, read backwards, also when an error or
\* a cancellation cuts them short; when the body returns none is left out, and
\* an always() post was not skipped (post_chain.rs 1-17, step.rs 285-367).
PostsMirrorMains ==
  LET mains == SelectSeq(Mains, LAMBDA s : Kind[s] = "checkout" \/ Post[s] # "none")
      posts == [i \in DOMAIN PostReports |-> PostReports[i].step]
  IN  /\ posts # <<>> => IsPrefix(posts, Reverse(mains))
      /\ phase = "returned" => Len(posts) = Len(mains)
      /\ \A i \in DOMAIN PostReports :
           PostReports[i].conclusion = "skipped" => Post[PostReports[i].step] # "always"

\* A post script gets the state its own action saved (composite.rs 149-150,
\* step.rs 137-139).
PostSeesOwnState == \A g \in got : g[1] = g[2]

\* Exports are job-wide: later steps see those of every main phase that ended
\* before, at any nesting depth, and of no pre or post script (module comment
\* of composite.rs).
ExportsAreJobWide ==
  exported = {s \in Range(Mains) : Kind[s] \notin {"checkout", "composite"}}

\* After a step's failure that nothing rescued, no later step of the job
\* without a status function runs, and the job fails; without one it succeeds.
FailureIsFinal ==
  /\ \A i, j \in DOMAIN reports :
       /\ i < j /\ reports[i].conclusion = "failure"
       /\ reports[j].phase = "main" /\ ImplicitGate(If[reports[j].step])
       => reports[j].conclusion = "skipped"
  /\ phase = "returned" =>
       (status = "failure" <=> \E i \in DOMAIN reports : reports[i].conclusion = "failure")

\* A composite fails exactly when one of its own steps failed unrescued, at
\* every depth, unless it is itself rescued (composite.rs 217-322).
NestedFailureSurfaces ==
  \A i \in DOMAIN log : log[i].phase = "main" /\ Kind[log[i].step] = "composite" =>
    (log[i].conclusion = "failure" <=>
       /\ ~Rescue[log[i].step]
       /\ \E j \in 1..(i - 1) : /\ log[j].step \in Range(Children[log[i].step])
                               /\ log[j].conclusion = "failure")

\* At most one process of the job's steps lives in the container, and none
\* when a step begins: a timed-out step cannot race the next one
\* (run_exec, 1018-1036).
OneProcess ==
  /\ Cardinality(alive) <= 1
  /\ Active /\ cur = "idle" => alive = {}

\* On a normal return every started event has its finished event and every
\* top-level step a report, in order.
ReportsAreComplete ==
  phase = "returned" =>
    /\ open = {} /\ chain = <<>>
    /\ LET mains == SelectSeq(reports, LAMBDA r : r.phase = "main")
       IN  [i \in DOMAIN mains |-> mains[i].step] = Children[Root]

\* A post is registered when its step is reached, before the step's `if:`
\* (post_chain.rs 19-21): a skipped action's post runs too.
SkippedStepsHavePosts ==
  phase = "returned" =>
    \A i \in DOMAIN reports :
      /\ reports[i].phase = "main" /\ Kind[reports[i].step] = "node"
      /\ Post[reports[i].step] = "always"
      => \E j \in DOMAIN reports :
           reports[j].phase = "post" /\ reports[j].step = reports[i].step
=============================================================================
