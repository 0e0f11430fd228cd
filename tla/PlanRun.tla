------------------------------ MODULE PlanRun ------------------------------
(***************************************************************************)
(* One job, planned and then run.  The planner folds every field of the    *)
(* job against what is known before the run and keeps a value or a         *)
(* residual expression; the run resolves the residuals against live        *)
(* contexts that the earlier steps have changed: their outputs, their      *)
(* results and what they exported through GITHUB_ENV.  A step of the run   *)
(* is one step of the job; what its script does is chosen freely.          *)
(***************************************************************************)
EXTENDS PartialEval

CONSTANTS
  Jobs,      \* authored jobs: [wf, job, steps, outputs], see MCPlanRun
  Roots,     \* values of github, vars, inputs and matrix that the planner knows
  RunRoots,  \* the same at run time, and secrets, runner and job
  NeedIds,   \* the needed jobs, each with one declared output
  Effects    \* what a script may do: [exports, outputs, exit]

VARIABLES
  job,    \* the authored job
  phase,  \* "plan", "rejected", "run", "done" or "error"
  plan,   \* the planned fields
  rt      \* the state of the run

vars == <<job, phase, plan, rt>>

\* Texts of the fields and keys; their letters do not matter.
OutputsField == <<112>>
ResultField == <<114>>
OutcomeField == <<99>>
ConclusionField == <<107>>
OutputKey == <<111>>

\* ------------------------------------------------------------ planning
PlannerContext(steps, chain) ==
  [roots |-> [Roots EXCEPT !.needs = Obj("fresh", [i \in DOMAIN NeedIds |->
                <<NeedIds[i], Obj("fresh", <<<<OutputsField, Obj("fresh", <<<<OutputKey, Null>>>>, FALSE)>>,
                                             <<ResultField, Null>>>>, FALSE)>>], FALSE)],
   needs |-> [k \in {OrdinalKey(NeedIds[i]) : i \in DOMAIN NeedIds} |-> {OrdinalKey(OutputKey)}],
   steps |-> steps, env |-> chain, githubDeferred |-> {}, githubRuntime |-> {<<73>>},
   matrixDeferred |-> FALSE, strategyDeferred |-> {}, secretsForbidden |-> FALSE,
   outputsField |-> OutputsField, resultField |-> ResultField,
   stepFields |-> {OutcomeField, ConclusionField}]

\* A planned field: <<"static", value>>, <<"deferred", residual>> or an error.
Kept(f, value) == Try(f, IF f[1] = "res" THEN <<"deferred", f[2]>> ELSE value)
KeptString(f) == Kept(f, <<"static", ToDisplayString(f[2])>>)
KeptBool(f) == Kept(f, IF f[2][1] = "bool" THEN <<"static", f[2][2]>> ELSE Err("static"))
KeptMinutes(f) ==
  Kept(f, IF f[2][1] = "num" /\ f[2][2] \in 1..360 THEN <<"static", f[2][2]>> ELSE Err("static"))
KeptCondition(f) == Kept(f, <<"static", ~IsFalsy(f[2])>>)
PlanString(t, fc) == KeptString(FoldTemplate(t, fc))
PlanBool(t, fc) == KeptBool(FoldTemplate(t, fc))
PlanMinutes(t, fc) == KeptMinutes(FoldTemplate(t, fc))
PlanCondition(e, fc) == KeptCondition(FoldExpr(e, fc))
PlanLayer(layer, fc) == [i \in DOMAIN layer |-> <<layer[i][1], PlanString(layer[i][2], fc)>>]

\* A field that the author may leave out is a sequence of at most one element.
\* The step's own env is folded in fc, every other field in `in`, below it.
Optional(field, P(_, _), fc) == [i \in DOMAIN field |-> P(field[i], fc)]
PlanFields(s, fc, in) ==
  [id |-> s.id, env |-> PlanLayer(s.env, fc), cond |-> Optional(s.cond, PlanCondition, in),
   gate |-> s.cond = <<>> \/ ~CallsStatusFunction(s.cond[1]), script |-> PlanString(s.script, in),
   coe |-> Optional(s.coe, PlanBool, in), minutes |-> Optional(s.minutes, PlanMinutes, in)]
PlanStep(s, fc) == PlanFields(s, fc, [fc EXCEPT !.env = ExtendEnvChain(fc.env, s.env, fc, TRUE)])
CanExecute(p) == p.cond # <<<<"static", FALSE>>>>

\* The first executable step makes every env name that is not the step's own
\* runtime-mutable for the later steps and for the outputs.
RECURSIVE PlanSteps(_, _, _, _)
PlanSteps(steps, chain, slots, mutable) ==
  LET outer == IF mutable THEN AfterExecutableStep(chain) ELSE chain
      andRest(p) ==
        [PlanSteps(Tail(steps), chain, IF p.id = <<>> THEN slots ELSE slots \cup {OrdinalKey(p.id)},
                   mutable \/ CanExecute(p)) EXCEPT !.steps = <<p>> \o @]
  IN IF steps = <<>> THEN [steps |-> <<>>, last |-> PlannerContext(slots, outer)]
     ELSE andRest(PlanStep(steps[1], PlannerContext(slots, outer)))

PlanParts(j, top, inJob, ps) ==
  [wf |-> PlanLayer(j.wf, top), job |-> PlanLayer(j.job, inJob),
   steps |-> ps.steps, outputs |-> PlanString(j.outputs, ps.last)]
PlanBelow(j, top, inJob) ==
  PlanParts(j, top, inJob, PlanSteps(j.steps, ExtendEnvChain(inJob.env, j.job, top, FALSE), {}, FALSE))
PlanInstance(j) ==
  LET top == PlannerContext({}, EmptyChain)
  IN PlanBelow(j, top, PlannerContext({}, ExtendEnvChain(EmptyChain, j.wf, top, FALSE)))

PlanFails(p) ==
  \/ \E l \in {p.wf, p.job} : \E i \in DOMAIN l : IsErr(l[i][2])
  \/ IsErr(p.outputs)
  \/ \E i \in DOMAIN p.steps :
       \/ \E n \in DOMAIN p.steps[i].env : IsErr(p.steps[i].env[n][2])
       \/ IsErr(p.steps[i].script)
       \/ \E f \in {"cond", "coe", "minutes"} : p.steps[i][f] # <<>> /\ IsErr(p.steps[i][f][1])

\* -------------------------------------------------------- the run side
StringObject(pairs) == Obj("fresh", [i \in DOMAIN pairs |-> <<pairs[i][1], Str(pairs[i][2])>>], FALSE)
StepsContext(records) ==
  Obj("fresh", [i \in DOMAIN records |->
        <<records[i].id, Obj("fresh", <<<<OutputsField, StringObject(records[i].outputs)>>,
                                        <<OutcomeField, Str(records[i].outcome)>>,
                                        <<ConclusionField, Str(records[i].conclusion)>>>>, FALSE)>>], FALSE)
NeedsContext(needs) ==
  Obj("fresh", [i \in DOMAIN needs |->
        <<NeedIds[i], Obj("fresh", <<<<ResultField, Str(needs[i].result)>>,
                                     <<OutputsField, StringObject(needs[i].outputs)>>>>, FALSE)>>], FALSE)
\* Later layers win.  The env value is first built with case-insensitive
\* keys, and only then looked up by exact name.
Insert(env, pair) ==
  IF \E i \in DOMAIN env : env[i][1] = pair[1]
  THEN [i \in DOMAIN env |-> IF env[i][1] = pair[1] THEN pair ELSE env[i]]
  ELSE Append(env, pair)
LayerEnv(layers) == FoldLeft(Insert, <<>>, FlattenSeq(layers))
EnvContext(env) == Obj("fresh", StringObject(env)[3], TRUE)
LiveContext(r, env) ==
  [roots |-> [RunRoots EXCEPT !.env = EnvContext(env), !.steps = StepsContext(r.records),
                              !.needs = NeedsContext(r.needs)],
   status |-> r.status]

IsText(s, t) == OrdinalKey(s) = OrdinalKey(t)
TruthOf(v) ==
  CASE v[1] = "bool" -> v[2]
    [] v[1] = "str" /\ IsText(v[2], True) -> TRUE
    [] v[1] = "str" /\ IsText(v[2], False) -> FALSE
    [] OTHER -> ~IsFalsy(v)
Minutes(v) == IF ToNumber(v)[1] = "num" /\ ToNumber(v)[2] \in 1..360 THEN ToNumber(v) ELSE Err("minutes")

\* A planned field resolved: v is what its residual evaluates to.
Resolved(p, v, text) == IF p[1] = "static" THEN p ELSE Try(v, text)
ResolvedString(p, v) == Resolved(p, v, <<"static", ToDisplayString(v)>>)
ResolvedBool(p, v) == Resolved(p, v, <<"static", TruthOf(v)>>)
ResolvedCondition(p, v) == Resolved(p, v, <<"static", ~IsFalsy(v)>>)
ResolvedMinutes(p, v) == Resolved(p, v, Try(Minutes(v), <<"static", Minutes(v)[2]>>))
ResolveString(p, c) == ResolvedString(p, Evaluate(p[2], c))
ResolveBool(p, c) == ResolvedBool(p, Evaluate(p[2], c))
ResolveCondition(p, c) == ResolvedCondition(p, Evaluate(p[2], c))
ResolveMinutes(p, c) == ResolvedMinutes(p, Evaluate(p[2], c))
ResolveLayer(layer, c) == [i \in DOMAIN layer |-> <<layer[i][1], ResolveString(layer[i][2], c)>>]
LayerFails(layer) == \E i \in DOMAIN layer : IsErr(layer[i][2])
Texts(layer) == [i \in DOMAIN layer |-> <<layer[i][1], IF IsErr(layer[i][2]) THEN <<>> ELSE layer[i][2][2]>>]

JobEnvContext(r) == LiveContext(r, r.wfEnv)
PreContext(r) == LiveContext(r, LayerEnv(<<r.wfEnv, r.jobEnv, r.accumulated>>))
StepContext(r, env) == LiveContext(r, LayerEnv(<<r.wfEnv, r.jobEnv, r.accumulated, Texts(env)>>))

\* A step's fields as the run resolves them, its own env first.
ResolvedFields(p, env, c) ==
  [id |-> p.id, gate |-> p.gate, env |-> env, cond |-> Optional(p.cond, ResolveCondition, c),
   script |-> ResolveString(p.script, c), coe |-> Optional(p.coe, ResolveBool, c),
   minutes |-> Optional(p.minutes, ResolveMinutes, c)]
ResolvedBelow(r, p, env) == ResolvedFields(p, env, StepContext(r, env))
ResolvedStep(r, p) == ResolvedBelow(r, p, ResolveLayer(p.env, PreContext(r)))

\* ------------------------------------------------------------- actions
ResultTexts == [success |-> <<119>>, failure |-> <<102>>, skipped |-> <<122>>]
FreshRun(needs) ==
  [at |-> 0, needs |-> needs, wfEnv |-> <<>>, jobEnv |-> <<>>, accumulated |-> <<>>,
   records |-> <<>>, status |-> "success"]

Init ==
  /\ job \in Jobs
  /\ phase = "plan"
  /\ plan = <<>>
  /\ \E r \in {"success", "failure"} : \E o \in {<<>>, <<65>>} :
       rt = FreshRun([i \in DOMAIN NeedIds |->
              [result |-> ResultTexts[r], outputs |-> IF o = <<>> THEN <<>> ELSE <<<<OutputKey, o>>>>]])

Plan ==
  /\ phase = "plan"
  /\ plan' = PlanInstance(job)
  /\ phase' = IF PlanFails(plan') THEN "rejected" ELSE "run"
  /\ UNCHANGED <<job, rt>>

\* resolve_env_and_defaults: the workflow layer, then the job layer on top.
StartJob ==
  /\ phase = "run" /\ rt.at = 0
  /\ \E wf \in {ResolveLayer(plan.wf, LiveContext(rt, <<>>))} :
       LET r1 == [rt EXCEPT !.wfEnv = LayerEnv(<<Texts(wf)>>)]
       IN \E inner \in {ResolveLayer(plan.job, JobEnvContext(r1))} :
            IF LayerFails(wf) \/ LayerFails(inner)
            THEN phase' = "error" /\ UNCHANGED rt
            ELSE rt' = [r1 EXCEPT !.jobEnv = LayerEnv(<<Texts(inner)>>), !.at = 1] /\ UNCHANGED phase
  /\ UNCHANGED <<job, plan>>

AnyErr(field) == \E i \in DOMAIN field : IsErr(field[i])
Activates(status, gate, holds) == holds /\ (~gate \/ status = "success")
StepFails(s) == LayerFails(s.env) \/ AnyErr(s.cond)
Runs(s) == Activates(rt.status, s.gate, \A i \in DOMAIN s.cond : s.cond[i][2])
BodyFails(s) == AnyErr(s.coe) \/ AnyErr(s.minutes) \/ IsErr(s.script)
Recorded(r, s, outcome, conclusion, outputs) ==
  IF s.id = <<>> THEN r
  ELSE [r EXCEPT !.records = Append(@, [id |-> s.id, outcome |-> outcome,
                                        conclusion |-> conclusion, outputs |-> outputs])]
\* The step that is next, as the run sees it.
CurrentStep == IF phase = "run" /\ rt.at \in DOMAIN plan.steps THEN {ResolvedStep(rt, plan.steps[rt.at])} ELSE {}

SkipStep ==
  /\ \E s \in CurrentStep :
       /\ ~StepFails(s) /\ ~Runs(s)
       /\ rt' = [Recorded(rt, s, ResultTexts.skipped, ResultTexts.skipped, <<>>) EXCEPT !.at = @ + 1]
  /\ UNCHANGED <<job, phase, plan>>

RunStep ==
  /\ \E s \in CurrentStep :
       /\ ~StepFails(s) /\ Runs(s) /\ ~BodyFails(s)
       /\ \E effect \in Effects :
            LET conclusion == IF \E i \in DOMAIN s.coe : s.coe[i][2] THEN "success" ELSE effect.exit
            IN rt' = [Recorded(rt, s, ResultTexts[effect.exit], ResultTexts[conclusion], effect.outputs)
                        EXCEPT !.at = @ + 1,
                               !.accumulated = LayerEnv(<<@, effect.exports>>),
                               !.status = IF conclusion = "failure" THEN "failure" ELSE @]
  /\ UNCHANGED <<job, phase, plan>>

StepErrors ==
  /\ \E s \in CurrentStep : StepFails(s) \/ (Runs(s) /\ BodyFails(s))
  /\ phase' = "error"
  /\ UNCHANGED <<job, plan, rt>>

FinalizeOutputs ==
  /\ phase = "run" /\ rt.at = Len(plan.steps) + 1
  /\ phase' = IF IsErr(ResolveString(plan.outputs, PreContext(rt))) THEN "error" ELSE "done"
  /\ UNCHANGED <<job, plan, rt>>

Next ==
  \/ Plan \/ StartJob \/ SkipStep \/ RunStep \/ StepErrors \/ FinalizeOutputs

Spec == Init /\ [][Next]_vars
\* --------------------------------------------------------- correctness
\* What the author's text means: evaluate it, as written, in the context in
\* which the run uses the field.
AsText(v) == Try(v, <<"static", ToDisplayString(v)>>)
AsTruth(v) == Try(v, <<"static", TruthOf(v)>>)
AsMinutes(v) == Try(v, Try(Minutes(v), <<"static", Minutes(v)[2]>>))
AsCondition(v) == Try(v, <<"static", ~IsFalsy(v)>>)
DirectString(t, c) == AsText(EvaluateTemplate(t, c))
DirectBool(t, c) == AsTruth(EvaluateTemplate(t, c))
DirectMinutes(t, c) == AsMinutes(EvaluateTemplate(t, c))
DirectCondition(e, c) == AsCondition(Evaluate(e, c))

Agree(a, b) == a = b \/ (IsErr(a) /\ IsErr(b))
LayerAgrees(authored, resolved, c) ==
  \A i \in DOMAIN authored : Agree(resolved[i][2], DirectString(authored[i][2], c))
OptionAgrees(resolved, meant) == \A i \in DOMAIN meant : Agree(resolved[i], meant[i])
FieldsAgree(s, got, c) ==
  /\ Agree(got.script, DirectString(s.script, c))
  /\ OptionAgrees(got.cond, Optional(s.cond, DirectCondition, c))
  /\ OptionAgrees(got.coe, Optional(s.coe, DirectBool, c))
  /\ OptionAgrees(got.minutes, Optional(s.minutes, DirectMinutes, c))
StepAgrees(s, got) ==
  /\ LayerAgrees(s.env, got.env, PreContext(rt))
  /\ LayerFails(got.env) \/ FieldsAgree(s, got, StepContext(rt, got.env))

\* Whatever the earlier steps exported, output or failed with, every field of
\* the plan resolves at run time to what its original text means there: the
\* planner (fold_expr, extend_env_chain, plan_step) never freezes a value that
\* the run (layer_step_env, build_context) can still change.
PlanAgreesWithRun ==
  /\ phase = "run" /\ rt.at = 0 =>
       LayerAgrees(job.wf, ResolveLayer(plan.wf, LiveContext(rt, <<>>)), LiveContext(rt, <<>>))
  /\ phase = "run" /\ rt.at = 1 =>
       LayerAgrees(job.job, ResolveLayer(plan.job, JobEnvContext(rt)), JobEnvContext(rt))
  /\ \A got \in CurrentStep : StepAgrees(job.steps[rt.at], got)
  /\ phase = "run" /\ rt.at = Len(plan.steps) + 1 =>
       Agree(ResolveString(plan.outputs, PreContext(rt)), DirectString(job.outputs, PreContext(rt)))

\* partial_eval/printer.rs:9-16 turns an array into a string because the
\* residual is a "*display* artifact only", execution evaluating "the original
\* source text", "never this tree": what runs means what the source means.
ResidualMeansTheSource == PlanAgreesWithRun
=============================================================================
