------------------------------ MODULE MCCompile ------------------------------
(***************************************************************************)
(* The algorithms that turn a workflow file and an event into a plan, each *)
(* on its own: one behaviour works on one of the parts.                    *)
(***************************************************************************)
EXTENDS MCPlanRun, TLC

CONSTANTS
  DepthLimit, Alphabets, MaxTokens   \* of ExprParser

VARIABLES
  part,
  alphabet, read, frames, failed, outcome,
  needs, deps, index, low, stack, calls, sccs, order, indegree, ready, support, traits, done, used, lints, skip,
  strategy, axes, legs, extra, excludes, includes, deadExcludes,
  request, git, matched, event,
  source, feed, open, nodes, discard, root, docs, error, manifest,
  world, preflighted, inventory, booted

\* ------------------------------------------------------------- instances
Parser == INSTANCE ExprParser WITH MaxDepth <- DepthLimit
MCNeeds == {<<>>, <<0>>, <<1>>, <<2>>, <<3>>, <<1, 2>>, <<2, 1>>, <<2, 3>>, <<3, 1>>, <<3, 2, 1>>, <<2, 2>>, <<3, 1, 3>>}
JobTrait(c, reads, l, n, outs, refs) == [cond |-> c, reads |-> reads, legs |-> l, count |-> n, outs |-> outs, refs |-> refs, size |-> 1]
MCTraits == {JobTrait("none", {}, "one", 1, {"o"}, {<<1, "o">>}), JobTrait("false", {"github"}, "one", 1, {}, {}),
             JobTrait("open", {"needs"}, "matrix", 2, {"o"}, {<<2, "o">>, <<2, "x">>}), JobTrait("always", {}, "pending", 1, {}, {<<1, "x">>, <<3, "o">>}),
             JobTrait("false", {}, "matrix", 0, {}, {}), JobTrait("open", {"env"}, "one", 1, {}, {})}
Plain == [environment |-> FALSE, reusable |-> FALSE, permissions |-> "absent"]
AllPlain == [call |-> FALSE, oidc |-> "absent", jobs |-> <<Plain, Plain, Plain>>]
MCSupports ==
  {[call |-> FALSE, oidc |-> o, jobs |-> <<Plain, [Plain EXCEPT !.permissions = p], Plain>>] :
     o \in {"absent", "write-all", "read"}, p \in {"absent", "read", "id-token"}}
  \cup {[call |-> c, oidc |-> "read", jobs |-> <<[Plain EXCEPT !.environment = e], Plain, [Plain EXCEPT !.reusable = r]>>] :
          c \in BOOLEAN, e \in BOOLEAN, r \in BOOLEAN}
\* Every construct once with the simplest graph, every graph without one.
Graph == INSTANCE JobGraph WITH N <- 3, Needs <- MCNeeds, Traits <- MCTraits, Supports <- MCSupports, MaxSize <- 5

Item(when, kind, vals) == <<when, kind, vals>>
L(v) == Item("plan", "lit", <<v>>)
Entry(when, vals) == [when |-> when, object |-> TRUE, vals |-> vals]
\* Literals, values nested in deferred data, and spliced arrays at plan and at run time.
AxisA == {<<L(1)>>, <<L(1), L(2)>>, <<Item("run", "array", <<1, 2>>), L(2)>>, <<Item("plan", "array", <<2, 1>>)>>,
          <<Item("run", "array", <<>>)>>, <<Item("run", "scalar", <<>>)>>, <<Item("run", "lit", <<1>>), L(1)>>}
AxisB == {<<L(1), L(2)>>, <<Item("plan", "scalar", <<>>)>>, <<L(1), L(2), L(3)>>}
MCAxes == {<<>>} \cup {<<<<"a", x>>>> : x \in AxisA} \cup {<<<<"a", x>>, <<"b", y>>>> : x \in AxisA, y \in AxisB}
Ent(when) == {Entry(when, [a |-> 1]), Entry(when, [a |-> 1, c |-> 7]), Entry(when, [c |-> 8]),
              Entry(when, [a |-> 3, b |-> 1]), Entry(when, [b |-> 2, c |-> 9])}
Includes == {<<>>} \cup {<<x>> : x \in Ent("plan")} \cup {<<x, y>> : x \in Ent("plan"), y \in Ent("run")}
              \cup {<<Entry("plan", [a |-> 3]), Entry("plan", [a |-> 3, c |-> 7]), Entry("plan", [c |-> 7])>>}
Excludes == {<<>>, <<Entry("plan", [a |-> 1])>>, <<Entry("run", [a |-> 2, b |-> 1]), Entry("plan", [b |-> 1])>>,
             <<Entry("plan", [a |-> 1, c |-> 7])>>, <<Entry("plan", <<>>)>>}
Strategy(k, w, shaped, ax, inc, exc, ff, mp) ==
  [kind |-> k, when |-> w, shaped |-> shaped, axes |-> ax, include |-> inc, exclude |-> exc,
   failFast |-> ff, maxParallel |-> mp]
NoCap == <<"plan", "absent", 0>>
On == <<"plan", "bool", 1>>
Strategies ==
  {Strategy("inline", "plan", TRUE, ax, inc, exc, On, NoCap) : ax \in MCAxes, inc \in Includes, exc \in Excludes}
  \cup {Strategy("inline", "plan", TRUE, <<<<"a", <<L(1)>>>>>>, <<>>, <<>>, ff, mp) :
          ff \in {<<w, t, 1>> : w \in {"plan", "run"}, t \in {"bool", "text"}},
          mp \in {NoCap} \cup {<<w, t, n>> : w \in {"plan", "run"}, t \in {"number", "text"}, n \in 0..1}}
  \cup {Strategy("expr", w, s, <<<<"a", <<Item(w, k, <<1, 2>>)>>>>>>, <<[when |-> w, object |-> o, vals |-> [a |-> 2, c |-> 7]]>>,
                 <<Entry(w, [a |-> 1])>>, On, NoCap) :
          w \in {"plan", "run"}, s \in BOOLEAN, k \in {"array", "scalar"}, o \in BOOLEAN}
Matrix == INSTANCE MatrixPlan WITH Cap <- 4, Sources <- Strategies

P(neg, hits, cost) == [neg |-> neg, hits |-> hits, cost |-> cost]
Patterns == {<<>>, <<P(FALSE, {"main", "dev", "p", "q"}, 1), P(TRUE, {"dev", "q"}, 1)>>,
             <<P(FALSE, {"q"}, 2), P(TRUE, {"p", "q"}, 1), P(FALSE, {"q", "main"}, 1), P(TRUE, {"r", "main"}, 1), P(FALSE, {"dev"}, 1)>>,
             <<P(TRUE, {"p", "main"}, 1)>>, <<P(FALSE, {"p"}, 3)>>}
Trigger(e, bs, bi, tags, types, ps, pi, ins) ==
  [event |-> e, branches |-> bs, branchesIgnore |-> bi, tags |-> tags, types |-> types,
   paths |-> ps, pathsIgnore |-> pi, inputs |-> ins]
Hooks == {Trigger(e, f[1], f[2], tags, ty, g[1], g[2], <<>>) :
            e \in {"push", "pull_request"}, tags \in BOOLEAN, ty \in {{}, {"closed"}, {"closed", "opened"}},
            f \in {<<a, b>> \in Patterns \X Patterns : a = <<>> \/ b = <<>>},
            g \in {<<a, b>> \in Patterns \X Patterns : a = <<>> \/ b = <<>>}}
Input(t, r, d) == [name |-> "i", type |-> t, required |-> r, default |-> d, options |-> {"7", "x"}]
Dispatches == {Trigger("workflow_dispatch", <<>>, <<>>, FALSE, {}, <<>>, <<>>, <<Input(t, r, d)>>) :
                 t \in {"boolean", "number", "choice", "string"}, r \in BOOLEAN, d \in {<<>>, <<"7">>, <<"true">>}}
Repo(commits, branch, paths, up, heads, branches, related, clean) ==
  [commits |-> commits, branch |-> branch, paths |-> paths, upstream |-> up, heads |-> heads,
   branches |-> branches, related |-> related, clean |-> clean,
   prPaths |-> [r \in related |-> IF r[2] = "main" THEN <<"q", "p">> ELSE paths]]
Up(n, r) == <<[name |-> n, remote |-> r]>>
Origin == [origin |-> "main"]
Repos == {Repo(TRUE, "dev", <<"p", "r", "q">>, Up("dev", "fork"), [fork |-> "dev", origin |-> "main"], {"dev"},
               {<<"local", "dev">>, <<"origin", "main">>}, TRUE),
          Repo(TRUE, "dev", <<"q">>, Up("main", "origin"), Origin, {"dev", "master"},
               {<<"local", "dev">>, <<"local", "master">>, <<"origin", "main">>}, FALSE),
          Repo(TRUE, "main", <<>>, <<>>, <<>>, {"main"}, {<<"local", "main">>}, TRUE),
          Repo(TRUE, "", <<>>, <<>>, <<>>, {}, {<<"local", "">>}, TRUE),
          Repo(FALSE, "main", <<>>, <<>>, <<>>, {}, {<<"local", "main">>}, TRUE)}
Request(k, ts, g, r) == [kind |-> k, triggers |-> ts, given |-> g, repo |-> r]
Requests ==
  {Request(k, <<t>>, <<>>, r) : k \in {"push", "pull_request"}, t \in Hooks, r \in Repos}
  \cup {Request("workflow_dispatch", <<d>>, g, r) : d \in Dispatches, r \in Repos,
          g \in {<<>>, <<<<"i", "false">>>>, <<<<"i", "7">>>>, <<<<"other", "7">>>>}}
  \cup {Request("push", <<Trigger(e, <<>>, <<>>, FALSE, {}, <<>>, <<>>, <<>>)>>, g, r) :
          e \in {"workflow_call", "push"}, r \in Repos, g \in {<<>>, <<<<"i", "7">>>>}}
Events == INSTANCE EventTrigger WITH MaxPaths <- 2, ChunkSize <- 3, SetBudget <- 2, Cases <- Requests

T(text) == <<"s", text, "plain">>
M(pairs) == <<"m", pairs, "plain">>
Q(items) == <<"q", items, "plain">>
Null0 == T("null")
Marked == {T("k"), T("K"), T("j"), <<"s", "k", "anchor">>, <<"s", "k", "tag">>, <<"*", "", "">>, Q(<<T("k")>>), M(<<>>),
           <<"m", <<<<T("k"), T("k")>>>>, "anchor">>, <<"q", <<>>, "tag">>, Q(<<Q(<<Q(<<T("k")>>)>>)>>)}
Files ==
  {<<>>, <<T("k"), T("k")>>} \cup {<<M(<<<<a, b>>, <<c, T("k")>>>>)>> : a \in Marked, b \in Marked, c \in Marked}
  \cup {<<Q(<<a, b>>)>> : a \in Marked, b \in Marked}
StepNodes == {M(<<<<T("uses"), T("a")>>>>), M(<<<<T("run"), T("k")>>, <<T("shell"), T("sh")>>>>), M(<<<<T("run"), T("k")>>>>),
              M(<<<<T("run"), Null0>>, <<T("uses"), <<"s", "null", "quoted">>>>>>), M(<<<<T("env"), Q(<<>>)>>, <<T("uses"), T("a")>>>>),
              M(<<<<T("run"), T("k")>>, <<T("uses"), T("a")>>, <<T("shell"), T("sh")>>>>), M(<<>>), T("k"),
              M(<<<<T("uses"), T("b")>>, <<T("with"), M(<<<<T("k"), Null0>>>>)>>>>)}
RunsNodes ==
  {M(<<<<T("using"), u>>, x>>) : u \in {T("node20"), T("node24"), T("docker"), T("other"), Null0},
     x \in {<<T("main"), T("k")>>, <<T("main"), Null0>>, <<T("image"), T("i")>>, <<T("pre"), T("k")>>, <<T("args"), Q(<<>>)>>}}
  \cup {M(<<<<T("using"), T("docker")>>, <<T("image"), T("i")>>, <<k, x>>>>) : k \in {T("args"), T("env"), T("entrypoint"), T("main")},
          x \in {Q(<<Null0>>), Q(<<T("k")>>), M(<<>>), T("k")}}
  \cup {M(<<<<T("using"), T("composite")>>, <<T("steps"), Q(<<a, b>>)>>>>) : a \in StepNodes, b \in StepNodes}
  \cup {T("k"), M(<<>>), M(<<<<T("using"), T("composite")>>, <<T("steps"), M(<<>>)>>>>)}
FieldNodes == {M(<<>>), T("k"), M(<<<<T("k"), M(<<<<T("required"), T("true")>>>>)>>>>), M(<<<<T("k"), M(<<<<T("required"), T("k")>>>>)>>>>),
               M(<<<<T("k"), M(<<<<T("value"), T("k")>>>>)>>>>), M(<<<<T("k"), Q(<<>>)>>>>)}
Manifests ==
  {<<M(<<<<T("runs"), r>>>>)>> : r \in RunsNodes}
  \cup {<<M(<<<<T("runs"), M(<<<<T("using"), T("node20")>>, <<T("main"), T("k")>>>>)>>, <<k, f>>>>)>> :
          k \in {T("inputs"), T("outputs"), T("name"), T("Runs")}, f \in FieldNodes}
Manifest == INSTANCE ActionManifest WITH YamlDepth <- 5, MaxNodes <- 22, Sources <- Files \cup Manifests, frames <- open

Use(n) == <<"o", "/", n, "@", "v">>
Local == <<".", "/", "l">>
Image == <<"docker://", "i">>
Checkout == <<"actions", "/", "checkout", "@", "v">>
Commits == [s \in {Use("a"), Use("b"), Checkout} |-> "sha"]
Kinds == {<<"node20">>, <<"node24">>, <<"docker">>, <<"image", <<"i">>>>, <<"late">>}
  \cup {<<"composite", steps>> : steps \in {<<>>, <<Use("a")>>, <<Use("b")>>, <<Local>>, <<Image>>, <<Checkout, <<>>>>, <<Use("a"), Local>>,
           <<Use("b"), <<>>, Local>>, <<Use("x")>>}}
StepsOf(refs) == [i \in DOMAIN refs |-> [uses |-> refs[i], skip |-> FALSE]]
Skipped(ref) == <<[uses |-> ref, skip |-> TRUE]>>
JobPlans == {<<StepsOf(<<Use("a")>>)>>, <<StepsOf(<<Local, Checkout>>), StepsOf(<<Image>>)>>, <<StepsOf(<<Use("b"), <<>>>>), Skipped(Use("a"))>>,
             <<Skipped(Use("x")), StepsOf(<<>>), StepsOf(<<Use("a"), Use("b")>>)>>}
Tokens == {"docker://", ".", "..", "/", "@", "n"}
Written == UNION {[1..n -> Tokens] : n \in 0..6}
Actions == INSTANCE ActionGraph WITH MaxCompositeDepth <- 1, Commit <- Commits,
  Worlds <- [{Use("a"), Use("b"), Local} -> Kinds], Plans <- JobPlans

Spellings == [a |-> "A", A |-> "A", b |-> "B", B |-> "B", GITHUB_TOKEN |-> "GITHUB_TOKEN", n9 |-> "n9"]
Inputs == INSTANCE InputValues WITH Canon <- Spellings, BadNames <- {"n9", "GITHUB_TOKEN"}, TokenName <- "GITHUB_TOKEN"
Given == {<<>>, <<<<"a", "1">>>>, <<<<"A", "big">>, <<"a", "2">>>>, <<<<"a", "3">>, <<"GITHUB_TOKEN", "4">>>>}
InputCases ==
  {[refs |-> r, dynamic |-> d, cli |-> cli, env |-> env, dotenv |-> dot[2], fileExists |-> dot[1], repo |-> rm[1], org |-> rm[2],
    auth |-> net # "none", reachable |-> net = "ok", prompt |-> pr] :
     r \in {{}, {"a"}, {"A", "b"}, {"b", "GITHUB_TOKEN"}, {"n9", "b"}, {"a", "b"}}, d \in BOOLEAN, cli \in Given,
     env \in {<<>>, <<<<"A", "5">>, <<"a", "6">>>>, <<<<"b", "raw">>>>, <<<<"B", "7">>, <<"GITHUB_TOKEN", "raw">>>>, <<<<"a", "big">>>>},
     dot \in {<<FALSE, <<>>>>, <<TRUE, <<>>>>, <<TRUE, <<<<"b", "8">>, <<"B", "9">>>>>>, <<TRUE, <<<<"a", "big">>>>>>},
     rm \in {<<<<>>, <<>>>>, <<[A |-> "10"], [A |-> "11", B |-> "12"]>>, <<<<>>, [B |-> "13"]>>}, net \in {"none", "broken", "ok"}, pr \in BOOLEAN}
Pulls == INSTANCE ImageReference
PullTokens == {"name", "host", "localhost", "docker.io", "library", "/", ":", "@", "UP"}
Pulled == UNION {[1..n -> PullTokens] : n \in 0..5}

\* --------------------------------------------------------- one part a run
parserVars == <<alphabet, read, frames, failed, outcome>>
planVars == <<job, rt>>
graphVars == <<needs, deps, index, low, stack, calls, sccs, order, indegree, ready, support, traits, done, used, lints, skip>>
matrixVars == <<strategy, axes, legs, extra, excludes, includes, deadExcludes>>
eventVars == <<request, git, matched, event>>
manifestVars == <<source, feed, open, nodes, discard, root, docs, error, manifest>>
actionVars == <<world, preflighted, inventory, booted>>
GraphIdle ==
  /\ needs = <<>> /\ deps = <<>> /\ index = <<>> /\ low = <<>> /\ stack = <<>> /\ calls = <<>> /\ sccs = <<>>
  /\ order = <<>> /\ indegree = <<>> /\ ready = {}
  /\ support = <<>> /\ traits = <<>> /\ done = 0 /\ used = 0 /\ lints = {} /\ skip = <<>>
MatrixIdle ==
  /\ strategy = <<>> /\ axes = <<>> /\ legs = <<>> /\ extra = <<>> /\ excludes = <<>> /\ includes = <<>>
  /\ deadExcludes = 0
EventIdle == request = <<>> /\ git = <<>> /\ matched = FALSE /\ event = <<>>
ManifestIdle ==
  source = <<>> /\ feed = <<>> /\ open = <<>> /\ nodes = 0 /\ discard = FALSE /\ root = <<>> /\ docs = <<>> /\ error = "" /\ manifest = <<>>
ActionsIdle == world = <<>> /\ (part # "planning" => plan = <<>>) /\ preflighted = 0 /\ inventory = <<>> /\ booted = <<>>
PlanningIdle == job = <<>> /\ rt = <<>>
ParserIdle == alphabet = {} /\ read = <<>> /\ frames = <<>> /\ failed = FALSE /\ outcome = <<>>

CompileInit ==
  /\ part \in {"planning", "parser", "graph", "matrix", "event", "manifest", "actions", "written", "pulled", "inputs"}
  /\ part \notin {"planning", "graph", "matrix", "event"} => phase = ""
  /\ IF part = "planning" THEN Init ELSE PlanningIdle
  /\ IF part = "parser" THEN Parser!Init ELSE ParserIdle
  /\ IF part = "graph" THEN Graph!Init /\ (support # AllPlain => needs = <<<<>>, <<1>>, <<1>>>>) ELSE GraphIdle
  /\ IF part = "matrix" THEN Matrix!Init ELSE MatrixIdle
  /\ IF part = "event" THEN Events!Init ELSE EventIdle
  /\ IF part = "manifest" THEN Manifest!Init ELSE ManifestIdle
  /\ IF part = "actions" THEN Actions!Init
     ELSE IF part \in {"written", "pulled", "inputs"}
       THEN /\ plan \in CASE part = "written" -> Written [] part = "pulled" -> Pulled [] part = "inputs" -> InputCases
            /\ world = <<>> /\ preflighted = 0 /\ inventory = <<>> /\ booted = <<>>
     ELSE ActionsIdle
CompileNext ==
  /\ UNCHANGED part
  /\ \/ part = "planning" /\ Next /\ UNCHANGED <<parserVars, graphVars, matrixVars, eventVars, manifestVars, actionVars>>
     \/ part = "parser" /\ Parser!Next /\ UNCHANGED <<graphVars, matrixVars, eventVars, manifestVars, actionVars, planVars, phase, plan>>
     \/ part = "graph" /\ Graph!Next /\ UNCHANGED <<parserVars, matrixVars, eventVars, manifestVars, actionVars, planVars, plan>>
     \/ part = "matrix" /\ Matrix!Next /\ UNCHANGED <<parserVars, graphVars, eventVars, manifestVars, actionVars, planVars, plan>>
     \/ part = "event" /\ Events!Next /\ UNCHANGED <<parserVars, graphVars, matrixVars, manifestVars, actionVars, planVars, plan>>
     \/ part = "manifest" /\ Manifest!Next /\ UNCHANGED <<parserVars, graphVars, matrixVars, eventVars, actionVars, planVars, phase, plan>>
     \/ part = "actions" /\ Actions!Next /\ UNCHANGED <<parserVars, graphVars, matrixVars, eventVars, manifestVars, planVars, phase>>
CompileSpec ==
  CompileInit /\ [][CompileNext]_<<part, phase, plan, parserVars, graphVars, matrixVars, eventVars, manifestVars, actionVars, planVars>>

\* The properties of the parts; each is stated and explained in its module.
\* parse_tokens reads what the grammar says.
ParserIsExact == part = "parser" => Parser!ParserAgrees
\* find_cycles refuses exactly the cyclic needs and shows real cycles;
\* kahn_topological_order and compute_waves place every job after its needs;
\* propagate_static_skips skips exactly what no run could run.
GraphIsExact == part = "graph" => Graph!CyclesAreExact /\ Graph!OrderIsTopological /\ Graph!SkipsAreExact
\* plan refuses what it cannot run and reports what would go wrong.
PlanIsHonest == part = "graph" => Graph!PlanIsHonest
\* run_algorithm gives the documented legs whatever part is deferred.
LegsFollowTheRule == part = "matrix" => Matrix!LegsFollowTheRule
\* build_synthetic_event lets an event pass exactly when a filter does.
EventFollowsFilters == part = "event" => Events!EventFollowsFilters
\* preflight_plan_actions locks exactly what the plan's live steps reach;
\* ActionRef::parse keeps the reference and keeps it inside the repository;
\* RegistryReference::parse and immutable_pull_reference keep where an image is;
\* parse_raw and parse_manifest read an action.yml as written or not at all.
ActionsAreExact ==
  /\ part = "manifest" => Manifest!ManifestIsExact
  /\ part = "actions" => Actions!ActionsAreExact
  /\ part = "written" => Actions!ReferenceIsKept(plan)
  /\ part = "pulled" => Pulls!PullReferenceIsKept(plan)
\* fold_expr and plan_step never freeze what the run can still change.
PlanMeansTheSource == part = "planning" => PlanAgreesWithRun
\* resolve_vars_with_remote and resolve_secrets give every name the value of its strongest source.
InputsAreExact == part = "inputs" => Inputs!InputsAreExact(plan)
\* vars.rs:364-368: an authenticated lookup that GitHub answers leaves no name without a value.
AbsentIsEmpty == part = "inputs" => Inputs!AbsentIsEmpty(plan)
=============================================================================
