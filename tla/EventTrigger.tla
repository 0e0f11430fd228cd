---------------------------- MODULE EventTrigger ----------------------------
(***************************************************************************)
(* The synthetic event of a run: what the repository says of the commit,   *)
(* the triggers that declare the event, their branch, type and path        *)
(* filters, and the typed inputs of a dispatch.  The result is either an   *)
(* event or the reason why none is built.                                  *)
(***************************************************************************)
EXTENDS Integers, Sequences, FiniteSets, SequencesExt, FiniteSetsExt

CONSTANTS
  MaxPaths,    \* MAX_CHANGED_PATHS: changed paths that count
  ChunkSize,   \* MAX_PATTERNS_PER_SET
  SetBudget,   \* compiled size that a pattern set may have
  Cases        \* requests: [kind, triggers, given, repo]

\* A repository is [commits, branch, paths, prPaths, upstream, heads, branches,
\* related, clean]: branch "" is a detached HEAD; heads gives the default
\* branch of a remote; related are the revisions that share history with HEAD.
\* A trigger is [event, branches, branchesIgnore, tags, types, paths,
\* pathsIgnore, inputs]; a pattern [neg, hits, cost] with `neg` the leading '!'.
VARIABLES request, phase, git, matched, event

triggerVars == <<request, phase, git, matched, event>>
repo == request.repo
None == <<>>

Init == request \in Cases /\ phase = "select" /\ git = None /\ matched = FALSE /\ event = None

Stop(why) == phase' = why /\ UNCHANGED <<request, git, matched, event>>

\* ------------------------------------------------------ pattern matching
\* Patterns are compiled in chunks; a chunk that does not fit is halved, and
\* a single pattern that does not fit is an error.
Cost(ps) == FoldLeft(LAMBDA a, p : a + p.cost, 0, ps)
RECURSIVE CompileChunk(_)
CompileChunk(ps) ==
  LET mid == Len(ps) \div 2
  IN CASE ps = <<>> -> <<>>
       [] ps # <<>> /\ (Len(ps) = 1 \/ Cost(ps) <= SetBudget) -> <<ps>>
       [] OTHER -> CompileChunk(SubSeq(ps, 1, mid)) \o CompileChunk(SubSeq(ps, mid + 1, Len(ps)))
RECURSIVE CompilePatterns(_)
CompilePatterns(ps) ==
  IF ps = <<>> THEN <<>>
  ELSE LET n == Min({ChunkSize, Len(ps)})
       IN CompileChunk(SubSeq(ps, 1, n)) \o CompilePatterns(SubSeq(ps, n + 1, Len(ps)))
Compiles(ps) == \A i \in DOMAIN ps : ps[i].cost <= SetBudget

\* A '!' means negation only in the positive lists; elsewhere it is a letter.
Hits(p, v, negation) == v \in p.hits /\ (negation \/ ~p.neg)
AnyMatch(ps, v) == \E i \in DOMAIN ps : Hits(ps[i], v, FALSE)
LastMatch(chunk, v) == Max({0} \cup {i \in DOMAIN chunk : Hits(chunk[i], v, TRUE)})
MutOrderedMatch(ps, v) ==   \* the first set that matches decides
  LET chunks == CompilePatterns(ps)
      hit == {c \in DOMAIN chunks : LastMatch(chunks[c], v) > 0}
  IN hit # {} /\ LET c == chunks[Min(hit)] IN ~c[LastMatch(c, v)].neg
OrderedMatch(ps, v) ==
  LET chunks == CompilePatterns(ps)
      hit == {c \in DOMAIN chunks : LastMatch(chunks[c], v) > 0}
  IN hit # {} /\ LET c == chunks[Max(hit)] IN ~c[LastMatch(c, v)].neg

RefFilterMatches(included, ignored, v) ==
  IF included # <<>> THEN OrderedMatch(included, v) ELSE ~AnyMatch(ignored, v)
PushBranchMatches(t, v) ==
  IF t.branches = <<>> /\ t.branchesIgnore = <<>> /\ t.tags THEN FALSE
  ELSE RefFilterMatches(t.branches, t.branchesIgnore, v)
PathFilterMatches(t, paths) ==
  LET seen == SubSeq(paths, 1, Min({MaxPaths, Len(paths)}))
  IN IF t.paths # <<>> THEN \E i \in DOMAIN seen : OrderedMatch(t.paths, seen[i])
     ELSE t.pathsIgnore = <<>> \/ \E i \in DOMAIN seen : ~AnyMatch(t.pathsIgnore, seen[i])

WebhookFilterMatches(t, kind) ==
  \/ t.event = "workflow_dispatch"
  \/ /\ IF kind = "push" THEN PushBranchMatches(t, git.branch)
        ELSE RefFilterMatches(t.branches, t.branchesIgnore, git.base)
     /\ kind = "pull_request" => t.types = {} \/ "opened" \in t.types
     /\ PathFilterMatches(t, IF kind = "pull_request" THEN git.prPaths ELSE git.paths)
FilterCompiles(t) ==
  Compiles(t.branches) /\ Compiles(t.branchesIgnore) /\ Compiles(t.paths) /\ Compiles(t.pathsIgnore)

\* ----------------------------------------------------------- the request
Selected == SelectSeq(request.triggers, LAMBDA t : t.event = request.kind)
SelectTriggers ==
  /\ phase = "select"
  /\ IF request.kind # "workflow_dispatch" /\ request.given # <<>> THEN Stop("inputs_for_non_dispatch")
     ELSE IF Selected = <<>> /\ ~\E i \in DOMAIN request.triggers : request.triggers[i].event = "workflow_call"
          THEN Stop("not_declared")
     ELSE phase' = "git" /\ UNCHANGED <<request, git, matched, event>>

\* The first candidate that shares history with HEAD: a foreign upstream, the
\* default branch of the upstream's remote and of origin, main, master, the
\* branch's own remote copy, the branch itself.
RemoteHead(remote) ==
  IF remote \in DOMAIN repo.heads
  THEN <<[name |-> repo.heads[remote], rev |-> <<remote, repo.heads[remote]>>]>> ELSE <<>>
BaseCandidates ==
  LET up == repo.upstream
      remote == IF up = None \/ up[1].remote = "." THEN "origin" ELSE up[1].remote
      upstream == IF up = None THEN <<>> ELSE <<[name |-> up[1].name, rev |-> <<up[1].remote, up[1].name>>]>>
      local(b) == IF b \in repo.branches THEN <<[name |-> b, rev |-> <<"local", b>>]>> ELSE <<>>
  IN (IF up # None /\ up[1].name # repo.branch THEN upstream ELSE <<>>)
     \o RemoteHead(remote) \o (IF remote # "origin" THEN RemoteHead("origin") ELSE <<>>)
     \o local("main") \o local("master") \o upstream
     \o <<[name |-> repo.branch, rev |-> <<"local", repo.branch>>]>>
PullRequestBase ==
  LET fit == SelectSeq(BaseCandidates, LAMBDA c : c.rev \in repo.related)
  IN IF fit = <<>> THEN [name |-> repo.branch, rev |-> <<"local", repo.branch>>] ELSE fit[1]
ReadChangedPaths(paths) == SubSeq(paths, 1, Min({MaxPaths, Len(paths)}))
CollectGit ==
  /\ phase = "git"
  /\ IF ~repo.commits THEN Stop("no_commits")
     ELSE IF repo.branch = "" THEN Stop("detached")
     ELSE /\ git' = [branch |-> repo.branch, base |-> PullRequestBase.name,
                     paths |-> ReadChangedPaths(repo.paths),
                     prPaths |-> ReadChangedPaths(repo.prPaths[PullRequestBase.rev])]
          /\ phase' = "filter"
          /\ UNCHANGED <<request, matched, event>>

Filter ==
  /\ phase = "filter"
  /\ IF \E i \in DOMAIN Selected : ~FilterCompiles(Selected[i]) THEN Stop("invalid_pattern")
     ELSE IF Selected # <<>> /\ ~\E i \in DOMAIN Selected : WebhookFilterMatches(Selected[i], request.kind)
          THEN Stop("filtered_out")
     ELSE phase' = "payload" /\ matched' = (Selected # <<>>) /\ UNCHANGED <<request, git, event>>

\* ------------------------------------------------------ inputs and payload
\* An input is [name, type, required, default, options]; texts are names.
Raw(input) ==
  LET given == SelectSeq(request.given, LAMBDA g : g[1] = input.name)
  IN CASE given # <<>> -> <<given[1][2]>>
       [] given = <<>> /\ input.default # <<>> -> input.default
       [] given = <<>> /\ input.default = <<>> /\ input.required -> None
       [] OTHER -> <<CASE input.type = "boolean" -> "false" [] input.type = "number" -> "0" [] OTHER -> "">>
TypedOK(input, raw) ==
  CASE input.type = "boolean" -> raw \in {"true", "TRUE", "false"}
    [] input.type = "number" -> raw \in {"0", "7"}
    [] input.type = "choice" -> raw \in input.options
    [] OTHER -> TRUE
Declared ==
  LET d == SelectSeq(request.triggers, LAMBDA t : t.event = "workflow_dispatch")
  IN IF d = <<>> THEN <<>> ELSE d[1].inputs
BuildPayload ==
  /\ phase = "payload"
  /\ LET inputs == IF request.kind = "workflow_dispatch" THEN Declared ELSE <<>>
     IN IF \E g \in ToSet(request.given) : ~\E i \in DOMAIN inputs : inputs[i].name = g[1] THEN Stop("unknown_input")
        ELSE IF \E i \in DOMAIN inputs : Raw(inputs[i]) = None THEN Stop("missing_input")
        ELSE IF \E i \in DOMAIN inputs : ~TypedOK(inputs[i], Raw(inputs[i])[1]) THEN Stop("invalid_input")
        ELSE /\ event' = [inputs |-> [i \in DOMAIN inputs |-> <<inputs[i].name, Raw(inputs[i])[1]>>],
                          known |-> (IF request.kind = "pull_request" THEN {} ELSE {"sha"})
                            \cup (IF request.kind # "pull_request" /\ repo.clean THEN {"workflow_sha"} ELSE {}),
                          deferred |-> (IF request.kind = "pull_request" THEN {"sha", "workflow_sha"} ELSE {})
                            \cup (IF repo.clean THEN {} ELSE {"workflow_sha"})]
             /\ phase' = "event"
             /\ UNCHANGED <<request, git, matched>>

Next == SelectTriggers \/ CollectGit \/ Filter \/ BuildPayload

Spec == Init /\ [][Next]_triggerVars

\* --------------------------------------------------------- correctness
\* The documented rule: of the patterns that match a value the last decides.
Wanted(ps, v) ==
  LET m == {i \in DOMAIN ps : v \in ps[i].hits} IN m # {} /\ ~ps[Max(m)].neg
Ignored(ps, v) == \E i \in DOMAIN ps : v \in ps[i].hits /\ ~ps[i].neg
ShouldRun(t) ==
  LET ref == IF request.kind = "push" THEN repo.branch ELSE PullRequestBase.name
      all == IF request.kind = "push" THEN repo.paths ELSE repo.prPaths[PullRequestBase.rev]
      counted == {all[i] : i \in {n \in DOMAIN all : n <= MaxPaths}}
  IN \/ request.kind = "workflow_dispatch"
     \/ /\ IF t.branches # <<>> THEN Wanted(t.branches, ref)
           ELSE ~Ignored(t.branchesIgnore, ref)
                /\ ~(request.kind = "push" /\ t.tags /\ t.branchesIgnore = <<>>)
        /\ request.kind = "push" \/ t.types = {} \/ "opened" \in t.types
        /\ t.paths # <<>> => \E p \in counted : Wanted(t.paths, p)
        /\ t.paths = <<>> /\ t.pathsIgnore # <<>> => ~\A p \in counted : Ignored(t.pathsIgnore, p)

\* An event is built exactly when one of the triggers declared for it lets it
\* pass (webhook_filter_matches, however the patterns were split into sets);
\* it never asks for more of the commit than it gives or defers; and the base
\* of a pull request shares history with HEAD.
EventFollowsFilters ==
  /\ phase \in {"payload", "event"} /\ Selected # <<>> => \E i \in DOMAIN Selected : ShouldRun(Selected[i])
  /\ phase = "filtered_out" => ~\E i \in DOMAIN Selected : ShouldRun(Selected[i])
  /\ phase = "event" => /\ event.known \cap event.deferred = {}
                        /\ event.known \cup event.deferred = {"sha", "workflow_sha"}
  /\ git # None => \E r \in repo.related : r[2] = git.base
=============================================================================
