----------------------------- MODULE ActionGraph -----------------------------
(***************************************************************************)
(* What a run's steps use.  Before anything runs, preflight_plan_actions   *)
(* visits every job, follows composite actions into the actions they use   *)
(* and collects commits, images and Node versions for the RunLock; a job   *)
(* does the same again when it starts.  A reference is a sequence of       *)
(* tokens; a manifest is the result of ActionManifest!ParseManifest.       *)
(***************************************************************************)
EXTENDS Integers, Sequences, FiniteSets, SequencesExt, FiniteSetsExt

CONSTANTS
  MaxCompositeDepth,  \* MAX_COMPOSITE_DEPTH
  Commit,             \* [reference -> commit], of the references that resolve
  Worlds,             \* [reference -> manifest], of the actions that exist
  Plans               \* jobs: sequences of [uses |-> reference, skip |-> BOOLEAN]

VARIABLES
  world, plan,
  preflighted,  \* jobs visited so far
  inventory,    \* ActionPreflight so far
  booted        \* what a job resolved when it started

actionVars == <<world, plan, preflighted, inventory, booted>>

\* ----------------------------------------------------------- references
Find(s, t) == {i \in DOMAIN s : s[i] = t}
Segments(s) ==
  LET cuts == SetToSortSeq({0, Len(s) + 1} \cup Find(s, "/"), <)
  IN [i \in 1..(Len(cuts) - 1) |-> SubSeq(s, cuts[i] + 1, cuts[i + 1] - 1)]
Invalid == [kind |-> "invalid"]

ParseDocker(image) == IF image = <<>> THEN Invalid ELSE [kind |-> "docker", image |-> image]
\* How deep below the repository the path is after each of its segments.
Depths(path) ==
  LET step(d, s) == IF s \in {<<>>, <<".">>} THEN d ELSE IF s = <<"..">> THEN d - 1 ELSE d + 1
      names == Tail(Segments(path))
  IN [i \in DOMAIN names |-> FoldLeft(step, 0, SubSeq(names, 1, i))]
MutParseLocal(path) ==
  IF path \in {<<".">>, <<".", "/">>} THEN Invalid
  ELSE IF Last(Depths(path)) < 0 THEN Invalid ELSE [kind |-> "local", path |-> path]
ParseLocal(path) ==
  IF path \in {<<".">>, <<".", "/">>} \/ \E i \in DOMAIN Depths(path) : Depths(path)[i] < 0
  THEN Invalid ELSE [kind |-> "local", path |-> path]
ParseRepository(s) ==
  IF Find(s, "@") = {} THEN Invalid
  ELSE LET at == Max(Find(s, "@"))
           ref == SubSeq(s, at + 1, Len(s))
           names == Segments(SubSeq(s, 1, at - 1))
       IN IF ref = <<>> \/ Len(names) < 2 \/ <<>> \in ToSet(names) THEN Invalid
          ELSE [kind |-> "repository", owner |-> names[1], repo |-> names[2],
                path |-> SubSeq(names, 3, Len(names)), ref |-> ref]
ParseRef(s) ==
  IF s = <<>> THEN Invalid
  ELSE IF s[1] = "docker://" THEN ParseDocker(Tail(s))
  ELSE IF s = <<".">> \/ (Len(s) > 1 /\ SubSeq(s, 1, 2) = <<".", "/">>) THEN ParseLocal(s)
  ELSE ParseRepository(s)

Display(r) ==
  CASE r.kind = "docker" -> <<"docker://">> \o r.image
    [] r.kind = "local" -> r.path
    [] OTHER -> r.owner \o <<"/">> \o r.repo \o FlattenSeq([i \in DOMAIN r.path |-> <<"/">> \o r.path[i]]) \o <<"@">> \o r.ref

\* ----------------------------------------------------------- collection
Nothing == [error |-> FALSE, ids |-> {}, images |-> {}, binds |-> {}, nodes |-> {}, sibling |-> FALSE]
Failure == [Nothing EXCEPT !.error = TRUE]
\* An error ends the walk; what was collected before it is dropped with it.
Joined(a, b) ==
  IF a.error \/ b.error THEN Failure
  ELSE [error |-> FALSE, ids |-> a.ids \cup b.ids, images |-> a.images \cup b.images,
        binds |-> a.binds \cup b.binds, nodes |-> a.nodes \cup b.nodes, sibling |-> a.sibling \/ b.sibling]

\* dispatch_manifest, with what the nested uses collect.
DispatchManifest(m, nested) ==
  CASE m[1] \in {"node20", "node24"} -> [Nothing EXCEPT !.nodes = {m[1]}]
    [] m[1] = "composite" -> FoldLeft(Joined, Nothing, nested)
    [] m[1] = "docker" -> [Nothing EXCEPT !.sibling = TRUE]
    [] m[1] = "image" -> [Nothing EXCEPT !.sibling = TRUE, !.images = {m[2]}]
    [] OTHER -> Failure   \* no manifest, a bad one, or an image known only at run time
IsCheckout(r) == r.owner = <<"actions">> /\ r.repo = <<"checkout">>
SourceOf(r) == <<r.owner, r.repo>>

NestedUses(m) == IF m[1] = "composite" THEN SelectSeq(m[2], LAMBDA s : s # <<>>) ELSE <<>>
\* resolve_uses of every reference at `depth`, given those at depth + 1.
ResolveUses(w, deeper, s) ==
  LET r == ParseRef(s)
      m == IF s \in DOMAIN w THEN w[s] ELSE <<"absent">>
      below == DispatchManifest(m, [i \in DOMAIN NestedUses(m) |-> deeper[NestedUses(m)[i]]])
  IN CASE r.kind = "invalid" -> Failure
       [] r.kind = "docker" -> [Nothing EXCEPT !.sibling = TRUE, !.images = {r.image}]
       [] r.kind = "local" -> below
       [] OTHER -> IF s \notin DOMAIN Commit THEN Failure
                   ELSE LET own == [Nothing EXCEPT !.ids = {<<s, Commit[s]>>}]
                        IN IF IsCheckout(r) THEN own
                           ELSE Joined([own EXCEPT !.binds = {<<SourceOf(r), Commit[s]>>}], below)
References(w) == DOMAIN w \cup DOMAIN Commit \cup UNION {ToSet(NestedUses(w[s])) : s \in DOMAIN w}
MutResolved(w) ==   \* no limit is checked at the last level
  LET at[left \in 0..(MaxCompositeDepth + 1)] ==
        [s \in References(w) |-> IF left = 0 THEN Nothing ELSE ResolveUses(w, at[left - 1], s)]
  IN at[MaxCompositeDepth + 1]
Resolved(w) ==   \* at depth 0: the limit is reached one level past the deepest allowed
  LET at[left \in 0..(MaxCompositeDepth + 1)] ==
        [s \in References(w) |-> IF left = 0 THEN Failure ELSE ResolveUses(w, at[left - 1], s)]
  IN at[MaxCompositeDepth + 1]

UsesOf(w, steps) ==
  LET live == SelectSeq(steps, LAMBDA s : ~s.skip)
  IN [i \in DOMAIN live |-> IF live[i].uses = <<>> THEN Nothing
                            ELSE IF live[i].uses \in References(w) THEN Resolved(w)[live[i].uses]
                            ELSE ResolveUses(w, [s \in {} |-> Nothing], live[i].uses)]
ResolveJobActions(w, steps) == FoldLeft(Joined, Nothing, UsesOf(w, steps))

\* ---------------------------------------------------------------- steps
PreflightJob ==
  /\ preflighted < Len(plan) /\ ~inventory.error
  /\ preflighted' = preflighted + 1
  /\ inventory' = Joined(inventory, ResolveJobActions(world, plan[preflighted + 1]))
  /\ UNCHANGED <<world, plan, booted>>
\* Jobs start only when the whole plan was visited without an error.
BootJob(j) ==
  /\ preflighted = Len(plan) /\ ~inventory.error /\ booted = Nothing
  /\ booted' = ResolveJobActions(world, plan[j])
  /\ UNCHANGED <<world, plan, preflighted, inventory>>

Init ==
  /\ world \in Worlds /\ plan \in Plans
  /\ preflighted = 0 /\ inventory = Nothing /\ booted = Nothing
Next == PreflightJob \/ \E j \in DOMAIN plan : BootJob(j)

\* ----------------------------------------------------------- properties
Child(w, s) == IF s \in DOMAIN w THEN ToSet(NestedUses(w[s])) ELSE {}
\* What is k uses away from a step.
Reach(w, steps) ==
  LET direct == {steps[i].uses : i \in {j \in DOMAIN steps : ~steps[j].skip /\ steps[j].uses # <<>>}}
      at[k \in 0..(MaxCompositeDepth + 1)] ==
        IF k = 0 THEN direct ELSE UNION {Child(w, s) : s \in {x \in at[k - 1] : ParseRef(x).kind \in {"local", "repository"}}}
  IN at
Reachable(w, steps) == UNION {Reach(w, steps)[k] : k \in 0..(MaxCompositeDepth + 1)}
Usable(w, s) ==
  LET r == ParseRef(s)
  IN \/ r.kind = "docker"
     \/ r.kind = "repository" /\ s \in DOMAIN Commit /\ IsCheckout(r)
     \/ /\ r.kind = "local" \/ (r.kind = "repository" /\ s \in DOMAIN Commit)
        /\ s \in DOMAIN w /\ w[s][1] \in {"node20", "node24", "composite", "docker", "image"}
AllSteps == FlattenSeq(SubSeq(plan, 1, preflighted))

\* The preflight refuses a plan exactly when something its live steps reach
\* cannot be used or lies deeper than the limit (so a cycle of composite
\* actions is refused and ends), and otherwise locks exactly the commits of
\* the repository actions reached; what a job asks for when it starts was
\* all locked before.
ActionsAreExact ==
  LET reach == Reachable(world, AllSteps)
      ok == /\ Reach(world, AllSteps)[MaxCompositeDepth + 1] = {}
            /\ \A s \in reach : Usable(world, s)
  IN /\ inventory.error <=> ~ok
     /\ ~inventory.error =>
          /\ inventory.ids = {<<s, Commit[s]>> : s \in {x \in reach : ParseRef(x).kind = "repository"}}
          /\ inventory.nodes = {world[s][1] : s \in {x \in reach : x \in DOMAIN world /\ world[x][1] \in {"node20", "node24"}}}
     /\ ~booted.error /\ booted.ids \subseteq inventory.ids /\ booted.images \subseteq inventory.images
     /\ booted.nodes \subseteq inventory.nodes

\* A reference that is accepted is written back as it was read, and no
\* prefix of a local path leaves the repository.
ReferenceIsKept(s) ==
  LET r == ParseRef(s)
  IN r # Invalid => /\ Display(r) = s
                    /\ r.kind = "local" => \A i \in DOMAIN Depths(s) : Depths(s)[i] >= 0
=============================================================================
