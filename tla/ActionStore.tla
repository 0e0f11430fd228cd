----------------------------- MODULE ActionStore -----------------------------
(***************************************************************************)
(* From a mutable reference to the directory an action runs from.  A run   *)
(* resolves and fetches every reference (preflight), resolves them again   *)
(* and freezes, and fetches by the locked commits when a job starts; the   *)
(* daemon prefetches the same way and never freezes; `litci clean` removes *)
(* objects and directories under all of them.  Processes may be killed.    *)
(*                                                                         *)
(* The tree of a commit is <<commit, form>>: the tarball and the clone of  *)
(* a commit in Exported differ (export-ignore), the others are equal.      *)
(***************************************************************************)
EXTENDS Integers, Sequences, FiniteSets, Functions

CONSTANTS
  Clients,           \* processes
  Modes,             \* what they are: [Clients -> {"run", "offline", "daemon"}]
  Refs,              \* sequence of the references the workflow uses
  Shas, Start,       \* commits; what a reference names at first
  Kind,              \* a reference is a "branch", a "tag" or an "annotated" tag
  Exported,          \* commits whose tarball leaves files out
  Archives,          \* tarballs: [entries, tops, kinds, status]
  MaxEntries,        \* MAX_EXTRACTED_ENTRIES
  Sizes,             \* of GitHub's answers
  MaxResponseBytes,  \* MAX_RESPONSE_BYTES
  ReportBytes,       \* what resolve_blocking keeps of a body
  MaxFaults          \* moves, kills, cleans and broken transfers in a behaviour (bound)

NoSha == "none"
NoTree == <<>>
Part == <<"part">>

ActionAssumption ==
  /\ Refs \in Seq(Range(Refs)) /\ Refs # <<>>
  /\ Start \in [Range(Refs) -> Shas]
  /\ Modes \subseteq [Clients -> {"run", "offline", "daemon"}]
  /\ Shas \cap {NoSha, "network", "unread", "cut", "offline"} = {}

VARIABLES
  mode,
  past,       \* the commits all references named on GitHub, from first to present
  textAlias,  \* action-ref: the commit it named when it was last resolved
  alias,      \* action-commit: the tree recorded for a commit
  objects,    \* trees that are whole in the content store
  dest,       \* actions/<owner>/<repo>/<commit>
  node,       \* node-runtimes/<version>/<variant>/<sha256>
  stage, step, pos, sha, tmp, prev,   \* of a client: where it is, and its locals
  pinned, frozen,                 \* PinnedRefResolver
  got, ran,   \* the tree a reference had in preflight and when its job started
  why,        \* the error a client ended with
  clean,      \* what litci clean is doing
  kills, cleans, breaks,
  served,     \* a run has succeeded (history)
  warm,       \* the clients that started after that (history)
  began       \* where in past a client began (history)

store == <<textAlias, alias, objects, dest, node>>
locals == <<stage, step, pos, sha, tmp, prev, pinned, frozen, got, ran, why>>
world == <<mode, past, clean, kills, cleans, breaks, served, warm, began>>
actionVars == <<store, locals, world>>

Tree(s, form) == <<s, IF s \in Exported THEN form ELSE "tar">>
TreesOf(s) == {Tree(s, "tar"), Tree(s, "git")}

OfflineClients == {c \in Clients : mode[c] = "offline"}
remote == past[Len(past)]
moves == Len(past) - 1
\* A fault counts twice, so that references may move twice or one thing fails.
MayMove == moves + 2 * (kills + cleans + breaks) < MaxFaults
MayFail == moves + 2 * (kills + cleans + breaks) + 1 < MaxFaults

ActionInit ==
  /\ mode \in Modes
  /\ past = <<Start>>
  /\ textAlias = [r \in Range(Refs) |-> NoSha]
  /\ alias = [s \in Shas |-> NoTree] /\ objects = {} /\ dest = [s \in Shas |-> NoTree] /\ node = NoTree
  /\ stage = [c \in Clients |-> "idle"] /\ step = [c \in Clients |-> "pin"] /\ pos = [c \in Clients |-> 1]
  /\ sha = [c \in Clients |-> NoSha] /\ tmp = [c \in Clients |-> NoTree] /\ prev = [c \in Clients |-> NoTree]
  /\ pinned = [c \in Clients |-> [r \in Range(Refs) |-> NoSha]] /\ frozen = [c \in Clients |-> FALSE]
  /\ got = [c \in Clients |-> [r \in Range(Refs) |-> NoTree]] /\ ran = got
  /\ why = [c \in Clients |-> ""]
  /\ clean = "no" /\ kills = 0 /\ cleans = 0 /\ breaks = 0 /\ served = FALSE /\ warm = {} /\ began = [c \in Clients |-> 0]

Set(v, c, x) == [v EXCEPT ![c] = x]
StepTo(c, label) == step' = Set(step, c, label)
\* An error ends a run; the daemon goes on with its next reference.
FailWith(c, reason) ==
  IF mode[c] # "daemon" THEN stage' = Set(stage, c, "failed") /\ why' = Set(why, c, reason) /\ UNCHANGED <<step, pos>>
  ELSE IF pos[c] < Len(Refs) THEN pos' = Set(pos, c, pos[c] + 1) /\ StepTo(c, "pin") /\ UNCHANGED <<stage, why>>
  ELSE stage' = Set(stage, c, "done") /\ UNCHANGED <<step, pos, why>>
Ref(c) == Refs[pos[c]]
Working(c, label) == stage[c] \in {"preflight", "execute"} /\ step[c] = label

\* ------------------------------------------------------------- resolving
\* run_git: a process that fails or outlives its deadline is reaped.
RunGit == IF MayFail THEN {"ok", "failed", "timeout"} ELSE {"ok"}

\* What git ls-remote prints: an annotated tag has an object of its own.
Advertised(r) ==
  CASE Kind[r] = "branch" -> [head |-> remote[r], peeled |-> NoSha, tag |-> NoSha]
    [] Kind[r] = "annotated" -> [head |-> NoSha, peeled |-> remote[r], tag |-> "object"]
    [] OTHER -> [head |-> NoSha, peeled |-> NoSha, tag |-> remote[r]]
LsRemote(r, exit) ==
  LET lines == Advertised(r)
  IN IF exit # "ok" THEN "network"
     ELSE IF lines.head # NoSha THEN lines.head ELSE IF lines.peeled # NoSha THEN lines.peeled ELSE lines.tag

\* GitHub's answer is a JSON text of `size`; a cut one does not parse.
ResolveBlocking(r, size) ==
  IF size > MaxResponseBytes THEN "unread" ELSE IF size > ReportBytes THEN "cut" ELSE remote[r]

\* PersistentRefResolver: the commit, or why there is none.
Answers(c, r) ==
  IF c \in OfflineClients THEN {IF textAlias[r] = NoSha THEN "offline" ELSE textAlias[r]}
  ELSE {LsRemote(r, exit) : exit \in RunGit} \cup {ResolveBlocking(r, size) : size \in Sizes}
MutRemember(c, r, answer) == UNCHANGED textAlias
Remember(c, r, answer) ==
  textAlias' = IF c \notin OfflineClients /\ answer \in Shas THEN [textAlias EXCEPT ![r] = answer] ELSE textAlias
CountBreak(answer) == breaks' = IF answer = "network" THEN breaks + 1 ELSE breaks

Begin(c) ==
  /\ stage[c] = "idle"
  /\ stage' = Set(stage, c, "preflight")
  /\ warm' = IF served THEN warm \cup {c} ELSE warm
  /\ began' = Set(began, c, Len(past))
  /\ UNCHANGED <<store, step, pos, sha, tmp, prev, pinned, frozen, got, ran, why, mode, past, clean, kills, cleans, breaks, served>>

\* PinnedRefResolver::resolve, of a reference that is not a full commit.
Pinned(c) ==
  /\ Working(c, "pin")
  /\ LET known == pinned[c][Ref(c)]
     IN IF known # NoSha
          THEN sha' = Set(sha, c, known) /\ StepTo(c, "dest") /\ UNCHANGED <<stage, pos, why, textAlias, pinned, breaks>>
        ELSE IF frozen[c]
          THEN FailWith(c, "absent") /\ UNCHANGED <<sha, textAlias, pinned, breaks>>
        ELSE \E answer \in Answers(c, Ref(c)) :
               /\ Remember(c, Ref(c), answer) /\ CountBreak(answer)
               /\ IF answer \notin Shas THEN FailWith(c, answer) /\ UNCHANGED <<sha, pinned>>
                  ELSE /\ sha' = Set(sha, c, answer) /\ pinned' = [pinned EXCEPT ![c][Ref(c)] = answer]
                       /\ StepTo(c, "dest") /\ UNCHANGED <<stage, pos, why>>
  /\ UNCHANGED <<alias, objects, dest, node, tmp, prev, frozen, got, ran, mode, past, clean, kills, cleans, served, warm, began>>

\* ---------------------------------------------------------- ensure_fetched
\* The directory is used as it is now; the next reference or stage follows.
Used(c) ==
  /\ IF stage[c] = "preflight"
       THEN got' = [got EXCEPT ![c][Ref(c)] = dest'[sha[c]]] /\ UNCHANGED ran
       ELSE ran' = [ran EXCEPT ![c][Ref(c)] = dest'[sha[c]]] /\ UNCHANGED got
  /\ IF pos[c] < Len(Refs)
       THEN pos' = Set(pos, c, pos[c] + 1) /\ StepTo(c, "pin") /\ UNCHANGED stage
       ELSE /\ pos' = Set(pos, c, 1)
            /\ stage' = Set(stage, c, IF mode[c] = "daemon" THEN "done" ELSE IF stage[c] = "preflight" THEN "freeze" ELSE "node")
            /\ StepTo(c, "pin")
  /\ UNCHANGED why

Dest(c) ==
  /\ Working(c, "dest")
  /\ StepTo(c, IF dest[sha[c]] # NoTree THEN "look" ELSE "restore")
  /\ tmp' = Set(tmp, c, NoTree)
  /\ UNCHANGED <<store, stage, pos, sha, prev, pinned, frozen, got, ran, why, world>>

\* restore_from_cas up to the rename.
Restore(c) ==
  /\ Working(c, "restore")
  /\ LET tree == alias[sha[c]]
     IN IF tree = NoTree THEN StepTo(c, "fetch") /\ UNCHANGED <<stage, pos, why, tmp>>
        ELSE IF tree \in objects THEN tmp' = Set(tmp, c, tree) /\ StepTo(c, "reinstall") /\ UNCHANGED <<stage, pos, why>>
        ELSE FailWith(c, "lost") /\ UNCHANGED tmp
  /\ UNCHANGED <<store, sha, prev, pinned, frozen, got, ran, world>>
\* Its rename; a directory that is there meanwhile is verified.
Reinstall(c) ==
  /\ Working(c, "reinstall")
  /\ tmp' = Set(tmp, c, NoTree)
  /\ IF dest[sha[c]] = NoTree
       THEN dest' = [dest EXCEPT ![sha[c]] = tmp[c]] /\ Used(c)
       ELSE StepTo(c, "look") /\ UNCHANGED <<dest, stage, pos, why, got, ran>>
  /\ UNCHANGED <<textAlias, alias, objects, node, sha, prev, pinned, frozen, world>>

MutFetch(c) ==   \* the archive is unpacked where it will stay
  /\ Working(c, "fetch") /\ c \notin OfflineClients
  /\ tmp' = Set(tmp, c, Tree(sha[c], "tar")) /\ dest' = [dest EXCEPT ![sha[c]] = Part]
  /\ StepTo(c, "look")
  /\ UNCHANGED <<textAlias, alias, objects, node, stage, pos, why, sha, prev, pinned, frozen, got, ran, world>>

\* extract_tarball: one top-level directory, a bounded number of entries,
\* nothing but files, directories and links.
ExtractTarball(a) ==
  a.entries <= MaxEntries /\ Cardinality(a.tops) <= 1 /\ a.kinds \subseteq {"file", "dir", "link"}
FetchTarball(a, s) == IF a.status = 200 /\ ExtractTarball(a) THEN Tree(s, "tar") ELSE NoTree
\* git init, fetch --depth 1 and checkout, and the removal of .git.
CloneBlocking(exits, s) == IF exits = {"ok"} THEN Tree(s, "git") ELSE NoTree

\* FallbackFetcher into a temporary sibling: the clone replaces whatever the
\* tarball left behind.
Fetch(c) ==
  /\ Working(c, "fetch")
  /\ \/ /\ c \in OfflineClients
        /\ FailWith(c, "offline") /\ UNCHANGED <<tmp, breaks>>
     \/ /\ c \notin OfflineClients
        /\ \E a \in Archives, exit \in RunGit :
             LET tarball == FetchTarball(a, sha[c])
                 tree == IF tarball # NoTree THEN tarball ELSE CloneBlocking({exit}, sha[c])
             IN /\ tarball = NoTree => MayFail
                /\ breaks' = IF tarball = NoTree THEN breaks + 1 ELSE breaks
                /\ IF tree = NoTree THEN FailWith(c, "network") /\ UNCHANGED tmp
                   ELSE tmp' = Set(tmp, c, tree) /\ StepTo(c, "look") /\ UNCHANGED <<stage, pos, why>>
  /\ UNCHANGED <<store, sha, prev, pinned, frozen, got, ran, mode, past, clean, kills, cleans, served, warm, began>>

\* verify_or_migrate of the fetched tree if there is one, else of dest.
Subject(c) == IF tmp[c] # NoTree THEN tmp[c] ELSE dest[sha[c]]
LookUp(c) ==
  /\ Working(c, "look")
  /\ prev' = Set(prev, c, alias[sha[c]])
  /\ StepTo(c, "verify")
  /\ UNCHANGED <<store, stage, pos, sha, tmp, pinned, frozen, got, ran, why, world>>

Verify(c) ==
  /\ Working(c, "verify")
  /\ IF Subject(c) = NoTree
       THEN FailWith(c, "vanished") /\ UNCHANGED <<alias, objects, dest, got, ran>>
     ELSE IF prev[c] # NoTree /\ prev[c] # Subject(c)
       THEN FailWith(c, "identity") /\ UNCHANGED <<alias, objects, dest, got, ran>>
     ELSE /\ alias' = [alias EXCEPT ![sha[c]] = Subject(c)]
          /\ objects' = IF prev[c] = NoTree THEN objects \cup {Subject(c)} ELSE objects
          /\ UNCHANGED dest
          /\ IF tmp[c] # NoTree THEN StepTo(c, "install") /\ UNCHANGED <<stage, pos, why, got, ran>> ELSE Used(c)
  /\ UNCHANGED <<textAlias, node, sha, tmp, prev, pinned, frozen, world>>

\* The rename of a fetched tree; one that is there already is as good.
Install(c) ==
  /\ Working(c, "install")
  /\ dest' = IF dest[sha[c]] = NoTree THEN [dest EXCEPT ![sha[c]] = tmp[c]] ELSE dest
  /\ tmp' = Set(tmp, c, NoTree)
  /\ Used(c)
  /\ UNCHANGED <<textAlias, alias, objects, node, sha, prev, pinned, frozen, world>>

\* ----------------------------------------------- freeze, boot, Node runtime
\* One reference is resolved again; after the last the run is frozen and the
\* resolutions are compared with the inventory, which holds their commits.
MutFreeze(c) ==
  /\ stage[c] = "freeze"
  /\ stage' = Set(stage, c, "execute") /\ frozen' = Set(frozen, c, TRUE)
  /\ UNCHANGED <<store, step, pos, sha, tmp, prev, pinned, got, ran, why, world>>

Freeze(c) ==
  /\ stage[c] = "freeze"
  /\ \E answer \in Answers(c, Ref(c)) :
       /\ Remember(c, Ref(c), answer) /\ CountBreak(answer)
       /\ IF answer \notin Shas THEN FailWith(c, answer) /\ UNCHANGED frozen
          ELSE IF answer # pinned[c][Ref(c)] THEN FailWith(c, "moved") /\ UNCHANGED frozen
          ELSE IF pos[c] < Len(Refs) THEN pos' = Set(pos, c, pos[c] + 1) /\ UNCHANGED <<stage, step, why, frozen>>
          ELSE /\ pos' = Set(pos, c, 1) /\ frozen' = Set(frozen, c, TRUE)
               /\ stage' = Set(stage, c, "execute") /\ UNCHANGED <<step, why>>
  /\ UNCHANGED <<alias, objects, dest, node, sha, tmp, prev, pinned, got, ran, mode, past, clean, kills, cleans, served, warm, began>>

\* RuntimeStore::ensure_fetched: a directory is a hit; else the bundle comes
\* from the content store (CasFetch), is extracted and renamed.
Bundle == <<"node", "bundle">>
FetchBundle(c) ==   \* fetch_from_cas_verify_extract
  IF Bundle \in objects \/ c \notin OfflineClients
    THEN objects' = objects \cup {Bundle} /\ tmp' = Set(tmp, c, Bundle) /\ stage' = Set(stage, c, "rename") /\ UNCHANGED <<step, pos, why>>
    ELSE FailWith(c, "offline") /\ UNCHANGED <<objects, tmp>>
EnsureNode(c) ==
  /\ stage[c] = "node"
  /\ IF node # NoTree
       THEN stage' = Set(stage, c, "done") /\ served' = TRUE /\ UNCHANGED <<objects, tmp, step, pos, why>>
       ELSE FetchBundle(c) /\ UNCHANGED served
  /\ UNCHANGED <<textAlias, alias, dest, node, sha, prev, pinned, frozen, got, ran, mode, past, clean, kills, cleans, breaks, warm, began>>
InstallNode(c) ==
  /\ stage[c] = "rename"
  /\ node' = IF node = NoTree THEN Bundle ELSE node
  /\ tmp' = Set(tmp, c, NoTree)
  /\ stage' = Set(stage, c, "done") /\ served' = TRUE
  /\ UNCHANGED <<textAlias, alias, objects, dest, step, pos, sha, prev, pinned, frozen, got, ran, why, mode, past, clean, kills, cleans, breaks, warm, began>>

\* ------------------------------------------------------------ environment
MoveRef(r) ==
  /\ MayMove
  /\ \E s \in Shas \ {remote[r]} : past' = Append(past, [remote EXCEPT ![r] = s])
  /\ UNCHANGED <<store, locals, mode, clean, kills, cleans, breaks, served, warm, began>>
\* A killed process leaves its temporary directory, which nothing looks at.
KillClient(c) ==
  /\ MayFail /\ stage[c] \notin {"idle", "done", "failed", "dead"}
  /\ kills' = kills + 1
  /\ stage' = Set(stage, c, "dead")
  /\ UNCHANGED <<store, step, pos, sha, tmp, prev, pinned, frozen, got, ran, why, mode, past, clean, cleans, breaks, served, warm, began>>

\* litci clean: collect_garbage drops every tree (no lease names one, and
\* aliases stay), then the directories go, file by file.
Collect ==
  /\ clean = "no" /\ MayFail
  /\ cleans' = cleans + 1 /\ clean' = "actions"
  /\ objects' = {}
  /\ UNCHANGED <<textAlias, alias, dest, node, locals, mode, past, kills, breaks, served, warm, began>>
Removing(d) == {x \in {Part, NoTree} : d # NoTree /\ (d = Part => x = NoTree)}
RemoveActions ==
  /\ clean = "actions"
  /\ IF \E s \in Shas : dest[s] # NoTree
       THEN \E s \in Shas : \E left \in Removing(dest[s]) : dest' = [dest EXCEPT ![s] = left] /\ UNCHANGED clean
       ELSE clean' = "node" /\ UNCHANGED dest
  /\ UNCHANGED <<textAlias, alias, objects, node, locals, mode, past, kills, cleans, breaks, served, warm, began>>
RemoveNode ==
  /\ clean = "node"
  /\ IF node = NoTree THEN clean' = "no" /\ UNCHANGED node ELSE node' \in Removing(node) /\ UNCHANGED clean
  /\ UNCHANGED <<textAlias, alias, objects, dest, locals, mode, past, kills, cleans, breaks, served, warm, began>>

ActionStep(c) ==
  \/ Begin(c) \/ Pinned(c) \/ Dest(c) \/ Restore(c) \/ Reinstall(c) \/ Fetch(c) \/ LookUp(c) \/ Verify(c)
  \/ Install(c) \/ Freeze(c) \/ EnsureNode(c) \/ InstallNode(c)
ActionNext ==
  \/ \E c \in Clients : ActionStep(c) \/ KillClient(c)
  \/ \E r \in Range(Refs) : MoveRef(r)
  \/ Collect \/ RemoveActions \/ RemoveNode
ActionSpec == ActionInit /\ [][ActionNext]_actionVars

\* ------------------------------------------------------------- properties
\* No reference came back to a commit it had named before.
NeverBack ==
  \A r \in Range(Refs), a, b, z \in DOMAIN past :
    a <= b /\ b <= z /\ past[a][r] = past[z][r] => past[b][r] = past[a][r]
\* The jobs of a run work on exactly the trees its preflight inspected, of
\* exactly the commits it locked, however references move and processes
\* fetch, fail or die meanwhile; each of these commits was what its reference
\* named since the run began, and all were at one moment unless a reference
\* came back to an earlier commit (PinnedRefResolver::freeze, ensure_fetched).
LockedTrees ==
  \A c \in Clients, r \in Range(Refs) :
    /\ ran[c][r] # NoTree /\ cleans = 0 => ran[c][r] = got[c][r] /\ ran[c][r] \in TreesOf(pinned[c][r])
    /\ frozen[c] /\ c \notin OfflineClients =>
         /\ \E t \in began[c]..Len(past) : pinned[c][r] = past[t][r]
         /\ NeverBack => \E t \in began[c]..Len(past) : pinned[c] = past[t]

\* "A killed fetch can never leave a half-populated directory": what stands
\* under a commit's name is a whole tree of that commit, and the same for a
\* Node runtime, unless litci clean is or was at work.
DirsAreWhole ==
  cleans = 0 => node # Part /\ \A s \in Shas : dest[s] \in TreesOf(s) \cup {NoTree}

\* A run works on the trees it locked, and a directory is whole wherever a
\* process is killed.
LockedTreesRun == LockedTrees /\ DirsAreWhole

\* A preparation that fails has a reason outside the program: the network or
\* an unreadable answer, a moved reference, a clean, or different trees for
\* one commit.  Above all an offline run succeeds once an online run has, as
\* long as nothing moved and nothing was cleaned.
FailuresHaveCauses ==
  \A c \in Clients :
    /\ why[c] # "absent"
    /\ why[c] = "moved" => moves > 0
    /\ why[c] \in {"lost", "vanished"} => cleans > 0
    /\ why[c] = "identity" => cleans > 0 \/ sha[c] \in Exported
    /\ why[c] = "offline" => c \in OfflineClients /\ ~(c \in warm /\ moves = 0 /\ cleans = 0)

\* clean_cmd.rs:58: fetched action sources "refetch on demand", so an online
\* run after a clean never fails for content that the clean removed.
CleanCostsARefetch == \A c \in Clients \ OfflineClients : why[c] # "lost"

\* github_api.rs:27-30: an answer is read up to MAX_RESPONSE_BYTES, which no
\* realistic one reaches, so an answer that is not larger names the commit.
AnswersAreRead == \A c \in Clients : why[c] # "cut"
=============================================================================
