------------------------------- MODULE MCHome -------------------------------
(***************************************************************************)
(* What the processes of one user share: the repository and its templates, *)
(* the login, the vault and the confirmations of runs.  One behaviour      *)
(* works on one of them; the variables of the others stay as they are at   *)
(* the start, or empty.                                                    *)
(***************************************************************************)
EXTENDS SecretVault, SourceTemplates, Credentials, Confirmation

VARIABLE part

MCPaths == <<"a", "b">>
MCCodes == {[interval |-> 0, expires |-> 3], [interval |-> 2, expires |-> 8]}
\* Two processes in one repository, one in another; both have a legacy file.
MCUsers == {"a", "b", "c"}
MCRepoOf == [a |-> 1, b |-> 1, c |-> 2]
MCLegacy == <<{"old1"}, {"old2"}>>

\* Two jobs of one name, so that GitHub's order decides which is which; a
\* workflow with tags, one pinned to commits, one with a short container.
TwoJobs == <<[id |-> "a", name |-> "dup", steps |-> <<"s", "absent">>, legs |-> <<>>],
             [id |-> "b", name |-> "deferred", steps |-> <<>>,
              legs |-> <<[name |-> "dup", steps |-> <<"s", "absent", "t">>]>>]>>
Flow(field, version, image) ==
  [lines |-> <<[key |-> "uses", ref |-> <<"checkout", "@", version>>], [key |-> field, ref |-> image]>>, jobs |-> TwoJobs,
   actions |-> <<[requested |-> <<"checkout", "@", version>>, to |-> "commit"]>>,
   containers |-> <<[requested |-> image, to |-> "digest"]>>]
\* Two completed runs of one workflow at one commit with different inputs; the
\* first was committed and GitHub ran it as it was locked.
Usual ==
  LET first == [commit |-> "c1", event |-> "push", inputs |-> {"in"}, dirty |-> FALSE, hermetic |-> TRUE,
                clean |-> TRUE, support |-> "supported"]
      usual == Flow("image", "v4", <<"hub", "/", "node", ":", "20">>)
  IN  [flow |-> usual, locks |-> <<first, [first EXCEPT !.inputs = {"other"}]>>, conclusions |-> <<"passed", "passed">>,
       exported |-> {1, 2}, commands |-> {"x"},
       hub |-> [commit |-> "c1", event |-> "push", inputs |-> {"in"}, path |-> EXPORTED_WORKFLOW,
                text |-> [marker |-> TRUE, semantic |-> Pinned(usual)], committed |-> 1, ways |-> {"passed"}]]
\* What exports, attempts of GitHub and confirmations at once can do; then
\* what is different about the run, the workflow or the GitHub run.
ConfirmCases ==
  {[Usual EXCEPT !.exported = {}, !.hub.ways = {}, !.commands = {"x", "y"}],
   [Usual EXCEPT !.hub.ways = {"passed", "failed", "tolerated", "reversed", "dropped", "paged", "twice", "expired", "damaged"}],
   [Usual EXCEPT !.hub.ways = {"passed", "tolerated"}, !.commands = {"x", "y"}],
   [Usual EXCEPT !.conclusions[1] = "failed"], [Usual EXCEPT !.locks[1].dirty = TRUE, !.exported = {}],
   [Usual EXCEPT !.locks[1].hermetic = FALSE], [Usual EXCEPT !.locks[1].support = "degraded"]} \cup
  {[Usual EXCEPT !.flow = wf, !.hub.text.semantic = Pinned(wf), !.exported = {}] :
     wf \in {Flow("image", "commit", <<"node", "@", "digest">>), Flow("container", "v4", <<"node", ":", "20">>),
            [Usual.flow EXCEPT !.jobs[1].name = "Greenlit evidence"]}} \cup
  {[Usual EXCEPT !.hub = h] :
     h \in {[Usual.hub EXCEPT !.commit = "c2"], [Usual.hub EXCEPT !.event = "schedule"], [Usual.hub EXCEPT !.path = "ci.yml"],
            [Usual.hub EXCEPT !.inputs = {"typed"}], [Usual.hub EXCEPT !.inputs = {"in", "typed"}],
            [Usual.hub EXCEPT !.text.semantic = Usual.flow.lines \o @], [Usual.hub EXCEPT !.text.marker = FALSE],
            [Usual.hub EXCEPT !.committed = 2, !.inputs = {"other"}]}}

ASSUME HomeAssumptions == VaultAssumption /\ SourceAssumption /\ CredAssumption /\ ConfirmAssumption

\* The variables of a part that is not at work.
ConfirmIdle ==
  flow = <<>> /\ lock = <<>> /\ hub = <<>> /\ attempts = <<>> /\ outputs = <<>> /\
  durable = <<>> /\ result = <<>> /\ record = <<>> /\ cmd = <<>> /\ told = {} /\ raced = {}

HomeInit ==
  /\ part \in {"source", "credentials", "vault", "confirmation"}
  /\ SourceInit /\ (part # "source" => ready = {})
  /\ CredInit /\ (part # "credentials" => ~ringWorks)
  /\ Init /\ (part # "vault" => key = 0)
  /\ IF part = "confirmation" THEN ConfirmInit ELSE ConfirmIdle
HomeNext ==
  /\ UNCHANGED part
  /\ \/ part = "source" /\ SourceNext /\ UNCHANGED <<credVars, vaultVars, confirmVars>>
     \/ part = "credentials" /\ CredNext /\ UNCHANGED <<sourceVars, vaultVars, confirmVars>>
     \/ part = "vault" /\ Next /\ UNCHANGED <<sourceVars, credVars, confirmVars>>
     \/ part = "confirmation" /\ ConfirmNext /\ UNCHANGED <<sourceVars, credVars, vaultVars>>
HomeSpec == HomeInit /\ [][HomeNext]_<<part, sourceVars, credVars, vaultVars, confirmVars>>

\* The properties of the parts are used as they stand in their modules.
=============================================================================
