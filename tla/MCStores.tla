------------------------------ MODULE MCStores ------------------------------
(***************************************************************************)
(* The stores that processes share under ~/.litci without a common lock:   *)
(* the cache, actions, artifacts and images.  One behaviour works on one   *)
(* store; the variables of the others stay as they are at the start.       *)
(***************************************************************************)
EXTENDS MCCacheStore, ArtifactStore, ImageResolver, ActionStore

VARIABLE part

Archive(n, tops, kinds, status) == [entries |-> n, tops |-> tops, kinds |-> kinds, status |-> status]
ActionArchives ==
  {Archive(2, {"t"}, {"file", "dir"}, 200), Archive(3, {"t"}, {"file"}, 200), Archive(2, {"t", "u"}, {"file"}, 200),
   Archive(2, {"t"}, {"device"}, 200), Archive(1, {"t"}, {"file"}, 500)}
ActionModes == {[c1 |-> "run", c2 |-> m] : m \in {"run", "offline", "daemon"}}
MCRefs == <<"a", "b">>
MCStart == [a |-> "s1", b |-> "s2"]
MCKind == [a |-> "branch", b |-> "annotated"]
\* Two uploads of one name in one run, one in pieces, and one in another run.
MCUploads == {"a", "b", "c"}
MCScopeOf == [a |-> "run1", b |-> "run1", c |-> "run2"]
MCNameOf == [u \in MCUploads |-> "logs"]
MCBlocks == [a |-> 2, b |-> 0, c |-> 0]
MCAsked == {<<"run1", "logs">>, <<"run2", "logs">>}

ASSUME StoreAssumptions == UploadAssumption /\ ImageAssumption /\ ActionAssumption

StoresInit ==
  /\ part \in {"cache", "actions", "artifacts", "images"}
  /\ Init
  /\ ActionInit /\ (part = "actions" \/ mode["c2"] = "run")
  /\ ArtifactInit /\ ImageInit
StoresNext ==
  /\ UNCHANGED part
  /\ \/ part = "cache" /\ Next /\ UNCHANGED <<actionVars, artifactVars, imageVars>>
     \/ part = "actions" /\ ActionNext /\ UNCHANGED <<vars, artifactVars, imageVars>>
     \/ part = "artifacts" /\ ArtifactNext /\ UNCHANGED <<vars, actionVars, imageVars>>
     \/ part = "images" /\ ImageNext /\ UNCHANGED <<vars, actionVars, artifactVars>>
StoresSpec == StoresInit /\ [][StoresNext]_<<part, vars, actionVars, artifactVars, imageVars>>
=============================================================================
