---------------------------- MODULE ArtifactStore ----------------------------
(***************************************************************************)
(* upload-artifact and download-artifact behind the shim's artifact API.   *)
(* An upload reserves an id, sends blocks to the URL of that id, commits   *)
(* their order and finalizes the artifact by its name; a download asks for *)
(* the URL of a name and reads it.  The shim of one run handles one        *)
(* request at a time; shims of several runs share the directories.         *)
(*                                                                         *)
(* The client (external) may stop at any point.  A blob is the sequence of *)
(* the blocks <<upload, number>> it was assembled from.                    *)
(***************************************************************************)
EXTENDS Integers, Sequences, FiniteSets, FiniteSetsExt

CONSTANTS
  Uploads,     \* uploads, in one or several runs
  ScopeOf,     \* the run of an upload
  NameOf,      \* the name it gives its artifact
  Blocks,      \* blocks of an upload; 0: it is sent in one request
  Asked,       \* what downloads ask for: <<scope, name>>
  MaxIds       \* ids (bound)

VARIABLES
  staged,    \* staged/<id>: None or [meta, blocks, blob]
  finalized,   \* entries/<id>, likewise
  at, id,    \* where an upload is, and its id
  fetch,     \* the one download that is followed
  clash,     \* names that had two open uploads at once (history)
  deleted    \* an artifact was deleted since the download began (history)

artifactVars == <<staged, finalized, at, id, fetch, clash, deleted>>

UploadAssumption == Blocks \in [Uploads -> Nat] /\ MaxIds \in Nat
ArtifactIds == 1..MaxIds
None == [meta |-> {}, blocks |-> {}, blob |-> <<>>]
PresentIn(dirs) == {i \in ArtifactIds : dirs[i] # None}
HighestId(dirs) == IF PresentIn(dirs) = {} THEN 0 ELSE Max(PresentIn(dirs))
Key(u) == <<ScopeOf[u], NameOf[u]>>
NoFetch == [at |-> "idle", key |-> <<>>, id |-> 0, bytes |-> <<>>]

ArtifactInit ==
  /\ staged = [i \in ArtifactIds |-> None] /\ finalized = staged
  /\ at = [u \in Uploads |-> "idle"] /\ id = [u \in Uploads |-> 0]
  /\ fetch = NoFetch /\ clash = {} /\ deleted = FALSE

\* The shim of this scope has no request under way.
Free(scope) == \A u \in Uploads : ScopeOf[u] = scope => at[u] # "mkdir"
UploadGoto(u, label) == at' = [at EXCEPT ![u] = label]
MutNamed(dirs, key) ==   \* the scope is left out
  {i \in PresentIn(dirs) : \E k \in dirs[i].meta : k[2] = key[2]}
\* finalized, and pending: the ids with that name in that scope.
Named(dirs, key) == {i \in PresentIn(dirs) : dirs[i].meta = {key}}

\* CreateArtifact: refused if the name is finalized; then allocate_id.
Create(u) ==
  /\ at[u] = "idle" /\ Free(ScopeOf[u])
  /\ IF Named(finalized, Key(u)) # {}
       THEN UploadGoto(u, "refused") /\ UNCHANGED <<id, clash>>
       ELSE /\ UploadGoto(u, "mkdir")
            /\ id' = [id EXCEPT ![u] = Max({HighestId(staged), HighestId(finalized)}) + 1]
            /\ clash' = IF Named(staged, Key(u)) # {} THEN clash \cup {Key(u)} ELSE clash
  /\ UNCHANGED <<staged, finalized, fetch, deleted>>
\* A directory that holds nothing but its metadata.
write_meta(u) == [None EXCEPT !.meta = {Key(u)}]
\* create_dir decides; write_meta follows.
AllocateId(u) ==
  /\ at[u] = "mkdir" /\ id[u] \in ArtifactIds
  /\ IF staged[id[u]] # None
       THEN id' = [id EXCEPT ![u] = @ + 1] /\ UNCHANGED <<staged, at>>
       ELSE /\ staged' = [staged EXCEPT ![id[u]] = write_meta(u)]
            /\ UploadGoto(u, "upload") /\ UNCHANGED id
  /\ UNCHANGED <<finalized, fetch, clash, deleted>>

\* blob_put needs an open id; the URL is this upload's own.
Open(u) == staged[id[u]] # None
\* comp=block, in any order, and again when an answer was lost.
StageBlock(u, n) ==
  /\ at[u] = "upload" /\ Free(ScopeOf[u])
  /\ IF Open(u) THEN staged' = [staged EXCEPT ![id[u]].blocks = @ \cup {<<u, n>>}] /\ UNCHANGED at
                ELSE UploadGoto(u, "failed") /\ UNCHANGED staged
  /\ UNCHANGED <<finalized, id, fetch, clash, deleted>>
\* comp=blocklist: the order is the client's, and every block must be there.
BlockList(u) == [n \in 1..Blocks[u] |-> <<u, n>>]
CommitBlocks(u) ==
  /\ at[u] = "upload" /\ Free(ScopeOf[u]) /\ Blocks[u] > 0
  /\ \A n \in 1..Blocks[u] : Open(u) => <<u, n>> \in staged[id[u]].blocks
  /\ IF Open(u) THEN staged' = [staged EXCEPT ![id[u]].blob = BlockList(u)] /\ UploadGoto(u, "finalize")
                ELSE UploadGoto(u, "failed") /\ UNCHANGED staged
  /\ UNCHANGED <<finalized, id, fetch, clash, deleted>>
PutWhole(u) ==
  /\ at[u] = "upload" /\ Free(ScopeOf[u]) /\ Blocks[u] = 0
  /\ IF Open(u) THEN staged' = [staged EXCEPT ![id[u]].blob = <<<<u, 0>>>>] /\ UploadGoto(u, "finalize")
                ELSE UploadGoto(u, "failed") /\ UNCHANGED staged
  /\ UNCHANGED <<finalized, id, fetch, clash, deleted>>

\* FinalizeArtifact names the artifact: the first staged one of that name,
\* in the order read_dir happens to give.
FinalizeArtifact(u) ==
  /\ at[u] = "finalize" /\ Free(ScopeOf[u])
  /\ IF Named(staged, Key(u)) = {} THEN UploadGoto(u, "failed") /\ UNCHANGED <<staged, finalized>>
     ELSE \E i \in Named(staged, Key(u)) :
            IF finalized[i] # None   \* rename onto a directory that is not empty
              THEN UploadGoto(u, "failed") /\ UNCHANGED <<staged, finalized>>
              ELSE /\ finalized' = [finalized EXCEPT ![i] = staged[i]]
                   /\ staged' = [staged EXCEPT ![i] = None]
                   /\ UploadGoto(u, "uploaded")
  /\ UNCHANGED <<id, fetch, clash, deleted>>

\* A cancelled step or a killed process leaves what it staged.
AbandonUpload(u) ==
  /\ at[u] \in {"upload", "finalize"}
  /\ UploadGoto(u, "abandoned")
  /\ UNCHANGED <<staged, finalized, id, fetch, clash, deleted>>

\* ListArtifacts and GetSignedArtifactURL: the lowest id of that name.
GetSignedUrl(key) ==
  /\ fetch.at \in {"idle", "missing"} /\ Free(key[1])
  /\ LET found == Named(finalized, key)
     IN fetch' = IF found = {} THEN [NoFetch EXCEPT !.at = "missing", !.key = key]
                 ELSE [NoFetch EXCEPT !.at = "url", !.key = key, !.id = Min(found)]
  /\ deleted' = FALSE
  /\ UNCHANGED <<staged, finalized, at, id, clash>>
BlobGet ==
  /\ fetch.at = "url" /\ Free(fetch.key[1])
  /\ LET there == finalized[fetch.id] # None /\ finalized[fetch.id].blob # <<>>
     IN fetch' = IF there THEN [fetch EXCEPT !.at = "read", !.bytes = finalized[fetch.id].blob]
                 ELSE [fetch EXCEPT !.at = "notfound"]
  /\ UNCHANGED <<staged, finalized, at, id, clash, deleted>>
\* DeleteArtifact, by id or by name.
DeleteArtifact(key) ==
  /\ Free(key[1])
  /\ Named(finalized, key) # {}
  /\ finalized' = [finalized EXCEPT ![Min(Named(finalized, key))] = None]
  /\ deleted' = TRUE
  /\ UNCHANGED <<staged, at, id, fetch, clash>>

ArtifactNext ==
  \/ \E u \in Uploads :
       \/ Create(u) \/ AllocateId(u) \/ CommitBlocks(u) \/ PutWhole(u) \/ FinalizeArtifact(u) \/ AbandonUpload(u)
       \/ \E n \in 1..Blocks[u] : StageBlock(u, n)
  \/ \E key \in Asked : GetSignedUrl(key) \/ DeleteArtifact(key)
  \/ BlobGet
ArtifactSpec == ArtifactInit /\ [][ArtifactNext]_artifactVars

\* ------------------------------------------------------------ properties
Whole(u) == IF Blocks[u] = 0 THEN <<<<u, 0>>>> ELSE BlockList(u)
\* As long as no name of a run has two open uploads, what a download gets is
\* the whole of one upload of that name in that run, an upload that reached
\* its end; and a name of a run is finalized once, whatever other runs store,
\* abandon or delete, and though ids are allocated without a lock.
DownloadIsAnUpload ==
  clash = {} =>
    /\ fetch.at = "read" /\ ~deleted =>
         \E u \in Uploads : Key(u) = fetch.key /\ at[u] = "uploaded" /\ fetch.bytes = Whole(u)
    /\ fetch.at = "notfound" => deleted
    /\ \A i, j \in PresentIn(finalized) : finalized[i].meta = finalized[j].meta => i = j

\* artifacts/mod.rs:29-32: an artifact becomes visible only when it is
\* finalized, "so an interrupted upload is never downloadable as though it
\* were whole": what stands in entries/ is the whole of an ended upload.
InterruptedIsInvisible ==
  \A i \in PresentIn(finalized) : \E u \in Uploads : at[u] = "uploaded" /\ id[u] = i /\ finalized[i].blob = Whole(u)
=============================================================================
