----------------------------- MODULE CacheStore -----------------------------
(***************************************************************************)
(* The local actions/cache store of greenlit-store (cache/mod.rs,          *)
(* cache/key.rs, layout.rs) behind the shim's routes (server/cache_api.rs).*)
(*                                                                         *)
(* Runs are processes that share one directory tree and no lock: a save    *)
(* reserves an id by creating a directory, writes chunks into it and is    *)
(* committed by a rename; a restore lists the committed entries.  The shim *)
(* of one run serves its requests one after the other, so two requests     *)
(* interleave only when they are of different runs: here every save is of  *)
(* a run of its own, and one action is one file system operation.          *)
(*                                                                         *)
(* The client is external: it uploads all chunks before it commits, may    *)
(* stop at any point, and a request that it gave up on may still arrive.   *)
(* The store's hit and byte counters are not modelled.                     *)
(***************************************************************************)
EXTENDS Naturals, FiniteSets, FiniteSetsExt, Sequences

CONSTANTS
  Savers,       \* saves, one per run
  KeyOf,        \* the key a save uses
  VersionOf,    \* the version a save uses
  Offsets,      \* the chunks of an archive
  Queries,      \* lookups: [keys : sequence of keys, version]
  StartsWith,   \* restore key |-> the keys it is a prefix of
  Rank,         \* the lexical order of keys
  MaxClock,     \* bound on the clock of whole seconds
  MaxCacheIds,  \* bound on the ids that are tried
  Absent

Ids == 1..MaxCacheIds
Dirs == [meta : Savers \cup {Absent}, created : 0..MaxClock, blob : [Offsets -> Savers \cup {Absent}]]

ASSUME CacheAssumption ==
  /\ Absent \notin Savers /\ Absent \notin Dirs
  /\ MaxClock \in Nat /\ MaxCacheIds \in Nat
  /\ \A q \in Queries : Len(q.keys) \in Nat /\ Len(q.keys) >= 1

VARIABLES
  clock,       \* now_unix
  reserved,    \* reservations/<id>: Absent, or its meta and blob
  entries,     \* entries/<id>, likewise
  pc,          \* where a save is
  next,        \* a save's `next` in allocate_id, then its id
  sent,        \* the chunks of a save that were written
  restore      \* the one restore that is followed

vars == <<clock, reserved, entries, pc, next, sent, restore>>

Hole == [o \in Offsets |-> Absent]
Fresh == [meta |-> Absent, created |-> 0, blob |-> Hole]
Idle == [at |-> "idle"]

PCs == {"check", "pending", "entries", "create", "meta", "upload", "rename",
        "saved", "conflict", "failed", "gone"}
Ended == {"saved", "conflict", "failed", "gone"}

TypeOK ==
  /\ clock \in 0..MaxClock
  /\ reserved \in [Ids -> Dirs \cup {Absent}]
  /\ entries \in [Ids -> Dirs \cup {Absent}]
  /\ pc \in [Savers -> PCs]
  /\ DOMAIN next = Savers
  /\ sent \in [Savers -> SUBSET Offsets]
  /\ restore.at \in {"idle", "listing", "found", "miss", "read", "lost"}

Init ==
  /\ clock = 0
  /\ reserved = [i \in Ids |-> Absent]
  /\ entries = [i \in Ids |-> Absent]
  /\ pc = [c \in Savers |-> "check"]
  /\ next = [c \in Savers |-> 0]
  /\ sent = [c \in Savers |-> {}]
  /\ restore = Idle

Present(dirs) == {i \in Ids : dirs[i] # Absent}
highest_id(dirs) == IF Present(dirs) = {} THEN 0 ELSE Max(Present(dirs))

(* committed(): the entries whose metadata can be read.                    *)
Committed(key, version) ==
  {i \in Present(entries) : entries[i].meta # Absent
                            /\ KeyOf[entries[i].meta] = key
                            /\ VersionOf[entries[i].meta] = version}

Tick ==
  /\ clock < MaxClock
  /\ clock' = clock + 1
  /\ UNCHANGED <<reserved, entries, pc, next, sent, restore>>

Goto(c, from, to) == pc[c] = from /\ pc' = [pc EXCEPT ![c] = to]

-----------------------------------------------------------------------------
(* reserve                                                                 *)

(* A key that is committed already answers 409 Conflict.                   *)
MutConflictOnReservation(c) ==
  LET taken == \/ Committed(KeyOf[c], VersionOf[c]) # {}
               \/ \E i \in Present(reserved) : /\ reserved[i].meta # Absent
                                               /\ KeyOf[reserved[i].meta] = KeyOf[c]
  IN  /\ Goto(c, "check", IF taken THEN "conflict" ELSE "pending")
      /\ UNCHANGED <<clock, reserved, entries, next, sent, restore>>

Reserve(c) ==
  /\ Goto(c, "check", IF Committed(KeyOf[c], VersionOf[c]) # {} THEN "conflict" ELSE "pending")
  /\ UNCHANGED <<clock, reserved, entries, next, sent, restore>>

(* allocate_id: one past the highest id of either directory, read one      *)
(* after the other, then the first name that can be created.               *)
ScanPending(c) ==
  /\ Goto(c, "pending", "entries")
  /\ next' = [next EXCEPT ![c] = highest_id(reserved)]
  /\ UNCHANGED <<clock, reserved, entries, sent, restore>>

ScanCommitted(c) ==
  /\ Goto(c, "entries", "create")
  /\ next' = [next EXCEPT ![c] = Max({@, highest_id(entries)}) + 1]
  /\ UNCHANGED <<clock, reserved, entries, sent, restore>>

CreateDir(c) ==
  /\ pc[c] = "create" /\ next[c] \in Ids
  /\ IF reserved[next[c]] = Absent
       THEN /\ pc' = [pc EXCEPT ![c] = "meta"]
            /\ reserved' = [reserved EXCEPT ![next[c]] = Fresh]
            /\ UNCHANGED next
       ELSE /\ next' = [next EXCEPT ![c] = @ + 1]
            /\ UNCHANGED <<pc, reserved>>
  /\ UNCHANGED <<clock, entries, sent, restore>>

WriteMeta(c) ==
  /\ Goto(c, "meta", "upload")
  /\ reserved' = [reserved EXCEPT ![next[c]].meta = c, ![next[c]].created = clock]
  /\ UNCHANGED <<clock, entries, next, sent, restore>>

-----------------------------------------------------------------------------
(* write_chunk and commit                                                  *)

(* A chunk of c lands in whatever reservation has the id it names.         *)
Upload(c, o) ==
  /\ pc[c] = "upload" /\ o \notin sent[c]
  /\ reserved' = [reserved EXCEPT ![next[c]].blob[o] = c]
  /\ sent' = [sent EXCEPT ![c] = @ \cup {o}]
  /\ UNCHANGED <<clock, entries, pc, next, restore>>

(* A copy of an earlier chunk request arrives when its save has ended; if  *)
(* the reservation is gone the answer is 404 and nothing changes.          *)
LateChunk(c, o) ==
  /\ pc[c] \in Ended /\ o \in sent[c] /\ reserved[next[c]] # Absent
  /\ reserved[next[c]].blob[o] # c
  /\ reserved' = [reserved EXCEPT ![next[c]].blob[o] = c]
  /\ UNCHANGED <<clock, entries, pc, next, sent, restore>>

(* commit rewrites the metadata in the reservation ...                     *)
CommitMeta(c) ==
  /\ sent[c] = Offsets
  /\ Goto(c, "upload", "rename")
  /\ reserved' = [reserved EXCEPT ![next[c]].created = clock]
  /\ UNCHANGED <<clock, entries, next, sent, restore>>

(* ... and moves it among the entries.  rename(2) does not replace a       *)
(* directory that has files in it: the commit answers 500.                 *)
MutRenameReplaces(c) ==
  /\ Goto(c, "rename", "saved")
  /\ entries' = [entries EXCEPT ![next[c]] = reserved[next[c]]]
  /\ reserved' = [reserved EXCEPT ![next[c]] = Absent]
  /\ UNCHANGED <<clock, next, sent, restore>>

CommitRename(c) ==
  /\ pc[c] = "rename"
  /\ IF entries[next[c]] = Absent
       THEN /\ pc' = [pc EXCEPT ![c] = "saved"]
            /\ entries' = [entries EXCEPT ![next[c]] = reserved[next[c]]]
            /\ reserved' = [reserved EXCEPT ![next[c]] = Absent]
       ELSE pc' = [pc EXCEPT ![c] = "failed"] /\ UNCHANGED <<entries, reserved>>
  /\ UNCHANGED <<clock, next, sent, restore>>

(* The job is cancelled or dies in the middle of a save.                   *)
Abandon(c) ==
  /\ pc[c] \in {"meta", "upload"}
  /\ pc' = [pc EXCEPT ![c] = "gone"]
  /\ UNCHANGED <<clock, reserved, entries, next, sent, restore>>

-----------------------------------------------------------------------------
(* lookup and download                                                     *)

(* The candidates of one position of the key list: the first key matches   *)
(* exactly, every later one as a prefix.                                   *)
Candidates(q, p, seen) ==
  {i \in seen : /\ VersionOf[entries[i].meta] = q.version
                /\ IF p = 1 THEN KeyOf[entries[i].meta] = q.keys[1]
                            ELSE KeyOf[entries[i].meta] \in StartsWith[q.keys[p]]}

Newer(i, j) ==
  \/ entries[i].created > entries[j].created
  \/ /\ entries[i].created = entries[j].created
     /\ Rank[KeyOf[entries[i].meta]] >= Rank[KeyOf[entries[j].meta]]

(* select: the keys of the newest candidates of the first position that    *)
(* has any.                                                                *)
Selected(q, p, seen) ==
  {KeyOf[entries[i].meta] : i \in {x \in Candidates(q, p, seen) :
                                     \A y \in Candidates(q, p, seen) : Newer(x, y)}}

MutSelectAnyPosition(q, seen) ==
  {p \in 1..Len(q.keys) : Candidates(q, p, seen) # {}}

Positions(q, seen) ==
  LET hits == {p \in 1..Len(q.keys) : Candidates(q, p, seen) # {}}
  IN  {p \in hits : \A h \in hits : p <= h}

LookupBegin(q) ==
  /\ restore.at = "idle"
  /\ restore' = [at |-> "listing", query |-> q, start |-> Present(entries)]
  /\ UNCHANGED <<clock, reserved, entries, pc, next, sent>>

(* The listing sees what was there when it began and any of what came      *)
(* since; the winning key is mapped back to the first directory that has   *)
(* it, in the order of the listing.                                        *)
LookupEnd ==
  LET q == restore.query
  IN  /\ restore.at = "listing"
      /\ \E seen \in {s \in SUBSET Present(entries) : restore.start \subseteq s} :
           IF Positions(q, seen) = {}
             THEN restore' = [at |-> "miss", query |-> q, start |-> restore.start]
             ELSE \E p \in Positions(q, seen) :
                    \E k \in Selected(q, p, seen) :
                      \E i \in Committed(k, q.version) \cap seen :
                        restore' = [at |-> "found", query |-> q, start |-> restore.start,
                                    key |-> k, exact |-> p = 1, id |-> i]
      /\ UNCHANGED <<clock, reserved, entries, pc, next, sent>>

Download ==
  /\ restore.at = "found"
  /\ restore' = [restore EXCEPT !.at = IF entries[restore.id] = Absent THEN "lost" ELSE "read"]
  /\ UNCHANGED <<clock, reserved, entries, pc, next, sent>>

Forget ==
  /\ restore.at \in {"miss", "read", "lost"}
  /\ restore' = Idle
  /\ UNCHANGED <<clock, reserved, entries, pc, next, sent>>

-----------------------------------------------------------------------------
SaveStep(c) ==
  \/ Reserve(c) \/ ScanPending(c) \/ ScanCommitted(c) \/ CreateDir(c) \/ WriteMeta(c)
  \/ (\E o \in Offsets : Upload(c, o)) \/ CommitMeta(c) \/ CommitRename(c)

Next ==
  \/ Tick
  \/ \E c \in Savers : SaveStep(c) \/ Abandon(c) \/ \E o \in Offsets : LateChunk(c, o)
  \/ \E q \in Queries : LookupBegin(q)
  \/ LookupEnd \/ Download \/ Forget

Spec == Init /\ [][Next]_vars

-----------------------------------------------------------------------------
(* Properties                                                              *)

\* What a restore can see is whole: a committed entry holds every chunk of
\* the save that its metadata names and no byte of another, although two
\* saves may have been given the same id (cache/mod.rs, allocate_id, commit).
EntryWhole ==
  \A i \in Present(entries) :
    /\ entries[i].meta # Absent
    /\ \A o \in Offsets : entries[i].blob[o] = entries[i].meta

\* A hit is served: the archive a lookup answered with is still there when it
\* is downloaded, has the key the client was told and the version it asked
\* for, and an "exact" answer is the primary key.
HitIsServed ==
  restore.at \in {"found", "read", "lost"} =>
    /\ restore.at # "lost"
    /\ entries[restore.id] # Absent
    /\ KeyOf[entries[restore.id].meta] = restore.key
    /\ VersionOf[entries[restore.id].meta] = restore.query.version
    /\ restore.exact <=> restore.key = restore.query.keys[1]

\* A key that was committed before the lookup began is never missed, and a
\* restore key never wins over it (key.rs, rules 2 and 4).
SavedIsFound ==
  restore.at \in {"found", "miss"} =>
    LET q == restore.query
        primary == Committed(q.keys[1], q.version) \cap restore.start
    IN  primary # {} => restore.at = "found" /\ restore.exact

\* A save that is told "another job saved it first" can rely on it: an entry
\* of its key and version is committed, not only reserved by a save that may
\* never end.
ConflictIsReal ==
  \A c \in Savers : pc[c] = "conflict" => Committed(KeyOf[c], VersionOf[c]) # {}

\* A committed cache entry is whole and of one save, wherever a save stops;
\* a lookup never misses what is committed, a hit is served, and a conflict is
\* real (cache/mod.rs, cache/key.rs).
CacheIsTrue == EntryWhole /\ HitIsServed /\ SavedIsFound /\ ConflictIsReal

\* Keys are unique per version, as lookup assumes when it maps the selected
\* key back to an entry (cache/mod.rs, lookup).
KeysUnique ==
  \A i, j \in Present(entries) :
    /\ KeyOf[entries[i].meta] = KeyOf[entries[j].meta]
    /\ VersionOf[entries[i].meta] = VersionOf[entries[j].meta]
    => i = j
=============================================================================
