--------------------------- MODULE SourceTemplates ---------------------------
(***************************************************************************)
(* The source a run works on.  A run claims a snapshot the daemon prepared *)
(* and verifies it against the repository, or captures one itself; both    *)
(* read file by file while the user goes on editing and committing.  The   *)
(* daemon prepares a snapshot when the repository's fingerprint changes.   *)
(*                                                                         *)
(* A file is the number of the change that wrote it, 0 when it is absent:  *)
(* an edit never brings back bytes a file had before, nor a deleted file.  *)
(***************************************************************************)
EXTENDS Integers, Sequences, FiniteSets, SequencesExt

CONSTANTS
  Runs,             \* litci run processes
  Paths,            \* sequence of the paths git may list, in order
  Tracked,          \* those of the first commit
  CaptureAttempts,  \* CAPTURE_ATTEMPTS
  MaxChanges,       \* edits and commits in a behaviour (bound)
  MaxGenerations,   \* preparations in a behaviour (bound)
  MaxStarted,       \* runs and preparations in a behaviour (bound)
  MaxReaders,       \* that read the repository at once (bound)
  MaxTogether       \* changes, runs and preparations (bound)

VARIABLES
  log,      \* what the repository was, one entry for each change: [files, head, tree]
  gone,     \* paths deleted since
  ready,    \* ready-<fingerprint> templates
  watched,  \* the daemon's WatchedRepository: [fingerprint, task]
  gens,     \* preparations started
  w         \* runs and preparations: where they are, and their locals

sourceVars == <<log, gone, ready, watched, gens, w>>

Generations == 1..MaxGenerations
Names == ToSet(Paths)
SourceAssumption ==
  /\ Paths \in Seq(Names) /\ Paths # <<>>
  /\ Runs \cap Generations = {} /\ MaxGenerations \in Nat /\ CaptureAttempts \in Nat \ {0}
Empty == [p \in Names |-> 0]
Repo == Last(log)
Dirty == Repo.files # Repo.tree
Changes == Len(log) - 1
Started == gens + Cardinality({r \in Runs : w[r].at # "idle"})
MayStart == Started < MaxStarted /\ Changes + Started < MaxTogether
\* repository_fingerprint: of every file and of HEAD and the refs.
Fingerprint == <<Repo.files, Repo.head>>

NoSnapshot == [commit |-> 0, dirty |-> FALSE, list |-> {}, entries |-> Empty]
NoWork == [at |-> "idle", job |-> "none", since |-> 0, tries |-> 0, commit |-> 0, list |-> {}, got |-> Empty,
         next |-> 1, same |-> TRUE, from |-> 0, prepared |-> NoSnapshot, candidates |-> {}, result |-> NoSnapshot]
\* A template that another version of litci left: its snapshot.json cannot be read.
Foreign == [name |-> <<Empty, 0>>, id |-> 0, readable |-> FALSE, snapshot |-> NoSnapshot]

SourceInit ==
  /\ LET first == [p \in Names |-> IF p \in Tracked THEN 1 ELSE 0]
     IN log = <<[files |-> first, head |-> 1, tree |-> first]>>
  /\ gone = {} /\ gens = 0
  /\ ready \in {{}, {Foreign}}
  /\ watched = [fingerprint |-> <<Empty, 0>>, task |-> 0]
  /\ w = [c \in Runs \cup Generations |-> NoWork]

\* ------------------------------------------------------------ repository
Change(files, head, tree) ==
  /\ Changes < MaxChanges /\ Changes + Started < MaxTogether
  /\ log' = Append(log, [files |-> files, head |-> head, tree |-> tree])
  /\ UNCHANGED <<ready, watched, gens, w>>
Edit(p) ==
  /\ p \notin gone
  /\ Change([Repo.files EXCEPT ![p] = Len(log) + 1], Repo.head, Repo.tree)
  /\ UNCHANGED gone
Delete(p) ==
  /\ Repo.files[p] # 0
  /\ Change([Repo.files EXCEPT ![p] = 0], Repo.head, Repo.tree)
  /\ gone' = gone \cup {p}
Commit ==
  /\ Dirty
  /\ Change(Repo.files, Repo.head + 1, Repo.files)
  /\ UNCHANGED gone

\* ------------------------------------ capture_once and verify_and_adopt
Local(c, x) == w' = [w EXCEPT ![c] = x] /\ UNCHANGED <<log, gone>>
Capture(x) == [x EXCEPT !.at = "head", !.job = "capture", !.prepared = NoSnapshot]
\* Its locals end with a function.
Left(x) == [x EXCEPT !.commit = 0, !.list = {}, !.got = Empty, !.next = 1, !.same = TRUE]

MutChanged(x) ==   \* a stale template ends the run
  IF x.job # "adopt" /\ x.tries + 1 < CaptureAttempts THEN [Left(Capture(x)) EXCEPT !.tries = @ + 1]
  ELSE [Left(x) EXCEPT !.at = "failed", !.tries = @ + 1]
\* ChangedDuringCapture: the next attempt, or the next candidate.
Changed(x) ==
  IF x.job = "adopt" THEN [Left(x) EXCEPT !.at = "claim", !.job = "none", !.from = 0, !.prepared = NoSnapshot]
  ELSE IF x.tries + 1 < CaptureAttempts THEN [Left(Capture(x)) EXCEPT !.tries = @ + 1]
  ELSE [Left(x) EXCEPT !.at = "failed", !.tries = @ + 1]

Reading == {c \in DOMAIN w : w[c].at \in {"list", "clone", "copy", "hash", "again", "status"}}
HeadBefore(c) ==
  /\ w[c].at = "head" /\ Cardinality(Reading) < MaxReaders
  /\ Local(c, [w[c] EXCEPT !.commit = Repo.head, !.at = "list"])
  /\ UNCHANGED <<ready, watched, gens>>

\* git ls-files --cached --others: tracked paths even when they are deleted.
GitPaths == {p \in Names : Repo.files[p] # 0 \/ Repo.tree[p] # 0}
ListPaths(c) ==
  /\ w[c].at = "list"
  /\ LET adopting == w[c].job = "adopt"
     IN Local(c, [w[c] EXCEPT
                    !.list = GitPaths, !.next = 1,
                    !.got = IF adopting THEN w[c].prepared.entries ELSE Empty,
                    !.same = \A p \in Names \ GitPaths : adopting => w[c].prepared.entries[p] = 0,
                    !.at = IF adopting THEN "hash" ELSE "clone"])
  /\ UNCHANGED <<ready, watched, gens>>

\* git clone copies the commits, so a HEAD that moved since has its own.
CloneGitMetadata(c) ==
  /\ w[c].at = "clone"
  /\ Local(c, [w[c] EXCEPT !.at = "copy", !.same = Repo.head = w[c].commit])
  /\ UNCHANGED <<ready, watched, gens>>

NextFile(x, then) ==
  IF x.next < Len(Paths) THEN [x EXCEPT !.next = @ + 1] ELSE [x EXCEPT !.next = 1, !.at = then]
CopyAndHash(c) ==
  /\ w[c].at = "copy"
  /\ LET p == Paths[w[c].next]
     IN Local(c, NextFile([w[c] EXCEPT !.got[p] = IF p \in w[c].list THEN Repo.files[p] ELSE 0], "hash"))
  /\ UNCHANGED <<ready, watched, gens>>

MutHashLiveEntries(c) ==   \* what is deleted meanwhile is left out of the comparison
  /\ w[c].at = "hash"
  /\ LET p == Paths[w[c].next]
         same == p \in w[c].list /\ Repo.files[p] # 0 => Repo.files[p] = w[c].got[p]
     IN Local(c, NextFile([w[c] EXCEPT !.same = @ /\ same], "again"))
  /\ UNCHANGED <<ready, watched, gens>>
HashLiveEntries(c) ==
  /\ w[c].at = "hash"
  /\ LET p == Paths[w[c].next]
         same == p \in w[c].list => Repo.files[p] = w[c].got[p]
     IN Local(c, NextFile([w[c] EXCEPT !.same = @ /\ same], "again"))
  /\ UNCHANGED <<ready, watched, gens>>

HeadAfter(c) ==
  /\ w[c].at = "again"
  /\ LET same == w[c].same /\ Repo.head = w[c].commit
     IN Local(c, IF w[c].job = "capture" /\ ~same THEN Changed(w[c]) ELSE [w[c] EXCEPT !.same = same, !.at = "status"])
  /\ UNCHANGED <<ready, watched, gens>>

\* git status comes last; then the snapshot is renamed into place.
Status(c) ==
  /\ w[c].at = "status"
  /\ LET x == w[c]
         taken == [commit |-> x.commit, dirty |-> Dirty, list |-> x.list, entries |-> x.got]
         verified == x.same /\ x.prepared.commit = x.commit /\ x.prepared.dirty = Dirty
     IN Local(c, IF x.job = "capture" THEN [Left(x) EXCEPT !.at = "done", !.result = taken]
                 ELSE IF verified THEN [Left(x) EXCEPT !.at = "done", !.result = x.prepared, !.prepared = NoSnapshot]
                 ELSE Changed(x))
  /\ UNCHANGED <<ready, watched, gens>>

\* -------------------------------------------------- take_source_template
Begin(r) ==   \* runs are interchangeable: they begin in a fixed order
  /\ w[r].at = "idle" /\ MayStart
  /\ r = CHOOSE q \in Runs : w[q].at = "idle"
  /\ Local(r, [w[r] EXCEPT !.at = "claim", !.since = Len(log), !.candidates = ready])
  /\ UNCHANGED <<ready, watched, gens>>

Offer(r, t) ==   \* a claimed template, or the next one when it cannot be read
  IF t.readable
    THEN [w[r] EXCEPT !.candidates = @ \ {t}, !.at = "head", !.job = "adopt", !.from = t.id, !.prepared = t.snapshot]
    ELSE [w[r] EXCEPT !.candidates = @ \ {t}]
MutClaim(r) ==   \* the template stays where it is until it is adopted
  /\ w[r].at = "claim" /\ w[r].candidates # {}
  /\ \E t \in w[r].candidates : Local(r, Offer(r, t))
  /\ UNCHANGED <<ready, watched, gens>>
Claim(r) ==
  /\ w[r].at = "claim" /\ w[r].candidates # {}
  /\ \E t \in w[r].candidates :
       IF t \in ready
         THEN ready' = ready \ {t} /\ Local(r, Offer(r, t))
         ELSE UNCHANGED ready /\ Local(r, [w[r] EXCEPT !.candidates = @ \ {t}])
  /\ UNCHANGED <<watched, gens>>
\* None is left: SourceSnapshot::capture.
CaptureInstead(r) ==
  /\ w[r].at = "claim" /\ w[r].candidates = {}
  /\ Local(r, Capture(w[r]))
  /\ UNCHANGED <<ready, watched, gens>>

\* --------------------------------------------------------------- daemon
Running == watched.task # 0 /\ w[watched.task].at \notin {"published", "failed"}
\* refresh_repository, at a Prepare request or at a tick.  An aborted task's
\* capture goes on in its thread; only what follows it is dropped.
RefreshRepository ==
  /\ gens < MaxGenerations /\ MayStart
  /\ ~(watched.fingerprint = Fingerprint /\ (Running \/ ready # {}))
  /\ gens' = gens + 1
  /\ watched' = [fingerprint |-> Fingerprint, task |-> gens + 1]
  /\ Local(gens + 1, Capture(NoWork))
  /\ UNCHANGED ready
\* publish_source_template: a rename, or the duplicate is discarded.
PublishSourceTemplate(g) ==
  /\ w[g].at = "done" /\ watched.task = g
  /\ ready' = IF \E t \in ready : t.name = watched.fingerprint THEN ready
              ELSE ready \cup {[name |-> watched.fingerprint, id |-> g, readable |-> TRUE, snapshot |-> w[g].result]}
  /\ Local(g, [NoWork EXCEPT !.at = "published"])
  /\ UNCHANGED <<watched, gens>>
\* The daemon dies and is started again; templates outlive it.
Restart ==
  /\ watched.task # 0 /\ w[watched.task].at # "dead"
  /\ w' = [c \in DOMAIN w |-> IF c \in Generations /\ w[c].at \notin {"idle", "published", "failed"}
                                THEN [NoWork EXCEPT !.at = "dead"] ELSE w[c]]
  /\ watched' = [fingerprint |-> <<Empty, 0>>, task |-> 0]
  /\ UNCHANGED <<log, gone, ready, gens>>

Snapshot(c) ==
  \/ HeadBefore(c) \/ ListPaths(c) \/ CloneGitMetadata(c) \/ CopyAndHash(c) \/ HashLiveEntries(c)
  \/ HeadAfter(c) \/ Status(c)
SourceNext ==
  \/ \E p \in Names : Edit(p) \/ Delete(p)
  \/ Commit
  \/ \E c \in Runs \cup Generations : Snapshot(c)
  \/ \E r \in Runs : Begin(r) \/ Claim(r) \/ CaptureInstead(r)
  \/ RefreshRepository
  \/ \E g \in Generations : PublishSourceTemplate(g)
  \/ Restart
SourceSpec == SourceInit /\ [][SourceNext]_sourceVars

\* ----------------------------------------------------------- properties
Moments(r) == {log[k] : k \in w[r].since..Len(log)}
\* The source a run works on is what the listed files all were at one moment
\* since the run began, at the commit it names, however files are edited,
\* deleted or committed under the reader; one that was adopted is the whole
\* working tree of that moment, but for a file that came after the template
\* was taken and is deleted again (capture_once, verify_and_adopt).
SnapshotIsReal ==
  \A r \in Runs : w[r].at = "done" =>
    LET s == w[r].result
    IN \E m \in Moments(r) :
         /\ m.head = s.commit
         /\ \A p \in s.list : m.files[p] = s.entries[p]
         /\ w[r].job = "adopt" => \A p \in Names : m.files[p] = s.entries[p] \/ (s.entries[p] = 0 /\ p \in gone)

\* "prepared content is only a performance hint": two processes never hold
\* or adopt the same template, and a run fails to get its source only if the
\* repository changed during each of its own attempts, whatever templates it
\* found (take_source_template, capture).
TemplatesAreHints ==
  /\ \A r, q \in Runs : r # q /\ w[r].job = "adopt" /\ w[q].job = "adopt" => w[r].from # w[q].from
  /\ \A r \in Runs : w[r].at = "failed" => Len(log) - w[r].since >= CaptureAttempts

\* source.rs:132-133: a template is verified "against the repository's current
\* bytes" and adopted "when identical": the working tree was what it holds at
\* one moment since the run began.
AdoptedIsWhole ==
  \A r \in Runs : w[r].at = "done" /\ w[r].job = "adopt" => \E m \in Moments(r) : m.files = w[r].result.entries

\* source.rs:46: dirty tells "Whether captured current bytes differ from
\* `HEAD`", the commit the snapshot names.
DirtyIsExact ==
  \A r \in Runs : w[r].at = "done" =>
    LET s == w[r].result
    IN \A m \in ToSet(log) : m.head = s.commit => (s.dirty <=> s.entries # m.tree)
=============================================================================
