------------------------------ MODULE CasFetch ------------------------------
(***************************************************************************)
(* One digest of the content store (greenlit-store, cas/mod.rs) and the    *)
(* processes that ensure it: `ensure_with` looks for a verified object,    *)
(* takes the lock file inflight/<hex>, materializes tmp/<hex>.partial,     *)
(* verifies and renames it, and drops the lock.  A process that finds the  *)
(* lock held reads it, removes it if its owner is gone, and polls.         *)
(*                                                                         *)
(* Content is abstracted to what the digest tells apart.  A file that a    *)
(* process has open keeps its identity across a rename, so `fd` says where *)
(* the file a process is writing now is.  Every file-system call is a step *)
(* of its own; the digest of a file and its quarantine are one.            *)
(***************************************************************************)
EXTENDS Naturals, FiniteSets

CONSTANTS
  Procs,       \* processes that want the digest
  MaxCalls,    \* calls of ensure_with per process (bound)
  MaxCrashes,  \* processes that may be killed (bound)
  MaxBreaks,   \* transfers that may break off or deliver wrong bytes (bound)
  MaxSweeps    \* passes of collect_garbage over tmp/ (bound)

CasAssumption ==
  /\ "none" \notin Procs
  /\ MaxCalls \in Nat /\ MaxCrashes \in Nat /\ MaxBreaks \in Nat /\ MaxSweeps \in Nat

VARIABLES
  object,   \* the file at object_path
  partial,  \* the file at tmp/<hex>.partial
  lock,     \* the file at inflight/<hex>: its creator, and whether it holds its identity
  fd,       \* where the file a process has open for writing is now
  row,      \* the objects table has the digest
  casPc,
  outcomes, \* of the calls of a process so far
  calls,
  crashes, breaks, sweeps

casVars == <<object, partial, lock, fd, row, casPc, outcomes, calls, crashes, breaks, sweeps>>

Contents == {"none", "some", "full", "junk"}
NoLock == [owner |-> "none", named |-> FALSE]

(* Between the second look at the object and the rename.                   *)
Materializing == {p \in Procs : casPc[p] \in {"begin", "fill", "verify", "publish"}}

CasTypeOK ==
  /\ object \in Contents /\ partial \in Contents
  /\ lock \in [owner : Procs, named : BOOLEAN] \cup {NoLock}
  /\ fd \in [Procs -> {"closed", "partial", "object", "unlinked"}]
  /\ row \in BOOLEAN
  /\ casPc \in [Procs -> {"idle", "probe", "open", "name", "recheck", "begin", "fill", "verify",
                       "publish", "record", "finish", "unlock", "stale", "remove", "wait",
                       "dead"}]
  /\ outcomes \in [Procs -> SUBSET {"hit", "shared", "published", "error"}]
  /\ calls \in [Procs -> 0..MaxCalls]
  /\ crashes \in 0..MaxCrashes /\ breaks \in 0..MaxBreaks /\ sweeps \in 0..MaxSweeps

CasInit ==
  /\ object = "none" /\ partial = "none" /\ lock = NoLock
  /\ fd = [p \in Procs |-> "closed"]
  /\ row = FALSE
  /\ casPc = [p \in Procs |-> "idle"]
  /\ outcomes = [p \in Procs |-> {}]
  /\ calls = [p \in Procs |-> 0]
  /\ crashes = 0 /\ breaks = 0 /\ sweeps = 0

Goto(p, label) == casPc' = [casPc EXCEPT ![p] = label]
Return(p, result) == Goto(p, "idle") /\ outcomes' = [outcomes EXCEPT ![p] = @ \cup {result}]
(* The guard removes the lock on every exit, so a result waits for it.     *)
Leave(p, result) == Goto(p, "unlock") /\ outcomes' = [outcomes EXCEPT ![p] = @ \cup {result}]

(* The files that were open under `from` are now under `to`.               *)
Follow(from, to) ==
  [p \in Procs |-> IF fd[p] = from THEN to ELSE IF fd[p] = to THEN "unlinked" ELSE fd[p]]

-----------------------------------------------------------------------------
Call(p) ==
  /\ casPc[p] = "idle" /\ calls[p] < MaxCalls
  /\ calls' = [calls EXCEPT ![p] = @ + 1]
  /\ Goto(p, "probe")
  /\ UNCHANGED <<object, partial, lock, fd, row, outcomes, crashes, breaks, sweeps>>

(* usable_or_quarantined: a file that does not match is moved away.        *)
UsableOrQuarantined ==
  IF object \in {"none", "full"}
    THEN UNCHANGED <<object, fd>>
    ELSE object' = "none" /\ fd' = Follow("object", "unlinked")

Probe(p) ==
  /\ casPc[p] = "probe"
  /\ UsableOrQuarantined
  /\ IF object = "full" THEN Return(p, "hit") ELSE Goto(p, "open") /\ UNCHANGED outcomes
  /\ UNCHANGED <<partial, lock, row, calls, crashes, breaks, sweeps>>

(* OpenOptions::create_new.                                                *)
CreateLock(p) ==
  /\ casPc[p] = "open"
  /\ IF lock = NoLock
       THEN lock' = [owner |-> p, named |-> FALSE] /\ Goto(p, "name")
       ELSE UNCHANGED lock /\ Goto(p, "stale")
  /\ UNCHANGED <<object, partial, fd, row, outcomes, calls, crashes, breaks, sweeps>>

(* The identity goes to the file this process created, which is no longer  *)
(* at the path if another process removed it.                              *)
NameLock(p) ==
  /\ casPc[p] = "name"
  /\ lock' = IF lock.owner = p THEN [lock EXCEPT !.named = TRUE] ELSE lock
  /\ Goto(p, "recheck")
  /\ UNCHANGED <<object, partial, fd, row, outcomes, calls, crashes, breaks, sweeps>>

MutNoRecheck(p) ==
  /\ casPc[p] = "recheck"
  /\ Goto(p, "begin")
  /\ UNCHANGED <<object, partial, lock, fd, row, outcomes, calls, crashes, breaks, sweeps>>

Recheck(p) ==
  /\ casPc[p] = "recheck"
  /\ UsableOrQuarantined
  /\ IF object = "full" THEN Leave(p, "shared") ELSE Goto(p, "begin") /\ UNCHANGED outcomes
  /\ UNCHANGED <<partial, lock, row, calls, crashes, breaks, sweeps>>

(* materialize opens the partial: truncated (fs::copy, a 200 response) or  *)
(* continued at its end (a 206 response to a Range request).               *)
BeginFetch(p) ==
  /\ casPc[p] = "begin"
  /\ partial' \in {"some"} \cup ({partial} \ {"none", "full"})
  /\ fd' = [fd EXCEPT ![p] = "partial"]
  /\ Goto(p, "fill")
  /\ UNCHANGED <<object, lock, row, outcomes, calls, crashes, breaks, sweeps>>

(* Nothing is left to send of a complete partial: the server answers the   *)
(* Range request with 416, which is an error.                              *)
Refused(p) ==
  /\ casPc[p] = "begin" /\ partial = "full"
  /\ Leave(p, "error")
  /\ UNCHANGED <<object, partial, fd, lock, row, calls, crashes, breaks, sweeps>>

(* What a completed transfer leaves in the file: the content of the digest *)
(* if the file had a prefix of it and nobody else was writing.             *)
Filled(p, before) ==
  IF \E q \in Procs \ {p} : fd[q] = fd[p] THEN {"some", "full", "junk"}
  ELSE IF before = "junk" THEN {"junk"} ELSE {"full"}

(* The writes of p end with one of `contents` in the file, wherever it is. *)
Written(p, contents(_)) ==
  /\ partial' \in IF fd[p] = "partial" THEN contents(partial) ELSE {partial}
  /\ object' \in IF fd[p] = "object" THEN contents(object) ELSE {object}
  /\ fd' = [fd EXCEPT ![p] = "closed"]

Fill(p) ==
  /\ casPc[p] = "fill"
  /\ Written(p, LAMBDA before : Filled(p, before))
  /\ Goto(p, "verify")
  /\ UNCHANGED <<lock, row, outcomes, calls, crashes, breaks, sweeps>>

(* The transfer delivers other bytes than the digest stands for.           *)
FillWrong(p) ==
  /\ casPc[p] = "fill" /\ breaks < MaxBreaks
  /\ breaks' = breaks + 1
  /\ Written(p, LAMBDA before : {"junk"})
  /\ Goto(p, "verify")
  /\ UNCHANGED <<lock, row, outcomes, calls, crashes, sweeps>>

(* materialize returns an error; the partial is kept to be resumed.        *)
Break(p) ==
  /\ casPc[p] = "fill" /\ breaks < MaxBreaks
  /\ breaks' = breaks + 1
  /\ Written(p, LAMBDA before : {before})
  /\ Leave(p, "error")
  /\ UNCHANGED <<lock, row, calls, crashes, sweeps>>

(* digest_file(partial), and quarantine of what does not match.            *)
MutPublishesUnverified(p) ==
  /\ casPc[p] = "verify"
  /\ IF partial # "none" THEN Goto(p, "publish") /\ UNCHANGED outcomes ELSE Leave(p, "error")
  /\ UNCHANGED <<object, partial, fd, lock, row, calls, crashes, breaks, sweeps>>

Verify(p) ==
  /\ casPc[p] = "verify"
  /\ IF partial = "full"
       THEN Goto(p, "publish") /\ UNCHANGED <<partial, fd, outcomes>>
       ELSE /\ partial' = "none" /\ fd' = Follow("partial", "unlinked")
            /\ Leave(p, "error")
  /\ UNCHANGED <<object, lock, row, calls, crashes, breaks, sweeps>>

(* publish_file: rename to object_path.                                    *)
Publish(p) ==
  /\ casPc[p] = "publish"
  /\ IF partial = "none"
       THEN Leave(p, "error") /\ UNCHANGED <<object, partial, fd>>
       ELSE /\ object' = partial /\ partial' = "none"
            /\ fd' = Follow("partial", "object")
            /\ Goto(p, "record") /\ UNCHANGED outcomes
  /\ UNCHANGED <<lock, row, calls, crashes, breaks, sweeps>>

RecordObject(p) ==
  /\ casPc[p] = "record"
  /\ row' = TRUE
  /\ Goto(p, "finish")
  /\ UNCHANGED <<object, partial, lock, fd, outcomes, calls, crashes, breaks, sweeps>>

FinishDownload(p) ==
  /\ casPc[p] = "finish"
  /\ Leave(p, "published")
  /\ UNCHANGED <<object, partial, lock, fd, row, calls, crashes, breaks, sweeps>>

(* InFlightGuard::drop removes the path, whoever's file it is.             *)
DropGuard(p) ==
  /\ casPc[p] = "unlock"
  /\ lock' = NoLock
  /\ Goto(p, "idle")
  /\ UNCHANGED <<object, partial, fd, row, outcomes, calls, crashes, breaks, sweeps>>

-----------------------------------------------------------------------------
(* stale_lock: a missing file is stale, and so is one whose process is     *)
(* gone.  A file without an identity is stale after two seconds; a live    *)
(* process is taken to write its identity in that time.                    *)
Stale == lock = NoLock \/ casPc[lock.owner] = "dead"

MutTrustsAnyOwner(p) ==
  /\ casPc[p] = "stale"
  /\ Goto(p, IF lock = NoLock THEN "remove" ELSE "wait")
  /\ UNCHANGED <<object, partial, lock, fd, row, outcomes, calls, crashes, breaks, sweeps>>

ReadLock(p) ==
  /\ casPc[p] = "stale"
  /\ Goto(p, IF Stale THEN "remove" ELSE "wait")
  /\ UNCHANGED <<object, partial, lock, fd, row, outcomes, calls, crashes, breaks, sweeps>>

(* remove_file(lock_path), whatever is there by now.                       *)
RemoveLock(p) ==
  /\ casPc[p] = "remove"
  /\ lock' = NoLock
  /\ Goto(p, "open")
  /\ UNCHANGED <<object, partial, fd, row, outcomes, calls, crashes, breaks, sweeps>>

(* One turn of the polling loop.                                           *)
Poll(p) ==
  /\ casPc[p] = "wait"
  /\ UsableOrQuarantined
  /\ IF object = "full" THEN Return(p, "shared") ELSE Goto(p, "open") /\ UNCHANGED outcomes
  /\ UNCHANGED <<partial, lock, row, calls, crashes, breaks, sweeps>>

(* LOCK_WAIT is over.  Only a transfer takes that long: the other steps of *)
(* a lock's owner are short, and a dead owner is noticed in one turn.      *)
TimeOut(p) ==
  /\ casPc[p] = "wait"
  /\ object = "none"
  /\ \E q \in Procs : casPc[q] = "fill"
  /\ Return(p, "error")
  /\ UNCHANGED <<object, partial, lock, fd, row, calls, crashes, breaks, sweeps>>

-----------------------------------------------------------------------------
(* The process is killed; its lock and its partial stay.                   *)
CasCrash(p) ==
  /\ casPc[p] \notin {"idle", "dead"} /\ crashes < MaxCrashes
  /\ crashes' = crashes + 1
  /\ Goto(p, "dead")
  /\ fd' = [fd EXCEPT ![p] = "closed"]
  /\ UNCHANGED <<object, partial, lock, row, outcomes, calls, breaks, sweeps>>

(* collect_garbage of another process removes every file of tmp/.          *)
Sweep ==
  /\ partial # "none" /\ sweeps < MaxSweeps
  /\ sweeps' = sweeps + 1
  /\ partial' = "none" /\ fd' = Follow("partial", "unlinked")
  /\ UNCHANGED <<object, lock, row, casPc, outcomes, calls, crashes, breaks>>

Step(p) ==
  \/ Probe(p) \/ CreateLock(p) \/ NameLock(p) \/ Recheck(p) \/ BeginFetch(p) \/ Refused(p)
  \/ Fill(p) \/ FillWrong(p) \/ Break(p) \/ Verify(p) \/ Publish(p) \/ RecordObject(p)
  \/ FinishDownload(p) \/ DropGuard(p) \/ ReadLock(p) \/ RemoveLock(p) \/ Poll(p)
  \/ TimeOut(p)

CasNext == Sweep \/ \E p \in Procs : Call(p) \/ Step(p) \/ CasCrash(p)

CasSpec == CasInit /\ [][CasNext]_casVars
(* A running process keeps running; nothing else is assumed.               *)
CasFairSpec == CasSpec /\ \A p \in Procs : WF_casVars(Step(p))

-----------------------------------------------------------------------------
(* Properties.                                                             *)

(* No call has failed and no process was killed.                           *)
NothingFailed == crashes = 0 /\ \A p \in Procs : "error" \notin outcomes[p]

(* Until the first call fails or a process dies, the digest is materialized *)
(* by one process at a time, which owns the lock, and never again once it  *)
(* was published: waiters that saw the lock, saw it vanish, or removed     *)
(* nothing do not start a second one.                                      *)
FetchedOnce ==
  NothingFailed =>
    /\ Cardinality(Materializing) <= 1
    /\ \A p \in Materializing : object = "none" /\ lock = [owner |-> p, named |-> TRUE]

(* The claim of ensure_with without that condition: at most one process    *)
(* materializes a missing digest.                                          *)
SingleFlight == Cardinality(Materializing) <= 1

(* Until then what stands at the object path is the content of the digest, *)
(* whatever a transfer delivers and whenever tmp/ is swept.                *)
ObjectIsVerified == NothingFailed => object \in {"none", "full"}

(* Both: while nothing fails a digest is fetched once, and what is         *)
(* published is it.                                                        *)
CasIsExact == FetchedOnce /\ ObjectIsVerified

(* Every call ends, also when the owner of the lock was killed at any of   *)
(* its steps.                                                              *)
CallsReturn == \A p \in Procs : casPc[p] = "probe" ~> casPc[p] \in {"idle", "dead"}
=============================================================================
