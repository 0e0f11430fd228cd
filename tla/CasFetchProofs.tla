--------------------------- MODULE CasFetchProofs ---------------------------
(***************************************************************************)
(* ensure_with for any number of processes.  The lock file does not        *)
(* exclude by itself: a waiter that reads a vanished lock as stale removes *)
(* whatever lock is there by then.  That this starts no second fetch, as   *)
(* long as nothing failed, is because a lock can only have vanished after  *)
(* the object was published, and a new owner looks again (Undisturbed).    *)
(***************************************************************************)
EXTENDS CasFetch, FiniteSetTheorems, TLAPS

(* A process that has created the lock and has not yet published.          *)
Owning == {"name", "recheck", "begin", "fill", "verify", "publish"}
(* A process that can remove a lock that is not its own.                   *)
Removing == {"remove", "record", "finish", "unlock"}

FilesAreOwn == \A p \in Procs : fd[p] # "closed" => casPc[p] = "fill"

(* Who may be where while the digest is not yet in the store.              *)
Undisturbed ==
  /\ object \in {"none", "full"}
  /\ \A p \in Procs : casPc[p] # "dead" /\ fd[p] # "object"
  /\ object = "none" =>
       \A p \in Procs :
         /\ casPc[p] \in Owning => lock.owner = p
         /\ casPc[p] \in Owning \ {"name"} => lock.named
         /\ casPc[p] \notin Removing
         /\ casPc[p] = "stale" => lock # NoLock
         /\ casPc[p] = "publish" => partial \in {"none", "full"}
  /\ object = "full" => Materializing = {}

IInv == CasTypeOK /\ FilesAreOwn /\ (NothingFailed => Undisturbed)

-----------------------------------------------------------------------------
LEMMA InitIInv == ASSUME CasAssumption, CasInit PROVE IInv
<1> USE DEF CasAssumption, CasInit
<1>1. CasTypeOK
  <2>1. row \in BOOLEAN
    OBVIOUS
  <2>2. outcomes \in [Procs -> SUBSET {"hit", "shared", "published", "error"}]
    OBVIOUS
  <2>3. QED
    BY <2>1, <2>2 DEF CasTypeOK, Contents
<1>2. FilesAreOwn
  BY DEF FilesAreOwn
<1>3. Undisturbed
  BY DEF Undisturbed, Materializing, Owning, Removing
<1>4. QED
  BY <1>1, <1>2, <1>3 DEF IInv

LEMMA NextTypeOK == ASSUME CasAssumption, CasTypeOK, [CasNext]_casVars PROVE CasTypeOK'
<1> USE DEF CasAssumption, CasTypeOK, Contents, Goto
<1>1. CASE UNCHANGED casVars
  BY <1>1 DEF casVars
<1>2. CASE Sweep
  BY <1>2 DEF Sweep, Follow
<1>3. ASSUME NEW p \in Procs, Call(p) PROVE CasTypeOK'
  BY <1>3 DEF Call
<1>4. ASSUME NEW p \in Procs, CasCrash(p) PROVE CasTypeOK'
  BY <1>4 DEF CasCrash
<1>5. ASSUME NEW p \in Procs, Probe(p) \/ Recheck(p) \/ Poll(p) PROVE CasTypeOK'
  <2>1. object' \in Contents /\ fd' \in [Procs -> {"closed", "partial", "object", "unlinked"}]
    BY <1>5 DEF Probe, Recheck, Poll, UsableOrQuarantined, Follow
  <2>2. QED
    BY <1>5, <2>1 DEF Probe, Recheck, Poll, Return, Leave
<1>6. ASSUME NEW p \in Procs, CreateLock(p) \/ NameLock(p) \/ DropGuard(p) \/ RemoveLock(p)
      PROVE  CasTypeOK'
  <2>1. lock' \in [owner : Procs, named : BOOLEAN] \cup {NoLock}
    <3>1. CASE CreateLock(p)
      <4>1. CASE lock = NoLock
        <5>1. lock' = [owner |-> p, named |-> FALSE]
          BY <3>1, <4>1 DEF CreateLock
        <5>2. QED
          BY <5>1
      <4>2. CASE lock # NoLock
        BY <3>1, <4>2 DEF CreateLock
      <4>3. QED
        BY <4>1, <4>2
    <3>2. CASE NameLock(p)
      <4>1. CASE lock = NoLock
        BY <3>2, <4>1 DEF NameLock, NoLock
      <4>2. CASE lock \in [owner : Procs, named : BOOLEAN]
        BY <3>2, <4>2 DEF NameLock
      <4>3. QED
        BY <4>1, <4>2
    <3>3. QED
      BY <1>6, <3>1, <3>2 DEF DropGuard, RemoveLock
  <2>2. QED
    BY <1>6, <2>1 DEF CreateLock, NameLock, DropGuard, RemoveLock
<1>7. ASSUME NEW p \in Procs, BeginFetch(p) \/ Refused(p) PROVE CasTypeOK'
  BY <1>7 DEF BeginFetch, Refused, Leave
<1>8. ASSUME NEW p \in Procs, Fill(p) PROVE CasTypeOK'
  BY <1>8 DEF Fill, Written, Filled
<1>9. ASSUME NEW p \in Procs, FillWrong(p) PROVE CasTypeOK'
  BY <1>9 DEF FillWrong, Written
<1>10. ASSUME NEW p \in Procs, Break(p) PROVE CasTypeOK'
  BY <1>10 DEF Break, Written, Leave
<1>11. ASSUME NEW p \in Procs, Verify(p) \/ Publish(p) PROVE CasTypeOK'
  <2>1. fd' \in [Procs -> {"closed", "partial", "object", "unlinked"}]
    BY <1>11 DEF Verify, Publish, Follow
  <2>2. QED
    BY <1>11, <2>1 DEF Verify, Publish, Leave
<1>12. ASSUME NEW p \in Procs, RecordObject(p) \/ FinishDownload(p) PROVE CasTypeOK'
  <2>1. row' \in BOOLEAN
    BY <1>12 DEF RecordObject, FinishDownload
  <2>2. QED
    BY <1>12, <2>1 DEF RecordObject, FinishDownload, Leave
<1>13. ASSUME NEW p \in Procs, ReadLock(p) \/ TimeOut(p) PROVE CasTypeOK'
  BY <1>13 DEF ReadLock, TimeOut, Return
<1>14. QED
  BY <1>1, <1>2, <1>3, <1>4, <1>5, <1>6, <1>7, <1>8, <1>9, <1>10, <1>11, <1>12, <1>13
     DEF CasNext, Step

LEMMA NextFilesAreOwn ==
  ASSUME CasAssumption, CasTypeOK, FilesAreOwn, [CasNext]_casVars PROVE FilesAreOwn'
<1> USE DEF CasTypeOK, FilesAreOwn, Goto
<1>1. CASE UNCHANGED casVars
  BY <1>1 DEF casVars
<1>2. CASE Sweep
  BY <1>2 DEF Sweep, Follow
<1>3. ASSUME NEW p \in Procs, Call(p) \/ CasCrash(p) PROVE FilesAreOwn'
  BY <1>3 DEF Call, CasCrash
<1>4. ASSUME NEW p \in Procs, Probe(p) \/ Recheck(p) \/ Poll(p) PROVE FilesAreOwn'
  BY <1>4 DEF Probe, Recheck, Poll, UsableOrQuarantined, Follow, Return, Leave
<1>5. ASSUME NEW p \in Procs, CreateLock(p) \/ NameLock(p) \/ DropGuard(p) \/ RemoveLock(p)
      PROVE  FilesAreOwn'
  BY <1>5 DEF CreateLock, NameLock, DropGuard, RemoveLock
<1>6. ASSUME NEW p \in Procs, BeginFetch(p) \/ Refused(p) PROVE FilesAreOwn'
  BY <1>6 DEF BeginFetch, Refused, Leave
<1>7. ASSUME NEW p \in Procs, Fill(p) \/ FillWrong(p) \/ Break(p) PROVE FilesAreOwn'
  BY <1>7 DEF Fill, FillWrong, Break, Written, Leave
<1>8. ASSUME NEW p \in Procs, Verify(p) \/ Publish(p) PROVE FilesAreOwn'
  BY <1>8 DEF Verify, Publish, Follow, Leave
<1>9. ASSUME NEW p \in Procs, RecordObject(p) \/ FinishDownload(p) PROVE FilesAreOwn'
  BY <1>9 DEF RecordObject, FinishDownload, Leave
<1>10. ASSUME NEW p \in Procs, ReadLock(p) \/ TimeOut(p) PROVE FilesAreOwn'
  BY <1>10 DEF ReadLock, TimeOut, Return
<1>11. QED
  BY <1>1, <1>2, <1>3, <1>4, <1>5, <1>6, <1>7, <1>8, <1>9, <1>10 DEF CasNext, Step

-----------------------------------------------------------------------------
(* A call that fails says so, so an action that leads to an error has      *)
(* nothing to keep.                                                        *)
LEMMA ErrorIsSeen ==
  ASSUME CasTypeOK, NEW p \in Procs, outcomes' = [outcomes EXCEPT ![p] = @ \cup {"error"}]
  PROVE  ~NothingFailed'
  BY DEF CasTypeOK, NothingFailed

(* What failed stays failed.                                               *)
LEMMA FailureStays ==
  ASSUME CasTypeOK, NEW p \in Procs, NEW result, crashes' = crashes,
         outcomes' = outcomes \/ outcomes' = [outcomes EXCEPT ![p] = @ \cup {result}],
         NothingFailed'
  PROVE  NothingFailed
  BY DEF CasTypeOK, NothingFailed

LEMMA NextUndisturbed ==
  ASSUME CasAssumption, IInv, [CasNext]_casVars, NothingFailed' PROVE Undisturbed'
<1> USE DEF CasAssumption, IInv, CasTypeOK, FilesAreOwn, Goto, Owning, Removing, Materializing, NoLock
<1>1. CASE UNCHANGED casVars
  BY <1>1 DEF casVars, NothingFailed, Undisturbed
<1>2. CASE Sweep
  BY <1>2 DEF Sweep, Follow, NothingFailed, Undisturbed
<1>3. ASSUME NEW p \in Procs, Call(p) PROVE Undisturbed'
  BY <1>3 DEF Call, NothingFailed, Undisturbed
<1>4. ASSUME NEW p \in Procs, CasCrash(p) PROVE FALSE
  BY <1>4 DEF CasCrash, NothingFailed
<1>5. ASSUME NEW p \in Procs, Refused(p) \/ Break(p) \/ TimeOut(p) PROVE FALSE
  BY <1>5, ErrorIsSeen DEF Refused, Break, TimeOut, Leave, Return
<1> HIDE DEF CasTypeOK
<1>6. ASSUME NEW p \in Procs, Step(p) PROVE NothingFailed
  BY <1>6, FailureStays
     DEF Step, Probe, CreateLock, NameLock, Recheck, BeginFetch, Refused, Fill, FillWrong, Break,
         Verify, Publish, RecordObject, FinishDownload, DropGuard, ReadLock, RemoveLock, Poll,
         TimeOut, Leave, Return
<1> USE DEF CasTypeOK, Undisturbed
<1>7. ASSUME NEW p \in Procs, Step(p), Probe(p) \/ Recheck(p) \/ Poll(p) PROVE Undisturbed'
  BY <1>6, <1>7 DEF Probe, Recheck, Poll, UsableOrQuarantined, Return, Leave
<1>8. ASSUME NEW p \in Procs, Step(p), CreateLock(p) PROVE Undisturbed'
  BY <1>6, <1>8 DEF CreateLock
<1>9. ASSUME NEW p \in Procs, Step(p), NameLock(p) PROVE Undisturbed'
  BY <1>6, <1>9 DEF NameLock
<1>10. ASSUME NEW p \in Procs, Step(p), DropGuard(p) \/ RemoveLock(p) PROVE Undisturbed'
  BY <1>6, <1>10 DEF DropGuard, RemoveLock
<1>11. ASSUME NEW p \in Procs, Step(p), BeginFetch(p) PROVE Undisturbed'
  BY <1>6, <1>11 DEF BeginFetch
<1>12. ASSUME NEW p \in Procs, Step(p), Fill(p) \/ FillWrong(p) PROVE Undisturbed'
  BY <1>6, <1>12 DEF Fill, FillWrong, Written
<1>13. ASSUME NEW p \in Procs, Step(p), Verify(p) PROVE Undisturbed'
  BY <1>6, <1>13, ErrorIsSeen DEF Verify, Leave
<1>14. ASSUME NEW p \in Procs, Step(p), Publish(p) PROVE Undisturbed'
  <2>1. partial # "none"
    BY <1>14, ErrorIsSeen DEF Publish, Leave
  <2>2. QED
    BY <1>6, <1>14, <2>1 DEF Publish, Follow
<1>15. ASSUME NEW p \in Procs, Step(p), RecordObject(p) \/ FinishDownload(p)
       PROVE  Undisturbed'
  BY <1>6, <1>15 DEF RecordObject, FinishDownload, Leave
<1>16. ASSUME NEW p \in Procs, Step(p), ReadLock(p) PROVE Undisturbed'
  BY <1>6, <1>16 DEF ReadLock, Stale
<1>17. ASSUME NEW p \in Procs, Step(p) PROVE Undisturbed'
  BY <1>5, <1>7, <1>8, <1>9, <1>10, <1>11, <1>12, <1>13, <1>14, <1>15, <1>16, <1>17 DEF Step
<1>18. QED
  BY <1>1, <1>2, <1>3, <1>4, <1>17 DEF CasNext

LEMMA NextIInv == ASSUME CasAssumption, IInv, [CasNext]_casVars PROVE IInv'
  BY NextTypeOK, NextFilesAreOwn, NextUndisturbed DEF IInv

-----------------------------------------------------------------------------
LEMMA IInvExact == ASSUME CasAssumption, IInv PROVE CasIsExact
<1> SUFFICES ASSUME NothingFailed
             PROVE  /\ Cardinality(Materializing) <= 1
                    /\ \A p \in Materializing :
                         object = "none" /\ lock = [owner |-> p, named |-> TRUE]
                    /\ object \in {"none", "full"}
  BY DEF CasIsExact, FetchedOnce, ObjectIsVerified
<1>1. Undisturbed
  BY DEF IInv
<1>2. ASSUME NEW p \in Materializing
      PROVE  object = "none" /\ lock = [owner |-> p, named |-> TRUE]
  BY <1>1, <1>2 DEF Undisturbed, Materializing, Owning, IInv, CasTypeOK, CasAssumption, NoLock
<1>3. Materializing \in SUBSET {lock.owner}
  BY <1>2
<1>4. Cardinality(Materializing) <= 1
  <2>1. IsFiniteSet({lock.owner}) /\ Cardinality({lock.owner}) = 1
    BY FS_Singleton
  <2>2. QED
    BY <1>3, <2>1, FS_Subset
<1>5. QED
  BY <1>1, <1>2, <1>4 DEF Undisturbed

\* A digest is fetched once: while no call failed and no process was killed,
\* at most one process materializes it, under its own lock, never again after
\* it was published, and what stands at the object path is its content
\* (ensure_with, stale_lock, InFlightGuard; cas/mod.rs).
THEOREM DigestFetchedOnce == ASSUME CasAssumption PROVE CasSpec => []CasIsExact
<1>1. CasInit => IInv
  BY InitIInv
<1>2. IInv /\ [CasNext]_casVars => IInv'
  BY NextIInv
<1>3. IInv => CasIsExact
  BY IInvExact
<1>4. QED
  BY <1>1, <1>2, <1>3, PTL DEF CasSpec
=============================================================================
