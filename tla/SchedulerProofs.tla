-------------------------- MODULE SchedulerProofs --------------------------
(***************************************************************************)
(* Safety of the run scheduler for every plan: any groups, legs, waves,    *)
(* concurrency keys and limits that the assumptions of Scheduler admit.    *)
(*                                                                         *)
(* GateExclusive is not inductive: a hand-over moves a permit to a queued  *)
(* leg, so the invariant must say who is in the queue, and a completion    *)
(* pushes a pending leg, so it must say which legs are pending.  IInv has  *)
(* one conjunct for each of these.  HInv, further down, is the             *)
(* strengthening of ReportsAreHonest, relative to IInv.                    *)
(***************************************************************************)
EXTENDS Scheduler, FiniteSetTheorems, TLAPS

(* The holder of a gate is inside it, and who is inside holds the gate.    *)
HolderInside ==
  /\ \A k \in Keys : gate[k] # NoLeg => pc[gate[k]] \in Inside /\ Key[gate[k]] = k
  /\ \A l \in Legs : Key[l] \in Keys /\ pc[l] \in Inside => gate[Key[l]] = l

(* A queue holds waiting legs of its own key, each once, and only while    *)
(* the gate is held.                                                       *)
QueueWaits ==
  /\ \A k \in Keys : \A i \in 1..Len(queue[k]) :
       pc[queue[k][i]] = "queued" /\ Key[queue[k][i]] = k
  /\ \A k \in Keys : \A i, j \in 1..Len(queue[k]) : queue[k][i] = queue[k][j] => i = j
  /\ \A k \in Keys : Len(queue[k]) > 0 => gate[k] # NoLeg

(* Legs beyond `pushed` have not been touched, and neither has a group     *)
(* that was not started.                                                   *)
PendingBeyond ==
  /\ \A l \in Legs : Index[l] > pushed[GroupOf[l]] => pc[l] = "pending"
  /\ \A g \in Groups : gst[g] = "idle" => pushed[g] = 0 /\ ~stop[g] /\ ~gerr[g]

(* The waves before the current one have completed.                        *)
EarlierWavesDone ==
  run = "running" => \A g \in Groups : Wave[g] < wave => gst[g] = "done"

IInv == TypeOK /\ HolderInside /\ QueueWaits /\ PendingBeyond /\ EarlierWavesDone

-----------------------------------------------------------------------------
(* What the sequence operators of the queue do.                            *)

LEMMA TailFacts ==
  ASSUME NEW S, NEW s \in Seq(S), Len(s) > 0
  PROVE  /\ Tail(s) \in Seq(S) /\ Len(Tail(s)) = Len(s) - 1
         /\ \A i \in 1..Len(Tail(s)) : Tail(s)[i] = s[i + 1]
         /\ Head(s) = s[1] /\ Head(s) \in S
  OBVIOUS

LEMMA RemoveAtFacts ==
  ASSUME NEW S, NEW s \in Seq(S), NEW i \in 1..Len(s)
  PROVE  /\ RemoveAt(s, i) \in Seq(S) /\ Len(RemoveAt(s, i)) = Len(s) - 1
         /\ \A j \in 1..(Len(s) - 1) : RemoveAt(s, i)[j] = IF j < i THEN s[j] ELSE s[j + 1]
<1> DEFINE front == SubSeq(s, 1, i - 1)
           back == SubSeq(s, i + 1, Len(s))
<1>1. /\ front \in Seq(S) /\ Len(front) = i - 1
      /\ \A j \in 1..(i - 1) : front[j] = s[j]
  OBVIOUS
<1>2. /\ back \in Seq(S) /\ Len(back) = Len(s) - i
      /\ \A j \in 1..(Len(s) - i) : back[j] = s[i + j]
  OBVIOUS
<1>3. RemoveAt(s, i) = front \o back
  BY DEF RemoveAt
<1> HIDE DEF front, back
<1>4. Len(RemoveAt(s, i)) = Len(s) - 1 /\ RemoveAt(s, i) \in Seq(S)
  BY <1>1, <1>2, <1>3
<1>5. \A j \in 1..Len(front) : (front \o back)[j] = front[j]
  BY <1>1, <1>2
<1>6. \A j \in 1..Len(back) : (front \o back)[Len(front) + j] = back[j]
  BY <1>1, <1>2
<1>7. ASSUME NEW j \in 1..(Len(s) - 1), j < i PROVE RemoveAt(s, i)[j] = s[j]
  BY <1>1, <1>3, <1>5, <1>7
<1>8. ASSUME NEW j \in 1..(Len(s) - 1), ~(j < i) PROVE RemoveAt(s, i)[j] = s[j + 1]
  <2>1. j - (i - 1) \in 1..Len(back) /\ Len(front) + (j - (i - 1)) = j
    BY <1>1, <1>2, <1>8
  <2>2. back[j - (i - 1)] = s[j + 1]
    <3>1. back[j - (i - 1)] = s[i + (j - (i - 1))]
      BY <1>2, <2>1
    <3>2. i + (j - (i - 1)) = j + 1
      OBVIOUS
    <3>3. QED
      BY <3>1, <3>2
  <2>3. QED
    BY <1>3, <1>6, <2>1, <2>2
<1>9. QED
  BY <1>4, <1>7, <1>8

-----------------------------------------------------------------------------
LEMMA InitIInv == Init => IInv
<1> SUFFICES ASSUME Init PROVE IInv
  OBVIOUS
<1>1. NoRecord \in NeedRecords
  BY DEF NoRecord, NeedRecords, Conclusions
<1>2. TypeOK
  <2>1. queue \in [Keys -> Seq(Legs)]
    BY DEF Init
  <2>2. completed \in [Groups -> NeedRecords]
    BY <1>1 DEF Init
  <2>3. wave \in 0..MaxWave
    BY PlanAssumption DEF Init
  <2>4. QED
    BY <2>1, <2>2, <2>3 DEF Init, TypeOK, PCs
<1>3. HolderInside /\ PendingBeyond
  BY LegAssumption DEF Init, HolderInside, PendingBeyond, Inside
<1>4. QueueWaits
  BY DEF Init, QueueWaits
<1>5. EarlierWavesDone
  BY PlanAssumption DEF Init, EarlierWavesDone
<1>6. QED
  BY <1>2, <1>3, <1>4, <1>5 DEF IInv

(* The leg a permit is handed to waits at the head of its queue.           *)
LEMMA GranteeWaits ==
  ASSUME IInv, NEW l \in Legs, Grantee(l) # NoLeg
  PROVE  /\ Key[l] \in Keys /\ gate[Key[l]] = l /\ Len(queue[Key[l]]) > 0
         /\ Grantee(l) = queue[Key[l]][1] /\ Grantee(l) \in Legs
         /\ pc[Grantee(l)] = "queued" /\ Key[Grantee(l)] = Key[l]
<1> DEFINE k == Key[l]
<1>1. k \in Keys /\ gate[k] = l /\ queue[k] # <<>> /\ Grantee(l) = Head(queue[k])
  BY DEF Grantee
<1>2. queue[k] \in Seq(Legs)
  BY <1>1 DEF IInv, TypeOK
<1>3. Len(queue[k]) > 0
  BY <1>1, <1>2
<1>4. Head(queue[k]) = queue[k][1] /\ Head(queue[k]) \in Legs
  BY <1>2, <1>3, TailFacts
<1>5. pc[queue[k][1]] = "queued" /\ Key[queue[k][1]] = k
  <2>1. 1 \in 1..Len(queue[k])
    BY <1>2, <1>3
  <2>2. QED
    BY <2>1, <1>1 DEF IInv, QueueWaits
<1>6. QED
  BY <1>1, <1>3, <1>4, <1>5

(* The legs a completion pushes were pending.                              *)
LEMMA SuccessorPending ==
  ASSUME IInv, NEW g \in Groups, NEW r, NEW m \in Successor(g, r)
  PROVE  m \in Legs /\ GroupOf[m] = g /\ Index[m] = pushed[g] + 1 /\ pc[m] = "pending"
<1>1. m \in Legs /\ GroupOf[m] = g /\ Index[m] = pushed[g] + 1
  BY DEF Successor, LegsOf
<1>2. Index[m] > pushed[GroupOf[m]]
  BY <1>1 DEF IInv, TypeOK
<1>3. QED
  BY <1>1, <1>2 DEF IInv, PendingBeyond

(* What LeaveGate does to one queue: it drops one entry or none, keeps the *)
(* order of the others, and what it keeps is neither the leg that leaves   *)
(* nor the one that is handed the permit.                                  *)
LEMMA QueueAfter ==
  ASSUME IInv, NEW l \in Legs, pc[l] \in InFlight, LeaveGate(l), NEW k \in Keys
  PROVE  /\ queue'[k] \in Seq(Legs)
         /\ Len(queue'[k]) > 0 => Len(queue[k]) > 0
         /\ \A i \in 1..Len(queue'[k]) : \E j \in 1..Len(queue[k]) :
              queue'[k][i] = queue[k][j] /\ queue[k][j] # l /\ queue[k][j] # Grantee(l)
         /\ \A i, j \in 1..Len(queue'[k]) : queue'[k][i] = queue'[k][j] => i = j
<1> DEFINE q == queue[k]
<1>1. /\ q \in Seq(Legs) /\ Len(q) \in Nat
      /\ \A i \in 1..Len(q) : q[i] \in Legs /\ pc[q[i]] = "queued" /\ Key[q[i]] = k
      /\ \A i, j \in 1..Len(q) : q[i] = q[j] => i = j
  BY DEF IInv, TypeOK, QueueWaits
<1>2. CASE gate[k] = l /\ q # <<>>
  <2>1. Len(q) > 0
    BY <1>1, <1>2
  <2>2. queue'[k] = Tail(q)
    BY <1>2 DEF LeaveGate
  <2>3. Key[l] = k /\ pc[l] \in Inside
    BY <1>2, LegAssumption DEF IInv, HolderInside
  <2>4. Grantee(l) = q[1]
    BY <1>2, <2>3, <2>1, <1>1, TailFacts DEF Grantee
  <2>5. /\ Tail(q) \in Seq(Legs) /\ Len(Tail(q)) = Len(q) - 1
        /\ \A i \in 1..Len(Tail(q)) : Tail(q)[i] = q[i + 1]
    BY <1>1, <2>1, TailFacts
  <2>6. \A i \in 1..(Len(q) - 1) : i + 1 \in 1..Len(q) /\ q[i + 1] # l /\ q[i + 1] # q[1]
    BY <1>1, <2>1, <2>3 DEF Inside
  <2>7. ASSUME NEW i \in 1..Len(queue'[k])
        PROVE  \E j \in 1..Len(q) : queue'[k][i] = q[j] /\ q[j] # l /\ q[j] # Grantee(l)
    BY <2>2, <2>4, <2>5, <2>6
  <2>8. ASSUME NEW i \in 1..Len(queue'[k]), NEW j \in 1..Len(queue'[k]),
               queue'[k][i] = queue'[k][j]
        PROVE  i = j
    BY <1>1, <2>2, <2>5, <2>6, <2>8
  <2>9. QED
    BY <2>1, <2>2, <2>5, <2>7, <2>8
<1>3. CASE gate[k] # l
  <2>1. \A i \in 1..Len(q) : q[i] # Grantee(l)
    <3> SUFFICES ASSUME NEW i \in 1..Len(q), q[i] = Grantee(l) PROVE FALSE
      OBVIOUS
    <3>1. Grantee(l) # NoLeg
      BY <1>1, LegAssumption
    <3>2. Key[Grantee(l)] = Key[l] /\ gate[Key[l]] = l
      BY <3>1, GranteeWaits
    <3>3. QED
      BY <1>1, <1>3, <3>2
  <2>2. CASE \E i \in DOMAIN q : q[i] = l
    <3> DEFINE p == CHOOSE i \in DOMAIN q : q[i] = l
    <3>1. p \in 1..Len(q) /\ q[p] = l
      BY <1>1, <2>2
    <3>2. queue'[k] = RemoveAt(q, p)
      BY <1>3, <2>2 DEF LeaveGate
    <3> HIDE DEF p
    <3>3. /\ RemoveAt(q, p) \in Seq(Legs) /\ Len(RemoveAt(q, p)) = Len(q) - 1
          /\ \A j \in 1..(Len(q) - 1) :
               RemoveAt(q, p)[j] = IF j < p THEN q[j] ELSE q[j + 1]
      BY <1>1, <3>1, RemoveAtFacts
    <3>4. ASSUME NEW i \in 1..Len(queue'[k])
          PROVE  \E j \in 1..Len(q) : queue'[k][i] = q[j] /\ q[j] # l /\ q[j] # Grantee(l)
      <4>1. i \in 1..(Len(q) - 1) /\ i \in 1..Len(q) /\ i + 1 \in 1..Len(q)
        BY <1>1, <3>2, <3>3
      <4>2. CASE i < p
        <5>1. queue'[k][i] = q[i]
          BY <3>2, <3>3, <4>1, <4>2
        <5>2. q[i] # l
          BY <1>1, <3>1, <4>1, <4>2
        <5>3. QED
          BY <2>1, <4>1, <5>1, <5>2
      <4>3. CASE ~(i < p)
        <5>1. queue'[k][i] = q[i + 1]
          BY <3>2, <3>3, <4>1, <4>3
        <5>2. q[i + 1] # l
          BY <1>1, <3>1, <4>1, <4>3
        <5>3. QED
          BY <2>1, <4>1, <5>1, <5>2
      <4>4. QED
        BY <4>2, <4>3
    <3>5. ASSUME NEW i \in 1..Len(queue'[k]), NEW j \in 1..Len(queue'[k]),
                 queue'[k][i] = queue'[k][j]
          PROVE  i = j
      <4>1. /\ i \in 1..(Len(q) - 1) /\ i \in 1..Len(q) /\ i + 1 \in 1..Len(q)
            /\ j \in 1..(Len(q) - 1) /\ j \in 1..Len(q) /\ j + 1 \in 1..Len(q)
        BY <1>1, <3>2, <3>3
      <4>2. CASE i < p /\ j < p
        BY <1>1, <3>2, <3>3, <3>5, <4>1, <4>2
      <4>3. CASE i < p /\ ~(j < p)
        BY <1>1, <3>1, <3>2, <3>3, <3>5, <4>1, <4>3
      <4>4. CASE ~(i < p) /\ j < p
        BY <1>1, <3>1, <3>2, <3>3, <3>5, <4>1, <4>4
      <4>5. CASE ~(i < p) /\ ~(j < p)
        BY <1>1, <3>2, <3>3, <3>5, <4>1, <4>5
      <4>6. QED
        BY <4>2, <4>3, <4>4, <4>5
    <3>6. QED
      BY <1>1, <3>1, <3>2, <3>3, <3>4, <3>5
  <2>3. CASE ~\E i \in DOMAIN q : q[i] = l
    <3>1. queue'[k] = q
      BY <1>3, <2>3 DEF LeaveGate
    <3>2. \A i \in 1..Len(q) : q[i] # l
      BY <1>1, <2>3
    <3>3. QED
      BY <1>1, <2>1, <3>1, <3>2
  <2>4. QED
    BY <2>2, <2>3
<1>4. CASE gate[k] = l /\ q = <<>>
  <2>1. queue'[k] = q
    BY <1>4 DEF LeaveGate
  <2>2. QED
    BY <1>1, <1>4, <2>1
<1>5. QED
  BY <1>2, <1>3, <1>4

-----------------------------------------------------------------------------
(* The end of a leg, from wherever it was in flight, keeps the invariant.  *)
LEMMA EndLegIInv ==
  ASSUME IInv, NEW l \in Legs, NEW r \in Conclusions \cup {"error"},
         pc[l] \in InFlight, EndLeg(l, r)
  PROVE  IInv'
<1> DEFINE g == GroupOf[l]
           next == Successor(g, r)
           h == Grantee(l)
<1>1. g \in Groups /\ l \in Legs
  BY LegAssumption
<1>2. LeaveGate(l)
  BY DEF EndLeg
<1>3. \A m \in next : m \in Legs /\ GroupOf[m] = g /\ Index[m] = pushed[g] + 1 /\ pc[m] = "pending"
  BY <1>1, SuccessorPending
<1>4. h # NoLeg => /\ Key[l] \in Keys /\ gate[Key[l]] = l /\ Len(queue[Key[l]]) > 0
                   /\ h = queue[Key[l]][1] /\ h \in Legs
                   /\ pc[h] = "queued" /\ Key[h] = Key[l]
  BY GranteeWaits
<1>5. pc' = [m \in Legs |-> CASE m = l -> "done"
                              [] m # l /\ m \in next -> "ready"
                              [] m # l /\ m = h -> "granted"
                              [] OTHER -> pc[m]]
  BY DEF EndLeg
<1>6. pushed' = [pushed EXCEPT ![g] = IF next = {} THEN @ ELSE @ + 1]
  BY DEF EndLeg
<1> HIDE DEF next, h
(* How the counters of the legs and the gates change.                      *)
<1>7. \A m \in Legs : pc[m] \in PCs
  BY DEF IInv, TypeOK
<1>8. h = l => FALSE
  <2>1. ASSUME h = l PROVE FALSE
    <3>1. pc[l] = "queued" /\ gate[Key[l]] = l /\ Key[l] \in Keys
      BY <1>4, <2>1, LegAssumption
    <3>2. pc[l] \in Inside
      BY <3>1, LegAssumption DEF IInv, HolderInside
    <3>3. QED
      BY <3>1, <3>2 DEF Inside
  <2>2. QED
    BY <2>1
<1>9. \A m \in Legs : m \in next => m # h /\ m # l
  <2>1. \A m \in Legs : m \in next => pc[m] = "pending"
    BY <1>3
  <2>2. \A m \in Legs : m = h => pc[m] = "queued"
    BY <1>4, LegAssumption
  <2>3. QED
    BY <2>1, <2>2 DEF InFlight
<1>10. \A m \in Legs : /\ m = l => pc'[m] = "done"
                       /\ m \in next => pc'[m] = "ready"
                       /\ m = h => pc'[m] = "granted"
                       /\ m # l /\ m \notin next /\ m # h => pc'[m] = pc[m]
  BY <1>5, <1>8, <1>9
<1>11. \A k \in Keys : gate'[k] = IF gate[k] = l THEN h ELSE gate[k]
  BY <1>2 DEF LeaveGate, h
<1>12. TypeOK'
  <2>1. pc' \in [Legs -> PCs]
    BY <1>5, <1>7 DEF PCs
  <2>2. gate' \in [Keys -> Legs \cup {NoLeg}]
    <3>1. h \in Legs \cup {NoLeg}
      BY <1>4
    <3>2. QED
      BY <3>1, <1>2 DEF LeaveGate, h, IInv, TypeOK
  <2>3. queue' \in [Keys -> Seq(Legs)]
    <3>1. \A k \in Keys : queue'[k] \in Seq(Legs)
      BY <1>2, QueueAfter
    <3>2. queue' = [k \in Keys |-> queue'[k]]
      BY <1>2 DEF LeaveGate
    <3>3. QED
      BY <3>1, <3>2
  <2>4. pushed' \in [Groups -> Nat]
    BY <1>1, <1>6 DEF IInv, TypeOK
  <2>5. stop' \in [Groups -> BOOLEAN] /\ gerr' \in [Groups -> BOOLEAN]
    BY <1>1 DEF EndLeg, IInv, TypeOK, Triggers
  <2>6. res' \in [Legs -> Conclusions \cup {"error", "none"}]
    BY DEF EndLeg, IInv, TypeOK
  <2>7. QED
    BY <1>2, <2>1, <2>2, <2>3, <2>4, <2>5, <2>6
    DEF EndLeg, LeaveGate, IInv, TypeOK, runVars
<1>13. HolderInside'
  <2>1. ASSUME NEW k \in Keys, gate'[k] # NoLeg
        PROVE  pc'[gate'[k]] \in Inside /\ Key[gate'[k]] = k
    <3>1. CASE gate[k] = l
      <4>1. gate'[k] = h /\ Key[l] = k
        BY <1>11, <3>1, LegAssumption DEF IInv, HolderInside
      <4>2. QED
        BY <4>1, <1>4, <1>10, <2>1 DEF Inside
    <3>2. CASE gate[k] # l
      <4>1. gate'[k] = gate[k] /\ pc[gate[k]] \in Inside /\ Key[gate[k]] = k /\ gate[k] \in Legs
        BY <1>11, <3>2, <2>1 DEF IInv, HolderInside, TypeOK
      <4>2. gate[k] \notin next
        BY <4>1, <1>3 DEF Inside
      <4>3. pc'[gate[k]] \in Inside
        <5>1. CASE gate[k] = h
          BY <5>1, <4>1, <1>10 DEF Inside
        <5>2. CASE gate[k] # h
          BY <5>2, <4>1, <4>2, <3>2, <1>10
        <5>3. QED
          BY <5>1, <5>2
      <4>4. QED
        BY <4>1, <4>3
    <3>3. QED
      BY <3>1, <3>2
  <2>2. ASSUME NEW m \in Legs, Key[m] \in Keys, pc'[m] \in Inside
        PROVE  gate'[Key[m]] = m
    <3>1. m # l /\ m \notin next
      BY <2>2, <1>10 DEF Inside
    <3>2. CASE m = h
      BY <3>2, <1>4, <1>11, <2>2, LegAssumption
    <3>3. CASE m # h
      <4>1. pc[m] \in Inside
        BY <3>1, <3>3, <2>2, <1>10
      <4>2. gate[Key[m]] = m
        BY <4>1, <2>2 DEF IInv, HolderInside
      <4>3. QED
        BY <4>2, <3>1, <2>2, <1>11
    <3>4. QED
      BY <3>2, <3>3
  <2>3. QED
    BY <2>1, <2>2 DEF HolderInside
<1>14. QueueWaits'
  <2>1. ASSUME NEW k \in Keys, NEW i \in 1..Len(queue'[k])
        PROVE  pc'[queue'[k][i]] = "queued" /\ Key[queue'[k][i]] = k
    <3>1. PICK j \in 1..Len(queue[k]) :
            queue'[k][i] = queue[k][j] /\ queue[k][j] # l /\ queue[k][j] # h
      BY <1>2, <2>1, QueueAfter DEF h
    <3>2. pc[queue[k][j]] = "queued" /\ Key[queue[k][j]] = k /\ queue[k][j] \in Legs
      BY DEF IInv, QueueWaits, TypeOK
    <3>3. queue[k][j] \notin next
      BY <3>2, <1>3
    <3>4. QED
      BY <3>1, <3>2, <3>3, <1>10
  <2>2. ASSUME NEW k \in Keys, NEW i \in 1..Len(queue'[k]), NEW j \in 1..Len(queue'[k]),
               queue'[k][i] = queue'[k][j]
        PROVE  i = j
    BY <1>2, <2>2, QueueAfter
  <2>3. ASSUME NEW k \in Keys, Len(queue'[k]) > 0 PROVE gate'[k] # NoLeg
    <3>1. Len(queue[k]) > 0
      BY <1>2, <2>3, QueueAfter
    <3>2. gate[k] # NoLeg
      BY <3>1 DEF IInv, QueueWaits
    <3>3. CASE gate[k] = l
      <4>1. Key[l] = k
        BY <3>3, LegAssumption DEF IInv, HolderInside
      <4>2. queue[k] \in Seq(Legs) /\ queue[k] # <<>>
        BY <3>1 DEF IInv, TypeOK
      <4>3. h \in Legs
        BY <3>1, <3>3, <4>1, <4>2, TailFacts DEF h, Grantee
      <4>4. QED
        BY <4>3, <3>3, <1>11, LegAssumption
    <3>4. CASE gate[k] # l
      BY <3>2, <3>4, <1>11
    <3>5. QED
      BY <3>3, <3>4
  <2>4. QED
    BY <2>1, <2>2, <2>3 DEF QueueWaits
<1>15. PendingBeyond'
  <2>1. Index[l] <= pushed[g] /\ pushed[g] \in Nat /\ gst[g] # "idle"
    BY <1>1, LegAssumption DEF IInv, TypeOK, PendingBeyond, InFlight
  <2>2. ASSUME NEW m \in Legs, Index[m] > pushed'[GroupOf[m]] PROVE pc'[m] = "pending"
    <3>1. pushed'[GroupOf[m]] >= pushed[GroupOf[m]] /\ GroupOf[m] \in Groups
      BY <1>1, <1>6, LegAssumption DEF IInv, TypeOK
    <3>2. pc[m] = "pending"
      <4>1. /\ Index[m] \in Nat
            /\ pushed'[GroupOf[m]] \in Nat /\ pushed[GroupOf[m]] \in Nat
        BY <1>12, <3>1, LegAssumption DEF IInv, TypeOK
      <4>2. Index[m] > pushed[GroupOf[m]]
        BY <2>2, <3>1, <4>1
      <4>3. QED
        BY <4>2 DEF IInv, PendingBeyond
    <3>3. m \notin next
      <4>1. ASSUME m \in next PROVE FALSE
        <5>1. pushed'[g] = pushed[g] + 1
          BY <4>1, <1>1, <1>6 DEF IInv, TypeOK
        <5>2. QED
          BY <5>1, <4>1, <1>3, <2>1, <2>2
      <4>2. QED
        BY <4>1
    <3>4. m # h /\ m # l
      BY <3>2, <1>4, LegAssumption DEF InFlight
    <3>5. QED
      BY <3>2, <3>3, <3>4, <1>10
  <2>3. ASSUME NEW f \in Groups, gst'[f] = "idle"
        PROVE  pushed'[f] = 0 /\ ~stop'[f] /\ ~gerr'[f]
    <3>1. f # g /\ gst[f] = "idle"
      BY <2>1, <2>3 DEF EndLeg
    <3>2. stop'[f] = stop[f] /\ gerr'[f] = gerr[f] /\ pushed'[f] = pushed[f]
      BY <3>1, <1>1, <1>6 DEF EndLeg, IInv, TypeOK
    <3>3. QED
      BY <3>1, <3>2 DEF IInv, PendingBeyond
  <2>4. QED
    BY <2>2, <2>3 DEF PendingBeyond
<1>16. EarlierWavesDone'
  BY DEF EndLeg, IInv, EarlierWavesDone, runVars
<1>17. QED
  BY <1>12, <1>13, <1>14, <1>15, <1>16 DEF IInv

-----------------------------------------------------------------------------
(* Results of a leg and of a group are conclusions or the error.           *)
LEMMA ResultTypes ==
  /\ \A l \in Legs : Results(l) \subseteq Conclusions \cup {"error"}
  /\ \A S : aggregate(S) \in Conclusions
<1>1. \A l \in Legs : Results(l) \subseteq Conclusions \cup {"error"}
  BY DEF Results, Conclusions
<1>2. \A S : aggregate(S) \in Conclusions
  BY DEF aggregate, Conclusions
<1>3. QED
  BY <1>1, <1>2

(* A leg that moves on inside the gate, or never had one.                  *)
LEMMA MoveInside ==
  ASSUME IInv, NEW l \in Legs, NEW from \in Inside \cup {"ready"}, NEW to \in Inside,
         Move(l, from, to), from = "ready" => Key[l] \notin Keys,
         UNCHANGED <<cancelled, wave, run, gst, pushed, stop, gerr, completed, res,
                     jobCancel, gate, queue>>,
         owner' \in [Keys -> Legs \cup {NoLeg}]
  PROVE  IInv'
<1>1. pc[l] = from /\ from # "pending" /\ from # "queued" /\ to \in PCs
  BY DEF Move, Inside, PCs
<1>2. pc' = [pc EXCEPT ![l] = to] /\ pc \in [Legs -> PCs]
  BY DEF Move, IInv, TypeOK
<1>3. TypeOK'
  BY <1>1, <1>2 DEF IInv, TypeOK
<1>4. \A m \in Legs : Key[m] \in Keys => (pc'[m] \in Inside <=> pc[m] \in Inside)
  BY <1>1, <1>2
<1>5. HolderInside'
  <2>1. ASSUME NEW k \in Keys, gate[k] # NoLeg
        PROVE  pc'[gate[k]] \in Inside /\ Key[gate[k]] = k
    <3>1. gate[k] \in Legs /\ pc[gate[k]] \in Inside /\ Key[gate[k]] = k
      BY <2>1 DEF IInv, TypeOK, HolderInside
    <3>2. QED
      BY <3>1, <1>4
  <2>2. \A m \in Legs : Key[m] \in Keys /\ pc'[m] \in Inside => gate[Key[m]] = m
    BY <1>4 DEF IInv, HolderInside
  <2>3. QED
    BY <2>1, <2>2 DEF HolderInside
<1>6. QueueWaits'
  <2>1. ASSUME NEW k \in Keys, NEW i \in 1..Len(queue[k]) PROVE pc'[queue[k][i]] = "queued"
    <3>1. pc[queue[k][i]] = "queued" /\ queue[k][i] \in Legs
      BY DEF IInv, QueueWaits, TypeOK
    <3>2. QED
      BY <3>1, <1>1, <1>2
  <2>2. QED
    BY <2>1 DEF IInv, QueueWaits
<1>7. PendingBeyond'
  <2>1. \A m \in Legs : pc[m] = "pending" => pc'[m] = "pending"
    BY <1>1, <1>2
  <2>2. QED
    BY <2>1 DEF IInv, PendingBeyond
<1>8. EarlierWavesDone'
  BY DEF IInv, EarlierWavesDone
<1>9. QED
  BY <1>3, <1>5, <1>6, <1>7, <1>8 DEF IInv

(* Arriving at a gate: the leg takes a free permit or joins the queue.     *)
LEMMA EnterIInv ==
  ASSUME IInv, NEW l \in Legs, Enter(l)
  PROVE  IInv'
<1> DEFINE k == Key[l]
<1>1. /\ k \in Keys /\ pc[l] = "ready"
      /\ UNCHANGED <<cancelled, wave, run, gst, pushed, stop, gerr, completed, res>>
  BY DEF Enter, Move, runVars, groupVars
<1>2. jobCancel' \in [Legs -> BOOLEAN]
  BY DEF Enter, CancelOwner, IInv, TypeOK
<1>3. gate \in [Keys -> Legs \cup {NoLeg}] /\ pc \in [Legs -> PCs] /\ queue \in [Keys -> Seq(Legs)]
  BY DEF IInv, TypeOK
<1>4. ASSUME NEW to \in {"gated", "queued"}, pc' = [pc EXCEPT ![l] = to]
      PROVE  /\ pc' \in [Legs -> PCs] /\ PendingBeyond' /\ EarlierWavesDone'
             /\ pc'[l] = to /\ \A m \in Legs : m # l => pc'[m] = pc[m]
  <2>1. pc' \in [Legs -> PCs] /\ \A m \in Legs : m # l => pc'[m] = pc[m]
    BY <1>3, <1>4 DEF PCs
  <2>2. \A m \in Legs : pc[m] = "pending" => pc'[m] = "pending"
    BY <1>1, <2>1
  <2>3. PendingBeyond' /\ EarlierWavesDone'
    BY <1>1, <2>2 DEF IInv, PendingBeyond, EarlierWavesDone
  <2>4. QED
    BY <1>3, <1>4, <2>1, <2>3
<1>5. \A j \in Keys : \A i \in 1..Len(queue[j]) :
        queue[j][i] \in Legs /\ pc[queue[j][i]] = "queued" /\ queue[j][i] # l
  BY <1>1, <1>3 DEF IInv, QueueWaits
<1>6. CASE gate[k] = NoLeg
  <2>1. /\ gate' = [gate EXCEPT ![k] = l] /\ owner' = [owner EXCEPT ![k] = l]
        /\ pc' = [pc EXCEPT ![l] = "gated"] /\ queue' = queue
    BY <1>6 DEF Enter, Move
  <2>2. /\ pc' \in [Legs -> PCs] /\ PendingBeyond' /\ EarlierWavesDone'
        /\ pc'[l] = "gated" /\ \A m \in Legs : m # l => pc'[m] = pc[m]
    BY <2>1, <1>4
  <2>3. TypeOK'
    BY <1>1, <1>2, <2>1, <2>2 DEF IInv, TypeOK
  <2>4. ASSUME NEW j \in Keys, gate'[j] # NoLeg
        PROVE  pc'[gate'[j]] \in Inside /\ Key[gate'[j]] = j
    <3>1. CASE j = k
      BY <3>1, <2>1, <2>2, <1>1, <1>3 DEF Inside
    <3>2. CASE j # k
      <4>1. gate'[j] = gate[j] /\ gate[j] \in Legs /\ pc[gate[j]] \in Inside /\ Key[gate[j]] = j
        BY <3>2, <2>1, <2>4, <1>1, <1>3 DEF IInv, HolderInside
      <4>2. QED
        BY <4>1, <3>2, <2>2
    <3>3. QED
      BY <3>1, <3>2
  <2>5. ASSUME NEW m \in Legs, Key[m] \in Keys, pc'[m] \in Inside
        PROVE  gate'[Key[m]] = m
    <3>1. CASE m = l
      BY <3>1, <2>1, <1>1, <1>3
    <3>2. CASE m # l
      <4>1. gate[Key[m]] = m
        BY <3>2, <2>2, <2>5 DEF IInv, HolderInside
      <4>2. Key[m] # k
        BY <4>1, <1>6, LegAssumption
      <4>3. QED
        BY <4>1, <4>2, <2>1, <2>5, <1>3
    <3>3. QED
      BY <3>1, <3>2
  <2>6. QueueWaits'
    <3>1. \A j \in Keys : gate[j] # NoLeg => gate'[j] # NoLeg
      BY <1>3, <1>6, <2>1
    <3>2. \A j \in Keys : \A i \in 1..Len(queue[j]) : pc'[queue[j][i]] = "queued"
      BY <1>5, <2>2
    <3>3. QED
      BY <2>1, <3>1, <3>2 DEF IInv, QueueWaits
  <2>7. QED
    BY <2>2, <2>3, <2>4, <2>5, <2>6 DEF IInv, HolderInside
<1>7. CASE gate[k] # NoLeg
  <2>1. /\ queue' = [queue EXCEPT ![k] = Append(queue[k], l)]
        /\ pc' = [pc EXCEPT ![l] = "queued"] /\ gate' = gate /\ owner' = owner
    BY <1>7 DEF Enter, Move
  <2>2. /\ pc' \in [Legs -> PCs] /\ PendingBeyond' /\ EarlierWavesDone'
        /\ pc'[l] = "queued" /\ \A m \in Legs : m # l => pc'[m] = pc[m]
    BY <2>1, <1>4
  <2>3. /\ Append(queue[k], l) \in Seq(Legs) /\ Len(Append(queue[k], l)) = Len(queue[k]) + 1
        /\ \A i \in 1..Len(queue[k]) : Append(queue[k], l)[i] = queue[k][i]
        /\ Append(queue[k], l)[Len(queue[k]) + 1] = l
        /\ Len(queue[k]) \in Nat
    BY <1>1, <1>3
  <2>4. TypeOK'
    <3>1. queue' \in [Keys -> Seq(Legs)]
      BY <1>3, <2>1, <2>3
    <3>2. QED
      BY <3>1, <1>1, <1>2, <2>1, <2>2 DEF IInv, TypeOK
  <2>5. HolderInside'
    <3>1. \A m \in Legs : pc'[m] \in Inside <=> pc[m] \in Inside
      BY <1>1, <2>2 DEF Inside
    <3>2. \A j \in Keys : gate[j] # NoLeg => gate[j] \in Legs
      BY <1>3
    <3>3. QED
      BY <2>1, <3>1, <3>2 DEF IInv, HolderInside
  <2>6. ASSUME NEW j \in Keys, NEW i \in 1..Len(queue'[j])
        PROVE  pc'[queue'[j][i]] = "queued" /\ Key[queue'[j][i]] = j
    <3>1. CASE j = k
      <4>1. queue'[j] = Append(queue[k], l)
        BY <3>1, <1>1, <1>3, <2>1
      <4>2. CASE i = Len(queue[k]) + 1
        BY <4>1, <4>2, <2>2, <2>3, <3>1
      <4>3. CASE i # Len(queue[k]) + 1
        <5>1. i \in 1..Len(queue[k])
          BY <4>1, <4>3, <2>3
        <5>2. queue'[j][i] = queue[k][i]
          BY <5>1, <4>1, <2>3
        <5>3. QED
          BY <5>1, <5>2, <3>1, <1>5, <2>2 DEF IInv, QueueWaits
      <4>4. QED
        BY <4>2, <4>3
    <3>2. CASE j # k
      <4>1. queue'[j] = queue[j]
        BY <3>2, <1>3, <2>1
      <4>2. QED
        BY <4>1, <2>6, <1>5, <2>2 DEF IInv, QueueWaits
    <3>3. QED
      BY <3>1, <3>2
  <2>7. ASSUME NEW j \in Keys, NEW i \in 1..Len(queue'[j]), NEW n \in 1..Len(queue'[j]),
               queue'[j][i] = queue'[j][n]
        PROVE  i = n
    <3>1. CASE j = k
      <4>1. queue'[j] = Append(queue[k], l)
        BY <3>1, <1>1, <1>3, <2>1
      <4>2. \A x \in 1..Len(queue'[j]) : x = Len(queue[k]) + 1 \/ x \in 1..Len(queue[k])
        BY <4>1, <2>3
      <4>3. \A x \in 1..Len(queue[k]) : queue'[j][x] = queue[k][x] /\ queue[k][x] # l
        BY <4>1, <2>3, <1>1, <1>5
      <4>4. queue'[j][Len(queue[k]) + 1] = l
        BY <4>1, <2>3
      <4>5. \A x, y \in 1..Len(queue[k]) : queue[k][x] = queue[k][y] => x = y
        BY <1>1 DEF IInv, QueueWaits
      <4>6. QED
        BY <4>2, <4>3, <4>4, <4>5, <2>7
    <3>2. CASE j # k
      <4>1. queue'[j] = queue[j]
        BY <3>2, <1>3, <2>1
      <4>2. QED
        BY <4>1, <2>7 DEF IInv, QueueWaits
    <3>3. QED
      BY <3>1, <3>2
  <2>8. \A j \in Keys : Len(queue'[j]) > 0 => gate'[j] # NoLeg
    BY <1>3, <1>7, <2>1 DEF IInv, QueueWaits
  <2>9. QED
    BY <2>2, <2>4, <2>5, <2>6, <2>7, <2>8 DEF IInv, QueueWaits
<1>8. QED
  BY <1>6, <1>7

(* A group's first poll pushes legs that were all pending.                 *)
LEMMA StartGroupIInv ==
  ASSUME IInv, NEW g \in Groups, StartGroup(g)
  PROVE  IInv'
<1>1. /\ run = "running" /\ gst[g] = "idle" /\ Wave[g] = wave
      /\ gst' = [gst EXCEPT ![g] = "running"]
      /\ pushed' = [pushed EXCEPT ![g] = Min2(MaxParallel[g], LegCount[g])]
      /\ pc' = [l \in Legs |-> IF GroupOf[l] = g /\ Index[l] <= MaxParallel[g]
                                THEN "ready" ELSE pc[l]]
      /\ UNCHANGED <<cancelled, wave, run, stop, gerr, completed, res, jobCancel,
                     gate, queue, owner>>
  BY DEF StartGroup, runVars, gateVars
<1>2. \A l \in Legs : GroupOf[l] = g => pc[l] = "pending"
  BY <1>1, LegAssumption DEF IInv, TypeOK, PendingBeyond
<1>3. \A l \in Legs : /\ pc[l] # "pending" => pc'[l] = pc[l]
                      /\ pc[l] = "pending" => pc'[l] \in {"pending", "ready"}
  BY <1>1, <1>2
<1>4. TypeOK'
  <2>1. pc' \in [Legs -> PCs]
    BY <1>1 DEF IInv, TypeOK, PCs
  <2>2. pushed' \in [Groups -> Nat]
    <3>1. MaxParallel[g] \in Nat /\ LegCount[g] \in Nat
      BY LegAssumption
    <3>2. QED
      BY <1>1, <3>1 DEF IInv, TypeOK, Min2
  <2>3. QED
    BY <1>1, <2>1, <2>2 DEF IInv, TypeOK
<1>5. HolderInside'
  <2>1. \A l \in Legs : pc'[l] \in Inside <=> pc[l] \in Inside
    BY <1>3 DEF Inside
  <2>2. \A k \in Keys : gate[k] # NoLeg => gate[k] \in Legs
    BY DEF IInv, TypeOK
  <2>3. QED
    BY <1>1, <2>1, <2>2 DEF IInv, HolderInside
<1>6. QueueWaits'
  <2>1. \A k \in Keys : \A i \in 1..Len(queue[k]) :
          pc[queue[k][i]] = "queued" /\ queue[k][i] \in Legs
    BY DEF IInv, TypeOK, QueueWaits
  <2>2. \A k \in Keys : \A i \in 1..Len(queue[k]) : pc'[queue[k][i]] = "queued"
    BY <1>3, <2>1
  <2>3. QED
    BY <1>1, <2>2 DEF IInv, QueueWaits
<1>7. PendingBeyond'
  <2>1. ASSUME NEW l \in Legs, Index[l] > pushed'[GroupOf[l]] PROVE pc'[l] = "pending"
    <3>1. CASE GroupOf[l] = g
      <4>1. pushed'[g] = Min2(MaxParallel[g], LegCount[g])
        BY <1>1 DEF IInv, TypeOK
      <4>2. /\ MaxParallel[g] \in Nat /\ LegCount[g] \in Nat
            /\ Index[l] \in 1..LegCount[g]
        BY <3>1, LegAssumption
      <4>3. Index[l] > MaxParallel[g]
        BY <4>1, <4>2, <3>1, <2>1 DEF Min2
      <4>4. pc'[l] = pc[l]
        BY <4>2, <4>3, <1>1
      <4>5. QED
        BY <4>4, <3>1, <1>2
    <3>2. CASE GroupOf[l] # g
      <4>1. pushed'[GroupOf[l]] = pushed[GroupOf[l]] /\ pc'[l] = pc[l]
        BY <3>2, <1>1, LegAssumption DEF IInv, TypeOK
      <4>2. QED
        BY <4>1, <2>1 DEF IInv, PendingBeyond
    <3>3. QED
      BY <3>1, <3>2
  <2>2. ASSUME NEW f \in Groups, gst'[f] = "idle" PROVE pushed'[f] = 0 /\ ~stop[f] /\ ~gerr[f]
    <3>1. f # g /\ gst[f] = "idle"
      BY <1>1, <2>2 DEF IInv, TypeOK
    <3>2. pushed'[f] = pushed[f]
      BY <3>1, <1>1 DEF IInv, TypeOK
    <3>3. QED
      BY <3>1, <3>2 DEF IInv, PendingBeyond
  <2>3. QED
    BY <1>1, <2>1, <2>2 DEF PendingBeyond
<1>8. EarlierWavesDone'
  BY <1>1, PlanAssumption DEF IInv, TypeOK, EarlierWavesDone
<1>9. QED
  BY <1>4, <1>5, <1>6, <1>7, <1>8 DEF IInv

(* A step that leaves legs, gates and counters alone keeps the conjuncts   *)
(* that only speak of them.                                                *)
LEMMA GatesUntouched ==
  ASSUME IInv, UNCHANGED <<pc, gate, queue>>
  PROVE  HolderInside' /\ QueueWaits'
  BY DEF IInv, HolderInside, QueueWaits

LEMMA FinishGroupIInv ==
  ASSUME IInv, NEW g \in Groups, FinishGroup(g)
  PROVE  IInv'
<1>1. /\ gst[g] = "running"
      /\ UNCHANGED <<cancelled, wave, run, pushed, stop, gerr, pc, jobCancel, gate, queue, owner>>
  BY DEF FinishGroup, runVars, gateVars
<1>2. PICK s \in {"done", "failed"} : gst' = [gst EXCEPT ![g] = s]
  BY DEF FinishGroup
<1>3. res' \in [Legs -> Conclusions \cup {"error", "none"}]
  <2>1. FinalReports(g) \in [Legs -> Conclusions \cup {"error", "none"}]
    BY DEF FinalReports, IInv, TypeOK, Conclusions
  <2>2. res' = res \/ res' = FinalReports(g)
    BY DEF FinishGroup
  <2>3. QED
    BY <2>1, <2>2 DEF IInv, TypeOK
<1>4. completed' \in [Groups -> NeedRecords]
  <2>1. ASSUME NEW v \in Conclusions PROVE Record(g, v) \in NeedRecords
    BY DEF Record, NeedRecords
  <2>2. aggregate({FinalReports(g)[l] : l \in LegsOf(g)}) \in Conclusions
    BY ResultTypes
  <2>3. completed' = completed \/ \E v \in Conclusions :
          completed' = [completed EXCEPT ![g] = Record(g, v)]
    BY <2>2 DEF FinishGroup
  <2>4. QED
    BY <2>1, <2>3 DEF IInv, TypeOK
<1>5. TypeOK'
  BY <1>1, <1>2, <1>3, <1>4 DEF IInv, TypeOK
<1>6. PendingBeyond'
  <2>1. \A f \in Groups : gst'[f] = "idle" => gst[f] = "idle"
    BY <1>2 DEF IInv, TypeOK
  <2>2. QED
    BY <1>1, <2>1 DEF IInv, PendingBeyond
<1>7. EarlierWavesDone'
  <2>1. \A f \in Groups : gst[f] = "done" => gst'[f] = "done"
    BY <1>1, <1>2 DEF IInv, TypeOK
  <2>2. QED
    BY <1>1, <2>1 DEF IInv, EarlierWavesDone
<1>8. QED
  BY <1>1, <1>5, <1>6, <1>7, GatesUntouched DEF IInv

LEMMA FailGroupIInv ==
  ASSUME IInv, NEW g \in Groups, FailGroup(g)
  PROVE  IInv'
<1>1. /\ run = "running" /\ gst[g] = "idle" /\ Wave[g] = wave
      /\ gst' = [gst EXCEPT ![g] = "failed"]
      /\ UNCHANGED <<cancelled, wave, run, pushed, stop, gerr, completed, pc, res, jobCancel,
                     gate, queue, owner>>
  BY DEF FailGroup, runVars, gateVars
<1>2. TypeOK'
  BY <1>1 DEF IInv, TypeOK
<1>3. PendingBeyond'
  <2>1. \A f \in Groups : gst'[f] = "idle" => gst[f] = "idle"
    BY <1>1 DEF IInv, TypeOK
  <2>2. QED
    BY <1>1, <2>1 DEF IInv, PendingBeyond
<1>4. EarlierWavesDone'
  BY <1>1, PlanAssumption DEF IInv, TypeOK, EarlierWavesDone
<1>5. QED
  BY <1>1, <1>2, <1>3, <1>4, GatesUntouched DEF IInv

LEMMA EndWaveIInv ==
  ASSUME IInv, EndWave
  PROVE  IInv'
<1>1. /\ run = "running" /\ WaveDrained
      /\ UNCHANGED <<cancelled, gst, pushed, stop, gerr, completed, pc, res, jobCancel,
                     gate, queue, owner>>
  BY DEF EndWave, groupVars, gateVars
<1>2. \/ run' \in {"ok", "error"} /\ wave' = wave
      \/ /\ run' = run /\ wave' = wave + 1 /\ wave # MaxWave
         /\ \A g \in Groups : gst[g] # "failed"
  BY DEF EndWave
<1>3. TypeOK'
  BY <1>1, <1>2, PlanAssumption DEF IInv, TypeOK
<1>4. PendingBeyond'
  BY <1>1 DEF IInv, PendingBeyond
<1>5. EarlierWavesDone'
  <2>1. CASE run' \in {"ok", "error"}
    BY <2>1 DEF EarlierWavesDone
  <2>2. CASE run' = run /\ wave' = wave + 1 /\ \A g \in Groups : gst[g] # "failed"
    <3>1. ASSUME NEW g \in Groups, Wave[g] < wave + 1 PROVE gst[g] = "done"
      <4>1. Wave[g] < wave \/ Wave[g] = wave
        BY <3>1, PlanAssumption DEF IInv, TypeOK
      <4>2. CASE Wave[g] < wave
        BY <4>2, <1>1 DEF IInv, EarlierWavesDone
      <4>3. CASE Wave[g] = wave
        BY <4>3, <1>1, <2>2 DEF WaveDrained
      <4>4. QED
        BY <4>1, <4>2, <4>3
    <3>2. QED
      BY <1>1, <2>2, <3>1 DEF EarlierWavesDone
  <2>3. QED
    BY <1>2, <2>1, <2>2
<1>6. QED
  BY <1>1, <1>3, <1>4, <1>5, GatesUntouched DEF IInv

(* One step per action of a leg.                                           *)
LEMMA LegStepIInv ==
  ASSUME IInv, NEW l \in Legs, LegStep(l)
  PROVE  IInv'
<1>1. CASE BeginCancelled(l) \/ PolicyError(l) \/ QueueCancelled(l) \/ WorkerCancelled(l)
           \/ SlotError(l) \/ SlotCancelled(l)
  <2>1. pc[l] \in InFlight /\ \E r \in Conclusions \cup {"error"} : EndLeg(l, r)
    BY <1>1 DEF BeginCancelled, PolicyError, QueueCancelled, WorkerCancelled, SlotError,
                SlotCancelled, InFlight, PCs, Conclusions
  <2>2. QED
    BY <2>1, EndLegIInv
<1>2. CASE FinishJob(l)
  <2>1. pc[l] \in InFlight /\ \E r \in Conclusions \cup {"error"} : EndLeg(l, r)
    BY <1>2, ResultTypes DEF FinishJob, InFlight, PCs
  <2>2. QED
    BY <2>1, EndLegIInv
<1>3. CASE BeginFree(l)
  <2>1. Move(l, "ready", "gated") /\ Key[l] \notin Keys
    BY <1>3, LimitAssumption DEF BeginFree
  <2>2. UNCHANGED <<cancelled, wave, run, gst, pushed, stop, gerr, completed, res,
                    jobCancel, gate, queue, owner>>
    BY <1>3 DEF BeginFree, runVars, groupVars, gateVars
  <2>3. owner' \in [Keys -> Legs \cup {NoLeg}]
    BY <2>2 DEF IInv, TypeOK
  <2>4. "gated" \in Inside
    BY DEF Inside
  <2>5. QED
    BY <2>1, <2>2, <2>3, <2>4, MoveInside
<1>4. CASE Enter(l)
  BY <1>4, EnterIInv
<1>5. CASE Promote(l)
  <2>1. Move(l, "granted", "gated")
    BY <1>5 DEF Promote
  <2>2. UNCHANGED <<cancelled, wave, run, gst, pushed, stop, gerr, completed, res,
                    jobCancel, gate, queue>>
    BY <1>5 DEF Promote, runVars, groupVars
  <2>3. owner' \in [Keys -> Legs \cup {NoLeg}]
    BY <1>5 DEF Promote, IInv, TypeOK
  <2>4. "granted" \in Inside /\ "gated" \in Inside
    BY DEF Inside
  <2>5. QED
    BY <2>1, <2>2, <2>3, <2>4, MoveInside
<1>6. CASE AcquireWorker(l)
  <2>1. Move(l, "gated", "worker")
    BY <1>6 DEF AcquireWorker
  <2>2. UNCHANGED <<cancelled, wave, run, gst, pushed, stop, gerr, completed, res,
                    jobCancel, gate, queue, owner>>
    BY <1>6 DEF AcquireWorker, runVars, groupVars, gateVars
  <2>3. owner' \in [Keys -> Legs \cup {NoLeg}]
    BY <2>2 DEF IInv, TypeOK
  <2>4. "gated" \in Inside /\ "worker" \in Inside
    BY DEF Inside
  <2>5. QED
    BY <2>1, <2>2, <2>3, <2>4, MoveInside
<1>7. CASE AcquireSlot(l)
  <2>1. CASE pc[l] = "worker" /\ EndLeg(l, "cancelled")
    BY <2>1, EndLegIInv DEF InFlight, PCs, Conclusions
  <2>2. CASE /\ Move(l, "worker", "running")
             /\ UNCHANGED <<runVars, groupVars, res, jobCancel, gateVars>>
    <3>1. UNCHANGED <<cancelled, wave, run, gst, pushed, stop, gerr, completed, res,
                      jobCancel, gate, queue, owner>>
      BY <2>2 DEF runVars, groupVars, gateVars
    <3>2. owner' \in [Keys -> Legs \cup {NoLeg}]
      BY <3>1 DEF IInv, TypeOK
    <3>3. "worker" \in Inside /\ "running" \in Inside
      BY DEF Inside
    <3>4. QED
      BY <2>2, <3>1, <3>2, <3>3, MoveInside
  <2>3. QED
    BY <1>7, <2>1, <2>2 DEF AcquireSlot
<1>8. CASE RelayCancel(l)
  <2>1. /\ jobCancel' = [jobCancel EXCEPT ![l] = TRUE]
        /\ UNCHANGED <<cancelled, wave, run, gst, pushed, stop, gerr, completed, pc, res,
                       gate, queue, owner>>
    BY <1>8 DEF RelayCancel, runVars, groupVars, gateVars
  <2>2. TypeOK' /\ PendingBeyond' /\ EarlierWavesDone'
    BY <2>1 DEF IInv, TypeOK, PendingBeyond, EarlierWavesDone
  <2>3. QED
    BY <2>1, <2>2, GatesUntouched DEF IInv
<1>9. QED
  BY <1>1, <1>2, <1>3, <1>4, <1>5, <1>6, <1>7, <1>8 DEF LegStep

LEMMA NextIInv ==
  ASSUME IInv, [Next]_vars
  PROVE  IInv'
<1>1. CASE CancelRun
  <2>1. /\ cancelled' = TRUE
        /\ UNCHANGED <<wave, run, gst, pushed, stop, gerr, completed, pc, res, jobCancel,
                       gate, queue, owner>>
    BY <1>1 DEF CancelRun, groupVars, gateVars
  <2>2. TypeOK' /\ PendingBeyond' /\ EarlierWavesDone'
    BY <2>1 DEF IInv, TypeOK, PendingBeyond, EarlierWavesDone
  <2>3. QED
    BY <2>1, <2>2, GatesUntouched DEF IInv
<1>2. CASE EndWave
  BY <1>2, EndWaveIInv
<1>3. ASSUME NEW g \in Groups, GroupStep(g) PROVE IInv'
  BY <1>3, StartGroupIInv, FailGroupIInv, FinishGroupIInv DEF GroupStep
<1>4. ASSUME NEW l \in Legs, LegStep(l) PROVE IInv'
  BY <1>4, LegStepIInv
<1>5. CASE UNCHANGED vars
  BY <1>5 DEF vars, IInv, TypeOK, HolderInside, QueueWaits, PendingBeyond, EarlierWavesDone
<1>6. QED
  BY <1>1, <1>2, <1>3, <1>4, <1>5 DEF Next, Over

(* The inductive invariant holds in every reachable state.                 *)
THEOREM SchedulerInvariant == Spec => []IInv
  BY InitIInv, NextIInv, PTL DEF Spec

-----------------------------------------------------------------------------
(* Type correctness: every variable of scheduler.rs's model keeps its      *)
(* type, queues of legs and records of finished groups included.           *)
THEOREM TypeCorrect == Spec => []TypeOK
<1>1. IInv => TypeOK
  BY DEF IInv
<1>2. QED
  BY <1>1, SchedulerInvariant, PTL

(* Concurrency groups serialize: for any number of legs and keys, at most  *)
(* one leg of a key is past its gate, hand-overs and cancelled waiters     *)
(* included (ConcurrencyCoordinator::enter and the permit's drop).         *)
THEOREM ConcurrencySerialized == Spec => []GateExclusive
<1>1. IInv => GateExclusive
  BY DEF IInv, HolderInside, GateExclusive
<1>2. QED
  BY <1>1, SchedulerInvariant, PTL

(* No permit is lost: a leg in line always has a live leg of its key in    *)
(* front of it, whichever way the earlier legs left.                       *)
THEOREM NoPermitLost == Spec => []NoLegWaitsAtOpenGate
<1>1. IInv => NoLegWaitsAtOpenGate
  <2> SUFFICES ASSUME IInv, NEW k \in Keys, queue[k] # <<>>
               PROVE  gate[k] # NoLeg /\ pc[gate[k]] \in Inside /\ Key[gate[k]] = k
    BY DEF NoLegWaitsAtOpenGate
  <2>1. queue[k] \in Seq(Legs)
    BY DEF IInv, TypeOK
  <2>2. Len(queue[k]) > 0
    BY <2>1
  <2>3. gate[k] # NoLeg
    BY <2>2 DEF IInv, QueueWaits
  <2>4. QED
    BY <2>3 DEF IInv, HolderInside
<1>2. QED
  BY <1>1, SchedulerInvariant, PTL

-----------------------------------------------------------------------------
(* The steps that refill a group.                                          *)
LEMMA StepStops ==
  ASSUME IInv, [Next]_vars, NEW g \in Groups, stop'[g] \/ gerr'[g]
  PROVE  pushed'[g] = pushed[g]
<1>1. ASSUME NEW l \in Legs, NEW r, EndLeg(l, r) PROVE pushed'[g] = pushed[g]
  <2> DEFINE f == GroupOf[l]
  <2>1. /\ stop' = [stop EXCEPT ![f] = stop[f] \/ Triggers(f, r)]
        /\ gerr' = [gerr EXCEPT ![f] = gerr[f] \/ r = "error"]
        /\ pushed' = [pushed EXCEPT ![f] = IF Successor(f, r) = {} THEN @ ELSE @ + 1]
    BY <1>1 DEF EndLeg
  <2>2. /\ stop \in [Groups -> BOOLEAN] /\ gerr \in [Groups -> BOOLEAN]
        /\ pushed \in [Groups -> Nat] /\ f \in Groups
    BY LegAssumption DEF IInv, TypeOK
  <2>3. CASE g # f
    BY <2>1, <2>2, <2>3
  <2>4. CASE g = f
    <3>1. stop[f] \/ Triggers(f, r) \/ gerr[f] \/ r = "error"
      BY <2>1, <2>2, <2>4
    <3>2. Successor(f, r) = {}
      BY <3>1 DEF Successor
    <3>3. QED
      BY <3>2, <2>1, <2>2, <2>4
  <2>5. QED
    BY <2>3, <2>4
<1>2. ASSUME NEW f \in Groups, StartGroup(f) PROVE pushed'[g] = pushed[g]
  <2>1. gst[f] = "idle" /\ stop' = stop /\ gerr' = gerr
    BY <1>2 DEF StartGroup
  <2>2. g # f
    BY <2>1 DEF IInv, PendingBeyond
  <2>3. QED
    BY <1>2, <2>2 DEF StartGroup, IInv, TypeOK
<1>3. ASSUME NEW f \in Groups, FailGroup(f) \/ FinishGroup(f) PROVE pushed'[g] = pushed[g]
  BY <1>3 DEF FailGroup, FinishGroup
<1>4. CASE CancelRun \/ EndWave \/ Over \/ UNCHANGED vars
  BY <1>4 DEF CancelRun, EndWave, Over, vars, groupVars
<1>5. ASSUME NEW l \in Legs, LegStep(l) PROVE pushed'[g] = pushed[g]
  <2>1. CASE BeginFree(l) \/ Enter(l) \/ Promote(l) \/ AcquireWorker(l) \/ RelayCancel(l)
    BY <2>1 DEF BeginFree, Enter, Promote, AcquireWorker, RelayCancel, groupVars
  <2>2. CASE AcquireSlot(l)
    BY <2>2, <1>1 DEF AcquireSlot, groupVars
  <2>3. CASE BeginCancelled(l) \/ PolicyError(l) \/ QueueCancelled(l) \/ WorkerCancelled(l)
             \/ SlotError(l) \/ SlotCancelled(l) \/ FinishJob(l)
    BY <2>3, <1>1 DEF BeginCancelled, PolicyError, QueueCancelled, WorkerCancelled, SlotError,
                      SlotCancelled, FinishJob
  <2>4. QED
    BY <1>5, <2>1, <2>2, <2>3 DEF LegStep
<1>6. QED
  BY <1>2, <1>3, <1>4, <1>5 DEF Next, GroupStep

(* fail-fast and errors stop a group for good: a step after which a group  *)
(* has either flag pushes no leg of it.                                    *)
THEOREM FailFastStops == Spec => StopsAfterFailure
<1>1. IInv /\ [Next]_vars
        => [\A g \in Groups : stop'[g] \/ gerr'[g] => pushed'[g] = pushed[g]]_vars
  BY StepStops
<1>2. QED
  BY <1>1, SchedulerInvariant, PTL DEF Spec, StopsAfterFailure

-----------------------------------------------------------------------------
(* The wave barrier implements the dependency order: every behaviour of    *)
(* the scheduler, seen through the groups' status alone, is one of DagRun. *)
THEOREM WavesRefineDag == Spec => DagSpec
<1>1. Init => Dag!Init
  BY DEF Init, Dag!Init
<1>2. ASSUME IInv, [Next]_vars PROVE [Dag!Next]_gst
  <2>1. ASSUME NEW g \in Groups, run = "running", gst[g] = "idle", Wave[g] = wave
        PROVE  Dag!Enabled(g)
    <3>1. \A n \in Needs[g] : n \in Groups /\ Wave[n] < wave
      BY <2>1, PlanAssumption
    <3>2. QED
      BY <1>2, <2>1, <3>1 DEF Dag!Enabled, IInv, EarlierWavesDone
  <2>2. ASSUME NEW g \in Groups, StartGroup(g) PROVE Dag!Start(g)
    BY <2>1, <2>2 DEF StartGroup, Dag!Start
  <2>3. ASSUME NEW g \in Groups, FailGroup(g) PROVE Dag!Refuse(g)
    BY <2>1, <2>3 DEF FailGroup, Dag!Refuse
  <2>4. ASSUME NEW g \in Groups, FinishGroup(g) PROVE Dag!Finish(g)
    BY <2>4 DEF FinishGroup, Dag!Finish
  <2>5. CASE CancelRun \/ EndWave \/ Over \/ UNCHANGED vars
    BY <2>5 DEF CancelRun, EndWave, Over, vars, groupVars
  <2>6. ASSUME NEW l \in Legs, LegStep(l) PROVE gst' = gst
    <3>1. CASE BeginFree(l) \/ Enter(l) \/ Promote(l) \/ AcquireWorker(l) \/ RelayCancel(l)
      BY <3>1 DEF BeginFree, Enter, Promote, AcquireWorker, RelayCancel, groupVars
    <3>2. ASSUME NEW r, EndLeg(l, r) PROVE gst' = gst
      BY <3>2 DEF EndLeg
    <3>3. CASE AcquireSlot(l)
      BY <3>3, <3>2 DEF AcquireSlot, groupVars
    <3>4. CASE BeginCancelled(l) \/ PolicyError(l) \/ QueueCancelled(l) \/ WorkerCancelled(l)
               \/ SlotError(l) \/ SlotCancelled(l) \/ FinishJob(l)
      BY <3>4, <3>2 DEF BeginCancelled, PolicyError, QueueCancelled, WorkerCancelled,
                        SlotError, SlotCancelled, FinishJob
    <3>5. QED
      BY <2>6, <3>1, <3>3, <3>4 DEF LegStep
  <2>7. QED
    BY <1>2, <2>2, <2>3, <2>4, <2>5, <2>6 DEF Next, GroupStep, Dag!Next
<1>3. QED
  BY <1>1, <1>2, SchedulerInvariant, PTL DEF Spec, DagSpec, Dag!Spec


-----------------------------------------------------------------------------
(* What a run reports.  ReportsAreHonest needs its own strengthening: that *)
(* a complete report follows from a drained loop needs to know why a loop  *)
(* drains (LoopGoesOn), what the legs left behind (ReportsSoFar), why a    *)
(* group stops (StopHasCause) and that a group's needs are settled, for    *)
(* good, when it starts (NeedsDone).                                       *)

(* Legs in flight belong to a running group, and pushed legs have started. *)
LegsLive ==
  /\ \A l \in Legs : pc[l] \in InFlight => gst[GroupOf[l]] = "running"
  /\ \A l \in Legs : Index[l] <= pushed[GroupOf[l]] => pc[l] # "pending"

(* A running group that was not stopped and has a leg left has one in      *)
(* flight, whose completion pushes the next.                               *)
LoopGoesOn ==
  \A l \in Legs :
    LET g == GroupOf[l]
    IN  gst[g] = "running" /\ ~stop[g] /\ ~gerr[g] /\ pc[l] = "pending"
          => \E m \in Legs : GroupOf[m] = g /\ pc[m] \in InFlight

(* A collected leg has its report, other legs have none before their group *)
(* completes, an error is in first_error, and a completed group has a      *)
(* conclusion for every leg.                                               *)
ReportsSoFar ==
  \A l \in Legs :
    /\ pc[l] = "done" => res[l] # "none"
    /\ pc[l] # "done" /\ gst[GroupOf[l]] # "done" => res[l] = "none"
    /\ res[l] = "error" => gerr[GroupOf[l]]
    /\ gst[GroupOf[l]] = "done" => res[l] \in Conclusions

(* fail_fast_triggered was set by a collected leg.                         *)
StopHasCause ==
  \A g \in Groups : stop[g] =>
    /\ FailFast[g]
    /\ \E m \in Legs : GroupOf[m] = g /\ pc[m] = "done" /\ res[m] \in {"failure", "cancelled"}

NeedsDone ==
  /\ \A g \in Groups : gst[g] # "idle" => \A n \in Needs[g] : gst[n] = "done"
  /\ run = "ok" => \A g \in Groups : gst[g] = "done"

HInv == /\ LegsLive /\ LoopGoesOn /\ ReportsSoFar /\ StopHasCause /\ NeedsDone
        /\ LimitsRespected /\ CancelledHasCause /\ ChainIsTransitive

LEMMA InitHInv == Init => HInv
<1> SUFFICES ASSUME Init PROVE HInv
  OBVIOUS
<1>1. \A l \in Legs : GroupOf[l] \in Groups /\ Index[l] \in Nat \ {0}
  BY LegAssumption
<1>2. LegsLive /\ LoopGoesOn /\ ReportsSoFar
  BY <1>1 DEF Init, LegsLive, LoopGoesOn, ReportsSoFar, InFlight
<1>3. StopHasCause /\ NeedsDone /\ CancelledHasCause /\ ChainIsTransitive
  BY DEF Init, StopHasCause, NeedsDone, CancelledHasCause, ChainIsTransitive
<1>4. LimitsRespected
  <2>1. AdmittedLegs = {}
    BY DEF Init, AdmittedLegs, Admitted
  <2>2. \A g \in Groups : {l \in LegsOf(g) : pc[l] \in InFlight} = {}
    BY DEF Init, LegsOf, InFlight
  <2>3. Workers \in Nat /\ \A g \in Groups : MaxParallel[g] \in Nat
    BY LegAssumption, LimitAssumption
  <2>4. QED
    BY <2>1, <2>2, <2>3, FS_EmptySet DEF LimitsRespected
<1>5. QED
  BY <1>2, <1>3, <1>4 DEF HInv

(* The ancestors of a group are its needs and theirs.                      *)
LEMMA AncestorsUnfold ==
  ASSUME NEW g \in Groups, NEW a
  PROVE  a \in Ancestors[g] <=> \E n \in Needs[g] : a = n \/ a \in Ancestors[n]
<1>1. \A h \in Groups : Needs[h] \subseteq Groups
  BY PlanAssumption
<1>2. \A h \in Groups : \A b : b \in Ancestors[h] <=>
        /\ b \in Groups
        /\ \A S \in SUBSET Groups : Needs[h] \subseteq S /\ NeedClosed(S) => b \in S
  BY DEF Ancestors
<1>3. ASSUME NEW n \in Needs[g], a = n \/ a \in Ancestors[n] PROVE a \in Ancestors[g]
  <2>1. n \in Groups
    BY <1>1
  <2>2. ASSUME NEW S \in SUBSET Groups, Needs[g] \subseteq S, NeedClosed(S) PROVE a \in S
    <3>1. n \in S /\ Needs[n] \subseteq S
      BY <2>2 DEF NeedClosed
    <3>2. QED
      BY <1>2, <1>3, <2>1, <2>2, <3>1
  <2>3. a \in Groups
    BY <1>2, <1>3, <2>1
  <2>4. QED
    BY <1>2, <2>2, <2>3
<1>4. ASSUME a \in Ancestors[g] PROVE \E n \in Needs[g] : a = n \/ a \in Ancestors[n]
  <2> DEFINE T == {b \in Groups : \E n \in Needs[g] : b = n \/ b \in Ancestors[n]}
  <2>1. Needs[g] \subseteq T
    BY <1>1
  <2>2. NeedClosed(T)
    <3> SUFFICES ASSUME NEW b \in T, NEW c \in Needs[b] PROVE c \in T
      BY DEF NeedClosed
    <3>1. PICK n \in Needs[g] : b = n \/ b \in Ancestors[n]
      OBVIOUS
    <3>2. n \in Groups /\ b \in Groups /\ c \in Groups
      BY <1>1
    <3>3. c \in Ancestors[n]
      <4> SUFFICES ASSUME NEW S \in SUBSET Groups, Needs[n] \subseteq S, NeedClosed(S)
                   PROVE  c \in S
        BY <1>2, <3>2
      <4>1. CASE b = n
        BY <4>1
      <4>2. CASE b \in Ancestors[n]
        <5>1. b \in S
          BY <4>2, <1>2, <3>2
        <5>2. QED
          BY <5>1 DEF NeedClosed
      <4>3. QED
        BY <3>1, <4>1, <4>2
    <3>4. QED
      BY <3>2, <3>3
  <2>3. a \in T
    <3>1. T \in SUBSET Groups
      OBVIOUS
    <3> HIDE DEF T
    <3>2. QED
      BY <1>2, <1>4, <2>1, <2>2, <3>1
  <2>4. QED
    BY <2>3
<1>5. QED
  BY <1>3, <1>4

(* The ancestors of a completed group have completed.                      *)
LEMMA AncestorsDone ==
  ASSUME HInv, NEW g \in Groups, gst[g] # "idle", NEW a \in Ancestors[g]
  PROVE  a \in Groups /\ gst[a] = "done"
<1> DEFINE D == {h \in Groups : gst[h] = "done"}
<1>1. \A h \in Groups : gst[h] # "idle" => Needs[h] \subseteq D
  BY PlanAssumption DEF HInv, NeedsDone
<1>2. Needs[g] \subseteq D /\ NeedClosed(D)
  BY <1>1 DEF NeedClosed
<1>3. D \in SUBSET Groups
  OBVIOUS
<1> HIDE DEF D
<1>4. a \in D
  BY <1>2, <1>3 DEF Ancestors
<1>5. QED
  BY <1>4 DEF D

(* What the end of a leg does to the legs.                                 *)
LEMMA EndLegFacts ==
  ASSUME IInv, NEW l \in Legs, NEW r, pc[l] \in InFlight, EndLeg(l, r)
  PROVE  /\ pc'[l] = "done"
         /\ \A m \in Successor(GroupOf[l], r) :
              m \in Legs /\ GroupOf[m] = GroupOf[l] /\ pc[m] = "pending" /\ pc'[m] = "ready"
         /\ \A m \in Legs : m # l /\ m \notin Successor(GroupOf[l], r) =>
              pc'[m] = pc[m] \/ (pc[m] = "queued" /\ pc'[m] = "granted")
<1> DEFINE next == Successor(GroupOf[l], r)
<1>1. \A m \in next : m \in Legs /\ GroupOf[m] = GroupOf[l] /\ pc[m] = "pending"
  BY SuccessorPending, LegAssumption
<1>2. pc' = [m \in Legs |-> CASE m = l -> "done"
                              [] m # l /\ m \in next -> "ready"
                              [] m # l /\ m = Grantee(l) -> "granted"
                              [] OTHER -> pc[m]]
  BY DEF EndLeg
<1>3. \A m \in Legs : m = Grantee(l) => pc[m] = "queued"
  BY GranteeWaits, LegAssumption
<1>4. l \notin next
  BY <1>1 DEF InFlight
<1> HIDE DEF next
<1>5. \A m \in Legs : pc'[m] = CASE m = l -> "done"
                                [] m # l /\ m \in next -> "ready"
                                [] m # l /\ m = Grantee(l) -> "granted"
                                [] OTHER -> pc[m]
  BY <1>2
<1>6. pc'[l] = "done"
  BY <1>5
<1>7. ASSUME NEW m \in next PROVE pc'[m] = "ready"
  <2>1. m \in Legs /\ m # l /\ m # Grantee(l)
    BY <1>1, <1>3, <1>4
  <2>2. QED
    BY <1>5, <2>1
<1>8. ASSUME NEW m \in Legs, m # l, m \notin next
      PROVE  pc'[m] = pc[m] \/ (pc[m] = "queued" /\ pc'[m] = "granted")
  <2>1. CASE m = Grantee(l)
    BY <1>3, <1>5, <1>8, <2>1
  <2>2. CASE m # Grantee(l)
    BY <1>5, <1>8, <2>2
  <2>3. QED
    BY <2>1, <2>2
<1>9. QED
  BY <1>1, <1>6, <1>7, <1>8 DEF next

(* The number of legs that own a worker permit stays within the semaphore  *)
(* when no leg enters.                                                     *)
LEMMA FewerAdmitted ==
  ASSUME HInv, \A m \in Legs : pc'[m] \in Admitted => pc[m] \in Admitted
  PROVE  Cardinality(AdmittedLegs') <= Workers
<1>1. AdmittedLegs' \in SUBSET AdmittedLegs /\ AdmittedLegs \in SUBSET Legs
  BY DEF AdmittedLegs
<1>2. IsFiniteSet(Legs) /\ Workers \in Nat
  BY LegAssumption, LimitAssumption
<1>3. IsFiniteSet(AdmittedLegs)
  BY <1>1, <1>2, FS_Subset
<1>4. IsFiniteSet(AdmittedLegs') /\ Cardinality(AdmittedLegs') <= Cardinality(AdmittedLegs)
  BY <1>1, <1>3, FS_Subset
<1>5. Cardinality(AdmittedLegs) \in Nat /\ Cardinality(AdmittedLegs') \in Nat
  BY <1>3, <1>4, FS_CardinalityType
<1>6. Cardinality(AdmittedLegs) <= Workers
  BY DEF HInv, LimitsRespected
<1>7. QED
  BY <1>2, <1>4, <1>5, <1>6

(* A step after which the groups, the reports and the legs of each phase   *)
(* (pending, in flight, done) are as before, and no token is reset.        *)
Passes ==
  /\ UNCHANGED <<gst, pushed, stop, gerr, completed, res>>
  /\ \A m \in Legs : pc'[m] = pc[m] \/ (pc[m] \in InFlight /\ pc'[m] \in InFlight)
  /\ cancelled => cancelled'
  /\ \A m \in Legs : jobCancel[m] => jobCancel'[m]
  /\ run' = "ok" => \A g \in Groups : gst[g] = "done"
  /\ Cardinality(AdmittedLegs') <= Workers

LEMMA PassesHInv ==
  ASSUME IInv, HInv, Passes
  PROVE  HInv'
<1>1. \A m \in Legs : /\ pc'[m] \in InFlight <=> pc[m] \in InFlight
                      /\ pc'[m] = "pending" <=> pc[m] = "pending"
                      /\ pc'[m] = "done" <=> pc[m] = "done"
  BY DEF Passes, InFlight
<1>2. UNCHANGED <<gst, pushed, stop, gerr, completed, res>>
  BY DEF Passes
<1>3. LegsLive' /\ LoopGoesOn'
  BY <1>1, <1>2 DEF HInv, LegsLive, LoopGoesOn
<1>4. ReportsSoFar' /\ StopHasCause'
  BY <1>1, <1>2 DEF HInv, ReportsSoFar, StopHasCause
<1>5. NeedsDone'
  BY <1>2 DEF HInv, NeedsDone, Passes
<1>6. LimitsRespected'
  <2>1. \A g \in Groups : {m \in LegsOf(g) : pc'[m] \in InFlight}
                            = {m \in LegsOf(g) : pc[m] \in InFlight}
    BY <1>1 DEF LegsOf
  <2>2. QED
    BY <2>1 DEF HInv, LimitsRespected, Passes, LegsOf
<1>7. CancelledHasCause'
  <2> SUFFICES ASSUME NEW m \in Legs, res'[m] = "cancelled"
               PROVE  \/ cancelled' \/ jobCancel'[m]
                      \/ /\ pc'[m] = "pending" /\ FailFast[GroupOf[m]]
                         /\ \E j \in LegsOf(GroupOf[m]) \ {m} :
                              pc'[j] = "done" /\ res'[j] \in {"failure", "cancelled"}
    BY DEF CancelledHasCause, LegsOf
  <2>1. \/ cancelled \/ jobCancel[m]
        \/ /\ pc[m] = "pending" /\ FailFast[GroupOf[m]]
           /\ \E j \in LegsOf(GroupOf[m]) \ {m} :
                pc[j] = "done" /\ res[j] \in {"failure", "cancelled"}
    BY <1>2 DEF HInv, CancelledHasCause
  <2>2. QED
    BY <1>1, <1>2, <2>1 DEF Passes, LegsOf
<1>8. ChainIsTransitive'
  BY <1>2 DEF HInv, ChainIsTransitive
<1>9. QED
  BY <1>3, <1>4, <1>5, <1>6, <1>7, <1>8 DEF HInv

-----------------------------------------------------------------------------
(* The end of a leg keeps what the reports rest on.  A cancelled report    *)
(* needs one of the two tokens.                                            *)
LEMMA EndLegHInv ==
  ASSUME IInv, HInv, NEW l \in Legs, NEW r \in Conclusions \cup {"error"},
         pc[l] \in InFlight, EndLeg(l, r), r = "cancelled" => cancelled \/ jobCancel[l]
  PROVE  HInv'
<1> DEFINE g == GroupOf[l]
           next == Successor(g, r)
<1>1. /\ g \in Groups /\ gst[g] = "running"
      /\ \A m \in Legs : GroupOf[m] \in Groups /\ pc[m] \in PCs
  BY LegAssumption DEF HInv, LegsLive, IInv, TypeOK
<1>2. /\ UNCHANGED <<cancelled, run, gst, completed, jobCancel>>
      /\ res' = [res EXCEPT ![l] = r]
      /\ stop' = [stop EXCEPT ![g] = stop[g] \/ Triggers(g, r)]
      /\ gerr' = [gerr EXCEPT ![g] = gerr[g] \/ r = "error"]
      /\ pushed' = [pushed EXCEPT ![g] = IF next = {} THEN @ ELSE @ + 1]
  BY DEF EndLeg, runVars
<1>3. /\ pc'[l] = "done"
      /\ \A m \in next : m \in Legs /\ GroupOf[m] = g /\ pc[m] = "pending" /\ pc'[m] = "ready"
      /\ \A m \in Legs : m # l /\ m \notin next =>
           pc'[m] = pc[m] \/ (pc[m] = "queued" /\ pc'[m] = "granted")
  BY EndLegFacts
<1>4. \A m \in next : m \in Legs /\ Index[m] = pushed[g] + 1
  BY <1>1, SuccessorPending
<1>5. ~(stop[g] \/ Triggers(g, r)) /\ ~(gerr[g] \/ r = "error")
        => next = {m \in LegsOf(g) : Index[m] = pushed[g] + 1}
  BY DEF Successor
<1> HIDE DEF next
<1>6. \A m \in Legs : /\ pc'[m] = "pending" => pc[m] = "pending" /\ m \notin next
                      /\ pc[m] = "pending" /\ m \notin next => pc'[m] = "pending"
                      /\ pc'[m] \in InFlight => (pc[m] \in InFlight /\ m # l) \/ m \in next
                      /\ pc'[m] = "done" <=> pc[m] = "done" \/ m = l
  <2> TAKE m \in Legs
  <2>1. CASE m = l
    BY <2>1, <1>3 DEF InFlight
  <2>2. CASE m \in next
    BY <2>2, <1>3 DEF InFlight, PCs
  <2>3. CASE m # l /\ m \notin next
    BY <2>3, <1>1, <1>3 DEF InFlight, PCs
  <2>4. QED
    BY <2>1, <2>2, <2>3
<1>7. /\ \A m \in Legs : res'[m] = IF m = l THEN r ELSE res[m]
      /\ \A f \in Groups : f # g => stop'[f] = stop[f] /\ gerr'[f] = gerr[f] /\ pushed'[f] = pushed[f]
      /\ stop'[g] = (stop[g] \/ Triggers(g, r)) /\ gerr'[g] = (gerr[g] \/ r = "error")
      /\ pushed'[g] = IF next = {} THEN pushed[g] ELSE pushed[g] + 1
  BY <1>1, <1>2 DEF IInv, TypeOK
<1>8. \A m \in Legs : /\ Index[m] \in Nat /\ Index[m] \in 1..LegCount[GroupOf[m]]
                      /\ pushed[GroupOf[m]] \in Nat /\ LegCount[GroupOf[m]] \in Nat
  BY <1>1, LegAssumption DEF IInv, TypeOK
<1>9. LegsLive'
  <2>1. ASSUME NEW m \in Legs, pc'[m] \in InFlight PROVE gst'[GroupOf[m]] = "running"
    BY <2>1, <1>1, <1>2, <1>3, <1>6 DEF HInv, LegsLive
  <2>2. ASSUME NEW m \in Legs, Index[m] <= pushed'[GroupOf[m]], pc'[m] = "pending" PROVE FALSE
    <3>1. pc[m] = "pending" /\ m \notin next
      BY <2>2, <1>6
    <3>2. ~(Index[m] <= pushed[GroupOf[m]])
      BY <3>1 DEF HInv, LegsLive
    <3>3. GroupOf[m] = g /\ next # {} /\ pushed'[g] = pushed[g] + 1
      BY <2>2, <3>2, <1>1, <1>7
    <3>4. PICK n \in next : TRUE
      BY <3>3
    <3>5. Index[n] = pushed[g] + 1 /\ Index[m] = pushed[g] + 1
      BY <2>2, <3>2, <3>3, <1>4, <1>8
    <3>6. n = m
      BY <3>3, <3>5, <1>3, LegAssumption
    <3>7. QED
      BY <3>1, <3>6
  <2>3. QED
    BY <2>1, <2>2 DEF LegsLive
<1>10. LoopGoesOn'
  <2> SUFFICES ASSUME NEW m \in Legs, gst'[GroupOf[m]] = "running", ~stop'[GroupOf[m]],
                      ~gerr'[GroupOf[m]], pc'[m] = "pending"
               PROVE  \E n \in Legs : GroupOf[n] = GroupOf[m] /\ pc'[n] \in InFlight
    BY DEF LoopGoesOn
  <2>1. pc[m] = "pending" /\ m \notin next
    BY <1>6
  <2>2. CASE GroupOf[m] = g
    <3>1. next = {n \in LegsOf(g) : Index[n] = pushed[g] + 1}
      BY <1>5, <1>7, <2>2
    <3>2. ~(Index[m] <= pushed[g])
      BY <2>1, <2>2 DEF HInv, LegsLive
    <3>3. pushed[g] + 1 \in 1..LegCount[g]
      BY <3>2, <1>8, <2>2
    <3>4. PICK n \in Legs : GroupOf[n] = g /\ Index[n] = pushed[g] + 1
      BY <1>1, <3>3, LegAssumption
    <3>5. n \in next
      BY <3>1, <3>4 DEF LegsOf
    <3>6. QED
      BY <1>3, <2>2, <3>5 DEF InFlight, PCs
  <2>3. CASE GroupOf[m] # g
    <3>1. PICK n \in Legs : GroupOf[n] = GroupOf[m] /\ pc[n] \in InFlight
      BY <1>1, <1>2, <1>7, <2>1, <2>3 DEF HInv, LoopGoesOn
    <3>2. n # l /\ n \notin next
      BY <2>3, <3>1, <1>3
    <3>3. pc'[n] \in InFlight
      BY <3>1, <3>2, <1>3 DEF InFlight, PCs
    <3>4. QED
      BY <3>1, <3>3
  <2>4. QED
    BY <2>2, <2>3
<1>11. ReportsSoFar'
  <2> SUFFICES ASSUME NEW m \in Legs
               PROVE  /\ pc'[m] = "done" => res'[m] # "none"
                      /\ pc'[m] # "done" /\ gst'[GroupOf[m]] # "done" => res'[m] = "none"
                      /\ res'[m] = "error" => gerr'[GroupOf[m]]
                      /\ gst'[GroupOf[m]] = "done" => res'[m] \in Conclusions
    BY DEF ReportsSoFar
  <2>1. CASE m = l
    <3>1. pc'[m] = "done" /\ res'[m] = r /\ gst'[GroupOf[m]] = "running"
      BY <2>1, <1>1, <1>2, <1>3, <1>7
    <3>2. r # "none"
      BY DEF Conclusions
    <3>3. r = "error" => gerr'[g]
      BY <1>7
    <3>4. QED
      BY <2>1, <3>1, <3>2, <3>3
  <2>2. CASE m # l
    <3>1. res'[m] = res[m] /\ gst' = gst /\ (pc'[m] = "done" <=> pc[m] = "done")
      BY <2>2, <1>2, <1>6, <1>7
    <3>2. gerr[GroupOf[m]] => gerr'[GroupOf[m]]
      BY <1>1, <1>7
    <3>3. QED
      BY <3>1, <3>2 DEF HInv, ReportsSoFar
  <2>3. QED
    BY <2>1, <2>2
<1>12. StopHasCause'
  <2> SUFFICES ASSUME NEW f \in Groups, stop'[f]
               PROVE  /\ FailFast[f]
                      /\ \E m \in Legs : /\ GroupOf[m] = f /\ pc'[m] = "done"
                                         /\ res'[m] \in {"failure", "cancelled"}
    BY DEF StopHasCause
  <2>1. CASE stop[f]
    <3>1. FailFast[f]
      BY <2>1 DEF HInv, StopHasCause
    <3>2. PICK m \in Legs : /\ GroupOf[m] = f /\ pc[m] = "done"
                            /\ res[m] \in {"failure", "cancelled"}
      BY <2>1 DEF HInv, StopHasCause
    <3>3. m # l
      BY <3>2 DEF InFlight
    <3>4. QED
      BY <3>1, <3>2, <3>3, <1>6, <1>7
  <2>2. CASE ~stop[f]
    <3>1. f = g /\ Triggers(g, r)
      BY <2>2, <1>7
    <3>2. QED
      BY <3>1, <1>3, <1>7 DEF Triggers
  <2>3. QED
    BY <2>1, <2>2
<1>13. NeedsDone' /\ ChainIsTransitive'
  BY <1>2 DEF HInv, NeedsDone, ChainIsTransitive
<1>14. CancelledHasCause'
  <2> SUFFICES ASSUME NEW m \in Legs, res'[m] = "cancelled"
               PROVE  \/ cancelled' \/ jobCancel'[m]
                      \/ /\ pc'[m] = "pending" /\ FailFast[GroupOf[m]]
                         /\ \E j \in LegsOf(GroupOf[m]) \ {m} :
                              pc'[j] = "done" /\ res'[j] \in {"failure", "cancelled"}
    BY DEF CancelledHasCause, LegsOf
  <2>1. CASE m = l
    BY <2>1, <1>2, <1>7
  <2>2. CASE m # l
    <3>1. res[m] = "cancelled"
      BY <2>2, <1>7
    <3>2. CASE cancelled \/ jobCancel[m]
      BY <3>2, <1>2
    <3>3. CASE ~(cancelled \/ jobCancel[m])
      <4>1. /\ pc[m] = "pending" /\ FailFast[GroupOf[m]]
            /\ \E j \in LegsOf(GroupOf[m]) \ {m} :
                 pc[j] = "done" /\ res[j] \in {"failure", "cancelled"}
        BY <3>1, <3>3 DEF HInv, CancelledHasCause
      <4>2. gst[GroupOf[m]] = "done"
        BY <3>1, <4>1 DEF HInv, ReportsSoFar
      <4>3. m \notin next
        BY <4>2, <1>1, <1>3
      <4>4. pc'[m] = "pending"
        BY <4>1, <4>3, <1>6
      <4>5. PICK j \in LegsOf(GroupOf[m]) \ {m} :
              pc[j] = "done" /\ res[j] \in {"failure", "cancelled"}
        BY <4>1
      <4>6. j \in Legs /\ j # l
        BY <4>5 DEF InFlight, LegsOf
      <4>7. pc'[j] = "done" /\ res'[j] \in {"failure", "cancelled"}
        BY <4>5, <4>6, <1>6, <1>7
      <4>8. QED
        BY <4>1, <4>4, <4>7
    <3>4. QED
      BY <3>2, <3>3
  <2>3. QED
    BY <2>1, <2>2
<1>15. LimitsRespected'
  <2>1. Cardinality(AdmittedLegs') <= Workers
    <3>1. ASSUME NEW m \in Legs, pc'[m] \in Admitted PROVE pc[m] \in Admitted
      <4>1. m # l /\ m \notin next
        BY <3>1, <1>3 DEF Admitted
      <4>2. QED
        BY <3>1, <4>1, <1>3 DEF Admitted
    <3>2. QED
      BY <3>1, FewerAdmitted
  <2>2. ASSUME NEW f \in Groups
        PROVE  Cardinality({m \in LegsOf(f) : pc'[m] \in InFlight}) <= MaxParallel[f]
    <3> DEFINE F == {m \in LegsOf(f) : pc[m] \in InFlight}
               G == {m \in LegsOf(f) : pc'[m] \in InFlight}
    <3>1. F \in SUBSET Legs /\ G \in SUBSET Legs
      BY DEF LegsOf
    <3>2. IsFiniteSet(F) /\ IsFiniteSet(G)
      BY <3>1, LegAssumption, FS_Subset
    <3>3. Cardinality(F) <= MaxParallel[f] /\ MaxParallel[f] \in Nat
      BY LegAssumption DEF HInv, LimitsRespected
    <3>4. Cardinality(F) \in Nat /\ Cardinality(G) \in Nat
      BY <3>2, FS_CardinalityType
    <3>5. CASE f # g
      <4>1. G \in SUBSET F
        BY <3>5, <1>3, <1>6 DEF LegsOf
      <4>2. Cardinality(G) <= Cardinality(F)
        BY <4>1, <3>2, FS_Subset
      <4>3. QED
        BY <4>2, <3>3, <3>4
    <3>6. CASE f = g /\ next = {}
      <4>1. G \in SUBSET F
        BY <3>6, <1>6 DEF LegsOf
      <4>2. Cardinality(G) <= Cardinality(F)
        BY <4>1, <3>2, FS_Subset
      <4>3. QED
        BY <4>2, <3>3, <3>4
    <3>7. CASE f = g /\ next # {}
      <4>1. PICK n \in next : TRUE
        BY <3>7
      <4>2. \A m \in next : m = n
        BY <1>3, <1>4, <4>1, LegAssumption
      <4>3. l \in F
        BY <3>7 DEF LegsOf
      <4>4. G \in SUBSET ((F \ {l}) \cup {n})
        BY <3>7, <1>6, <4>2 DEF LegsOf
      <4> HIDE DEF F, G
      <4>5. IsFiniteSet(F \ {l}) /\ Cardinality(F \ {l}) = Cardinality(F) - 1
        BY <3>2, <4>3, FS_RemoveElement
      <4>6. /\ IsFiniteSet((F \ {l}) \cup {n})
            /\ Cardinality((F \ {l}) \cup {n}) <= Cardinality(F)
        <5>1. /\ IsFiniteSet((F \ {l}) \cup {n})
              /\ Cardinality((F \ {l}) \cup {n}) =
                   IF n \in F \ {l} THEN Cardinality(F \ {l}) ELSE Cardinality(F \ {l}) + 1
          BY <4>5, FS_AddElement
        <5>2. QED
          BY <5>1, <4>5, <3>4
      <4>7. Cardinality(G) <= Cardinality((F \ {l}) \cup {n})
        BY <4>4, <4>6, FS_Subset
      <4>8. Cardinality((F \ {l}) \cup {n}) \in Nat
        BY <4>6, FS_CardinalityType
      <4>9. Cardinality(G) <= MaxParallel[f]
        BY <3>3, <3>4, <4>6, <4>7, <4>8
      <4>10. QED
        BY <4>9 DEF G
    <3>8. QED
      BY <3>5, <3>6, <3>7
  <2>3. QED
    BY <2>1, <2>2 DEF LimitsRespected, LegsOf
<1>16. QED
  BY <1>9, <1>10, <1>11, <1>12, <1>13, <1>14, <1>15 DEF HInv

(* The first poll of a group pushes at most max-parallel legs, and one at  *)
(* least when it has any.                                                  *)
LEMMA StartGroupHInv ==
  ASSUME IInv, HInv, NEW g \in Groups, StartGroup(g)
  PROVE  HInv'
<1>1. /\ run = "running" /\ gst[g] = "idle" /\ Wave[g] = wave
      /\ gst' = [gst EXCEPT ![g] = "running"]
      /\ pushed' = [pushed EXCEPT ![g] = Min2(MaxParallel[g], LegCount[g])]
      /\ pc' = [l \in Legs |-> IF GroupOf[l] = g /\ Index[l] <= MaxParallel[g]
                                THEN "ready" ELSE pc[l]]
      /\ UNCHANGED <<cancelled, run, stop, gerr, completed, res, jobCancel>>
  BY DEF StartGroup, runVars
<1>2. \A l \in Legs : GroupOf[l] = g => pc[l] = "pending"
  BY <1>1, LegAssumption DEF IInv, TypeOK, PendingBeyond
<1>3. /\ gst'[g] = "running" /\ \A f \in Groups : f # g => gst'[f] = gst[f]
      /\ pushed'[g] = Min2(MaxParallel[g], LegCount[g])
      /\ \A f \in Groups : f # g => pushed'[f] = pushed[f]
  BY <1>1 DEF IInv, TypeOK
<1>4. \A l \in Legs : pc'[l] = IF GroupOf[l] = g /\ Index[l] <= MaxParallel[g]
                                 THEN "ready" ELSE pc[l]
  BY <1>1
<1>5. \A l \in Legs : /\ GroupOf[l] \in Groups /\ Index[l] \in Nat \ {0}
                      /\ Index[l] \in 1..LegCount[GroupOf[l]]
  BY LegAssumption
<1>6. MaxParallel[g] \in Nat \ {0} /\ LegCount[g] \in Nat
  BY LegAssumption
<1>7. \A l \in Legs : pc'[l] = "done" <=> pc[l] = "done"
  BY <1>2, <1>4
<1>8. LegsLive'
  <2>1. ASSUME NEW l \in Legs, pc'[l] \in InFlight PROVE gst'[GroupOf[l]] = "running"
    BY <2>1, <1>3, <1>4, <1>5 DEF HInv, LegsLive
  <2>2. ASSUME NEW l \in Legs, Index[l] <= pushed'[GroupOf[l]] PROVE pc'[l] # "pending"
    <3>1. CASE GroupOf[l] = g
      <4>1. Index[l] <= MaxParallel[g]
        BY <2>2, <3>1, <1>3, <1>5, <1>6 DEF Min2
      <4>2. QED
        BY <3>1, <4>1, <1>4
    <3>2. CASE GroupOf[l] # g
      BY <2>2, <3>2, <1>3, <1>4, <1>5 DEF HInv, LegsLive
    <3>3. QED
      BY <3>1, <3>2
  <2>3. QED
    BY <2>1, <2>2 DEF LegsLive
<1>9. LoopGoesOn'
  <2> SUFFICES ASSUME NEW m \in Legs, gst'[GroupOf[m]] = "running", ~stop'[GroupOf[m]],
                      ~gerr'[GroupOf[m]], pc'[m] = "pending"
               PROVE  \E n \in Legs : GroupOf[n] = GroupOf[m] /\ pc'[n] \in InFlight
    BY DEF LoopGoesOn
  <2>1. CASE GroupOf[m] = g
    <3>1. 1 \in 1..LegCount[g]
      BY <2>1, <1>5, <1>6
    <3>2. PICK n \in Legs : GroupOf[n] = g /\ Index[n] = 1
      BY <3>1, LegAssumption
    <3>3. pc'[n] = "ready"
      BY <3>2, <1>4, <1>6
    <3>4. QED
      BY <2>1, <3>2, <3>3 DEF InFlight, PCs
  <2>2. CASE GroupOf[m] # g
    <3>1. pc[m] = "pending" /\ gst[GroupOf[m]] = "running"
      BY <2>2, <1>3, <1>4, <1>5
    <3>2. PICK n \in Legs : GroupOf[n] = GroupOf[m] /\ pc[n] \in InFlight
      BY <3>1, <1>1 DEF HInv, LoopGoesOn
    <3>3. QED
      BY <2>2, <3>2, <1>4
  <2>3. QED
    BY <2>1, <2>2
<1>10. ReportsSoFar'
  <2>1. \A l \in Legs : gst'[GroupOf[l]] = "done" <=> gst[GroupOf[l]] = "done"
    BY <1>1, <1>3, <1>5
  <2>2. QED
    BY <1>1, <1>7, <2>1 DEF HInv, ReportsSoFar
<1>11. StopHasCause'
  BY <1>1, <1>7 DEF HInv, StopHasCause
<1>12. NeedsDone'
  <2>1. \A n \in Needs[g] : gst[n] = "done"
    BY <1>1, PlanAssumption DEF IInv, EarlierWavesDone
  <2>2. \A n \in Groups : gst[n] = "done" => gst'[n] = "done"
    BY <1>1, <1>3
  <2>3. \A f \in Groups : Needs[f] \subseteq Groups
    BY PlanAssumption
  <2>4. QED
    BY <1>1, <1>3, <2>1, <2>2, <2>3 DEF HInv, NeedsDone
<1>13. ChainIsTransitive'
  <2>1. \A f \in Groups : gst'[f] = "done" => gst[f] = "done"
    BY <1>1, <1>3
  <2>2. QED
    BY <1>1, <2>1 DEF HInv, ChainIsTransitive
<1>14. CancelledHasCause'
  <2> SUFFICES ASSUME NEW m \in Legs, res[m] = "cancelled", ~cancelled, ~jobCancel[m]
               PROVE  /\ pc'[m] = "pending" /\ FailFast[GroupOf[m]]
                      /\ \E j \in LegsOf(GroupOf[m]) \ {m} :
                           pc'[j] = "done" /\ res[j] \in {"failure", "cancelled"}
    BY <1>1 DEF CancelledHasCause, LegsOf
  <2>1. /\ pc[m] = "pending" /\ FailFast[GroupOf[m]]
        /\ \E j \in LegsOf(GroupOf[m]) \ {m} :
             pc[j] = "done" /\ res[j] \in {"failure", "cancelled"}
    BY DEF HInv, CancelledHasCause
  <2>2. gst[GroupOf[m]] = "done"
    BY <2>1 DEF HInv, ReportsSoFar
  <2>3. GroupOf[m] # g
    BY <2>2, <1>1
  <2>4. QED
    BY <2>1, <2>3, <1>4, <1>7 DEF LegsOf
<1>15. LimitsRespected'
  <2>1. Cardinality(AdmittedLegs') <= Workers
    BY <1>4, FewerAdmitted DEF Admitted
  <2>2. ASSUME NEW f \in Groups
        PROVE  Cardinality({m \in LegsOf(f) : pc'[m] \in InFlight}) <= MaxParallel[f]
    <3>1. CASE f # g
      <4>1. {m \in LegsOf(f) : pc'[m] \in InFlight} = {m \in LegsOf(f) : pc[m] \in InFlight}
        BY <3>1, <1>4 DEF LegsOf
      <4>2. QED
        BY <4>1 DEF HInv, LimitsRespected
    <3>2. CASE f = g
      <4> DEFINE G == {m \in LegsOf(g) : pc'[m] \in InFlight}
                 N == MaxParallel[g]
                 index == [m \in G |-> Index[m]]
      <4>1. \A m \in G : m \in Legs /\ GroupOf[m] = g /\ Index[m] \in 1..N
        BY <1>2, <1>4, <1>5, <1>6 DEF LegsOf, InFlight
      <4>2. index \in [G -> 1..N]
        BY <4>1
      <4>3. \A a, b \in G : index[a] = index[b] => a = b
        BY <4>1, LegAssumption
      <4> HIDE DEF G, index
      <4>4. index \in Injection(G, 1..N)
        <5>1. DOMAIN index = G
          BY <4>2
        <5>2. IsInjective(index)
          BY <4>3, <5>1 DEF IsInjective
        <5>3. QED
          BY <4>2, <5>2 DEF Injection
      <4>5. IsFiniteSet(1..N) /\ Cardinality(1..N) = N
        <5>1. 1 \in Int /\ N \in Int /\ ~(1 > N)
          BY <1>6
        <5>2. /\ IsFiniteSet(1..N)
              /\ Cardinality(1..N) = IF 1 > N THEN 0 ELSE N - 1 + 1
          BY <5>1, FS_Interval
        <5>3. QED
          BY <5>1, <5>2
      <4>6. Cardinality(G) <= N
        BY <4>4, <4>5, FS_Injection
      <4>7. QED
        BY <3>2, <4>6 DEF G
    <3>3. QED
      BY <3>1, <3>2
  <2>3. QED
    BY <2>1, <2>2 DEF LimitsRespected, LegsOf
<1>16. QED
  BY <1>8, <1>9, <1>10, <1>11, <1>12, <1>13, <1>14, <1>15 DEF HInv

(* A group whose strategy does not materialize leaves no report.           *)
LEMMA FailGroupHInv ==
  ASSUME IInv, HInv, NEW g \in Groups, FailGroup(g)
  PROVE  HInv'
<1>1. /\ run = "running" /\ gst[g] = "idle" /\ Wave[g] = wave
      /\ gst' = [gst EXCEPT ![g] = "failed"]
      /\ UNCHANGED <<cancelled, run, pushed, stop, gerr, completed, pc, res, jobCancel>>
  BY DEF FailGroup, runVars
<1>2. gst'[g] = "failed" /\ \A f \in Groups : f # g => gst'[f] = gst[f]
  BY <1>1 DEF IInv, TypeOK
<1>3. \A f \in Groups : /\ gst'[f] = "done" <=> gst[f] = "done"
                        /\ gst'[f] = "running" <=> gst[f] = "running"
  BY <1>1, <1>2
<1>4. \A l \in Legs : GroupOf[l] \in Groups
  BY LegAssumption
<1>5. LegsLive' /\ LoopGoesOn' /\ ReportsSoFar'
  BY <1>1, <1>3, <1>4 DEF HInv, LegsLive, LoopGoesOn, ReportsSoFar
<1>6. StopHasCause' /\ CancelledHasCause'
  BY <1>1 DEF HInv, StopHasCause, CancelledHasCause, LegsOf
<1>7. LimitsRespected'
  BY <1>1 DEF HInv, LimitsRespected, AdmittedLegs, LegsOf
<1>8. NeedsDone'
  <2>1. \A n \in Needs[g] : gst[n] = "done"
    BY <1>1, PlanAssumption DEF IInv, EarlierWavesDone
  <2>2. \A f \in Groups : Needs[f] \subseteq Groups
    BY PlanAssumption
  <2>3. QED
    BY <1>1, <1>2, <1>3, <2>1, <2>2 DEF HInv, NeedsDone
<1>9. ChainIsTransitive'
  BY <1>1, <1>3 DEF HInv, ChainIsTransitive
<1>10. QED
  BY <1>5, <1>6, <1>7, <1>8, <1>9 DEF HInv

-----------------------------------------------------------------------------
(* A group that completes has a conclusion for every leg, and its record   *)
(* speaks for all its ancestors.                                           *)
LEMMA FinishGroupHInv ==
  ASSUME IInv, HInv, NEW g \in Groups, FinishGroup(g)
  PROVE  HInv'
<1> DEFINE final == FinalReports(g)
           result == aggregate({final[l] : l \in LegsOf(g)})
<1>1. /\ gst[g] = "running"
      /\ UNCHANGED <<cancelled, run, pushed, stop, gerr, pc, jobCancel>>
      /\ \A l \in Legs : GroupOf[l] = g => pc[l] \notin InFlight
  BY DEF FinishGroup, runVars, LegsOf
<1>2. PICK s \in {"done", "failed"} : gst' = [gst EXCEPT ![g] = s]
  BY DEF FinishGroup
<1>3. gst'[g] = s /\ \A f \in Groups : f # g => gst'[f] = gst[f]
  BY <1>2 DEF IInv, TypeOK
<1>4. \A l \in Legs : GroupOf[l] \in Groups /\ pc[l] \in PCs
                      /\ res[l] \in Conclusions \cup {"error", "none"}
  BY LegAssumption DEF IInv, TypeOK
<1>5. CASE s = "failed"
  <2>1. UNCHANGED <<res, completed>>
    BY <1>3, <1>5 DEF FinishGroup, IInv, TypeOK
  <2>2. \A f \in Groups : gst'[f] = "done" <=> gst[f] = "done"
    BY <1>1, <1>3, <1>5
  <2>3. LegsLive' /\ LoopGoesOn'
    BY <1>1, <1>3, <1>4, <1>5 DEF HInv, LegsLive, LoopGoesOn
  <2>4. ReportsSoFar' /\ StopHasCause' /\ CancelledHasCause'
    BY <1>1, <1>4, <2>1, <2>2
    DEF HInv, ReportsSoFar, StopHasCause, CancelledHasCause, LegsOf
  <2>5. LimitsRespected'
    BY <1>1 DEF HInv, LimitsRespected, AdmittedLegs, LegsOf
  <2>6. NeedsDone'
    <3>1. \A f \in Groups : Needs[f] \subseteq Groups
      BY PlanAssumption
    <3>2. \A f \in Groups : gst'[f] # "idle" => gst[f] # "idle"
      BY <1>1, <1>3
    <3>3. QED
      BY <1>1, <2>2, <3>1, <3>2 DEF HInv, NeedsDone
  <2>7. ChainIsTransitive'
    BY <2>1, <2>2 DEF HInv, ChainIsTransitive
  <2>8. QED
    BY <2>3, <2>4, <2>5, <2>6, <2>7 DEF HInv
<1>6. CASE s = "done"
  <2>1. /\ ~gerr[g] /\ res' = final
        /\ completed' = [completed EXCEPT ![g] = Record(g, result)]
    BY <1>3, <1>6 DEF FinishGroup, IInv, TypeOK
  <2>2. \A l \in Legs : res'[l] = IF GroupOf[l] = g /\ stop[g] /\ pc[l] = "pending"
                                    THEN "cancelled" ELSE res[l]
    BY <2>1 DEF FinalReports
  <2> HIDE DEF final, result
  <2>3. \A l \in Legs : pc[l] # "pending" \/ GroupOf[l] # g => res'[l] = res[l]
    BY <2>2
  <2>4. \A f \in Groups : gst[f] = "done" => gst'[f] = "done"
    BY <1>1, <1>3
  <2>5. LegsLive' /\ LoopGoesOn'
    BY <1>1, <1>3, <1>4, <1>6 DEF HInv, LegsLive, LoopGoesOn
  <2>6. ReportsSoFar'
    <3> SUFFICES ASSUME NEW l \in Legs
                 PROVE  /\ pc[l] = "done" => res'[l] # "none"
                        /\ pc[l] # "done" /\ gst'[GroupOf[l]] # "done" => res'[l] = "none"
                        /\ res'[l] = "error" => gerr[GroupOf[l]]
                        /\ gst'[GroupOf[l]] = "done" => res'[l] \in Conclusions
      BY <1>1 DEF ReportsSoFar
    <3>1. CASE GroupOf[l] # g
      BY <3>1, <1>3, <1>4, <2>3 DEF HInv, ReportsSoFar
    <3>2. CASE GroupOf[l] = g /\ pc[l] = "done"
      <4>1. res'[l] = res[l] /\ res[l] # "none" /\ res[l] # "error"
        BY <3>2, <2>1, <2>2 DEF HInv, ReportsSoFar
      <4>2. QED
        BY <4>1, <3>2, <1>4
    <3>3. CASE GroupOf[l] = g /\ pc[l] = "pending"
      <4>1. stop[g]
        <5>1. ASSUME ~stop[g] PROVE FALSE
          <6>1. \E m \in Legs : GroupOf[m] = g /\ pc[m] \in InFlight
            BY <3>3, <5>1, <1>1, <2>1 DEF HInv, LoopGoesOn
          <6>2. QED
            BY <6>1, <1>1
        <5>2. QED
          BY <5>1
      <4>2. res'[l] = "cancelled"
        BY <3>3, <4>1, <2>2
      <4>3. QED
        BY <3>3, <4>2, <1>3, <1>6 DEF Conclusions
    <3>4. QED
      BY <3>1, <3>2, <3>3, <1>1, <1>4 DEF InFlight
  <2>7. StopHasCause'
    <3> SUFFICES ASSUME NEW f \in Groups, stop[f]
                 PROVE  /\ FailFast[f]
                        /\ \E m \in Legs : /\ GroupOf[m] = f /\ pc[m] = "done"
                                           /\ res'[m] \in {"failure", "cancelled"}
      BY <1>1 DEF StopHasCause
    <3>1. FailFast[f]
      BY DEF HInv, StopHasCause
    <3>2. PICK m \in Legs : /\ GroupOf[m] = f /\ pc[m] = "done"
                            /\ res[m] \in {"failure", "cancelled"}
      BY DEF HInv, StopHasCause
    <3>3. res'[m] = res[m]
      BY <3>2, <2>3
    <3>4. QED
      BY <3>1, <3>2, <3>3
  <2>8. CancelledHasCause'
    <3> SUFFICES ASSUME NEW l \in Legs, res'[l] = "cancelled", ~cancelled, ~jobCancel[l]
                 PROVE  /\ pc[l] = "pending" /\ FailFast[GroupOf[l]]
                        /\ \E j \in LegsOf(GroupOf[l]) \ {l} :
                             pc[j] = "done" /\ res'[j] \in {"failure", "cancelled"}
      BY <1>1 DEF CancelledHasCause, LegsOf
    <3>1. /\ pc[l] = "pending" /\ FailFast[GroupOf[l]]
          /\ \E j \in Legs : /\ GroupOf[j] = GroupOf[l] /\ j # l /\ pc[j] = "done"
                             /\ res[j] \in {"failure", "cancelled"}
      <4>1. CASE res[l] = "cancelled"
        BY <4>1 DEF HInv, CancelledHasCause, LegsOf
      <4>2. CASE res[l] # "cancelled"
        <5>1. GroupOf[l] = g /\ stop[g] /\ pc[l] = "pending"
          BY <4>2, <2>2
        <5>2. QED
          BY <5>1 DEF HInv, StopHasCause
      <4>3. QED
        BY <4>1, <4>2
    <3>2. PICK j \in Legs : /\ GroupOf[j] = GroupOf[l] /\ j # l /\ pc[j] = "done"
                            /\ res[j] \in {"failure", "cancelled"}
      BY <3>1
    <3>3. res'[j] = res[j]
      BY <3>2, <2>3
    <3>4. QED
      BY <3>1, <3>2, <3>3 DEF LegsOf
  <2>9. LimitsRespected'
    BY <1>1 DEF HInv, LimitsRespected, AdmittedLegs, LegsOf
  <2>10. NeedsDone'
    <3>1. \A f \in Groups : Needs[f] \subseteq Groups
      BY PlanAssumption
    <3>2. \A f \in Groups : gst'[f] # "idle" => gst[f] # "idle"
      BY <1>1, <1>3
    <3>3. QED
      BY <1>1, <2>4, <3>1, <3>2 DEF HInv, NeedsDone
  <2>11. ChainIsTransitive'
    <3> SUFFICES ASSUME NEW f \in Groups, gst'[f] = "done"
                 PROVE  /\ completed'[f].chain_failed <=>
                             \E a \in Ancestors[f] \cup {f} : completed'[a].result = "failure"
                        /\ completed'[f].chain_cancelled <=>
                             \E a \in Ancestors[f] \cup {f} : completed'[a].result = "cancelled"
      BY DEF ChainIsTransitive
    <3>1. \A h \in Groups : h # g => completed'[h] = completed[h]
      BY <2>1 DEF IInv, TypeOK
    <3>2. \A h \in Groups : h = f \/ h = g \/ gst[h] = "done" => gst[h] # "idle"
      BY <1>1, <1>3
    <3>3. \A a \in Ancestors[f] : a \in Groups /\ a # g /\ gst[a] = "done"
      BY <1>1, <3>2, AncestorsDone
    <3>4. \A a \in Ancestors[f] : completed'[a] = completed[a]
      BY <3>1, <3>3
    <3>5. CASE f # g
      <4>1. gst[f] = "done" /\ completed'[f] = completed[f]
        BY <3>1, <3>5, <1>3
      <4>2. /\ completed[f].chain_failed <=>
                 \E a \in Ancestors[f] \cup {f} : completed[a].result = "failure"
            /\ completed[f].chain_cancelled <=>
                 \E a \in Ancestors[f] \cup {f} : completed[a].result = "cancelled"
        BY <4>1 DEF HInv, ChainIsTransitive
      <4>3. QED
        BY <3>4, <4>1, <4>2
    <3>6. CASE f = g
      <4>1. completed'[g] = Record(g, result)
        BY <2>1 DEF IInv, TypeOK
      <4>2. \A n \in Needs[g] : n \in Groups /\ gst[n] = "done"
        BY <1>1, PlanAssumption DEF HInv, NeedsDone
      <4>3. needs_records(g) = {completed[n] : n \in Needs[g]}
        BY <4>2 DEF needs_records
      <4>4. /\ completed'[g].result = result
            /\ completed'[g].chain_failed <=>
                 result = "failure" \/ \E n \in Needs[g] : completed[n].chain_failed
            /\ completed'[g].chain_cancelled <=>
                 result = "cancelled" \/ \E n \in Needs[g] : completed[n].chain_cancelled
        <5>1. /\ completed'[g].result = result
              /\ completed'[g].chain_failed =
                   (result = "failure" \/ \E n \in needs_records(g) : n.chain_failed)
              /\ completed'[g].chain_cancelled =
                   (result = "cancelled" \/ \E n \in needs_records(g) : n.chain_cancelled)
          BY <4>1 DEF Record
        <5>2. /\ (\E n \in needs_records(g) : n.chain_failed)
                   <=> \E n \in Needs[g] : completed[n].chain_failed
              /\ (\E n \in needs_records(g) : n.chain_cancelled)
                   <=> \E n \in Needs[g] : completed[n].chain_cancelled
          BY <4>3
        <5>3. QED
          BY <5>1, <5>2
      <4>5. \A a : a \in Ancestors[g] <=> \E n \in Needs[g] : a = n \/ a \in Ancestors[n]
        BY AncestorsUnfold
      <4>6. \A n \in Needs[g] :
              /\ completed[n].chain_failed <=>
                   \E a \in Ancestors[n] \cup {n} : completed[a].result = "failure"
              /\ completed[n].chain_cancelled <=>
                   \E a \in Ancestors[n] \cup {n} : completed[a].result = "cancelled"
        BY <4>2 DEF HInv, ChainIsTransitive
      <4>7. completed'[g].chain_failed <=>
              result = "failure" \/ \E a \in Ancestors[g] : completed[a].result = "failure"
        BY <4>4, <4>5, <4>6
      <4>8. completed'[g].chain_cancelled <=>
              result = "cancelled" \/ \E a \in Ancestors[g] : completed[a].result = "cancelled"
        BY <4>4, <4>5, <4>6
      <4>9. QED
        BY <3>4, <3>6, <4>4, <4>7, <4>8
    <3>7. QED
      BY <3>5, <3>6
  <2>12. QED
    BY <2>5, <2>6, <2>7, <2>8, <2>9, <2>10, <2>11 DEF HInv
<1>7. QED
  BY <1>2, <1>5, <1>6

(* The steps that only move a leg on, or only set a token.                 *)
LEMMA LegPasses ==
  ASSUME IInv, HInv, NEW l \in Legs,
         BeginFree(l) \/ Enter(l) \/ Promote(l) \/ AcquireWorker(l) \/ RelayCancel(l)
           \/ (Move(l, "worker", "running")
                 /\ UNCHANGED <<runVars, groupVars, res, jobCancel, gateVars>>)
  PROVE  Passes
<1>1. UNCHANGED <<cancelled, run, gst, pushed, stop, gerr, completed, res>>
  BY DEF BeginFree, Enter, Promote, AcquireWorker, RelayCancel, runVars, groupVars
<1>2. \A m \in Legs : jobCancel[m] => jobCancel'[m]
  BY DEF BeginFree, Enter, CancelOwner, Promote, AcquireWorker, RelayCancel, IInv, TypeOK
<1>3. \/ pc' = pc
      \/ \E from, to \in InFlight : Move(l, from, to)
  BY DEF BeginFree, Enter, Promote, AcquireWorker, RelayCancel, InFlight, PCs
<1>4. \A m \in Legs : pc'[m] = pc[m] \/ (pc[m] \in InFlight /\ pc'[m] \in InFlight)
  BY <1>3 DEF Move, IInv, TypeOK
<1>5. Cardinality(AdmittedLegs') <= Workers
  <2>1. CASE AcquireWorker(l)
    <3>1. /\ Cardinality(AdmittedLegs) < Workers
          /\ pc' = [pc EXCEPT ![l] = "worker"]
      BY <2>1 DEF AcquireWorker, Move
    <3>2. AdmittedLegs' = AdmittedLegs \cup {l}
      BY <3>1 DEF AdmittedLegs, Admitted, IInv, TypeOK
    <3>3. IsFiniteSet(AdmittedLegs)
      BY LegAssumption, FS_Subset DEF AdmittedLegs
    <3>4. /\ Cardinality(AdmittedLegs \cup {l}) =
               IF l \in AdmittedLegs THEN Cardinality(AdmittedLegs)
                                     ELSE Cardinality(AdmittedLegs) + 1
          /\ Cardinality(AdmittedLegs) \in Nat /\ Workers \in Nat
      BY <3>3, FS_AddElement, FS_CardinalityType, LimitAssumption
    <3>5. QED
      BY <3>1, <3>2, <3>4
  <2>2. CASE ~AcquireWorker(l)
    <3>1. \/ pc' = pc
          \/ pc' = [pc EXCEPT ![l] = "gated"]
          \/ pc' = [pc EXCEPT ![l] = "queued"]
          \/ pc[l] = "worker" /\ pc' = [pc EXCEPT ![l] = "running"]
      BY <2>2 DEF BeginFree, Enter, Promote, RelayCancel, Move
    <3>2. \A m \in Legs : pc'[m] \in Admitted => pc[m] \in Admitted
      BY <3>1 DEF Admitted, IInv, TypeOK
    <3>3. QED
      BY <3>2, FewerAdmitted
  <2>3. QED
    BY <2>1, <2>2
<1>6. run' = "ok" => \A g \in Groups : gst[g] = "done"
  BY <1>1 DEF HInv, NeedsDone
<1>7. QED
  BY <1>1, <1>2, <1>4, <1>5, <1>6 DEF Passes

LEMMA LegStepHInv ==
  ASSUME IInv, HInv, NEW l \in Legs, LegStep(l)
  PROVE  HInv'
<1>1. ASSUME NEW r \in Conclusions \cup {"error"}, pc[l] \in InFlight, EndLeg(l, r),
             r = "cancelled" => cancelled \/ jobCancel[l]
      PROVE  HInv'
  BY <1>1, EndLegHInv
<1>2. CASE BeginCancelled(l) \/ QueueCancelled(l) \/ WorkerCancelled(l) \/ SlotCancelled(l)
  <2>1. pc[l] \in InFlight /\ cancelled /\ EndLeg(l, "cancelled")
    BY <1>2 DEF BeginCancelled, QueueCancelled, WorkerCancelled, SlotCancelled, InFlight, PCs
  <2>2. QED
    BY <1>1, <2>1 DEF Conclusions
<1>3. CASE PolicyError(l) \/ SlotError(l)
  <2>1. pc[l] \in InFlight /\ EndLeg(l, "error")
    BY <1>3 DEF PolicyError, SlotError, InFlight, PCs
  <2>2. QED
    BY <1>1, <2>1
<1>4. CASE FinishJob(l)
  <2>1. PICK r \in Results(l) : EndLeg(l, r)
    BY <1>4 DEF FinishJob
  <2>2. pc[l] \in InFlight
    BY <1>4 DEF FinishJob, InFlight, PCs
  <2>3. r \in Conclusions \cup {"error"}
    BY <2>1, ResultTypes
  <2>4. r = "cancelled" => jobCancel[l]
    BY <2>1 DEF Results
  <2>5. QED
    BY <1>1, <2>1, <2>2, <2>3, <2>4
<1>5. CASE AcquireSlot(l)
  <2>1. CASE jobCancel[l] /\ pc[l] = "worker" /\ EndLeg(l, "cancelled")
    BY <1>1, <2>1 DEF Conclusions, InFlight, PCs
  <2>2. CASE /\ Move(l, "worker", "running")
             /\ UNCHANGED <<runVars, groupVars, res, jobCancel, gateVars>>
    BY <2>2, LegPasses, PassesHInv
  <2>3. QED
    BY <1>5, <2>1, <2>2 DEF AcquireSlot
<1>6. CASE BeginFree(l) \/ Enter(l) \/ Promote(l) \/ AcquireWorker(l) \/ RelayCancel(l)
  BY <1>6, LegPasses, PassesHInv
<1>7. QED
  BY <1>2, <1>3, <1>4, <1>5, <1>6 DEF LegStep

LEMMA NextHInv ==
  ASSUME IInv, HInv, [Next]_vars
  PROVE  HInv'
<1>1. CASE CancelRun \/ EndWave \/ Over \/ UNCHANGED vars
  <2>1. UNCHANGED <<gst, pushed, stop, gerr, completed, pc, res, jobCancel>>
    BY <1>1 DEF CancelRun, EndWave, Over, vars, groupVars
  <2>2. cancelled => cancelled'
    BY <1>1 DEF CancelRun, EndWave, Over, vars
  <2>3. ASSUME run' = "ok", NEW g \in Groups PROVE gst[g] = "done"
    <3>1. CASE run = "ok"
      BY <3>1 DEF HInv, NeedsDone
    <3>2. CASE run # "ok"
      <4>1. EndWave
        BY <1>1, <2>3, <3>2 DEF CancelRun, Over, vars
      <4>2. run = "running" /\ WaveDrained /\ wave = MaxWave /\ gst[g] # "failed"
        BY <2>3, <3>2, <4>1 DEF EndWave
      <4>3. Wave[g] < wave \/ Wave[g] = wave
        BY <4>2, PlanAssumption
      <4>4. QED
        BY <4>2, <4>3 DEF WaveDrained, IInv, EarlierWavesDone
    <3>3. QED
      BY <3>1, <3>2
  <2>4. Cardinality(AdmittedLegs') <= Workers
    BY <2>1, FewerAdmitted
  <2>5. QED
    BY <2>1, <2>2, <2>3, <2>4, PassesHInv DEF Passes
<1>2. ASSUME NEW g \in Groups, GroupStep(g) PROVE HInv'
  BY <1>2, StartGroupHInv, FailGroupHInv, FinishGroupHInv DEF GroupStep
<1>3. ASSUME NEW l \in Legs, LegStep(l) PROVE HInv'
  BY <1>3, LegStepHInv
<1>4. QED
  BY <1>1, <1>2, <1>3 DEF Next

(* A run's report says what happened, for every plan: the worker and       *)
(* max-parallel limits hold together, no leg starts before its needs, a    *)
(* cancelled report has one of its three causes, a run that ends well has  *)
(* a conclusion for every leg and swallowed no error, and a record's chain *)
(* flags speak for every transitive ancestor (run, run_group and           *)
(* run_instance of scheduler.rs).                                          *)
THEOREM ReportsHonest == Spec => []ReportsAreHonest
<1>1. IInv /\ HInv => ReportsAreHonest
  <2> SUFFICES ASSUME IInv, HInv PROVE ReportsAreHonest
    OBVIOUS
  <2>1. ReportComplete
    <3>1. ASSUME run = "ok", NEW l \in Legs PROVE res[l] \in Conclusions
      <4>1. gst[GroupOf[l]] = "done"
        BY <3>1, LegAssumption DEF HInv, NeedsDone
      <4>2. QED
        BY <4>1 DEF HInv, ReportsSoFar
    <3>2. "error" \notin Conclusions
      BY DEF Conclusions
    <3>3. QED
      BY <3>1, <3>2 DEF ReportComplete
  <2>2. NeedsSettled
    <3>1. ASSUME NEW l \in Legs, pc[l] # "pending" PROVE gst[GroupOf[l]] # "idle"
      BY <3>1, LegAssumption DEF IInv, TypeOK, PendingBeyond
    <3>2. QED
      BY <3>1, LegAssumption DEF HInv, NeedsDone, NeedsSettled
  <2>3. QED
    BY <2>1, <2>2 DEF HInv, ReportsAreHonest
<1>2. Init => HInv
  BY InitHInv
<1>3. IInv /\ HInv /\ [Next]_vars => HInv'
  BY NextHInv
<1>4. QED
  BY <1>1, <1>2, <1>3, SchedulerInvariant, PTL DEF Spec
=============================================================================
