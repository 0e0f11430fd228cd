------------------------ MODULE CancellationProofs ------------------------
(***************************************************************************)
(* The cancellation signal loses no wake-up, for any number of cancellers  *)
(* and waiters.  The argument is the order of the two halves of each call: *)
(* a clear flag means nobody has swapped yet, and a set flag with no       *)
(* notifier left means the registrations of all sleeping waiters are gone. *)
(***************************************************************************)
EXTENDS Cancellation, TLAPS

(* Who has swapped, and that only the first swap leads to a notification.  *)
FlagRecordsSwaps ==
  /\ ~flag => \A c \in Cancellers : cpc[c] = "idle"
  /\ \A w \in Waiters : wpc[w] = "returned" => flag
  /\ \A c, d \in Cancellers : cpc[c] = "notify" /\ cpc[d] = "notify" => c = d

IInv == TypeOK /\ FlagRecordsSwaps /\ NoLostWakeup

LEMMA InitIInv == Init => IInv
  BY DEF Init, IInv, TypeOK, FlagRecordsSwaps, NoLostWakeup

LEMMA NextIInv == IInv /\ [Next]_vars => IInv'
<1> SUFFICES ASSUME IInv, [Next]_vars PROVE IInv'
  OBVIOUS
<1> USE DEF IInv, TypeOK, FlagRecordsSwaps, NoLostWakeup
<1>1. ASSUME NEW c \in Cancellers, Swap(c) PROVE IInv'
  BY <1>1 DEF Swap
<1>2. ASSUME NEW c \in Cancellers, NotifyWaiters(c) PROVE IInv'
  BY <1>2 DEF NotifyWaiters
<1>3. ASSUME NEW w \in Waiters, Register(w) PROVE IInv'
  BY <1>3 DEF Register
<1>4. ASSUME NEW w \in Waiters, Check(w) PROVE IInv'
  <2>1. CASE flag
    BY <1>4, <2>1 DEF Check
  <2>2. CASE ~flag
    BY <1>4, <2>2 DEF Check
  <2>3. QED
    BY <2>1, <2>2
<1>5. ASSUME NEW w \in Waiters, Wake(w) PROVE IInv'
  BY <1>5 DEF Wake
<1>6. CASE UNCHANGED vars
  BY <1>6 DEF vars
<1>7. QED
  BY <1>1, <1>2, <1>3, <1>4, <1>5, <1>6 DEF Next

\* Cancellation keeps IInv in every behaviour of cancel and cancelled.
THEOREM SignalInvariant == Spec => []IInv
<1>1. Init => IInv
  BY InitIInv
<1>2. IInv /\ [Next]_vars => IInv'
  BY NextIInv
<1>3. QED
  BY <1>1, <1>2, PTL DEF Spec

\* `cancelled` never sleeps through a cancellation: a registered waiter with
\* the flag set still has a notifier coming (cancel.rs 28-49).
THEOREM NoWakeupIsLost == Spec => []NoLostWakeup
<1>1. IInv => NoLostWakeup
  BY DEF IInv
<1>2. QED
  BY <1>1, SignalInvariant, PTL

\* `cancelled` returns only after `cancel`, and only one call notifies.
THEOREM ReturnsOnlyCancelled == Spec => []OnlyCancelledReturns
<1>1. IInv => OnlyCancelledReturns
  BY DEF IInv, FlagRecordsSwaps, OnlyCancelledReturns
<1>2. QED
  BY <1>1, SignalInvariant, PTL
=============================================================================
