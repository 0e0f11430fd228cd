---------------------------- MODULE Cancellation ----------------------------
(***************************************************************************)
(* The cancellation signal of greenlit-runtime (cancel.rs): an atomic flag *)
(* and a tokio Notify.  `cancel` swaps the flag and, if it was clear,      *)
(* wakes the registered waiters; `cancelled` creates its Notified future   *)
(* BEFORE it reads the flag, because notify_waiters only reaches futures   *)
(* that exist when it is called.  Cancellers and waiters are on different  *)
(* threads, so the swap and the wake-up are two steps.                     *)
(***************************************************************************)
EXTENDS FiniteSets

CONSTANTS Waiters, Cancellers

VARIABLES
  flag,        \* State.cancelled
  registered,  \* waiters with a Notified future that was not woken
  wpc,         \* a waiter in `cancelled`
  cpc          \* a canceller in `cancel`

vars == <<flag, registered, wpc, cpc>>

TypeOK ==
  /\ flag \in BOOLEAN
  /\ registered \subseteq Waiters
  /\ wpc \in [Waiters -> {"loop", "check", "wait", "returned"}]
  /\ cpc \in [Cancellers -> {"idle", "notify", "done"}]

Init ==
  /\ flag = FALSE
  /\ registered = {}
  /\ wpc = [w \in Waiters |-> "loop"]
  /\ cpc = [c \in Cancellers |-> "idle"]

-----------------------------------------------------------------------------
(* cancel: only the call that flips the flag notifies.                     *)
MutAlwaysNotifies(c) ==
  /\ cpc[c] = "idle"
  /\ cpc' = [cpc EXCEPT ![c] = "notify"]
  /\ flag' = TRUE
  /\ UNCHANGED <<registered, wpc>>

Swap(c) ==
  /\ cpc[c] = "idle"
  /\ cpc' = [cpc EXCEPT ![c] = IF flag THEN "done" ELSE "notify"]
  /\ flag' = TRUE
  /\ UNCHANGED <<registered, wpc>>

(* notify_waiters wakes every registered future.                           *)
MutNotifiesOne(c) ==
  /\ cpc[c] = "notify"
  /\ cpc' = [cpc EXCEPT ![c] = "done"]
  /\ \/ registered = {} /\ UNCHANGED registered
     \/ \E w \in registered : registered' = registered \ {w}
  /\ UNCHANGED <<flag, wpc>>

NotifyWaiters(c) ==
  /\ cpc[c] = "notify"
  /\ cpc' = [cpc EXCEPT ![c] = "done"]
  /\ registered' = {}
  /\ UNCHANGED <<flag, wpc>>

(* cancelled: `let notified = notify.notified()`.                          *)
Register(w) ==
  /\ wpc[w] = "loop"
  /\ wpc' = [wpc EXCEPT ![w] = "check"]
  /\ registered' = registered \cup {w}
  /\ UNCHANGED <<flag, cpc>>

(* Return if the flag is set (dropping the future), else await it.         *)
MutAwaitsUnchecked(w) ==
  /\ wpc[w] = "check"
  /\ wpc' = [wpc EXCEPT ![w] = "wait"]
  /\ UNCHANGED <<flag, registered, cpc>>

Check(w) ==
  /\ wpc[w] = "check"
  /\ IF flag
       THEN /\ wpc' = [wpc EXCEPT ![w] = "returned"]
            /\ registered' = registered \ {w}
       ELSE /\ wpc' = [wpc EXCEPT ![w] = "wait"]
            /\ UNCHANGED registered
  /\ UNCHANGED <<flag, cpc>>

(* The awaited future was woken: loop.                                     *)
Wake(w) ==
  /\ wpc[w] = "wait" /\ w \notin registered
  /\ wpc' = [wpc EXCEPT ![w] = "loop"]
  /\ UNCHANGED <<flag, registered, cpc>>

Next ==
  \/ \E c \in Cancellers : Swap(c) \/ NotifyWaiters(c)
  \/ \E w \in Waiters : Register(w) \/ Check(w) \/ Wake(w)

Spec == Init /\ [][Next]_vars

(* A canceller that swapped finishes its call; woken waiters are polled.   *)
FairSpec ==
  /\ Spec
  /\ \A c \in Cancellers : WF_vars(NotifyWaiters(c))
  /\ \A w \in Waiters : WF_vars(Register(w) \/ Check(w) \/ Wake(w))

-----------------------------------------------------------------------------
\* No wake-up is lost: a waiter that sleeps on its future although the flag is
\* set is still going to be reached by the canceller that set it.
NoLostWakeup ==
  \A w \in Waiters : wpc[w] = "wait" /\ w \in registered /\ flag
    => \E c \in Cancellers : cpc[c] = "notify"

\* No waiter returns without a cancellation, and at most one call notifies.
OnlyCancelledReturns ==
  /\ \A w \in Waiters : wpc[w] = "returned" => flag
  /\ \A c, d \in Cancellers : cpc[c] = "notify" /\ cpc[d] = "notify" => c = d

\* A cancellation reaches every waiter, present and future.
CancelReachesAll == flag ~> \A w \in Waiters : wpc[w] = "returned"
=============================================================================
