---------------------------- MODULE MCScheduler ----------------------------
(***************************************************************************)
(* A plan of four jobs in three waves for TLC.                             *)
(*                                                                         *)
(* `a` is a matrix of two legs with max-parallel 1, fail-fast and          *)
(* cancel-in-progress, and shares its concurrency group with `b`.  `c`     *)
(* needs `a` but runs always(), as two parallel legs without fail-fast     *)
(* that compete for one worker.  `d` needs `b` and `c`.                    *)
(***************************************************************************)
EXTENDS Scheduler

MCGroups == {"a", "b", "c", "d"}
MCLegs == {"a1", "a2", "b1", "c1", "c2", "d1"}
MCGroupOf == [l \in MCLegs |->
  CASE l \in {"a1", "a2"} -> "a" [] l = "b1" -> "b" [] l \in {"c1", "c2"} -> "c" [] l = "d1" -> "d"]
MCIndex == [l \in MCLegs |-> IF l \in {"a2", "c2"} THEN 2 ELSE 1]
MCLegCount == [g \in MCGroups |-> IF g \in {"a", "c"} THEN 2 ELSE 1]
MCMaxParallel == [g \in MCGroups |-> IF g = "c" THEN 2 ELSE 1]
MCFailFast == [g \in MCGroups |-> g # "c"]
MCWave == [g \in MCGroups |-> CASE g \in {"a", "b"} -> 0 [] g = "c" -> 1 [] g = "d" -> 2]
MCNeeds == [g \in MCGroups |-> CASE g = "c" -> {"a"} [] g = "d" -> {"b", "c"} [] OTHER -> {}]
MCCondition == [g \in MCGroups |-> IF g = "c" THEN "always" ELSE "implicit"]
MCKey == [l \in MCLegs |-> IF l \in {"a1", "a2", "b1"} THEN "k" ELSE "none"]
MCCancel == [l \in MCLegs |-> l \in {"a1", "a2"}]
=============================================================================
