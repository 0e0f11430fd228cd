----------------------------- MODULE MatrixPlan -----------------------------
(***************************************************************************)
(* A job's strategy.  What the planner can fold it expands at once; a      *)
(* matrix that depends on outputs of other jobs is only checked for errors *)
(* that are certain, kept as written, and expanded by the run with the     *)
(* same algorithm: product, then excludes, then includes, one entry a step.*)
(***************************************************************************)
EXTENDS Integers, Sequences, FiniteSets, SequencesExt, FiniteSetsExt, TLC

CONSTANTS
  Cap,       \* max_matrix_legs
  Sources    \* authored strategies, see Strategy below

\* A strategy is [kind, when, shaped, axes, include, exclude, failFast, maxParallel].
\* kind "inline" or "expr" (one expression for the whole matrix, known at
\* plan or at run time by `when`, `shaped` if it is an object); an axis is
\* <<key, items>>, an item <<when, kind, values>> with kind "lit", "array" or
\* "scalar"; an entry is [when, object, vals]; a control <<when, type, value>>.
VARIABLES strategy, phase, axes, legs, extra, excludes, includes, deadExcludes

matrixVars == <<strategy, phase, axes, legs, extra, excludes, includes, deadExcludes>>

\* ------------------------------------------------------------- planning
Items(s) == {s.axes[i][2][j] : <<i, j>> \in {p \in (1..Len(s.axes)) \X (1..4) : p[2] <= Len(s.axes[p[1]][2])}}
Entries(s) == ToSet(s.include) \cup ToSet(s.exclude)
CollectDeferred(s) ==
  IF s.kind = "expr" THEN s.when = "run"
  ELSE \/ \E item \in Items(s) : item[1] = "run"
       \/ \E e \in Entries(s) : e.when = "run"

AxisKnown(items) ==
  LET sizes == [i \in DOMAIN items |-> IF items[i][2] = "lit" THEN 1
                                       ELSE IF items[i][1] = "run" THEN 0 ELSE Len(items[i][3])]
  IN FoldLeft(LAMBDA a, b : a + b, 0, sizes)
Product(sizes) ==
  IF sizes = <<>> \/ 0 \in ToSet(sizes) THEN 0 ELSE FoldLeft(LAMBDA a, b : a * b, 1, sizes)
ProductAllowed(sizes) == Product(sizes) <= Cap

\* Errors that are certain although another part of the matrix is deferred.
ValidStaticFragments(s) ==
  s.kind = "expr" \/
    /\ \A item \in Items(s) : item[1] = "plan" => item[2] # "scalar"
    /\ ProductAllowed([i \in DOMAIN s.axes |-> AxisKnown(s.axes[i][2])])
    /\ \A i \in DOMAIN s.exclude : DOMAIN s.exclude[i].vals # {}

ControlOK(control, type) ==
  /\ control[2] = type
  /\ type = "number" => control[3] >= 1
ControlsOK(s, when) ==
  /\ s.failFast[1] = when => ControlOK(s.failFast, "bool")
  /\ s.maxParallel[1] = when => s.maxParallel[2] = "absent" \/ ControlOK(s.maxParallel, "number")

\* Every value in its place: arrays are spliced, anything else that an
\* expression gives is an error, and so is an entry that is not an object.
Convertible(s) ==
  /\ s.kind = "expr" => s.shaped
  /\ \A item \in Items(s) : item[2] # "scalar"
  /\ \A e \in Entries(s) : e.object
AxisValues(items) == FlattenSeq([i \in DOMAIN items |-> items[i][3]])

Init ==
  /\ strategy \in Sources
  /\ phase = "plan" /\ axes = <<>> /\ legs = <<>> /\ extra = <<>>
  /\ excludes = <<>> /\ includes = <<>> /\ deadExcludes = 0

Refuse == phase' = "refused" /\ UNCHANGED <<strategy, axes, legs, extra, excludes, includes, deadExcludes>>

RunProduct(values) ==
  IF Product([i \in DOMAIN values |-> Len(values[i][2])]) = 0 THEN <<>>
  ELSE FoldLeft(LAMBDA combos, axis :
                  FlattenSeq([c \in DOMAIN combos |->
                    [v \in DOMAIN axis[2] |-> (axis[1] :> axis[2][v]) @@ combos[c]]]),
                <<<<>>>>, values)
StartExpansion(s) ==
  LET values == [i \in DOMAIN s.axes |-> <<s.axes[i][1], AxisValues(s.axes[i][2])>>]
  IN IF ~Convertible(s) \/ ~ProductAllowed([i \in DOMAIN values |-> Len(values[i][2])])
     THEN Refuse
     ELSE /\ axes' = values
          /\ legs' = RunProduct(values)
          /\ excludes' = s.exclude /\ includes' = s.include
          /\ phase' = "exclude"
          /\ UNCHANGED <<strategy, extra, deadExcludes>>

PlanStrategy ==
  /\ phase = "plan"
  /\ IF ~ControlsOK(strategy, "plan") THEN Refuse
     ELSE IF ~CollectDeferred(strategy) THEN StartExpansion(strategy)
     ELSE IF ~ValidStaticFragments(strategy) THEN Refuse
     ELSE /\ phase' = "deferred"
          /\ UNCHANGED <<strategy, axes, legs, extra, excludes, includes, deadExcludes>>
MaterializeMatrix == phase = "deferred" /\ StartExpansion(strategy)

\* ------------------------------------------------------------ the phases
MatchesExclude(entry, combo) ==
  \A k \in DOMAIN entry : k \in DOMAIN combo /\ combo[k] = entry[k]
Exclude ==
  /\ phase = "exclude" /\ excludes # <<>>
  /\ LET entry == Head(excludes).vals
         left == SelectSeq(legs, LAMBDA c : ~MatchesExclude(entry, c))
     IN IF DOMAIN entry = {} THEN Refuse
        ELSE /\ legs' = left
             /\ deadExcludes' = IF left = legs THEN deadExcludes + 1 ELSE deadExcludes
             /\ excludes' = Tail(excludes)
             /\ UNCHANGED <<strategy, phase, axes, extra, includes>>
BeginIncludes ==
  /\ phase = "exclude" /\ excludes = <<>>
  /\ phase' = "include"
  /\ UNCHANGED <<strategy, axes, legs, extra, excludes, includes, deadExcludes>>

OriginalKeys == {axes[i][1] : i \in DOMAIN axes}
MutFits(entry, leg) ==   \* keys that an include has added count as original
  \A k \in DOMAIN entry \cap DOMAIN leg : leg[k] = entry[k]
Fits(entry, leg) ==
  \A k \in DOMAIN entry \cap OriginalKeys : k \in DOMAIN leg /\ leg[k] = entry[k]
Include ==
  /\ phase = "include" /\ includes # <<>>
  /\ LET entry == Head(includes).vals
         fit == \E i \in DOMAIN legs : Fits(entry, legs[i])
     IN IF ~fit /\ Len(legs) + Len(extra) + 1 > Cap THEN Refuse
        ELSE /\ legs' = [i \in DOMAIN legs |-> IF Fits(entry, legs[i]) THEN entry @@ legs[i] ELSE legs[i]]
             /\ extra' = IF fit THEN extra ELSE Append(extra, entry)
             /\ includes' = Tail(includes)
             /\ UNCHANGED <<strategy, phase, axes, excludes, deadExcludes>>

\* The legs in order, and the controls that were left to the run.
Finish ==
  /\ phase = "include" /\ includes = <<>>
  /\ IF ~ControlsOK(strategy, "run") THEN Refuse
     ELSE /\ phase' = "done"
          /\ legs' = legs \o extra
          /\ UNCHANGED <<strategy, axes, extra, excludes, includes, deadExcludes>>

Next == PlanStrategy \/ MaterializeMatrix \/ Exclude \/ BeginIncludes \/ Include \/ Finish

Spec == Init /\ [][Next]_matrixVars

\* --------------------------------------------------------- correctness
\* GitHub's rule, without an order of steps: leg n of the product is n in the
\* mixed radix of the axes; a leg survives when no exclude lies within it; an
\* added key has the value of the last include that fits the original leg.
RefAxes == [i \in DOMAIN strategy.axes |-> <<strategy.axes[i][1], AxisValues(strategy.axes[i][2])>>]
RefSizes == [i \in DOMAIN RefAxes |-> Len(RefAxes[i][2])]
Radix(i) == FoldLeft(LAMBDA a, b : a * b, 1, SubSeq(RefSizes, i + 1, Len(RefSizes)))
RefLeg(n) ==
  [k \in {RefAxes[i][1] : i \in DOMAIN RefAxes} |->
     LET i == CHOOSE x \in DOMAIN RefAxes : RefAxes[x][1] = k
     IN RefAxes[i][2][(((n - 1) \div Radix(i)) % RefSizes[i]) + 1]]
Within(entry, leg) == \A k \in DOMAIN entry : k \in DOMAIN leg /\ leg[k] = entry[k]
RefBase ==
  SelectSeq([n \in 1..Product(RefSizes) |-> RefLeg(n)],
            LAMBDA leg : \A i \in DOMAIN strategy.exclude : ~Within(strategy.exclude[i].vals, leg))
RefFits(i, leg) ==
  \A k \in DOMAIN strategy.include[i].vals \cap {RefAxes[a][1] : a \in DOMAIN RefAxes} :
    leg[k] = strategy.include[i].vals[k]
RefExtended(leg) ==
  LET fits == {i \in DOMAIN strategy.include : RefFits(i, leg)}
      keys == UNION {DOMAIN strategy.include[i].vals : i \in fits}
  IN [k \in keys |-> strategy.include[Max({i \in fits : k \in DOMAIN strategy.include[i].vals})].vals[k]] @@ leg
RefExtra ==
  SelectSeq(strategy.include, LAMBDA e : ~\E n \in DOMAIN RefBase :
              \A k \in DOMAIN e.vals \cap {RefAxes[a][1] : a \in DOMAIN RefAxes} : RefBase[n][k] = e.vals[k])
RefLegs == [n \in DOMAIN RefBase |-> RefExtended(RefBase[n])] \o [n \in DOMAIN RefExtra |-> RefExtra[n].vals]
RefRefused ==
  \/ ~ControlsOK(strategy, "plan") \/ ~ControlsOK(strategy, "run")
  \/ ~Convertible(strategy)
  \/ \E i \in DOMAIN strategy.exclude : strategy.exclude[i].vals = <<>>
  \/ Product(RefSizes) > Cap \/ Len(RefLegs) > Cap

\* Whatever part of a strategy is left to the run, the job gets exactly the
\* legs the rule gives, and the plan refuses early only what the run would
\* have refused as well (validate_static_fragments, run_algorithm).
LegsFollowTheRule ==
  /\ phase = "done" => ~RefRefused /\ legs = RefLegs
  /\ phase = "refused" => RefRefused
=============================================================================
