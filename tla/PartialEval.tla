---------------------------- MODULE PartialEval ----------------------------
(***************************************************************************)
(* Plan-time partial evaluation.  An expression is folded against what the *)
(* planner knows: it becomes a value, or a residual expression with the    *)
(* reasons why the rest has to wait for the run.  The reasons are the      *)
(* context a subtree touches ("needs", "steps", "env", "status", ...); the *)
(* reason "error" stands for a classification that itself fails.           *)
(*                                                                         *)
(* A fold context fc has the roots' static values, the slots of the needed *)
(* jobs and of the earlier steps, the github properties that only the run  *)
(* knows, the deferred parts of matrix and strategy, the env chain, and    *)
(* whether secrets are forbidden (job conditions).                         *)
(***************************************************************************)
EXTENDS ExprEval, FiniteSets

\* -------------------------------------------------------- env chains
EmptyChain == [resolved |-> <<>>, deferred |-> <<>>, mutable |-> FALSE, stable |-> {}]
DeferredReasons(chain, name) == UNION {d[2] : d \in {e \in ToSet(chain.deferred) : e[1] = name}}
IsRuntimeMutable(chain, name) == chain.mutable /\ name \notin chain.stable
MutAfterExecutableStep(chain) == chain   \* what a step may export is not expected
AfterExecutableStep(chain) == [chain EXCEPT !.mutable = TRUE, !.stable = {}]

StaticContext(fc) ==
  [roots |-> [fc.roots EXCEPT !.env = Obj("fresh", fc.env.resolved, TRUE)], status |-> "success"]

\* ---------------------------------------------------- classification
FoldedValue(v) == IF IsErr(v) THEN v ELSE <<"val", v>>
Residual(e, reasons) == <<"res", e, reasons>>
IsPrimitiveFold(f) == f[1] = "val" /\ ~IsCollection(f[2])
\* A value spliced into a residual: arrays and objects become their display
\* strings.
ValueToLiteral(v) == IF IsCollection(v) THEN Lit(Str(ToDisplayString(v))) ELSE Lit(v)
SplitExpr(f) == IF f[1] = "val" THEN ValueToLiteral(f[2]) ELSE f[2]
SplitReasons(f) == IF f[1] = "val" THEN {} ELSE f[3]

RECURSIVE ExpressionRoot(_)
ExpressionRoot(e) ==
  CASE e[1] = "name" -> e[2]
    [] e[1] \in {"idx", "star"} -> ExpressionRoot(e[2])
    [] OTHER -> "none"

Field(text) == OrdinalKey(text)
\* The point where the static path of an expression stops for good.
PathEndsHere(root, keys, fc) ==
  CASE root = "github" -> keys # <<>> /\ keys[1] \in fc.githubDeferred
    [] root \in {"needs", "steps"} ->
         /\ keys # <<>>
         /\ \/ keys[1] \notin (IF root = "needs" THEN DOMAIN fc.needs ELSE fc.steps)
            \/ Len(keys) > 1 /\ (keys[2] # Field(fc.outputsField) \/ Len(keys) > 2)
    [] OTHER -> FALSE

BareRoot(root, fc) ==
  CASE root = "secrets" -> IF fc.secretsForbidden THEN {"error"} ELSE {"secrets"}
    [] root \in {"github", "runner", "job"} -> {root}
    [] root = "needs" -> IF DOMAIN fc.needs # {} THEN {"needs"} ELSE {}
    [] root = "matrix" -> IF fc.matrixDeferred THEN {"matrix"} ELSE {}
    [] root = "strategy" -> IF fc.strategyDeferred # {} THEN {"strategy"} ELSE {}
    [] root = "steps" -> IF fc.steps # {} THEN {"steps"} ELSE {}
    [] OTHER -> {}

NeedsPath(keys, fc) ==
  LET outputs == fc.needs[keys[1]]
      waits == \/ Len(keys) = 1
               \/ Len(keys) = 2 /\ keys[2] = Field(fc.outputsField) /\ outputs # {}
               \/ Len(keys) > 2 /\ keys[2] = Field(fc.outputsField) /\ keys[3] \in outputs
               \/ Len(keys) > 1 /\ keys[2] = Field(fc.resultField)
  IN IF keys[1] \in DOMAIN fc.needs /\ waits THEN {"needs"} ELSE {}
StepsPath(keys, fc) ==
  IF keys[1] \in fc.steps
     /\ (Len(keys) = 1 \/ keys[2] \in {Field(f) : f \in {fc.outputsField} \cup fc.stepFields})
  THEN {"steps"} ELSE {}
\* keys are the segments as they are looked up; env alone keeps their case.
FieldsOf(segs) == [i \in DOMAIN segs |-> Field(segs[i])]
ClassifyKeys(root, segs, keys, fc) ==
  CASE root = "github" ->
         IF keys[1] \in fc.githubRuntime \cup fc.githubDeferred THEN {"github"} ELSE {}
    [] root = "needs" -> NeedsPath(keys, fc)
    [] root = "steps" -> StepsPath(keys, fc)
    [] root = "strategy" -> IF keys[1] \in fc.strategyDeferred THEN {"strategy"} ELSE {}
    [] root = "env" -> DeferredReasons(fc.env, segs[1])
                       \cup (IF IsRuntimeMutable(fc.env, segs[1]) THEN {"env"} ELSE {})
    [] OTHER -> BareRoot(root, fc)
ClassifyPath(path, fc) == ClassifyKeys(path[1], path[2], FieldsOf(path[2]), fc)

\* ------------------------------------------------------------ folding
RECURSIVE DeferReasons(_, _), FoldExpr(_, _), StaticPath(_, _)

\* <<root, segments>>, <<"dynamic">> when a segment is not known, or
\* <<"error">>.  An index below a primitive adds no segment.
BelowPath(up, target, index) ==
  IF IsErr(target) THEN <<"error">>
  ELSE IF IsPrimitiveFold(target) THEN up
  ELSE IF IsErr(index) THEN <<"error">>
  ELSE IF IsPrimitiveFold(index) THEN <<up[1], Append(up[2], ToDisplayString(index[2]))>>
  ELSE <<"dynamic">>
StaticPath(e, fc) ==
  LET up == StaticPath(e[2], fc)
  IN CASE e[1] = "name" -> <<e[2], <<>>>>
       [] e[1] = "idx" -> IF up[1] \in {"dynamic", "error"} \/ PathEndsHere(up[1], FieldsOf(up[2]), fc) THEN up
                          ELSE BelowPath(up, FoldExpr(e[2], fc), FoldExpr(e[3], fc))
       [] OTHER -> <<"dynamic">>

DynamicIndex(e, fc) ==
  LET target == FoldExpr(e[2], fc)
  IN (IF ExpressionRoot(e[2]) = "env" THEN {"env"} ELSE {})
     \cup (IF IsErr(target) THEN {"error"}
           ELSE IF IsPrimitiveFold(target) THEN {}
           ELSE SplitReasons(target) \cup DeferReasons(e[3], fc))

IndexReasons(e, path, fc) ==
  CASE path[1] = "error" -> {"error"}
    [] path[1] = "dynamic" -> DynamicIndex(e, fc)
    [] OTHER -> ClassifyPath(path, fc)
DeferReasons(e, fc) ==
  CASE e[1] = "name" -> BareRoot(e[2], fc)
    [] e[1] = "idx" -> IndexReasons(e, StaticPath(e, fc), fc)
    [] OTHER -> (IF e[1] = "call" /\ e[2] \in StatusFunctions THEN {"status"} ELSE {})
                \cup UNION {DeferReasons(SubExprs(e)[i], fc) : i \in DOMAIN SubExprs(e)}
ReasonsOf(args, fc) == UNION {DeferReasons(args[i], fc) : i \in DOMAIN args}

\* A residual whose own classification failed is an error of the fold.
FinishResidual(e, reasons) ==
  IF "error" \in reasons THEN Err("classify") ELSE Residual(e, reasons)
\* What a fold leaves of e: evaluated when nothing in it waits.
Pending(e, reasons) == <<"pending", e, reasons>>
Finished(f, fc) ==
  IF f[1] # "pending" THEN f
  ELSE IF f[3] = {} THEN FoldedValue(Evaluate(f[2], StaticContext(fc)))
  ELSE FinishResidual(f[2], f[3])
FinishCall(f, args, reasons) == Pending(Call(f, args), reasons)

FoldLogical(op, l, r, fc) ==
  LET lhs == FoldExpr(l, fc)
      decided == IF op = "&&" THEN IsFalsy(lhs[2]) ELSE ~IsFalsy(lhs[2])
  IN Try(lhs, IF lhs[1] = "res"
              THEN FinishResidual(Bin(op, lhs[2], r), lhs[3] \cup DeferReasons(r, fc))
              ELSE IF decided THEN lhs ELSE FoldExpr(r, fc))
FoldStrict(op, l, r, fc) ==
  LET a == FoldExpr(l, fc)
      b == FoldExpr(r, fc)
  IN Try(a, Try(b, IF a[1] = "val" /\ b[1] = "val" THEN <<"val", Bool(StrictOp(op, a[2], b[2]))>>
                   ELSE Residual(Bin(op, SplitExpr(a), SplitExpr(b)),
                                 SplitReasons(a) \cup SplitReasons(b))))
FoldNot(e, fc) ==
  LET f == FoldExpr(e, fc)
  IN Try(f, IF f[1] = "val" THEN <<"val", Bool(IsFalsy(f[2]))>> ELSE Residual(Not(f[2]), f[3]))

FoldGuarded(f, args, fc) ==
  LET a == FoldExpr(args[1], fc)
      b == FoldExpr(args[2], fc)
  IN Try(a, IF a[1] = "res"
            THEN FinishCall(f, <<a[2], args[2]>>, a[3] \cup DeferReasons(args[2], fc))
            ELSE IF SkipsSecond(f, a[2])
            THEN FinishCall(f, <<ValueToLiteral(a[2]), args[2]>>, {})
            ELSE Try(b, FinishCall(f, <<ValueToLiteral(a[2]), SplitExpr(b)>>, SplitReasons(b))))
FoldJoin(args, fc) ==
  LET a == FoldExpr(args[1], fc)
      b == FoldExpr(args[2], fc)
      needsSeparator == a[2][1] = "arr" /\ Len(a[2][3]) >= 2 /\ Len(args) > 1
  IN Try(a, IF a[1] = "res"
            THEN FinishCall("join", <<a[2]>> \o Tail(args), a[3] \cup ReasonsOf(Tail(args), fc))
            ELSE IF ~needsSeparator
            THEN FinishCall("join", <<ValueToLiteral(a[2])>> \o Tail(args), {})
            ELSE Try(b, FinishCall("join", <<ValueToLiteral(a[2]), SplitExpr(b)>>, SplitReasons(b))))

\* The format scan: arguments are folded in the order of their placeholders
\* until the first that waits; the later ones stay as they were written.
\* st = [at, args, reasons, waiting, seen].
FoldArgument(st, n, args, fc) ==
  LET f == FoldExpr(args[n], fc)
  IN IF n \in st.seen THEN <<"ok", st>>
     ELSE IF st.waiting
     THEN <<"ok", [st EXCEPT !.seen = @ \cup {n}, !.reasons = @ \cup DeferReasons(args[n], fc)]>>
     ELSE Try(f, <<"ok", [st EXCEPT !.seen = @ \cup {n}, !.args[n] = SplitExpr(f),
                                    !.waiting = f[1] = "res", !.reasons = @ \cup SplitReasons(f)]>>)
RECURSIVE FoldPlaceholders(_, _, _, _)
FoldPlaceholders(text, args, fc, st) ==
  LET stop(new) == IF new.waiting THEN <<"done", new>> ELSE Err("format")
      next(tok, new) ==
        Try(new, IF tok[1] = "spec" THEN stop(new[2])
                 ELSE FoldPlaceholders(text, args, fc, [new[2] EXCEPT !.at = tok[3]]))
      token(tok) ==
        IF tok[1] = "lit" THEN FoldPlaceholders(text, args, fc, [st EXCEPT !.at = tok[3]])
        ELSE IF tok[1] = "bad" \/ tok[2] >= Len(args) THEN stop(st)
        ELSE next(tok, FoldArgument(st, tok[2] + 1, args, fc))
  IN IF st.at > Len(text) THEN <<"done", st>> ELSE token(NextToken(text, st.at))
FoldFormat(args, fc) ==
  LET p == FoldExpr(args[1], fc)
      scanned(scan) == Try(scan, FinishCall("format", <<ValueToLiteral(p[2])>> \o scan[2].args, scan[2].reasons))
  IN Try(p, IF p[1] = "res"
            THEN FinishCall("format", <<p[2]>> \o Tail(args), p[3] \cup ReasonsOf(Tail(args), fc))
            ELSE scanned(FoldPlaceholders(ToDisplayString(p[2]), Tail(args), fc,
                   [at |-> 1, args |-> Tail(args), reasons |-> {}, waiting |-> FALSE, seen |-> {}])))
RECURSIVE FoldCase(_, _)
FoldCase(args, fc) ==
  LET p == FoldExpr(args[1], fc)
  IN IF Len(args) = 1 THEN p
     ELSE Try(p, IF p[1] = "res"
                 THEN FinishCall("case", <<p[2]>> \o Tail(args), p[3] \cup ReasonsOf(Tail(args), fc))
                 ELSE IF p[2] = Bool(FALSE) THEN FoldCase(SubSeq(args, 3, Len(args)), fc)
                 ELSE IF p[2] = Bool(TRUE) THEN FoldExpr(args[2], fc)
                 ELSE Err("case"))
FoldAll(f, args, fc) ==
  LET a == FoldExpr(args[1], fc)
  IN Try(a, FinishCall(f, <<SplitExpr(a)>>, SplitReasons(a)))

FoldPending(e, reasons, fc) ==
  CASE e[1] = "bin" /\ e[2] \in {"&&", "||"} -> FoldLogical(e[2], e[3], e[4], fc)
    [] e[1] = "bin" /\ e[2] \notin {"&&", "||"} -> FoldStrict(e[2], e[3], e[4], fc)
    [] e[1] = "not" -> FoldNot(e[2], fc)
    [] e[1] = "call" /\ e[2] \in {"contains", "startswith", "endswith"} -> FoldGuarded(e[2], e[3], fc)
    [] e[1] = "call" /\ e[2] = "join" -> FoldJoin(e[3], fc)
    [] e[1] = "call" /\ e[2] = "format" -> FoldFormat(e[3], fc)
    [] e[1] = "call" /\ e[2] = "case" -> FoldCase(e[3], fc)
    [] e[1] = "call" /\ e[2] \in {"tojson", "fromjson"} -> FoldAll(e[2], e[3], fc)
    [] OTHER -> Residual(e, reasons)
FoldFor(e, reasons, fc) ==
  IF "error" \in reasons THEN Err("classify")
  ELSE Finished(IF reasons = {} THEN Pending(e, {}) ELSE FoldPending(e, reasons, fc), fc)
FoldExpr(e, fc) == FoldFor(e, DeferReasons(e, fc), fc)

\* ---------------------------------------------------------- templates
\* A template is a sequence of parts, <<"text", t>> or <<"hole", expression>>.
IsLoneHole(t) == Len(t) = 1 /\ t[1][1] = "hole"
HasHole(t) == \E i \in DOMAIN t : t[i][1] = "hole"
Concat(parts) == Str(FlattenSeq(parts))
EscapeBraces(s) == FlattenSeq([i \in DOMAIN s |-> IF s[i] \in {123, 125} THEN <<s[i], s[i]>> ELSE <<s[i]>>])
FirstErr(s) == IF \E i \in DOMAIN s : IsErr(s[i])
               THEN SelectSeq(s, LAMBDA v : IsErr(v))[1] ELSE <<"ok">>

Rendered(t, got) ==
  IF IsLoneHole(t) THEN got[1]
  ELSE Try(FirstErr(got), Concat([i \in DOMAIN t |-> ToDisplayString(got[i])]))
EvaluateTemplate(t, c) ==
  Rendered(t, [i \in DOMAIN t |-> IF t[i][1] = "text" THEN Str(t[i][2]) ELSE Evaluate(t[i][2], c)])

\* With a part that waits, the template becomes one format() call whose
\* pattern numbers every hole; f holds the folded parts.
FormatCall(t, f) ==
  LET hole(i) == Cardinality({j \in 1..(i - 1) : t[j][1] = "hole"})
      pattern == FlattenSeq([i \in DOMAIN t |-> IF t[i][1] = "text" THEN EscapeBraces(t[i][2])
                                                ELSE <<123>> \o DigitsOf[hole(i)] \o <<125>>])
      holes == SelectSeq([i \in DOMAIN t |-> <<t[i][1], f[i]>>], LAMBDA p : p[1] = "hole")
      arg(p) == IF p[2][1] = "val" THEN Lit(Str(ToDisplayString(p[2][2]))) ELSE p[2][2]
  IN Call("format", <<Lit(Str(pattern))>> \o [i \in DOMAIN holes |-> arg(holes[i])])
FoldedTemplate(t, f) ==
  LET reasons == UNION {SplitReasons(f[i]) : i \in DOMAIN f}
  IN IF IsLoneHole(t) THEN f[1]
     ELSE Try(FirstErr(f), IF reasons = {}
          THEN <<"val", Concat([i \in DOMAIN t |-> ToDisplayString(f[i][2])])>>
          ELSE Residual(FormatCall(t, f), reasons))
FoldTemplate(t, fc) ==
  FoldedTemplate(t, [i \in DOMAIN t |-> IF t[i][1] = "text" THEN <<"val", Str(t[i][2])>>
                                         ELSE FoldExpr(t[i][2], fc)])

\* One env layer on top of a chain: every entry is folded against the outer
\* chain; a name defined again forgets what it was.
AddToChain(chain, n, f, stable) ==
  LET others(s) == SelectSeq(s, LAMBDA e : e[1] # n)
  IN [chain EXCEPT
        !.resolved = others(@) \o (IF f[1] = "val" THEN <<<<n, Str(ToDisplayString(f[2]))>>>> ELSE <<>>),
        !.deferred = others(@) \o (IF f[1] = "res" THEN <<<<n, f[3]>>>> ELSE <<>>),
        !.stable = IF stable THEN @ \cup {n} ELSE @ \ {n}]
ExtendEnvChain(outer, layer, fc, stable) ==
  FoldLeft(LAMBDA chain, entry : AddToChain(chain, entry[1],
             FoldTemplate(entry[2], [fc EXCEPT !.env = outer, !.secretsForbidden = FALSE]), stable),
           outer, layer)
=============================================================================
