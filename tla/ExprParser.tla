----------------------------- MODULE ExprParser -----------------------------
(***************************************************************************)
(* The expression parser, one token at a time: a stack of frames (the      *)
(* whole expression, a group, the arguments of a call, an index), each     *)
(* with an operand and an operator stack.  A token is a name; tokens that  *)
(* the parser only accepts together ("f(", ".p", "[*]") are one token.     *)
(* Chains of && and || are kept flat while they grow and are built as a    *)
(* balanced tree when another construct needs them.                        *)
(***************************************************************************)
EXTENDS ExprEval

CONSTANTS
  Alphabets,   \* each parse draws its tokens from one of these sets
  MaxTokens    \* bound on the length of an expression

VARIABLES
  alphabet, \* the set of tokens in use
  read,     \* the tokens read
  frames,   \* the stack of frames
  failed,   \* the parser has returned an error
  outcome   \* <<>>, or <<expression>>, or <<error>> once the input has ended

parserVars == <<alphabet, read, frames, failed, outcome>>

Precedence(op) ==
  CASE op = "!" -> 5 [] op \in {"<", ">"} -> 4 [] op \in {"==", "!="} -> 3
    [] op = "&&" -> 2 [] op = "||" -> 1
BinaryOps == {"<", ">", "==", "!=", "&&", "||"}
FunctionOf == ("join(" :> "join") @@ ("case(" :> "case") @@ ("always(" :> "always") @@ ("nosuch(" :> "nosuch")

\* ---------------------------------------------- pending expressions
\* <<"atom", e>> or <<"chain", op, expressions>>; errors are Err(why).
WithinDepth(e) == IF ParserDepth(e) > MaxDepth THEN Err("depth") ELSE <<"atom", e>>
\* Neighbours are paired, level by level; an odd one out moves up unpaired.
PairUp(es, op) ==
  [i \in 1..((Len(es) + 1) \div 2) |->
     IF 2 * i > Len(es) THEN es[Len(es)] ELSE Bin(op, es[2 * i - 1], es[2 * i])]
RECURSIVE Balanced(_, _)
Balanced(es, op) == IF Len(es) = 1 THEN es[1] ELSE Balanced(PairUp(es, op), op)
IntoExpr(p) ==
  IF IsErr(p) THEN p
  ELSE WithinDepth(IF p[1] = "atom" THEN p[2] ELSE Balanced(p[3], p[2]))
ItemsOf(p, op) ==
  LET one(e) == Try(e, <<"ok", <<e[2]>>>>)
  IN IF p[1] = "chain" /\ p[2] = op THEN <<"ok", p[3]>> ELSE one(IntoExpr(p))
MergeLogical(op, l, r) ==
  LET merged(a, b) == Try(a, Try(b, <<"chain", op, a[2] \o b[2]>>))
  IN merged(ItemsOf(l, op), ItemsOf(r, op))

\* -------------------------------------------------- one frame's stacks
EmptyFrame(kind, name, target) ==
  [kind |-> kind, name |-> name, target |-> target, args |-> <<>>,
   operands |-> <<>>, operators |-> <<>>, expecting |-> TRUE, started |-> FALSE]
Operand(p, postfixable) == [value |-> p, postfixable |-> postfixable]
PushOperand(f, o) ==
  [f EXCEPT !.operands = Append(@, o), !.expecting = FALSE, !.started = TRUE]

\* reduce_top: the top operator takes its operands; the result is a frame
\* whose last operand may be an error.
Negated(b) == Try(b, WithinDepth(Not(b[2])))
Compared(op, a, b) == Try(a, Try(b, WithinDepth(Bin(op, a[2], b[2]))))
ReduceTop(f) ==
  LET op == Last(f.operators)
      n == Len(f.operands)
      r == f.operands[n].value
      l == f.operands[n - 1].value
      value == CASE op = "!" -> Negated(IntoExpr(r))
                 [] op \in {"&&", "||"} -> MergeLogical(op, l, r)
                 [] OTHER -> Compared(op, IntoExpr(l), IntoExpr(r))
      kept == SubSeq(f.operands, 1, IF op = "!" THEN n - 1 ELSE n - 2)
  IN [f EXCEPT !.operators = Front(@), !.operands = Append(kept, Operand(value, FALSE))]
FrameErr(f) == \E i \in DOMAIN f.operands : IsErr(f.operands[i].value)
RECURSIVE ReduceWhile(_, _)
ReduceWhile(f, level) ==
  IF f.operators = <<>> \/ FrameErr(f) THEN f
  ELSE IF Precedence(Last(f.operators)) < level THEN f
  ELSE ReduceWhile(ReduceTop(f), level)
Finish(f) ==
  LET whole(g) == IF FrameErr(g) THEN Err("depth") ELSE g.operands[1].value
  IN IF ~f.started \/ f.expecting THEN Err("unexpected end") ELSE whole(ReduceWhile(f, 0))

\* ------------------------------------------------------------- actions
Top == Last(frames)
Init ==
  /\ alphabet \in Alphabets
  /\ read = <<>> /\ frames = <<EmptyFrame("root", "", <<>>)>> /\ failed = FALSE /\ outcome = <<>>

Take(tok) ==
  /\ outcome = <<>> /\ ~failed /\ Len(read) < MaxTokens
  /\ tok \in alphabet
  /\ read' = Append(read, tok)
  /\ UNCHANGED <<alphabet, outcome>>
\* A token is accepted and the frames become `next`, or the parse fails.
Accept(ok, next) ==
  IF ok THEN frames' = next /\ failed' = failed ELSE failed' = TRUE /\ frames' = frames
Replace(f) == Append(Front(frames), f)

\* A literal (its value does not matter), or a name: a root, or unknown.
PushLiteral ==
  /\ Take("1")
  /\ Accept(Top.expecting, Replace(PushOperand(Top, Operand(<<"atom", Lit(Num(1))>>, FALSE))))
PushName ==
  \/ /\ Take("x")
     /\ Accept(Top.expecting, Replace(PushOperand(Top, Operand(<<"atom", Name("env")>>, TRUE))))
  \/ Take("unknown") /\ Accept(FALSE, frames)
PushNot ==
  /\ Take("!")
  /\ Accept(Top.expecting, Replace([Top EXCEPT !.operators = Append(@, "!"), !.started = TRUE]))
PushBinary ==
  \E op \in BinaryOps :
    /\ Take(op)
    /\ \E g \in {IF Top.expecting THEN Top ELSE ReduceWhile(Top, Precedence(op))} :
         Accept(~Top.expecting /\ ~FrameErr(g),
                Replace([g EXCEPT !.operators = Append(@, op), !.expecting = TRUE]))
OpenGroup ==
  /\ Take("(")
  /\ Accept(Top.expecting, Append(frames, EmptyFrame("group", "", <<>>)))
OpenCall ==
  \E tok \in DOMAIN FunctionOf :
    /\ Take(tok)
    /\ Accept(Top.expecting, Append(frames, EmptyFrame("call", FunctionOf[tok], <<>>)))

\* The operand that a postfix applies to: a name, a call, a group or a postfix.
MutTarget ==   \* a literal takes a postfix too
  IF Top.expecting THEN Err("postfix") ELSE IntoExpr(Last(Top.operands).value)
Target ==
  IF Top.expecting \/ ~Last(Top.operands).postfixable THEN Err("postfix")
  ELSE IntoExpr(Last(Top.operands).value)
PutPostfix(f, p) == PushOperand([f EXCEPT !.operands = Front(@)], Operand(p, TRUE))
OpenIndex ==
  /\ Take("[")
  /\ \E t \in {Target} :
       Accept(~IsErr(t), Append(Replace([Top EXCEPT !.operands = Front(@)]), EmptyFrame("index", "", <<t[2]>>)))
PostfixOf(tok, t) ==
  Try(t, WithinDepth(IF tok = ".p" THEN Index(t[2], Lit(Str(<<112>>))) ELSE Wildcard(t[2])))
Postfix ==
  \E tok \in {".p", ".*", "[*]"} :
    /\ Take(tok)
    /\ \E e \in {PostfixOf(tok, Target)} : Accept(~IsErr(e), Replace(PutPostfix(Top, e)))

\* validate_function: known, enough arguments, and an odd number for case.
ValidCall(name, n) ==
  name \in DOMAIN Arity /\ n \in Arity[name] /\ ~(name = "case" /\ n % 2 = 0)
\* The innermost frame ends and leaves p to the one below it.
Closing(p) ==
  Append(SubSeq(frames, 1, Len(frames) - 2), PushOperand(frames[Len(frames) - 1], Operand(p, TRUE)))
CallOf(args) == IF ValidCall(Top.name, Len(args)) THEN WithinDepth(Call(Top.name, args)) ELSE Err("call")
ClosedCall ==
  LET with(arg) == Try(arg, CallOf(Append(Top.args, arg[2])))
  IN IF Top.started THEN with(IntoExpr(Finish(Top)))
     ELSE IF Top.args = <<>> THEN CallOf(<<>>) ELSE Err("unexpected end")
CloseParen ==
  /\ Take(")")
  /\ \E p \in {CASE Top.kind = "group" -> Finish(Top)
                [] Top.kind = "call" -> ClosedCall
                [] OTHER -> Err("unexpected token")} : Accept(~IsErr(p), Closing(p))
CloseIndex ==
  /\ Take("]")
  /\ LET indexed(i) == Try(i, WithinDepth(Index(Top.target[1], i[2])))
     IN \E p \in {IF Top.kind = "index" THEN indexed(IntoExpr(Finish(Top))) ELSE Err("unexpected token")} :
          Accept(~IsErr(p), Closing(p))
NextArgument ==
  /\ Take(",")
  /\ \E arg \in {IF Top.kind = "call" THEN IntoExpr(Finish(Top)) ELSE Err("unexpected token")} :
       Accept(~IsErr(arg), Replace([EmptyFrame("call", Top.name, <<>>) EXCEPT !.args = Append(Top.args, arg[2])]))

\* After an error the rest of the input is never looked at.
Unread ==
  /\ failed /\ outcome = <<>> /\ Len(read) < MaxTokens
  /\ \E tok \in alphabet \cap {"x", ")", "]"} : read' = Append(read, tok)
  /\ UNCHANGED <<alphabet, frames, failed, outcome>>
End ==
  /\ outcome = <<>>
  /\ outcome' = <<IF failed \/ Len(frames) # 1 THEN Err("syntax") ELSE IntoExpr(Finish(Top))>>
  /\ UNCHANGED <<alphabet, read, frames, failed>>

Next ==
  \/ PushLiteral \/ PushName \/ PushNot \/ PushBinary \/ OpenGroup \/ OpenCall
  \/ OpenIndex \/ Postfix \/ CloseParen \/ CloseIndex \/ NextArgument \/ Unread \/ End

Spec == Init /\ [][Next]_parserVars

\* --------------------------------------------------------- correctness
\* The grammar, as the trees that a token sequence can be read as: binary
\* operators by level and to the left, then !, then postfixes of a primary.
RECURSIVE Trees(_, _), Arguments(_)
Arguments(ts) ==
  (IF ts = <<>> THEN {<<>>} ELSE {<<e>> : e \in Trees(ts, 1)})
  \cup UNION {{<<e>> \o rest : e \in Trees(SubSeq(ts, 1, i - 1), 1),
                               rest \in Arguments(SubSeq(ts, i + 1, Len(ts))) \ {<<>>}} :
                i \in {j \in DOMAIN ts : ts[j] = ","}}
Primary(ts) ==
  LET n == Len(ts)
      front(k) == SubSeq(ts, 1, n - k)
  IN (IF ts = <<"x">> THEN {Name("env")} ELSE {})
     \cup (IF n > 2 /\ ts[1] = "(" /\ ts[n] = ")" THEN Trees(SubSeq(ts, 2, n - 1), 1) ELSE {})
     \cup (IF n > 1 /\ ts[1] \in DOMAIN FunctionOf /\ ts[n] = ")"
           THEN {Call(FunctionOf[ts[1]], a) : a \in
                   {b \in Arguments(SubSeq(ts, 2, n - 1)) : ValidCall(FunctionOf[ts[1]], Len(b))}}
           ELSE {})
     \cup (IF n > 1 /\ ts[n] = ".p" THEN {Index(t, Lit(Str(<<112>>))) : t \in Trees(front(1), 6)} ELSE {})
     \cup (IF n > 1 /\ ts[n] \in {".*", "[*]"} THEN {Wildcard(t) : t \in Trees(front(1), 6)} ELSE {})
     \cup (IF n > 3 /\ ts[n] = "]"
           THEN UNION {{Index(t, e) : t \in Trees(SubSeq(ts, 1, i - 1), 6),
                                      e \in Trees(SubSeq(ts, i + 1, n - 1), 1)} :
                         i \in {j \in 2..(n - 2) : ts[j] = "["}}
           ELSE {})
Trees(ts, level) ==
  IF ts = <<>> THEN {}
  ELSE IF level = 6 THEN Primary(ts)
  ELSE IF level = 5
  THEN Primary(ts) \cup (IF ts = <<"1">> THEN {Lit(Num(1))} ELSE {})
       \cup (IF ts[1] = "!" THEN {Not(e) : e \in Trees(Tail(ts), 5)} ELSE {})
  ELSE Trees(ts, level + 1)
       \cup UNION {{Bin(ts[i], l, r) : l \in Trees(SubSeq(ts, 1, i - 1), level),
                                       r \in Trees(SubSeq(ts, i + 1, Len(ts)), level + 1)} :
                     i \in {j \in DOMAIN ts : ts[j] \in BinaryOps /\ Precedence(ts[j]) = level}}

\* Chains of one logical operator, however they are nested, in one order.
RECURSIVE Chain(_, _), Flat(_)
Chain(e, op) ==
  IF e[1] = "bin" /\ e[2] = op THEN Chain(e[3], op) \o Chain(e[4], op) ELSE <<Flat(e)>>
Flat(e) ==
  CASE e[1] = "bin" /\ e[2] \in {"&&", "||"} -> <<"chain", e[2], Chain(e, e[2])>>
    [] e[1] = "bin" /\ e[2] \notin {"&&", "||"} -> Bin(e[2], Flat(e[3]), Flat(e[4]))
    [] e[1] = "call" -> Call(e[2], [i \in DOMAIN e[3] |-> Flat(e[3][i])])
    [] e[1] \in {"not", "star"} -> <<e[1], Flat(e[2])>>
    [] e[1] = "idx" -> Index(Flat(e[2]), Flat(e[3]))
    [] OTHER -> e

\* The stack parser (parse_tokens) accepts exactly the grammar's expressions
\* within the depth limit, and reads each as the grammar's one tree, up to
\* the balancing of && and || chains, which no evaluation order depends on.
ParserAgrees ==
  outcome # <<>> =>
    LET trees == Trees(read, 1)
    IN IF IsErr(outcome[1]) THEN \A t \in trees : ParserDepth(t) > MaxDepth
       ELSE \E t \in trees : trees = {t} /\ Flat(outcome[1][2]) = Flat(t) /\ ParserDepth(t) <= MaxDepth
=============================================================================
