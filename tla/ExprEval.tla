----------------------------- MODULE ExprEval ------------------------------
(***************************************************************************)
(* Evaluation of a parsed expression against a context, with the functions *)
(* that need recursion: format, toJSON and fromJSON.  An expression is a   *)
(* tagged tuple; a context gives each root name its value and the run its  *)
(* status.  The result is a value or <<"err", why>>.                       *)
(***************************************************************************)
EXTENDS Expressions

CONSTANTS
  MaxDepth,     \* MAX_EXPRESSION_DEPTH, scaled down
  MaxJsonDepth  \* MAX_JSON_DEPTH, scaled down

ASSUME DepthsArePositive == MaxDepth \in Nat \ {0} /\ MaxJsonDepth \in Nat \ {0}

\* --------------------------------------------------------- expressions
Lit(v) == <<"lit", v>>
Name(root) == <<"name", root>>
Not(e) == <<"not", e>>
Bin(op, l, r) == <<"bin", op, l, r>>
Index(t, i) == <<"idx", t, i>>
Wildcard(t) == <<"star", t>>
Call(f, args) == <<"call", f, args>>

SubExprs(e) ==
  CASE e[1] \in {"not", "star"} -> <<e[2]>>
    [] e[1] = "bin" -> <<e[3], e[4]>>
    [] e[1] = "idx" -> <<e[2], e[3]>>
    [] e[1] = "call" -> e[3]
    [] OTHER -> <<>>

RECURSIVE CallsStatusFunction(_)
CallsStatusFunction(e) ==
  \/ e[1] = "call" /\ e[2] \in StatusFunctions
  \/ \E i \in DOMAIN SubExprs(e) : CallsStatusFunction(SubExprs(e)[i])

\* The nesting the evaluator walks: every node counts.
RECURSIVE EvaluationDepth(_)
EvaluationDepth(e) ==
  FoldLeft(LAMBDA d, c : IF EvaluationDepth(c) + 1 > d THEN EvaluationDepth(c) + 1 ELSE d,
           1, SubExprs(e))

\* The nesting the parser limits: a logical operator directly below the same
\* operator counts as part of one flat chain.
RECURSIVE ParserDepth(_)
ParserDepth(e) ==
  LET below(c) == ParserDepth(c)
                  + (IF e[1] = "bin" /\ c[1] = "bin" /\ e[2] \in {"&&", "||"} /\ c[2] = e[2]
                     THEN 0 ELSE 1)
  IN FoldLeft(LAMBDA d, c : IF below(c) > d THEN below(c) ELSE d, 1, SubExprs(e))

Err(why) == <<"err", why>>
IsErr(v) == v[1] = "err"
\* The `?` operator: the first error wins.
Try(v, then) == IF IsErr(v) THEN v ELSE then

\* -------------------------------------------------------------- format
\* The scanner's next token at position i: <<kind, content, next position>>.
ScanPlaceholder(s, i) ==
  LET stop == {j \in (i + 1)..(Len(s) + 1) : j > Len(s) \/ s[j] \notin Digits}
      j == CHOOSE k \in stop : \A m \in stop : k <= m
      ends == {k \in j..Len(s) : s[k] = 125}
      e == CHOOSE k \in ends : \A m \in ends : k <= m
  IN IF j = i + 1 \/ j > Len(s) \/ ends = {} THEN <<"bad", 0, i>>
     ELSE IF s[j] = 125 THEN <<"arg", DigitsValue(SubSeq(s, i + 1, j - 1)), j + 1>>
     ELSE IF s[j] = 58
     THEN <<IF e = j + 1 THEN "arg" ELSE "spec", DigitsValue(SubSeq(s, i + 1, j - 1)), e + 1>>
     ELSE <<"bad", 0, i>>
NextToken(s, i) ==
  IF s[i] \in {123, 125} /\ i < Len(s) /\ s[i + 1] = s[i] THEN <<"lit", s[i], i + 2>>
  ELSE IF s[i] = 123 THEN ScanPlaceholder(s, i)
  ELSE IF s[i] = 125 THEN <<"bad", 0, i>>
  ELSE <<"lit", s[i], i + 1>>
\* Arguments are evaluated when their first placeholder is reached, so an
\* argument that no placeholder reaches is never evaluated.
Formatted(tok, args) ==
  IF tok[1] = "lit" THEN Str(<<tok[2]>>)
  ELSE IF tok[1] = "bad" \/ tok[2] >= Len(args) THEN Err("format")
  ELSE Try(args[tok[2] + 1],
           IF tok[1] = "spec" THEN Err("format") ELSE Str(ToDisplayString(args[tok[2] + 1])))
Joined(here, rest) == Try(here, Try(rest, Str(here[2] \o rest[2])))
RECURSIVE Format(_, _, _)
Format(s, i, args) ==
  LET from(tok) == Joined(Formatted(tok, args), Format(s, tok[3], args))
  IN IF i > Len(s) THEN Str(<<>>) ELSE from(NextToken(s, i))

\* ---------------------------------------------------------------- JSON
\* The writer's layout (newlines and indentation) is left out.
Quote == 34
Backslash == 92
JsonString(s) ==
  <<Quote>> \o FlattenSeq([i \in DOMAIN s |-> IF s[i] \in {Quote, Backslash}
                                              THEN <<Backslash, s[i]>> ELSE <<s[i]>>]) \o <<Quote>>
Separated(parts) ==
  IF parts = <<>> THEN <<>> ELSE FoldLeft(LAMBDA acc, p : acc \o Comma \o p, parts[1], Tail(parts))
RECURSIVE ToJson(_)
ToJson(v) ==
  CASE v[1] = "null" -> <<110, 117, 108, 108>>
    [] v[1] = "str" -> JsonString(v[2])
    [] v[1] = "arr" -> <<91>> \o Separated([i \in DOMAIN v[3] |-> ToJson(v[3][i])]) \o <<93>>
    [] v[1] = "obj" -> <<123>> \o Separated([i \in DOMAIN v[3] |->
                          JsonString(v[3][i][1]) \o <<58>> \o ToJson(v[3][i][2])]) \o <<125>>
    [] OTHER -> ToDisplayString(v)

\* The reader: <<value or error, next position>>.  It accepts a trailing comma,
\* an omitted element (read as empty text) and, like the code, anything after
\* the first complete value.
At(s, i) == IF i \in DOMAIN s THEN s[i] ELSE 0
RECURSIVE SkipBlank(_, _)
SkipBlank(s, i) == IF At(s, i) = 32 THEN SkipBlank(s, i + 1) ELSE i
RECURSIVE QuotedString(_, _, _, _)
QuotedString(s, i, quote, acc) ==
  IF i > Len(s) THEN <<Err("json"), i>>
  ELSE IF s[i] = quote THEN <<Str(acc), i + 1>>
  ELSE IF s[i] # Backslash THEN QuotedString(s, i + 1, quote, Append(acc, s[i]))
  ELSE IF At(s, i + 1) \in {34, 39, 92, 47} THEN QuotedString(s, i + 2, quote, Append(acc, s[i + 1]))
  ELSE <<Err("json"), i>>
Keywords == {<<<<110, 117, 108, 108>>, Null>>, <<True, Bool(TRUE)>>, <<False, Bool(FALSE)>>,
             <<<<78, 97, 78>>, NaN>>}
BareKeyword(s, i) ==
  LET hits == {k \in Keywords : /\ IsPrefix(k[1], SubSeq(s, i, Len(s)))
                                /\ At(s, i + Len(k[1])) \in {0, 32, 44, 93, 125}}
      k == CHOOSE h \in hits : TRUE
  IN IF hits = {} THEN <<Err("json"), i>> ELSE <<k[2], i + Len(k[1])>>
ScannedNumber(s, i) ==
  LET stop == {j \in i..(Len(s) + 1) : At(s, j) \notin Digits \cup {45}}
      upTo(j, n) == IF At(s, j) \notin {0, 32, 44, 93, 125} \/ n = NaN THEN <<Err("json"), i>> ELSE <<n, j>>
      number(j) == upTo(j, StringToNumber(SubSeq(s, i, j - 1)))
  IN number(CHOOSE k \in stop : \A m \in stop : k <= m)

\* A bracket closed over its members; an object's own copy of the entries
\* keeps the last value of an exactly repeated key.
Closed(bracket, members) ==
  IF bracket = 91 THEN Arr("fresh", members) ELSE Obj("fresh", NormalEntries(members, TRUE), FALSE)
ParseKey(s, at) ==
  IF At(s, at) \in {34, 39} THEN QuotedString(s, at + 1, s[at], <<>>) ELSE <<Err("json"), at>>

RECURSIVE ParseValue(_, _, _), ParseMembers(_, _, _, _)
ParseInside(s, i, depth, bracket) ==
  IF At(s, i) = bracket + 2 THEN <<Closed(bracket, <<>>), i + 1>>
  ELSE ParseMembers(s, i, depth + 1, <<bracket, <<>>>>)
ParseAt(s, i, depth, c) ==
  IF c = 0 \/ (c \in {91, 123} /\ depth >= MaxJsonDepth) THEN <<Err("json"), i>>
  ELSE IF c \in {91, 123} THEN ParseInside(s, SkipBlank(s, i + 1), depth, c)
  ELSE IF c \in {34, 39} THEN QuotedString(s, i + 1, c, <<>>)
  ELSE IF c = 44 THEN <<Str(<<>>), i>>
  ELSE IF c = 45 \/ c \in Digits THEN ScannedNumber(s, i)
  ELSE BareKeyword(s, i)
ParseValue(s, at, depth) == ParseAt(s, SkipBlank(s, at), depth, At(s, SkipBlank(s, at)))

\* The members of a bracket from a position on; open = <<bracket, members so far>>.
AfterMember(s, next, depth, open) ==
  IF At(s, next) = 44 THEN ParseMembers(s, SkipBlank(s, next + 1), depth, open)
  ELSE IF At(s, next) = open[1] + 2 THEN <<Closed(open[1], open[2]), next + 1>>
  ELSE <<Err("json"), next>>
ParseMember(s, depth, open, key, val) ==
  IF IsErr(val[1]) THEN val
  ELSE AfterMember(s, SkipBlank(s, val[2]), depth,
         <<open[1], Append(open[2], IF open[1] = 123 THEN <<key, val[1]>> ELSE val[1])>>)
ParseEntry(s, at, depth, open, key, colon) ==
  IF IsErr(key[1]) \/ At(s, colon) # 58 THEN <<Err("json"), at>>
  ELSE ParseMember(s, depth, open, key[1][2], ParseValue(s, colon + 1, depth))
ParseMembers(s, at, depth, open) ==
  LET entry(key) == ParseEntry(s, at, depth, open, key, SkipBlank(s, key[2]))
  IN IF open[2] # <<>> /\ At(s, at) = open[1] + 2 THEN <<Closed(open[1], open[2]), at + 1>>
     ELSE IF open[1] = 91 THEN ParseMember(s, depth, open, <<>>, ParseValue(s, at, depth))
     ELSE entry(ParseKey(s, at))
FromJson(s) == ParseValue(s, 1, 0)[1]

\* ---------------------------------------------------------- evaluation
\* The calls that look at their first argument before they evaluate the second.
SkipsSecond(f, v) ==
  IF f = "contains" THEN v[1] = "obj" \/ (v[1] = "arr" /\ v[3] = <<>>) ELSE IsCollection(v)
GuardedCall(f, v, w) ==
  Try(v, IF SkipsSecond(f, v) THEN Bool(FALSE)
         ELSE Try(w, Bool(CASE f = "contains" -> ContainsItem(v, w)
                            [] f = "startswith" -> StartsWith(v, w)
                            [] f = "endswith" -> EndsWith(v, w))))
EvalJoin(v, sep) ==
  Try(v, IF v[1] = "obj" \/ (v[1] = "arr" /\ v[3] = <<>>) THEN Str(<<>>)
         ELSE IF v[1] # "arr" \/ Len(v[3]) = 1 THEN Str(ToDisplayString(IF v[1] = "arr" THEN v[3][1] ELSE v))
         ELSE Try(sep, Str(Join([i \in DOMAIN v[3] |-> ToDisplayString(v[3][i])],
                                IF IsCollection(sep) THEN Comma ELSE ToDisplayString(sep)))))
\* got[i] is the value of the i-th argument; only those that the choice needs
\* are evaluated.
EvalCase(got) ==
  LET n == Len(got)
      stop == {i \in 1..(n - 1) : i % 2 = 1 /\ got[i] # Bool(FALSE)}
      at(i) == Try(got[i], IF got[i] = Bool(TRUE) THEN got[i + 1] ELSE Err("case"))
  IN IF n % 2 = 0 THEN Err("case")
     ELSE IF stop = {} THEN got[n]
     ELSE at(CHOOSE k \in stop : \A m \in stop : k <= m)
\* got holds the arguments' values, each read only where the code evaluates it.
EvalCall(f, got, c) ==
  LET text == ToDisplayString(got[1])
  IN IF Len(got) \notin Arity[f] THEN Err("arity")
     ELSE CASE f = "case" -> EvalCase(got)
            [] f \in StatusFunctions -> Bool(f = "always" \/ c.status = f)
            [] f \in {"contains", "startswith", "endswith"} -> GuardedCall(f, got[1], got[2])
            [] f = "join" -> EvalJoin(got[1], IF Len(got) = 1 THEN Str(Comma) ELSE got[2])
            [] f = "format" -> Try(got[1], Format(text, 1, Tail(got)))
            [] f = "tojson" -> Try(got[1], Str(ToJson(got[1])))
            [] f = "fromjson" -> Try(got[1], FromJson(text))
EvalBinary(op, l, r) ==
  Try(l, CASE op = "&&" -> IF IsFalsy(l) THEN l ELSE r
           [] op = "||" -> IF IsFalsy(l) THEN r ELSE l
           [] OTHER -> Try(r, Bool(StrictOp(op, l, r))))
EvalIndex(t, i) == Try(t, IF ~IsCollection(t) THEN Null ELSE Try(i, IndexInto(t, i)))

RECURSIVE Eval(_, _)
Eval(e, c) ==
  CASE e[1] = "lit" -> e[2]
    [] e[1] = "name" -> c.roots[e[2]]
    [] e[1] = "not" -> Try(Eval(e[2], c), Bool(IsFalsy(Eval(e[2], c))))
    [] e[1] = "bin" -> EvalBinary(e[2], Eval(e[3], c), Eval(e[4], c))
    [] e[1] = "idx" -> EvalIndex(Eval(e[2], c), Eval(e[3], c))
    [] e[1] = "star" -> Try(Eval(e[2], c), WildcardFilter(Eval(e[2], c)))
    [] e[1] = "call" -> EvalCall(e[2], [i \in DOMAIN e[3] |-> Eval(e[3][i], c)], c)

Evaluate(e, c) == IF EvaluationDepth(e) > MaxDepth THEN Err("depth") ELSE Eval(e, c)
=============================================================================
