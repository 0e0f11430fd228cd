---------------------------- MODULE Expressions ----------------------------
(***************************************************************************)
(* The value model and the evaluator of greenlit-expr.  A value is a tuple *)
(* tagged with its kind; text is a sequence of character codes, because    *)
(* comparison, search and coercion look at the characters; a number is an  *)
(* integer or NaN (fractions, exponents, hexadecimal and infinities are    *)
(* left out).  Arrays and objects carry the identity of their shared       *)
(* storage: "fresh" ones are built by the evaluation itself and are never  *)
(* the same instance as another value.  The result-memory budget, which    *)
(* only turns a value into an error, is not modelled.                      *)
(***************************************************************************)
EXTENDS Integers, Sequences, SequencesExt

\* ------------------------------------------------------------- values
Null == <<"null">>
NaN == <<"nan">>
Bool(b) == <<"bool", b>>
Num(n) == <<"num", n>>
Str(s) == <<"str", s>>
Arr(id, items) == <<"arr", id, items, FALSE>>
FilteredArray(items) == <<"arr", "fresh", items, TRUE>>

Kind(v) == IF v[1] = "nan" THEN "num" ELSE v[1]
IsCollection(v) == Kind(v) \in {"arr", "obj"}
SameInstance(a, b) == a[2] = b[2] /\ a[2] # "fresh"

\* Upper-casing of the ordinal case-insensitive comparison.
OrdinalKey(s) == [i \in DOMAIN s |-> IF s[i] \in 97..122 THEN s[i] - 32 ELSE s[i]]
LookupKey(o, key) == IF o[4] THEN key ELSE OrdinalKey(key)

\* The entries of an object, one per distinct key: a repeated key keeps its
\* first position and spelling and takes the last value.
Distinct(entries, keys) ==
  LET first == {i \in DOMAIN keys : \A j \in 1..(i - 1) : keys[j] # keys[i]}
      last(i) == CHOOSE j \in DOMAIN keys : keys[j] = keys[i] /\ \A k \in (j + 1)..Len(keys) : keys[k] # keys[i]
      inOrder(order) == [n \in DOMAIN order |-> <<entries[order[n]][1], entries[last(order[n])][2]>>]
  IN inOrder(SetToSortSeq(first, <))
NormalEntries(entries, cs) ==
  Distinct(entries, [i \in DOMAIN entries |-> IF cs THEN entries[i][1] ELSE OrdinalKey(entries[i][1])])
Obj(id, entries, cs) == <<"obj", id, NormalEntries(entries, cs), cs>>

\* The value under a key, as a sequence of at most one element.
Get(o, key) ==
  LET hits == SelectSeq(o[3], LAMBDA e : LookupKey(o, e[1]) = LookupKey(o, key))
  IN IF hits = <<>> THEN <<>> ELSE <<hits[1][2]>>

\* ----------------------------------------------------------- coercions
IsFalsy(v) ==
  CASE v[1] \in {"null", "nan"} -> TRUE
    [] v[1] = "bool" -> ~v[2]
    [] v[1] = "num" -> v[2] = 0
    [] v[1] = "str" -> v[2] = <<>>
    [] OTHER -> FALSE

Digits == 48..57
Trim(s) ==
  LET keep == {i \in DOMAIN s : s[i] # 32}
  IN IF keep = {} THEN <<>>
     ELSE SubSeq(s, CHOOSE i \in keep : \A j \in keep : i <= j,
                    CHOOSE i \in keep : \A j \in keep : i >= j)
DigitsValue(s) == FoldLeft(LAMBDA acc, c : acc * 10 + (c - 48), 0, s)
NumberOfDigits(sign, body) ==
  IF body = <<>> \/ \E i \in DOMAIN body : body[i] \notin Digits THEN NaN ELSE Num(sign * DigitsValue(body))
NumberOfTrimmed(t) ==
  IF t = <<>> THEN Num(0)
  ELSE NumberOfDigits(IF t[1] = 45 THEN -1 ELSE 1, IF t[1] \in {43, 45} THEN Tail(t) ELSE t)
StringToNumber(s) == NumberOfTrimmed(Trim(s))

ToNumber(v) ==
  CASE v[1] = "null" -> Num(0)
    [] v[1] = "bool" -> Num(IF v[2] THEN 1 ELSE 0)
    [] v[1] \in {"num", "nan"} -> v
    [] v[1] = "str" -> StringToNumber(v[2])
    [] OTHER -> NaN

DigitsOf[n \in Nat] == IF n < 10 THEN <<48 + n>> ELSE Append(DigitsOf[n \div 10], 48 + (n % 10))
True == <<116, 114, 117, 101>>
False == <<102, 97, 108, 115, 101>>
ArrayText == <<65, 114, 114, 97, 121>>
ObjectText == <<79, 98, 106, 101, 99, 116>>
ToDisplayString(v) ==
  CASE v[1] = "null" -> <<>>
    [] v[1] = "bool" -> IF v[2] THEN True ELSE False
    [] v[1] = "num" -> IF v[2] < 0 THEN <<45>> \o DigitsOf[0 - v[2]] ELSE DigitsOf[v[2]]
    [] v[1] = "nan" -> <<78, 97, 78>>
    [] v[1] = "str" -> v[2]
    [] v[1] = "arr" -> ArrayText
    [] v[1] = "obj" -> ObjectText

\* ---------------------------------------------------------- comparison
\* Operands of different kinds: text meets a number as a number; null and
\* booleans become numbers, and then the text on the other side does too.
OrdinaryOperand(v) == IF v[1] \in {"bool", "null"} THEN ToNumber(v) ELSE v
MeetAsNumbers(x, y) ==
  CASE Kind(x) = "num" /\ Kind(y) = "str" -> <<x, ToNumber(y)>>
    [] Kind(x) = "str" /\ Kind(y) = "num" -> <<ToNumber(x), y>>
    [] OTHER -> <<x, y>>
CoerceForCompare(a, b) ==
  IF Kind(a) = Kind(b) THEN <<a, b>> ELSE MeetAsNumbers(OrdinaryOperand(a), OrdinaryOperand(b))

\* The comparisons of a coerced pair.
PairEqual(p) ==
  LET a == p[1]
      b == p[2]
  IN CASE Kind(a) # Kind(b) -> FALSE
       [] a[1] = "str" -> OrdinalKey(a[2]) = OrdinalKey(b[2])
       [] a[1] = "null" -> TRUE
       [] a[1] \in {"num", "bool"} -> b[1] = a[1] /\ a[2] = b[2]
       [] OTHER -> IsCollection(a) /\ SameInstance(a, b)
AbstractEqual(l, r) == PairEqual(CoerceForCompare(l, r))

KeyLess(a, b) ==
  \/ IsStrictPrefix(a, b)
  \/ \E i \in DOMAIN a \cap DOMAIN b :
       a[i] < b[i] /\ SubSeq(a, 1, i - 1) = SubSeq(b, 1, i - 1)
TextLess(s, t) == KeyLess(OrdinalKey(s), OrdinalKey(t))
LessThan(p) ==
  LET a == p[1]
      b == p[2]
  IN CASE Kind(a) # Kind(b) -> FALSE
       [] Kind(a) = "num" -> a[1] = "num" /\ b[1] = "num" /\ a[2] < b[2]
       [] a[1] = "str" -> TextLess(a[2], b[2])
       [] a[1] = "bool" -> ~a[2] /\ b[2]
       [] OTHER -> FALSE
GreaterThan(p) == LessThan(<<p[2], p[1]>>)

StrictPair(op, p) ==
  \/ op \in {"==", "<=", ">="} /\ PairEqual(p)
  \/ op = "!=" /\ ~PairEqual(p)
  \/ op \in {"<", "<="} /\ LessThan(p)
  \/ op \in {">", ">="} /\ GreaterThan(p)
StrictOp(op, l, r) == StrictPair(op, CoerceForCompare(l, r))

\* -------------------------------------------------------------- access
PlainIndex(a, n) ==
  IF n[1] = "num" /\ n[2] >= 0 /\ n[2] < Len(a[3]) THEN <<a[3][n[2] + 1]>> ELSE <<>>
ItemsUnder(item, index) ==
  CASE item[1] = "obj" -> Get(item, ToDisplayString(index))
    [] item[1] = "arr" -> PlainIndex(item, ToNumber(index))
    [] OTHER -> <<>>
FirstOrNull(hit) == IF hit = <<>> THEN Null ELSE hit[1]
IndexInto(t, i) ==
  IF t[1] = "arr" /\ t[4]
  THEN FilteredArray(IF IsCollection(i) THEN <<>>
                     ELSE FlattenSeq([n \in DOMAIN t[3] |-> ItemsUnder(t[3][n], i)]))
  ELSE FirstOrNull(IF t[1] = "arr" THEN PlainIndex(t, ToNumber(i))
                   ELSE IF IsCollection(i) THEN <<>>
                   ELSE Get(t, ToDisplayString(i)))

Children(v) ==
  CASE v[1] = "arr" -> v[3]
    [] v[1] = "obj" -> [n \in DOMAIN v[3] |-> v[3][n][2]]
    [] OTHER -> <<>>
WildcardFilter(t) ==
  FilteredArray(IF t[1] = "arr" /\ t[4]
                THEN FlattenSeq([n \in DOMAIN t[3] |-> Children(t[3][n])])
                ELSE Children(t))

\* ----------------------------------------------------------- functions
TextContains(s, t) ==
  \E i \in 1..(Len(s) - Len(t) + 1) : SubSeq(OrdinalKey(s), i, i + Len(t) - 1) = OrdinalKey(t)
ContainsItem(search, item) ==
  CASE search[1] = "arr" -> \E i \in DOMAIN search[3] : AbstractEqual(item, search[3][i])
    [] search[1] = "obj" -> FALSE
    [] OTHER -> ~IsCollection(item)
                /\ TextContains(ToDisplayString(search), ToDisplayString(item))
StartsWith(s, p) ==
  ~IsCollection(p) /\ IsPrefix(OrdinalKey(ToDisplayString(p)), OrdinalKey(ToDisplayString(s)))
EndsWith(s, p) ==
  ~IsCollection(p) /\ IsSuffix(OrdinalKey(ToDisplayString(p)), OrdinalKey(ToDisplayString(s)))

Comma == <<44>>
Join(items, sep) == FoldLeft(LAMBDA acc, t : acc \o sep \o t, items[1], Tail(items))

\* The arguments that a function accepts.
Arity == [contains |-> 2..2, startswith |-> 2..2, endswith |-> 2..2, format |-> 1..255,
          join |-> 1..2, tojson |-> 1..1, fromjson |-> 1..1, case |-> 3..255,
          success |-> {0}, failure |-> {0}, cancelled |-> {0}, always |-> {0}]
StatusFunctions == {"success", "failure", "cancelled", "always"}
=============================================================================
