------------------------------ MODULE MCPlanRun ------------------------------
EXTENDS PlanRun

Hole(e) == <<<<"hole", e>>>>
Text(s) == <<<<"text", s>>>>
Key(s) == Lit(Str(s))
EnvVar(n) == Index(Name("env"), Key(n))
StepOut == Index(Index(Index(Name("steps"), Key(<<115>>)), Key(OutputsField)), Key(OutputKey))
StepOutcome == Index(Index(Name("steps"), Key(<<83>>)), Key(OutcomeField))
NeedOut == Index(Index(Index(Name("needs"), Key(<<106>>)), Key(OutputsField)), Key(OutputKey))
Undeclared == Index(Index(Index(Name("needs"), Key(<<106>>)), Key(OutputsField)), Key(<<120>>))
Sha == Index(Name("github"), Key(<<104>>))
RunId == Index(Name("github"), Key(<<73>>))
Secret == Index(Name("secrets"), Key(<<116>>))
MatrixList == Index(Name("matrix"), Key(<<109>>))
A == EnvVar(<<65>>)
B == EnvVar(<<66>>)
X == Lit(Str(<<65>>))

Atoms == {A, B, StepOut, NeedOut, Sha, X, Lit(Bool(FALSE))}
Exprs ==
  Atoms \cup {StepOutcome, Undeclared, RunId, Secret, Index(Name("env"), StepOut), Index(Name("matrix"), NeedOut),
    Index(Index(Name("steps"), A), Key(OutputsField)),
    Bin("&&", A, B), Bin("||", StepOut, A), Bin("&&", B, NeedOut), Bin("||", Lit(Null), B),
    Bin("==", A, X), Bin("==", StepOut, Sha), Not(A), Bin("<", A, B),
    Call("contains", <<A, X>>), Call("join", <<MatrixList, Key(<<45>>)>>),
    Call("format", <<Lit(Str(<<123, 49, 125, 123, 48, 125>>)), A, StepOut>>),
    Call("format", <<Lit(Str(<<123, 49, 125>>)), Call("fromjson", <<X>>), B>>),
    Call("case", <<Bin("==", A, X), B, NeedOut>>), Call("case", <<Lit(Bool(FALSE)), StepOut, B>>),
    Call("fromjson", <<A>>), Call("tojson", <<B>>), Call("always", <<>>),
    Bin("&&", Call("failure", <<>>), A)}
Templates == {Hole(e) : e \in Exprs} \cup {Text(<<65>>) \o Hole(B) \o Hole(A), Hole(A) \o Text(<<123>>)}

Conds == {<<>>, <<Lit(Bool(FALSE))>>, <<Call("always", <<>>)>>, <<Bin("==", A, X)>>}
Layers == {<<>>, <<<<<<65>>, Hole(B)>>>>, <<<<<<65>>, Text(<<65>>)>>, <<<<66>>, Hole(A)>>>>}
Step(id, cond, env, script, coe, minutes) ==
  [id |-> id, cond |-> cond, env |-> env, script |-> script, coe |-> coe, minutes |-> minutes]
First == {Step(<<115>>, c, <<>>, Text(<<65>>), b, <<>>) : c \in Conds \ {<<Call("always", <<>>)>>}, b \in {<<>>, <<Hole(A)>>}}
JobPairs == {<<<<>>, <<>>>>, <<<<<<<<66>>, Text(<<65>>)>>>>, <<<<<<65>>, Hole(B)>>, <<<<67>>, Hole(NeedOut)>>>>>>}
\* Every template after every kind of first step, and every other field once.
Scripts == {Step(<<>>, <<>>, l, t, <<>>, <<>>) : l \in Layers, t \in Templates}
Fields ==
  {Step(<<>>, c, l, Hole(A), <<>>, <<>>) : c \in Conds, l \in Layers}
  \cup {Step(<<>>, <<>>, <<>>, Text(<<65>>), b, m) :
          b \in {<<>>, <<Hole(A)>>, <<Hole(Bin("==", StepOut, X))>>},
          m \in {<<Hole(A)>>, <<Hole(StepOut)>>, <<Hole(Lit(Num(5)))>>}}
JobOf(pair, first, second, output) ==
  [wf |-> pair[1], job |-> pair[2], steps |-> <<first, second>>, outputs |-> output]
MCJobs ==
  {JobOf(p, Step(<<115>>, <<>>, <<>>, Text(<<65>>), <<>>, <<>>), s, Hole(A)) : p \in JobPairs, s \in Scripts}
  \cup {JobOf(p, Step(<<115>>, <<Lit(Bool(FALSE))>>, <<>>, Text(<<65>>), <<>>, <<>>), s, Hole(A)) :
          p \in JobPairs, s \in {x \in Scripts : x.env = <<>>}}
  \cup {JobOf(p, f, s, Hole(StepOut)) : p \in JobPairs, f \in First, s \in Fields}

\* An array the planner knows, under a call whose other argument it does not.
ListJobs ==
  {JobOf(<<<<>>, <<>>>>, Step(<<115>>, <<>>, <<>>, Text(<<65>>), <<>>, <<>>),
         Step(<<>>, <<>>, <<>>, Hole(Call("contains", <<MatrixList, A>>)), <<>>, <<>>), Text(<<65>>))}
MCRoots == [github |-> Obj("gh", <<<<<<104>>, Str(<<65>>)>>>>, FALSE), vars |-> Obj("v", <<>>, FALSE),
            inputs |-> Obj("i", <<>>, FALSE), env |-> Null, needs |-> Null, steps |-> Obj("st", <<>>, FALSE),
            matrix |-> Obj("m", <<<<<<109>>, Arr("l", <<Str(<<65>>), Str(<<66>>)>>)>>>>, FALSE), strategy |-> Null,
            secrets |-> Obj("s", <<>>, FALSE), runner |-> Obj("r", <<>>, FALSE), job |-> Obj("j", <<>>, FALSE)]
MCRunRoots == [MCRoots EXCEPT !.secrets = Obj("s2", <<<<<<116>>, Str(<<65>>)>>>>, FALSE),
                              !.github = Obj("g2", <<<<<<104>>, Str(<<65>>)>>, <<<<73>>, Str(<<55>>)>>>>, FALSE)]
MCNeedIds == <<<<106>>>>
MCEffects == {eff \in {[exports |-> e, outputs |-> o, exit |-> x] :
                e \in {<<>>, <<<<<<65>>, <<65>>>>>>, <<<<<<66>>, <<49>>>>>>}, o \in {<<>>, <<<<OutputKey, <<65>>>>>>},
                x \in {"success", "failure"}} :
                eff.exports = <<>> \/ eff.outputs = <<>> \/ eff.exit = "success"}
=============================================================================
