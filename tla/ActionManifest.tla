--------------------------- MODULE ActionManifest ---------------------------
(***************************************************************************)
(* action.yml.  The YAML parser (external) emits events; Builder keeps a   *)
(* stack of open collections and makes documents of them, refusing what    *)
(* GitHub does not read.  parse_manifest then reads the document.  A node  *)
(* is <<"s", text, plain>>, <<"q", nodes>> or <<"m", pairs>>.  In a source *)
(* tree, the third part of every node is its mark: "plain", "quoted",      *)
(* "anchor" or "tag", and <<"*", "", "">> is an alias.                     *)
(***************************************************************************)
EXTENDS Integers, Sequences, FiniteSets, SequencesExt

CONSTANTS
  YamlDepth,   \* MAX_YAML_DEPTH
  MaxNodes,    \* MAX_TRAVERSED_NODES
  Sources      \* files: sequences of source trees, one per document

VARIABLES
  source,     \* the file
  feed,       \* events the parser has still to emit
  frames,     \* Builder.stack
  nodes,      \* traversed_nodes
  discard,    \* discard_events
  root,       \* <<>> or <<node>>
  docs,       \* documents
  error,      \* the first error, or ""
  manifest    \* what load_manifest returned

manifestVars == <<source, feed, frames, nodes, discard, root, docs, error, manifest>>

\* The events of a tree: <<kind, text, mark>>.
RECURSIVE Emit(_)
Emit(t) ==
  CASE t[1] = "q" -> <<<<"[", "", t[3]>>>> \o FlattenSeq([i \in DOMAIN t[2] |-> Emit(t[2][i])]) \o <<<<"]", "", "">>>>
    [] t[1] = "m" -> <<<<"{", "", t[3]>>>> \o FlattenSeq([i \in DOMAIN t[2] |-> Emit(t[2][i][1]) \o Emit(t[2][i][2])])
                       \o <<<<"}", "", "">>>>
    [] OTHER -> <<t>>
Stream(trees) == FlattenSeq([i \in DOMAIN trees |-> <<<<"doc", "", "">>>> \o Emit(trees[i]) \o <<<<"end", "", "">>>>])

Scalar(text, plain) == <<"s", text, plain>>
Sequence(items) == <<"q", items>>
Mapping(pairs) == <<"m", pairs>>
IsScalar(n) == n[1] = "s"
\* ordinal_ignore_case_key: "K" stands for "k" in the other case.
Fold(text) == IF text = "K" THEN "k" ELSE text

\* ------------------------------------------------------------- Builder
OpenSequence == [kind |-> "q", items |-> <<>>, key |-> <<>>, seen |-> {}]
OpenMapping == [kind |-> "m", items |-> <<>>, key |-> <<>>, seen |-> {}]

\* finish_node into the innermost open collection: <<new frame, error>>.
Placed(frame, node) ==
  IF frame.kind = "q" THEN <<[frame EXCEPT !.items = Append(@, node)], "">>
  ELSE IF frame.key = <<>>
    THEN <<[frame EXCEPT !.key = <<node>>], IF IsScalar(node) THEN "" ELSE "NonScalarKey">>
  ELSE LET key == frame.key[1]
           text == IF IsScalar(key) THEN Fold(key[2]) ELSE ""
           known == IsScalar(key) /\ text \in frame.seen
       IN <<[frame EXCEPT !.key = <<>>, !.items = Append(@, <<key, node>>),
                          !.seen = IF IsScalar(key) THEN @ \cup {text} ELSE @],
            IF known THEN "DuplicateKey" ELSE "">>

FirstError(old, new) == IF old # "" THEN old ELSE new

FinishNode(open, node, err) ==
  IF open = <<>>
    THEN root' = <<node>> /\ frames' = <<>> /\ error' = FirstError(error, err)
    ELSE LET placed == Placed(Last(open), node)
         IN /\ frames' = Append(Front(open), placed[1])
            /\ error' = FirstError(FirstError(error, err), placed[2])
            /\ UNCHANGED root

MarkError(mark) ==
  CASE mark = "anchor" -> "AnchorsNotSupported" [] mark = "tag" -> "ExplicitTagsNotSupported" [] OTHER -> ""

Push(frame, err) ==
  frames' = Append(frames, frame) /\ error' = FirstError(error, err) /\ UNCHANGED <<root, discard>>

OpenCollection(frame, err) ==
  IF Len(frames) >= YamlDepth
    THEN discard' = TRUE /\ error' = FirstError(FirstError(error, err), "YamlLimit") /\ UNCHANGED <<frames, root>>
    ELSE Push(frame, err)

CloseCollection ==
  LET top == Last(frames)
  IN FinishNode(Front(frames), <<top.kind, top.items>>, "") /\ UNCHANGED discard

OnEvent ==
  /\ feed # <<>>
  /\ feed' = Tail(feed)
  /\ UNCHANGED <<source, manifest>>
  /\ IF discard THEN UNCHANGED <<frames, nodes, discard, root, docs, error>>
     ELSE LET e == Head(feed)
              anchored == IF e[3] = "anchor" THEN MarkError("anchor") ELSE ""
          IN /\ nodes' = nodes + 1
             /\ IF nodes + 1 > MaxNodes
                  THEN discard' = TRUE /\ error' = FirstError(error, "YamlLimit") /\ UNCHANGED <<frames, root, docs>>
                  ELSE /\ docs' = IF e[1] = "end" THEN Append(docs, root) ELSE docs
                       /\ CASE e[1] \in {"doc", "end"} -> root' = <<>> /\ UNCHANGED <<frames, discard, error>>
                            [] e[1] = "*" -> error' = FirstError(error, "AnchorsNotSupported") /\ UNCHANGED <<frames, discard, root>>
                            [] e[1] = "s" -> FinishNode(frames, Scalar(e[2], e[3] # "quoted"), MarkError(e[3])) /\ UNCHANGED discard
                            [] e[1] = "{" -> OpenCollection(OpenMapping, anchored)
                            [] e[1] = "[" -> OpenCollection(OpenSequence, anchored)
                            [] OTHER -> CloseCollection

\* -------------------------------------------------------------- schema
\* A result is <<"bad">>, <<"none">> or <<"some", value>>.
Bad == <<"bad">>
None == <<"none">>
Some(v) == <<"some", v>>
NullTexts == {"null", ""}

ScalarString(n) ==
  IF ~IsScalar(n) THEN Bad ELSE IF n[3] /\ n[2] \in NullTexts THEN None ELSE Some(n[2])
Find(pairs, name) == SelectSeq(pairs, LAMBDA p : IsScalar(p[1]) /\ p[1][2] = name)
OptionalString(pairs, name) ==
  IF Find(pairs, name) = <<>> THEN None ELSE ScalarString(Find(pairs, name)[1][2])
RequiredString(pairs, name) ==
  IF OptionalString(pairs, name) = None THEN Bad ELSE OptionalString(pairs, name)
KnownKeys(pairs, known) == \A i \in DOMAIN pairs : IsScalar(pairs[i][1]) /\ pairs[i][1][2] \in known
StringsOK(pairs, names) == \A name \in names : OptionalString(pairs, name) # Bad
StringMapOK(n) ==
  n[1] = "m" /\ \A i \in DOMAIN n[2] : IsScalar(n[2][i][1]) /\ ScalarString(n[2][i][2]) # Bad
MapsOK(pairs, names) == \A name \in names : Find(pairs, name) = <<>> \/ StringMapOK(Find(pairs, name)[1][2])

\* parse_step: <<"run">>, <<"uses", reference>> or <<"bad">>.
StepKeys == {"run", "uses", "shell", "if", "env", "with"}
ParseStep(n) ==
  IF n[1] # "m" THEN Bad
  ELSE LET run == OptionalString(n[2], "run")
           uses == OptionalString(n[2], "uses")
       IN IF \/ ~KnownKeys(n[2], StepKeys) \/ ~StringsOK(n[2], StepKeys \ {"env", "with"}) \/ ~MapsOK(n[2], {"env", "with"})
             \/ (run = None) = (uses = None)
             \/ run # None /\ OptionalString(n[2], "shell") = None
          THEN Bad ELSE IF uses # None THEN <<"uses", uses[2]>> ELSE <<"run">>

ParseNode(pairs, version) ==
  IF \/ ~KnownKeys(pairs, {"using", "main", "pre", "post"})
     \/ RequiredString(pairs, "main") = Bad \/ ~StringsOK(pairs, {"pre", "post"})
  THEN Bad ELSE <<version>>
ParseComposite(pairs) ==
  IF ~KnownKeys(pairs, {"using", "steps"}) \/ Find(pairs, "steps") = <<>> THEN Bad
  ELSE LET node == Find(pairs, "steps")[1][2]
           steps == [i \in DOMAIN node[2] |-> ParseStep(node[2][i])]
       IN IF node[1] # "q" \/ (node[1] = "q" /\ \E i \in DOMAIN node[2] : steps[i] = Bad) THEN Bad ELSE <<"composite", steps>>
ParseDocker(pairs) ==
  LET args == Find(pairs, "args")
  IN IF \/ ~KnownKeys(pairs, {"using", "image", "args", "entrypoint", "env"})
        \/ RequiredString(pairs, "image") = Bad \/ ~StringsOK(pairs, {"entrypoint"}) \/ ~MapsOK(pairs, {"env"})
        \/ args # <<>> /\ (args[1][2][1] # "q" \/ \E i \in DOMAIN args[1][2][2] : ScalarString(args[1][2][2][i]) \in {Bad, None})
     THEN Bad ELSE <<"docker", RequiredString(pairs, "image")[2]>>
ParseRuns(n) ==
  IF n[1] # "m" \/ Find(n[2], "using") = <<>> THEN Bad
  ELSE LET using == OptionalString(n[2], "using")
       IN CASE using = Some("node20") -> ParseNode(n[2], "node20")
            [] using = Some("node24") -> ParseNode(n[2], "node24")
            [] using = Some("composite") -> ParseComposite(n[2])
            [] using = Some("docker") -> ParseDocker(n[2])
            [] OTHER -> Bad

\* parse_inputs and parse_outputs: a mapping of mappings with known fields.
FieldsOK(pairs, name, known, booleans) ==
  Find(pairs, name) = <<>> \/
    LET node == Find(pairs, name)[1][2]
    IN /\ node[1] = "m"
       /\ \A i \in DOMAIN node[2] :
            /\ IsScalar(node[2][i][1]) /\ node[2][i][2][1] = "m"
            /\ KnownKeys(node[2][i][2][2], known) /\ StringsOK(node[2][i][2][2], known)
            /\ \A b \in booleans : OptionalString(node[2][i][2][2], b) \in
                 {Some("true"), Some("false")} \cup (IF Find(node[2][i][2][2], b) = <<>> THEN {None} ELSE {})

TopLevelKeys == {"name", "inputs", "outputs", "runs"}
ParseManifest(n) ==
  IF n[1] # "m" \/ (n[1] = "m" /\ (~KnownKeys(n[2], TopLevelKeys) \/ Find(n[2], "runs") = <<>>)) THEN Bad
  ELSE IF \/ ~StringsOK(n[2], {"name"})
          \/ ~FieldsOK(n[2], "inputs", {"description", "required", "default"}, {"required"})
          \/ ~FieldsOK(n[2], "outputs", {"description", "value"}, {})
       THEN Bad ELSE ParseRuns(Find(n[2], "runs")[1][2])

\* parse_raw and then parse_manifest, when the stream has ended.
LoadManifest ==
  /\ feed = <<>> /\ manifest = <<>>
  /\ manifest' = IF error # "" \/ Len(docs) # 1 THEN Bad ELSE IF docs[1] = <<>> THEN Bad ELSE ParseManifest(docs[1][1])
  /\ UNCHANGED <<source, feed, frames, nodes, discard, root, docs, error>>

Init ==
  /\ source \in Sources
  /\ feed = Stream(source)
  /\ frames = <<>> /\ nodes = 0 /\ discard = FALSE /\ root = <<>> /\ docs = <<>> /\ error = "" /\ manifest = <<>>
Next == OnEvent \/ LoadManifest

\* ------------------------------------------------------------ properties
RECURSIVE Plain(_)
Plain(t) ==   \* the node a tree without marks stands for
  CASE t[1] = "q" -> Sequence([i \in DOMAIN t[2] |-> Plain(t[2][i])])
    [] t[1] = "m" -> Mapping([i \in DOMAIN t[2] |-> <<Plain(t[2][i][1]), Plain(t[2][i][2])>>])
    [] OTHER -> Scalar(t[2], t[3] # "quoted")
RECURSIVE Readable(_, _)
Readable(t, room) ==   \* GitHub's subset of YAML, with `room` levels left
  CASE t[1] = "q" -> room > 0 /\ t[3] # "anchor" /\ \A i \in DOMAIN t[2] : Readable(t[2][i], room - 1)
    [] t[1] = "m" -> /\ room > 0 /\ t[3] # "anchor"
                     /\ \A i \in DOMAIN t[2] : t[2][i][1][1] = "s" /\ Readable(t[2][i][1], room) /\ Readable(t[2][i][2], room - 1)
                     /\ \A i, j \in DOMAIN t[2] : i # j => Fold(t[2][i][1][2]) # Fold(t[2][j][1][2])
    [] OTHER -> t[1] = "s" /\ t[3] \in {"plain", "quoted"}

\* parse_raw gives back exactly the document that was written, whatever the
\* nesting, and refuses a file exactly when it has an anchor, an alias, a
\* tag, a repeated or structured key, or more levels, nodes or documents
\* than allowed; a step of an accepted composite action runs or uses
\* something, and never both.
ManifestIsExact ==
  manifest # <<>> =>
    /\ error = "" <=> (\A i \in DOMAIN source : Readable(source[i], YamlDepth)) /\ Len(Stream(source)) <= MaxNodes
    /\ error = "" => docs = [i \in DOMAIN source |-> <<Plain(source[i])>>]
    /\ manifest # Bad => Len(source) = 1
    /\ manifest[1] = "composite" =>
         LET steps == Find(Find(docs[1][1][2], "runs")[1][2][2], "steps")[1][2][2]
             Says(i, name) == Find(steps[i][2], name) # <<>> /\ ScalarString(Find(steps[i][2], name)[1][2]) # None
         IN Len(manifest[2]) = Len(steps) /\
            \A i \in DOMAIN steps :
              /\ Says(i, "run") # Says(i, "uses")
              /\ Says(i, "run") => Says(i, "shell") /\ manifest[2][i] = <<"run">>
              /\ Says(i, "uses") => manifest[2][i] = <<"uses", Find(steps[i][2], "uses")[1][2][2]>>
=============================================================================
