--------------------------- MODULE ImageReference ---------------------------
(***************************************************************************)
(* RegistryReference::parse and the pull reference made from it (oci.rs).  *)
(* A reference is a sequence of tokens: "host" stands for a name with a    *)
(* dot, "UP" for one a repository may not have.                            *)
(***************************************************************************)
EXTENDS Integers, Sequences, FiniteSets, SequencesExt

Cut(s, tokens) == {i \in DOMAIN s : s[i] \in tokens}
LastOf(places) == CHOOSE i \in places : \A j \in places : j <= i
Invalid == [registry |-> <<>>, repository |-> <<>>, reference |-> <<>>]
SplitAt(s, i) == <<SubSeq(s, 1, i - 1), SubSeq(s, i + 1, Len(s))>>
NameAndReference(s) ==
  LET colons == Cut(s, {":"})
      slashes == Cut(s, {"/"})
  IN IF Cut(s, {"@"}) # {} THEN SplitAt(s, LastOf(Cut(s, {"@"})))
     ELSE IF colons # {} /\ (slashes = {} \/ LastOf(slashes \cup {0}) < LastOf(colons \cup {0})) THEN SplitAt(s, LastOf(colons))
     ELSE <<s, <<"latest">>>>
Components(name) ==
  LET cuts == SetToSortSeq({0, Len(name) + 1} \cup Cut(name, {"/"}), <)
  IN [i \in 1..(Len(cuts) - 1) |-> SubSeq(name, cuts[i] + 1, cuts[i + 1] - 1)]
ValidComponent(c) == c # <<>> /\ ToSet(c) \subseteq {"name", "library", "host", "localhost", "docker.io"}
MutParseReference(s) ==   \* the first name is never taken for a registry
  LET parts == NameAndReference(s)
  IN IF parts[1] = <<>> \/ parts[2] = <<>> THEN Invalid
     ELSE [registry |-> <<"docker.io">>, repository |-> Components(parts[1]), reference |-> parts[2]]
IsRegistry(name) == name = <<"localhost">> \/ Cut(name, {"host", "docker.io", ":"}) # {}
InRegistry(registry, repository, reference) ==
  IF repository = <<>> \/ \E i \in DOMAIN repository : ~ValidComponent(repository[i]) THEN Invalid
  ELSE [registry |-> registry, repository |-> repository, reference |-> reference]
NamesIn(names, reference) ==
  IF IsRegistry(names[1]) THEN InRegistry(names[1], Tail(names), reference)
  ELSE InRegistry(<<"docker.io">>, IF Len(names) > 1 THEN names ELSE <<<<"library">>>> \o names, reference)
ParseReference(s) ==
  LET parts == NameAndReference(s)
  IN IF parts[1] = <<>> \/ parts[2] = <<>> THEN Invalid ELSE NamesIn(Components(parts[1]), parts[2])
\* immutable_pull_reference: pull_name@digest.
PullReference(p, digest) ==
  p.registry \o FlattenSeq([i \in DOMAIN p.repository |-> <<"/">> \o p.repository[i]]) \o <<"@", digest>>

\* A pull reference names the registry and the repository of the reference
\* it was made from, so a locked image is pulled from where it was resolved.
PullReferenceIsKept(s) ==
  LET p == ParseReference(s)
      q == ParseReference(PullReference(p, "digest"))
  IN p # Invalid => q = [p EXCEPT !.reference = <<"digest">>]
=============================================================================
