----------------------------- MODULE InputValues -----------------------------
(***************************************************************************)
(* The values of vars and secrets (vars.rs, secrets.rs): --var or -s, then *)
(* a variable of the process, then .litci/vars or the vault, then, for     *)
(* vars, GitHub.  Names are compared without case: a spelling s stands for *)
(* the name Canon[s].  A source is a sequence of <<spelling, value>>; the  *)
(* value "big" is over the size limit, "raw" is no Unicode (processes      *)
(* only).                                                                  *)
(***************************************************************************)
EXTENDS Integers, Sequences, FiniteSets, SequencesExt, TLC

CONSTANTS
  Canon,      \* canonical: from spellings to names
  BadNames,   \* names validate_name refuses
  TokenName   \* GITHUB_TOKEN

Names(source) == {Canon[source[i][1]] : i \in DOMAIN source}
Places(source, n) == {i \in DOMAIN source : Canon[source[i][1]] = n}
MutIndexLast(source, n) == source[CHOOSE i \in Places(source, n) : \A j \in Places(source, n) : i <= j][2]
\* index_last: later spellings of a name replace earlier ones.
IndexLast(source, n) == source[CHOOSE i \in Places(source, n) : \A j \in Places(source, n) : j <= i][2]

\* index_process_values: two spellings of one name are an error.
ProcessValue(env, n) ==
  IF Cardinality(Places(env, n)) > 1 THEN "ambiguous" ELSE IF IndexLast(env, n) = "raw" THEN "nonunicode" ELSE "value"
\* resolve_one: <<kind, value>>.
ResolveOne(n, cli, env, dotenv) ==
  IF n \in Names(cli) THEN <<"value", IndexLast(cli, n)>>
  ELSE IF n \in Names(env) THEN <<ProcessValue(env, n), IndexLast(env, n)>>
  ELSE IF n \in Names(dotenv) THEN <<"value", IndexLast(dotenv, n)>>
  ELSE <<"missing", "">>

\* What resolve_vars and resolve_secrets have in common.
Extracted(refs) == {Canon[s] : s \in refs} \ BadNames
Resolution(refs, cli, env, dotenv) ==
  LET names == Extracted(refs) \cup Names(cli) \cup Names(dotenv)
      one == [n \in names |-> ResolveOne(n, cli, env, dotenv)]
  IN [values |-> [n \in {m \in names : one[m][1] = "value"} |-> one[n][2]],
      invalid |-> {s \in refs : Canon[s] \in BadNames},
      bad |-> {n \in names : one[n][1] \in {"ambiguous", "nonunicode"} \/ one[n] = <<"value", "big">>},
      missing |-> {n \in names : one[n][1] = "missing"}]
Hard(found) == found.invalid # {} \/ found.bad # {}

\* A dynamic lookup needs a map that is explicitly complete.
ResolveVars(c, dotenv, fileExists) ==
  [found |-> Resolution(c.refs, c.cli, c.env, dotenv), dynamic |-> c.dynamic /\ c.cli = <<>> /\ ~fileExists]
Resolved(r) == ~Hard(r.found) /\ r.found.missing = {} /\ ~r.dynamic
\* fetch_complete_map: repository values override organization values.
FetchCompleteMap(c) == SetToSeq({<<n, (c.repo @@ c.org)[n]>> : n \in DOMAIN c.repo \cup DOMAIN c.org})
\* get_repo_variable, then get_org_variable; a 404 is no error.
GetVariable(c, n) == IF n \in DOMAIN c.repo THEN c.repo[n] ELSE IF n \in DOMAIN c.org THEN c.org[n] ELSE ""
\* fetch_named: what GitHub does not have is the empty string.
FetchNamed(c, missing) == SetToSeq({<<n, GetVariable(c, n)>> : n \in missing})
Outcome(kind, values) == [kind |-> kind, values |-> values]
OrLocalError(r) == IF Resolved(r) THEN Outcome("resolved", r.found.values) ELSE Outcome("local", <<>>)
AskRemote(c, local) ==
  LET remote == IF local.dynamic THEN FetchCompleteMap(c) ELSE FetchNamed(c, local.found.missing)
  IN IF Resolved(local) \/ Hard(local.found) THEN OrLocalError(local)
     ELSE IF ~c.auth THEN Outcome("auth", <<>>)
     ELSE IF ~c.reachable THEN Outcome("remote", <<>>)
     ELSE OrLocalError(ResolveVars(c, c.dotenv \o remote, TRUE))
ResolveVarsWithRemote(c) == AskRemote(c, ResolveVars(c, c.dotenv, c.fileExists))

\* resolve_secrets: every error first; then a prompt for what is missing, or
\* another error without one.  The token's own name is nobody's secret.
Prompted(c, found) ==
  IF Hard(found) THEN Outcome("local", <<>>)
  ELSE IF found.missing # {} /\ ~c.prompt THEN Outcome("missing", <<>>)
  ELSE Outcome("resolved", found.values @@ [n \in found.missing |-> "typed"])
ResolveSecrets(c) == Prompted(c, Resolution({s \in c.refs : Canon[s] # TokenName}, c.cli, c.env, c.dotenv))
\* local_override_for: the first spelling the process has decides, and no
\* Unicode is no override.
LocalOverride(c) ==
  LET first == CHOOSE i \in Places(c.env, TokenName) : \A j \in Places(c.env, TokenName) : i <= j
  IN IF TokenName \in Names(c.cli) THEN IndexLast(c.cli, TokenName)
     ELSE IF TokenName \in Names(c.env) THEN (IF c.env[first][2] = "raw" THEN "" ELSE c.env[first][2])
     ELSE IF TokenName \in Names(c.dotenv) THEN IndexLast(c.dotenv, TokenName) ELSE ""

\* ------------------------------------------------------------ properties
\* What a name is worth: the last of all that was said of it, from the
\* weakest source to the strongest.
Said(c, n) == SelectSeq(c.dotenv, LAMBDA e : Canon[e[1]] = n) \o SelectSeq(c.env, LAMBDA e : Canon[e[1]] = n)
                \o SelectSeq(c.cli, LAMBDA e : Canon[e[1]] = n)
Worth(c, n) ==
  IF Said(c, n) # <<>> THEN Last(Said(c, n))[2]
  ELSE IF n \in DOMAIN c.repo THEN c.repo[n] ELSE IF n \in DOMAIN c.org THEN c.org[n] ELSE ""
\* Two spellings of a name in the process decide nothing.
Undecided(c, n) == Cardinality(Places(c.env, n)) > 1 /\ n \notin Names(c.cli)
Sound(c, values) ==
  \A n \in DOMAIN values : values[n] = Worth(c, n) /\ ~Undecided(c, n) /\ values[n] \notin {"raw", "big"}
Silent(c) == {n \in Extracted(c.refs) : Said(c, n) = <<>>}
VarsAreExact(c, vars) ==
  /\ vars.kind = "resolved" =>
       /\ Sound(c, vars.values)
       /\ Extracted(c.refs) \cup Names(c.cli) \cup Names(c.dotenv) \subseteq DOMAIN vars.values
       /\ \A s \in c.refs : Canon[s] \notin BadNames
       /\ c.dynamic /\ c.cli = <<>> /\ ~c.fileExists => DOMAIN c.repo \cup DOMAIN c.org \subseteq DOMAIN vars.values
  /\ vars.kind \in {"auth", "remote"} => Silent(c) # {} \/ (c.dynamic /\ ~c.fileExists)
SecretsAreExact(c, secrets) ==
  secrets.kind = "resolved" =>
    \A n \in Extracted(c.refs) \ {TokenName} :
      /\ n \in DOMAIN secrets.values
      /\ IF n \in Silent(c) THEN c.prompt ELSE secrets.values[n] = Worth(c, n)
\* A run sees every name its workflow reads and every name it was given,
\* with the value of the strongest source, local before remote and repository
\* before organization; nothing it cannot decide, store or validate gets
\* through; GitHub is asked only for what nobody said; and secrets follow the
\* same order and are complete (resolve_vars_with_remote, resolve_secrets).
InputsAreExact(c) ==
  /\ VarsAreExact(c, ResolveVarsWithRemote(c))
  /\ SecretsAreExact(c, ResolveSecrets(c))
  /\ LocalOverride(c) # "" /\ ~Undecided(c, TokenName) => LocalOverride(c) = Worth(c, TokenName)

\* vars.rs:364-368: "Every name that could have been fixed by the remote leg
\* was either given a real value or an explicit empty-string entry above, so
\* a second failure here can only be a hard local error": without one, an
\* authenticated lookup that GitHub answers resolves.
AbsentIsEmpty(c) ==
  c.auth /\ c.reachable /\ {e[2] : e \in ToSet(c.env)} \cap {"raw", "big"} = {}
    /\ (\A e \in ToSet(c.cli \o c.dotenv) : e[2] # "big") /\ (\A s \in c.refs : Canon[s] \notin BadNames)
    /\ (\A n \in Names(c.env) : ~Undecided(c, n))
    => ResolveVarsWithRemote(c).kind = "resolved"
=============================================================================
