----------------------------- MODULE HomeProofs -----------------------------
(***************************************************************************)
(* What the processes of one user share, for any number of processes.      *)
(*                                                                         *)
(* The vault: at most one process at a time makes the key unless two race, *)
(* so a vault is always of the key there is (KeysAreOne), and the only     *)
(* process in a repository carries all that was kept from what it read to  *)
(* what it writes (NothingIsDropped).                                      *)
(*                                                                         *)
(* The source: between what a reader read first and what it compared again *)
(* lies a moment at which all of that was there (Between); an attempt that *)
(* fails met a change (AttemptOK); a template is in one hand               *)
(* (TemplatesApart).                                                       *)
(*                                                                         *)
(* The login: a new token is in one hand until it is stored                *)
(* (TokensArePrivate), who spends a stored one saves the next              *)
(* (StoredIsFresh), and who works alone has what is stored (OneAtWork).    *)
(*                                                                         *)
(* Confirmations: at every stage a confirmation has what the stages before *)
(* it required (StagesAreEarned), and attempts are only added, so a raised *)
(* result has all of it (ResultsAreEarned); in a directory no two exports  *)
(* found free at once one writes, before any other (OutputsAreWhole).      *)
(***************************************************************************)
EXTENDS SecretVault, SourceTemplates, Credentials, Confirmation, SequenceTheorems, TLAPS

-----------------------------------------------------------------------------
(* The vault                                                               *)

Secrets == Users \cup UNION {Legacy[r] : r \in DOMAIN Legacy}
SecretSets == SUBSET Secrets
Vaults == [key : Nat, secrets : SecretSets]
Writing == {"key", "writeKey", "persist", "unlink"}
Labels == Writing \cup {"idle", "read", "decrypt", "legacy", "prompt", "done", "failed", "dead"}
Locals == [at : Labels, saving : BOOLEAN, seen : Vaults, secrets : SecretSets, key : Nat]

VaultTypeOK ==
  /\ key \in Nat /\ keys \in Nat
  /\ vault \in [DOMAIN Legacy -> Vaults]
  /\ legacy \in [DOMAIN Legacy -> SecretSets]
  /\ u \in [Users -> Locals]
  /\ kept \in [DOMAIN Legacy -> SecretSets]
  /\ keyRace \in BOOLEAN

Working(x) == u[x].at \notin {"idle", "done", "failed", "dead"}

OverlapIsKnown ==
  \A x, y \in Users :
    Working(x) /\ Working(y) /\ RepoOf[x] = RepoOf[y] /\ RepoOf[x] \notin overlap => x = y

(* One key: it is made while there is none, and every vault is of it.      *)
KeysAreOne ==
  /\ \A x \in Users :
       /\ u[x].at = "writeKey" =>
            key = 0 /\ u[x].key # 0 /\ \A y \in Users : u[y].at = "writeKey" => y = x
       /\ u[x].at = "persist" => u[x].key = key /\ key # 0
  /\ \A r \in DOMAIN Legacy : vault[r] = NoVault \/ (vault[r].key = key /\ key # 0)

(* The one process in a repository knows all that was kept there.          *)
KnowsAll(x) ==
  RepoOf[x] \notin overlap =>
    /\ u[x].at = "decrypt" => u[x].seen = vault[RepoOf[x]] /\ vault[RepoOf[x]] # NoVault
    /\ u[x].at = "legacy" => vault[RepoOf[x]] = NoVault
    /\ u[x].at = "unlink" => vault[RepoOf[x]] # NoVault
    /\ u[x].at \in Writing => kept[RepoOf[x]] \subseteq u[x].secrets

NothingIsDropped ==
  /\ \A r \in DOMAIN Legacy : r \notin overlap => kept[r] \subseteq Readable(r)
  /\ \A x \in Users : KnowsAll(x)

VaultInv == VaultTypeOK /\ OverlapIsKnown /\ (~keyRace => KeysAreOne /\ NothingIsDropped)

VaultStep(x) ==
  \/ Start(x) \/ ReadVault(x) \/ DecryptVault(x) \/ ReadLegacy(x)
  \/ LoadKey(x) \/ WriteKey(x) \/ PersistVault(x)
  \/ UnlinkLegacy(x) \/ Prompt(x) \/ Kill(x)

LEMMA Repos == ASSUME VaultAssumption PROVE \A x \in Users : RepoOf[x] \in DOMAIN Legacy
  BY DEF VaultAssumption, Repositories

LEMMA VaultTypes ==
  /\ NoVault \in Vaults /\ Idle \in Locals
  /\ \A k \in Nat, s \in SecretSets : [key |-> k, secrets |-> s] \in Vaults
  /\ \A v \in Vaults : v.secrets \in SecretSets /\ v.key \in Nat
<1>1. {} \in SecretSets
  BY DEF SecretSets
<1>2. NoVault \in Vaults
  BY <1>1 DEF Vaults, NoVault
<1>3. Idle \in Locals
  BY <1>1, <1>2 DEF Locals, Labels, Idle
<1>4. QED
  BY <1>2, <1>3 DEF Vaults

LEMMA LocalTypes ==
  ASSUME NEW l \in Locals
  PROVE  /\ \A a \in Labels : [l EXCEPT !.at = a] \in Locals
         /\ \A a \in Labels, v \in Vaults : [l EXCEPT !.at = a, !.seen = v] \in Locals
         /\ \A a \in Labels, s \in SecretSets : [l EXCEPT !.at = a, !.secrets = s] \in Locals
         /\ \A a \in Labels, k \in Nat : [l EXCEPT !.at = a, !.key = k] \in Locals
         /\ \A a \in Labels, b \in BOOLEAN : [l EXCEPT !.at = a, !.saving = b] \in Locals
         /\ \A a \in Labels, b \in BOOLEAN, s \in SecretSets :
              [l EXCEPT !.at = a, !.saving = b, !.secrets = s] \in Locals
         /\ l.at \in Labels /\ l.saving \in BOOLEAN /\ l.seen \in Vaults /\ l.key \in Nat
         /\ l.secrets \in SecretSets
  BY DEF Locals

LEMMA ReadTypes ==
  ASSUME VaultTypeOK, NEW x \in Users, NEW s \in SecretSets
  PROVE  HaveRead(x, s) \in Locals
<1>1. s \cup {x} \in SecretSets
  BY DEF SecretSets, Secrets
<1>2. {"prompt", "failed", "key"} \subseteq Labels
  BY DEF Labels, Writing
<1>3. QED
  BY <1>1, <1>2, VaultTypes, LocalTypes DEF HaveRead

LEMMA BecomeTypes ==
  ASSUME VaultTypeOK, NEW x \in Users, NEW l \in Locals, Become(x, l)
  PROVE  u' \in [Users -> Locals]
  BY DEF VaultTypeOK, Become

LEMMA LoadKeyTypes ==
  ASSUME VaultTypeOK
  PROVE  /\ key \in Nat /\ keys + 1 \in Nat
         /\ \A x \in Users : LoadKey(x) => keys' \in Nat /\ keyRace' \in BOOLEAN
<1>1. key \in Nat /\ keys \in Nat
  BY DEF VaultTypeOK
<1>2. ASSUME NEW x \in Users, LoadKey(x) PROVE keyRace' \in BOOLEAN
  BY <1>2 DEF LoadKey, VaultTypeOK
<1>3. ASSUME NEW x \in Users, LoadKey(x) PROVE keys' \in Nat
  BY <1>1, <1>3 DEF LoadKey
<1>4. QED
  BY <1>1, <1>2, <1>3

LEMMA ReadFacts ==
  ASSUME NEW x \in Users, NEW s
  PROVE  /\ HaveRead(x, s).at \in {"prompt", "failed", "key"}
         /\ HaveRead(x, s).at = "key" => HaveRead(x, s).secrets = s \cup {x}
<1>1. CASE ~u[x].saving
  BY <1>1 DEF HaveRead, Idle
<1>2. CASE u[x].saving /\ Cardinality(s \cup {x}) > MaxSecrets
  BY <1>2 DEF HaveRead, Idle
<1>3. CASE u[x].saving /\ ~(Cardinality(s \cup {x}) > MaxSecrets)
  BY <1>3 DEF HaveRead, Idle
<1>4. QED
  BY <1>1, <1>2, <1>3

LEMMA Fields ==
  ASSUME NEW l \in Locals
  PROVE  /\ \A a : [l EXCEPT !.at = a].at = a /\ [l EXCEPT !.at = a].secrets = l.secrets
                 /\ [l EXCEPT !.at = a].key = l.key /\ [l EXCEPT !.at = a].seen = l.seen
         /\ \A a, v : [l EXCEPT !.at = a, !.seen = v].at = a /\ [l EXCEPT !.at = a, !.seen = v].seen = v
         /\ \A a, s : [l EXCEPT !.at = a, !.secrets = s].at = a /\ [l EXCEPT !.at = a, !.secrets = s].secrets = s
         /\ \A a, k : /\ [l EXCEPT !.at = a, !.key = k].at = a /\ [l EXCEPT !.at = a, !.key = k].key = k
                     /\ [l EXCEPT !.at = a, !.key = k].secrets = l.secrets
         /\ \A a, b : [l EXCEPT !.at = a, !.saving = b].at = a
  BY DEF Locals

LEMMA MyLocals == ASSUME VaultTypeOK, NEW x \in Users PROVE u[x] \in Locals
  BY DEF VaultTypeOK

(* Where the steps leave their process; they leave the others alone.      *)
Alone(x) == \A y \in Users : y # x => u'[y] = u[y]
Reads(x, s) ==
  u'[x].at \in {"prompt", "failed"} \/ (u'[x].at = "key" /\ u'[x].secrets = s \cup {x})

LEMMA After ==
  ASSUME VaultTypeOK, NEW x \in Users
  PROVE  /\ Start(x) => u'[x].at = "read" /\ Alone(x)
         /\ ReadVault(x) =>
              /\ \/ vault[RepoOf[x]] = NoVault /\ u'[x].at = "legacy"
                 \/ /\ vault[RepoOf[x]] # NoVault
                    /\ u'[x].at = "decrypt" /\ u'[x].seen = vault[RepoOf[x]]
              /\ Alone(x)
         /\ DecryptVault(x) => Reads(x, u[x].seen.secrets) /\ Alone(x)
         /\ ReadLegacy(x) =>
              /\ \/ legacy[RepoOf[x]] = {} /\ Reads(x, {})
                 \/ u'[x].at = "key" /\ u'[x].secrets = legacy[RepoOf[x]]
              /\ Alone(x)
         /\ LoadKey(x) =>
              /\ \/ key # 0 /\ u'[x].at = "persist" /\ u'[x].key = key
                 \/ key = 0 /\ u'[x].at = "writeKey" /\ u'[x].key = keys + 1
              /\ u'[x].secrets = u[x].secrets /\ Alone(x)
         /\ WriteKey(x) =>
              u'[x].at = "persist" /\ u'[x].key = u[x].key /\ u'[x].secrets = u[x].secrets /\ Alone(x)
         /\ PersistVault(x) =>
              /\ u'[x].at = "done" \/ (u'[x].at = "unlink" /\ u'[x].secrets = u[x].secrets)
              /\ Alone(x)
         /\ UnlinkLegacy(x) => Reads(x, u[x].secrets) /\ Alone(x)
         /\ Prompt(x) => u'[x].at \in {"done", "read"} /\ Alone(x)
         /\ Kill(x) => u'[x].at = "dead" /\ Alone(x)
<1> USE VaultTypes, MyLocals, Fields DEF Alone
<1>0. u \in [Users -> Locals]
  BY DEF VaultTypeOK
<1>1. ASSUME Start(x) PROVE u'[x].at = "read" /\ Alone(x)
  <2>1. u' = [u EXCEPT ![x] = [Idle EXCEPT !.at = "read"]]
    BY <1>1 DEF Start, Become
  <2>2. QED
    BY <1>0, <2>1
<1>2. ASSUME ReadVault(x)
      PROVE  /\ \/ vault[RepoOf[x]] = NoVault /\ u'[x].at = "legacy"
                \/ /\ vault[RepoOf[x]] # NoVault
                   /\ u'[x].at = "decrypt" /\ u'[x].seen = vault[RepoOf[x]]
             /\ Alone(x)
  <2>1. \/ /\ vault[RepoOf[x]] = NoVault
           /\ u' = [u EXCEPT ![x] = [u[x] EXCEPT !.at = "legacy"]]
        \/ /\ vault[RepoOf[x]] # NoVault
           /\ u' = [u EXCEPT ![x] = [u[x] EXCEPT !.at = "decrypt", !.seen = vault[RepoOf[x]]]]
    BY <1>2 DEF ReadVault, Become
  <2>2. CASE vault[RepoOf[x]] = NoVault /\ u' = [u EXCEPT ![x] = [u[x] EXCEPT !.at = "legacy"]]
    BY <1>0, <2>2
  <2>3. CASE vault[RepoOf[x]] # NoVault /\ u' = [u EXCEPT ![x] = [u[x] EXCEPT !.at = "decrypt", !.seen = vault[RepoOf[x]]]]
    BY <1>0, <2>3
  <2>4. QED
    BY <2>1, <2>2, <2>3
<1>3. ASSUME DecryptVault(x) PROVE Reads(x, u[x].seen.secrets) /\ Alone(x)
  <2>1. \/ u' = [u EXCEPT ![x] = HaveRead(x, u[x].seen.secrets)]
        \/ u' = [u EXCEPT ![x] = [Idle EXCEPT !.at = "failed"]]
    BY <1>3 DEF DecryptVault, Become, Fail
  <2>2. CASE u' = [u EXCEPT ![x] = HaveRead(x, u[x].seen.secrets)]
    BY <1>0, <2>2, ReadFacts DEF Reads
  <2>3. CASE u' = [u EXCEPT ![x] = [Idle EXCEPT !.at = "failed"]]
    BY <1>0, <2>3, ReadFacts DEF Reads
  <2>4. QED
    BY <2>1, <2>2, <2>3
<1>4. ASSUME ReadLegacy(x)
      PROVE  /\ \/ legacy[RepoOf[x]] = {} /\ Reads(x, {})
                \/ u'[x].at = "key" /\ u'[x].secrets = legacy[RepoOf[x]]
             /\ Alone(x)
  <2>1. \/ /\ legacy[RepoOf[x]] = {}
           /\ u' = [u EXCEPT ![x] = HaveRead(x, {})]
        \/ u' = [u EXCEPT ![x] = [u[x] EXCEPT !.at = "key", !.secrets = legacy[RepoOf[x]]]]
    BY <1>4 DEF ReadLegacy, Become
  <2>2. CASE legacy[RepoOf[x]] = {} /\ u' = [u EXCEPT ![x] = HaveRead(x, {})]
    BY <1>0, <2>2, ReadFacts DEF Reads
  <2>3. CASE u' = [u EXCEPT ![x] = [u[x] EXCEPT !.at = "key", !.secrets = legacy[RepoOf[x]]]]
    BY <1>0, <2>3, ReadFacts DEF Reads
  <2>4. QED
    BY <2>1, <2>2, <2>3
<1>5. ASSUME LoadKey(x)
      PROVE  /\ \/ key # 0 /\ u'[x].at = "persist" /\ u'[x].key = key
                \/ key = 0 /\ u'[x].at = "writeKey" /\ u'[x].key = keys + 1
             /\ u'[x].secrets = u[x].secrets /\ Alone(x)
  <2>1. \/ key # 0 /\ u' = [u EXCEPT ![x] = [u[x] EXCEPT !.at = "persist", !.key = key]]
        \/ key = 0 /\ u' = [u EXCEPT ![x] = [u[x] EXCEPT !.at = "writeKey", !.key = keys + 1]]
    BY <1>5 DEF LoadKey, Become
  <2>2. CASE key # 0 /\ u' = [u EXCEPT ![x] = [u[x] EXCEPT !.at = "persist", !.key = key]]
    BY <1>0, <2>2
  <2>3. CASE key = 0 /\ u' = [u EXCEPT ![x] = [u[x] EXCEPT !.at = "writeKey", !.key = keys + 1]]
    BY <1>0, <2>3
  <2>4. QED
    BY <2>1, <2>2, <2>3
<1>6. ASSUME WriteKey(x)
      PROVE  u'[x].at = "persist" /\ u'[x].key = u[x].key /\ u'[x].secrets = u[x].secrets /\ Alone(x)
  <2>1. u' = [u EXCEPT ![x] = [u[x] EXCEPT !.at = "persist"]]
    BY <1>6 DEF WriteKey, Become
  <2>2. QED
    BY <1>0, <2>1
<1>7. ASSUME PersistVault(x)
      PROVE  /\ u'[x].at = "done" \/ (u'[x].at = "unlink" /\ u'[x].secrets = u[x].secrets)
             /\ Alone(x)
  <2>1. \/ u' = [u EXCEPT ![x] = [Idle EXCEPT !.at = "done"]]
        \/ u' = [u EXCEPT ![x] = [u[x] EXCEPT !.at = "unlink"]]
    BY <1>7 DEF PersistVault, Become
  <2>2. CASE u' = [u EXCEPT ![x] = [Idle EXCEPT !.at = "done"]]
    BY <1>0, <2>2
  <2>3. CASE u' = [u EXCEPT ![x] = [u[x] EXCEPT !.at = "unlink"]]
    BY <1>0, <2>3
  <2>4. QED
    BY <2>1, <2>2, <2>3
<1>8. ASSUME UnlinkLegacy(x) PROVE Reads(x, u[x].secrets) /\ Alone(x)
  <2>1. \/ u' = [u EXCEPT ![x] = HaveRead(x, u[x].secrets)]
        \/ u' = [u EXCEPT ![x] = [Idle EXCEPT !.at = "failed"]]
    BY <1>8 DEF UnlinkLegacy, Become, Fail
  <2>2. CASE u' = [u EXCEPT ![x] = HaveRead(x, u[x].secrets)]
    BY <1>0, <2>2, ReadFacts DEF Reads
  <2>3. CASE u' = [u EXCEPT ![x] = [Idle EXCEPT !.at = "failed"]]
    BY <1>0, <2>3, ReadFacts DEF Reads
  <2>4. QED
    BY <2>1, <2>2, <2>3
<1>9. ASSUME Prompt(x) PROVE u'[x].at \in {"done", "read"} /\ Alone(x)
  <2>1. \/ u' = [u EXCEPT ![x] = [Idle EXCEPT !.at = "done"]]
        \/ u' = [u EXCEPT ![x] = [Idle EXCEPT !.at = "read", !.saving = TRUE]]
    BY <1>9 DEF Prompt, Become
  <2>2. CASE u' = [u EXCEPT ![x] = [Idle EXCEPT !.at = "done"]]
    BY <1>0, <2>2
  <2>3. CASE u' = [u EXCEPT ![x] = [Idle EXCEPT !.at = "read", !.saving = TRUE]]
    BY <1>0, <2>3
  <2>4. QED
    BY <2>1, <2>2, <2>3
<1>10. ASSUME Kill(x) PROVE u'[x].at = "dead" /\ Alone(x)
  <2>1. u' = [u EXCEPT ![x] = [Idle EXCEPT !.at = "dead"]]
    BY <1>10 DEF Kill, Become
  <2>2. QED
    BY <1>0, <2>1
<1>11. QED
  BY <1>1, <1>2, <1>3, <1>4, <1>5, <1>6, <1>7, <1>8, <1>9, <1>10

LEMMA NextVaultType ==
  ASSUME VaultAssumption, VaultTypeOK, [Next]_vaultVars
  PROVE  VaultTypeOK'
<1> USE Repos, VaultTypes, LocalTypes DEF Labels, Writing
<1>1. ASSUME NEW x \in Users, VaultStep(x) PROVE VaultTypeOK'
  <2>1. CASE Start(x)
    <3>1. u[x] \in Locals /\ RepoOf[x] \in DOMAIN Legacy
      BY DEF VaultTypeOK
    <3>2. u' \in [Users -> Locals]
      BY <2>1, <3>1, BecomeTypes DEF Start, Fail
    <3>3. QED
      BY <2>1, <3>1, <3>2 DEF Start, VaultTypeOK
  <2>2. CASE ReadVault(x)
    <3>1. u[x] \in Locals /\ RepoOf[x] \in DOMAIN Legacy
      BY DEF VaultTypeOK
    <3>2. u' \in [Users -> Locals]
      <4>1. [u[x] EXCEPT !.at = "legacy"] \in Locals
        BY <3>1
      <4>2. vault[RepoOf[x]] \in Vaults
        BY <3>1 DEF VaultTypeOK
      <4>3. [u[x] EXCEPT !.at = "decrypt", !.seen = vault[RepoOf[x]]] \in Locals
        BY <3>1, <4>2
      <4>4. QED
        BY <2>2, <4>1, <4>3, BecomeTypes DEF ReadVault
    <3>3. QED
      BY <2>2, <3>1, <3>2 DEF ReadVault, VaultTypeOK
  <2>3. CASE DecryptVault(x)
    <3>1. u[x] \in Locals /\ RepoOf[x] \in DOMAIN Legacy
      BY DEF VaultTypeOK
    <3>2. u' \in [Users -> Locals]
      <4>1. HaveRead(x, u[x].seen.secrets) \in Locals
        BY <3>1, ReadTypes
      <4>2. [Idle EXCEPT !.at = "failed"] \in Locals
        OBVIOUS
      <4>3. QED
        BY <2>3, <4>1, <4>2, BecomeTypes DEF DecryptVault, Fail
    <3>3. QED
      BY <2>3, <3>1, <3>2 DEF DecryptVault, VaultTypeOK
  <2>4. CASE ReadLegacy(x)
    <3>1. u[x] \in Locals /\ RepoOf[x] \in DOMAIN Legacy
      BY DEF VaultTypeOK
    <3>2. u' \in [Users -> Locals]
      <4>1. legacy[RepoOf[x]] \in SecretSets /\ {} \in SecretSets
        BY <3>1 DEF VaultTypeOK, SecretSets
      <4>2. HaveRead(x, {}) \in Locals
        BY <4>1, ReadTypes
      <4>3. [u[x] EXCEPT !.at = "key", !.secrets = legacy[RepoOf[x]]] \in Locals
        BY <3>1, <4>1
      <4>4. QED
        BY <2>4, <4>2, <4>3, BecomeTypes DEF ReadLegacy
    <3>3. QED
      BY <2>4, <3>1, <3>2 DEF ReadLegacy, VaultTypeOK
  <2>5. CASE LoadKey(x)
    <3>1. u[x] \in Locals
      BY DEF VaultTypeOK
    <3>2. u' \in [Users -> Locals]
      <4>1. /\ [u[x] EXCEPT !.at = "persist", !.key = key] \in Locals
            /\ [u[x] EXCEPT !.at = "writeKey", !.key = keys + 1] \in Locals
        BY <3>1, LoadKeyTypes
      <4>2. QED
        BY <2>5, <4>1, BecomeTypes DEF LoadKey
    <3>3. QED
      BY <2>5, <3>2, LoadKeyTypes DEF LoadKey, VaultTypeOK
  <2>6. CASE WriteKey(x)
    <3>1. u[x] \in Locals /\ RepoOf[x] \in DOMAIN Legacy
      BY DEF VaultTypeOK
    <3>2. u' \in [Users -> Locals]
      BY <2>6, <3>1, BecomeTypes DEF WriteKey, Fail
    <3>3. QED
      BY <2>6, <3>1, <3>2 DEF WriteKey, VaultTypeOK
  <2>7. CASE PersistVault(x)
    <3>1. u[x] \in Locals /\ RepoOf[x] \in DOMAIN Legacy
      BY DEF VaultTypeOK
    <3>2. u' \in [Users -> Locals]
      <4>1. [Idle EXCEPT !.at = "done"] \in Locals /\ [u[x] EXCEPT !.at = "unlink"] \in Locals
        BY <3>1
      <4>2. QED
        BY <2>7, <4>1, BecomeTypes DEF PersistVault
    <3>3. vault' \in [DOMAIN Legacy -> Vaults]
      <4>1. [key |-> u[x].key, secrets |-> u[x].secrets] \in Vaults
        BY <3>1
      <4>2. QED
        BY <2>7, <3>1, <4>1 DEF PersistVault, VaultTypeOK
    <3>4. kept' \in [DOMAIN Legacy -> SecretSets]
      <4>1. kept[RepoOf[x]] \cup {x} \in SecretSets
        BY <3>1 DEF VaultTypeOK, SecretSets, Secrets
      <4>2. QED
        BY <2>7, <3>1, <4>1 DEF PersistVault, VaultTypeOK
    <3>5. QED
      BY <2>7, <3>1, <3>2, <3>3, <3>4 DEF PersistVault, VaultTypeOK
  <2>8. CASE UnlinkLegacy(x)
    <3>1. u[x] \in Locals /\ RepoOf[x] \in DOMAIN Legacy
      BY DEF VaultTypeOK
    <3>2. u' \in [Users -> Locals]
      <4>1. HaveRead(x, u[x].secrets) \in Locals
        BY <3>1, ReadTypes
      <4>2. [Idle EXCEPT !.at = "failed"] \in Locals
        OBVIOUS
      <4>3. QED
        BY <2>8, <4>1, <4>2, BecomeTypes DEF UnlinkLegacy, Fail
    <3>3. QED
      BY <2>8, <3>1, <3>2 DEF UnlinkLegacy, VaultTypeOK, SecretSets
  <2>9. CASE Prompt(x)
    <3>1. u[x] \in Locals /\ RepoOf[x] \in DOMAIN Legacy
      BY DEF VaultTypeOK
    <3>2. u' \in [Users -> Locals]
      BY <2>9, <3>1, BecomeTypes DEF Prompt, Fail
    <3>3. QED
      BY <2>9, <3>1, <3>2 DEF Prompt, VaultTypeOK
  <2>10. CASE Kill(x)
    <3>1. u[x] \in Locals /\ RepoOf[x] \in DOMAIN Legacy
      BY DEF VaultTypeOK
    <3>2. u' \in [Users -> Locals]
      BY <2>10, <3>1, BecomeTypes DEF Kill, Fail
    <3>3. QED
      BY <2>10, <3>1, <3>2 DEF Kill, VaultTypeOK
  <2>11. QED
    BY <1>1, <2>1, <2>2, <2>3, <2>4, <2>5, <2>6, <2>7, <2>8, <2>9, <2>10 DEF VaultStep
<1>2. CASE UNCHANGED vaultVars
  BY <1>2 DEF vaultVars, VaultTypeOK
<1>3. QED
  BY <1>1, <1>2 DEF Next, VaultStep

LEMMA NextOverlap ==
  ASSUME VaultAssumption, VaultTypeOK, OverlapIsKnown, [Next]_vaultVars
  PROVE  OverlapIsKnown'
<1> USE Repos DEF VaultTypeOK, OverlapIsKnown, Working, Locals, Become, Fail, Idle, HaveRead
<1>1. ASSUME NEW x \in Users, VaultStep(x) PROVE OverlapIsKnown'
  <2>1. CASE Start(x)
    BY <2>1 DEF Start, Busy, Ended
  <2>2. CASE ReadVault(x)
    BY <2>2 DEF ReadVault
  <2>3. CASE DecryptVault(x)
    BY <2>3 DEF DecryptVault
  <2>4. CASE ReadLegacy(x)
    BY <2>4 DEF ReadLegacy
  <2>5. CASE LoadKey(x)
    BY <2>5 DEF LoadKey
  <2>6. CASE WriteKey(x)
    BY <2>6 DEF WriteKey
  <2>7. CASE PersistVault(x)
    BY <2>7 DEF PersistVault
  <2>8. CASE UnlinkLegacy(x)
    BY <2>8 DEF UnlinkLegacy
  <2>9. CASE Prompt(x)
    BY <2>9 DEF Prompt
  <2>10. CASE Kill(x)
    BY <2>10 DEF Kill, Busy, Ended
  <2>11. QED
    BY <1>1, <2>1, <2>2, <2>3, <2>4, <2>5, <2>6, <2>7, <2>8, <2>9, <2>10 DEF VaultStep
<1>2. CASE UNCHANGED vaultVars
  BY <1>2 DEF vaultVars
<1>3. QED
  BY <1>1, <1>2 DEF Next, VaultStep

LEMMA NextKeys ==
  ASSUME VaultAssumption, VaultTypeOK, KeysAreOne, ~keyRace', [Next]_vaultVars
  PROVE  KeysAreOne'
<1> USE Repos, After DEF KeysAreOne, Alone, Reads
<1>1. ASSUME NEW x \in Users, VaultStep(x) PROVE KeysAreOne'
  <2>1. CASE Start(x)
    BY <2>1 DEF Start
  <2>2. CASE ReadVault(x)
    BY <2>2 DEF ReadVault
  <2>3. CASE DecryptVault(x)
    BY <2>3 DEF DecryptVault
  <2>4. CASE ReadLegacy(x)
    BY <2>4 DEF ReadLegacy
  <2>5. CASE LoadKey(x)
    <3>1. key' = key /\ vault' = vault /\ Alone(x)
      BY <2>5 DEF LoadKey
    <3>2. CASE key # 0 /\ u'[x].at = "persist" /\ u'[x].key = key
      BY <3>1, <3>2
    <3>3. CASE key = 0 /\ u'[x].at = "writeKey" /\ u'[x].key = keys + 1
      <4>1. \A y \in Users : u[y].at # "writeKey"
        BY <2>5, <3>3 DEF LoadKey
      <4>2. keys + 1 # 0
        BY DEF VaultTypeOK
      <4>3. QED
        BY <3>1, <3>3, <4>1, <4>2
    <3>4. QED
      BY <2>5, <3>2, <3>3
  <2>6. CASE WriteKey(x)
    BY <2>6 DEF WriteKey
  <2>7. CASE PersistVault(x)
    BY <2>7 DEF PersistVault, VaultTypeOK
  <2>8. CASE UnlinkLegacy(x)
    BY <2>8 DEF UnlinkLegacy
  <2>9. CASE Prompt(x)
    BY <2>9 DEF Prompt
  <2>10. CASE Kill(x)
    BY <2>10 DEF Kill
  <2>11. QED
    BY <1>1, <2>1, <2>2, <2>3, <2>4, <2>5, <2>6, <2>7, <2>8, <2>9, <2>10 DEF VaultStep
<1>2. CASE UNCHANGED vaultVars
  BY <1>2 DEF vaultVars
<1>3. QED
  BY <1>1, <1>2 DEF Next, VaultStep

LEMMA NextNothingDropped ==
  ASSUME VaultAssumption, VaultTypeOK, OverlapIsKnown, KeysAreOne, NothingIsDropped, [Next]_vaultVars
  PROVE  NothingIsDropped'
<1> USE Repos, After DEF NothingIsDropped, Alone
<1>1. ASSUME NEW x \in Users, VaultStep(x) PROVE NothingIsDropped'
  <2>1. CASE Start(x)
    BY <2>1 DEF Start, KnowsAll, Writing, Readable
  <2>2. CASE ReadVault(x)
    <3>1. vault' = vault /\ legacy' = legacy /\ kept' = kept /\ overlap' = overlap /\ key' = key /\ Alone(x)
      BY <2>2 DEF ReadVault
    <3>2. KnowsAll(x)'
      BY <2>2, <3>1 DEF ReadVault, KnowsAll, Writing, Reads, Readable
    <3>3. ASSUME NEW y \in Users, y # x PROVE KnowsAll(y)'
      BY <3>1, <3>3 DEF KnowsAll
    <3>4. \A r \in DOMAIN Legacy : r \notin overlap' => kept'[r] \subseteq Readable(r)'
      BY <3>1 DEF Readable
    <3>5. QED
      BY <3>2, <3>3, <3>4 DEF NothingIsDropped
  <2>3. CASE DecryptVault(x)
    <3>1. vault' = vault /\ legacy' = legacy /\ kept' = kept /\ overlap' = overlap /\ key' = key /\ Alone(x)
      BY <2>3 DEF DecryptVault
    <3>2. KnowsAll(x)'
      <4>1. SUFFICES ASSUME RepoOf[x] \notin overlap
                     PROVE  u'[x].at \in Writing => kept[RepoOf[x]] \subseteq u'[x].secrets
        BY <2>3, <3>1 DEF DecryptVault, KnowsAll, Writing, Reads
      <4>2. u[x].seen = vault[RepoOf[x]] /\ vault[RepoOf[x]] # NoVault
        BY <2>3, <4>1 DEF DecryptVault, KnowsAll
      <4>3. kept[RepoOf[x]] \subseteq u[x].seen.secrets
        BY <4>1, <4>2 DEF Readable
      <4>4. QED
        BY <2>3, <4>3 DEF Reads, Writing
    <3>3. ASSUME NEW y \in Users, y # x PROVE KnowsAll(y)'
      BY <3>1, <3>3 DEF KnowsAll
    <3>4. \A r \in DOMAIN Legacy : r \notin overlap' => kept'[r] \subseteq Readable(r)'
      BY <3>1 DEF Readable
    <3>5. QED
      BY <3>2, <3>3, <3>4 DEF NothingIsDropped
  <2>4. CASE ReadLegacy(x)
    <3>1. vault' = vault /\ legacy' = legacy /\ kept' = kept /\ overlap' = overlap /\ key' = key /\ Alone(x)
      BY <2>4 DEF ReadLegacy
    <3>2. KnowsAll(x)'
      BY <2>4, <3>1 DEF ReadLegacy, KnowsAll, Writing, Reads, Readable
    <3>3. ASSUME NEW y \in Users, y # x PROVE KnowsAll(y)'
      BY <3>1, <3>3 DEF KnowsAll
    <3>4. \A r \in DOMAIN Legacy : r \notin overlap' => kept'[r] \subseteq Readable(r)'
      BY <3>1 DEF Readable
    <3>5. QED
      BY <3>2, <3>3, <3>4 DEF NothingIsDropped
  <2>5. CASE LoadKey(x)
    <3>1. vault' = vault /\ legacy' = legacy /\ kept' = kept /\ overlap' = overlap /\ key' = key /\ Alone(x)
      BY <2>5 DEF LoadKey
    <3>2. KnowsAll(x)'
      BY <2>5, <3>1 DEF LoadKey, KnowsAll, Writing, Reads, Readable
    <3>3. ASSUME NEW y \in Users, y # x PROVE KnowsAll(y)'
      BY <3>1, <3>3 DEF KnowsAll
    <3>4. \A r \in DOMAIN Legacy : r \notin overlap' => kept'[r] \subseteq Readable(r)'
      BY <3>1 DEF Readable
    <3>5. QED
      BY <3>2, <3>3, <3>4 DEF NothingIsDropped
  <2>6. CASE WriteKey(x)
    <3>1. /\ vault' = vault /\ legacy' = legacy /\ kept' = kept /\ overlap' = overlap /\ Alone(x)
          /\ u[x].at = "writeKey"
      BY <2>6 DEF WriteKey
    <3>2. KnowsAll(x)'
      BY <2>6, <3>1 DEF KnowsAll, Writing
    <3>3. ASSUME NEW y \in Users, y # x PROVE KnowsAll(y)'
      BY <3>1, <3>3 DEF KnowsAll
    <3>4. \A r \in DOMAIN Legacy : vault[r] = NoVault
      BY <3>1 DEF KeysAreOne
    <3>5. \A r \in DOMAIN Legacy : r \notin overlap' => kept'[r] \subseteq Readable(r)'
      BY <3>1, <3>4 DEF Readable
    <3>6. QED
      BY <3>2, <3>3, <3>5 DEF NothingIsDropped
  <2>7. CASE PersistVault(x)
    <3>1. /\ legacy' = legacy /\ overlap' = overlap /\ key' = key /\ Alone(x)
          /\ u[x].at = "persist" /\ u[x].key = key /\ key # 0
          /\ vault' = [vault EXCEPT ![RepoOf[x]] = [key |-> key, secrets |-> u[x].secrets]]
      BY <2>7 DEF PersistVault, KeysAreOne
    <3>2. /\ vault'[RepoOf[x]] = [key |-> key, secrets |-> u[x].secrets]
          /\ vault'[RepoOf[x]] # NoVault
          /\ \A r \in DOMAIN Legacy : r # RepoOf[x] => vault'[r] = vault[r]
      BY <3>1 DEF VaultTypeOK, NoVault
    <3>3. /\ kept'[RepoOf[x]] \subseteq kept[RepoOf[x]] \cup (u[x].secrets \cap {x})
          /\ \A r \in DOMAIN Legacy : r # RepoOf[x] => kept'[r] = kept[r]
      BY <2>7 DEF PersistVault, VaultTypeOK
    <3>4. KnowsAll(x)'
      <4>1. u'[x].at = "done" \/ (u'[x].at = "unlink" /\ u'[x].secrets = u[x].secrets)
        BY <2>7
      <4>2. RepoOf[x] \notin overlap => kept[RepoOf[x]] \subseteq u[x].secrets
        BY <3>1 DEF KnowsAll, Writing
      <4>3. QED
        BY <3>1, <3>2, <3>3, <4>1, <4>2 DEF KnowsAll, Writing
    <3>5. ASSUME NEW y \in Users, y # x PROVE KnowsAll(y)'
      <4>1. CASE RepoOf[y] # RepoOf[x]
        BY <3>1, <3>2, <3>3, <3>5, <4>1 DEF KnowsAll
      <4>2. CASE RepoOf[y] = RepoOf[x] /\ RepoOf[x] \notin overlap
        <5>1. ~Working(y)
          BY <3>1, <3>5, <4>2 DEF OverlapIsKnown, Working
        <5>2. QED
          BY <3>1, <3>5, <5>1 DEF KnowsAll, Working, Writing
      <4>3. QED
        BY <3>1, <4>1, <4>2 DEF KnowsAll
    <3>6. ASSUME NEW r \in DOMAIN Legacy, r \notin overlap' PROVE kept'[r] \subseteq Readable(r)'
      <4>1. CASE r # RepoOf[x]
        BY <3>1, <3>2, <3>3, <3>6, <4>1 DEF Readable
      <4>2. CASE r = RepoOf[x]
        <5>1. kept[r] \subseteq u[x].secrets
          BY <3>1, <3>6, <4>2 DEF KnowsAll, Writing
        <5>2. QED
          BY <3>1, <3>2, <3>3, <4>2, <5>1 DEF Readable
      <4>3. QED
        BY <4>1, <4>2
    <3>7. QED
      BY <3>4, <3>5, <3>6 DEF NothingIsDropped
  <2>8. CASE UnlinkLegacy(x)
    <3>1. /\ vault' = vault /\ kept' = kept /\ overlap' = overlap /\ key' = key /\ Alone(x)
          /\ u[x].at = "unlink" /\ Reads(x, u[x].secrets)
          /\ \A r \in DOMAIN Legacy : r # RepoOf[x] => legacy'[r] = legacy[r]
      BY <2>8 DEF UnlinkLegacy, VaultTypeOK
    <3>2. KnowsAll(x)'
      BY <3>1 DEF KnowsAll, Writing, Reads
    <3>3. ASSUME NEW y \in Users, y # x PROVE KnowsAll(y)'
      BY <3>1, <3>3 DEF KnowsAll
    <3>4. RepoOf[x] \notin overlap => vault[RepoOf[x]] # NoVault
      BY <3>1 DEF KnowsAll
    <3>5. \A r \in DOMAIN Legacy : r \notin overlap' => kept'[r] \subseteq Readable(r)'
      BY <3>1, <3>4 DEF Readable
    <3>6. QED
      BY <3>2, <3>3, <3>5 DEF NothingIsDropped
  <2>9. CASE Prompt(x)
    BY <2>9 DEF Prompt, KnowsAll, Writing, Readable
  <2>10. CASE Kill(x)
    BY <2>10 DEF Kill, KnowsAll, Writing, Readable
  <2>11. QED
    BY <1>1, <2>1, <2>2, <2>3, <2>4, <2>5, <2>6, <2>7, <2>8, <2>9, <2>10 DEF VaultStep
<1>2. CASE UNCHANGED vaultVars
  BY <1>2 DEF vaultVars, KnowsAll, Readable
<1>3. QED
  BY <1>1, <1>2 DEF Next, VaultStep

LEMMA InitVaultInv == ASSUME VaultAssumption, Init PROVE VaultInv
<1> USE DEF Init, Repositories, VaultAssumption
<1>1. u \in [Users -> Locals] /\ \A x \in Users : u[x] = Idle
  BY VaultTypes
<1>2. \A x \in Users : u[x].at = "idle"
  BY <1>1 DEF Idle
<1>3. VaultTypeOK
  <2>0. key \in Nat /\ keys \in Nat
    OBVIOUS
  <2>1. keyRace \in BOOLEAN
    OBVIOUS
  <2>2. vault \in [DOMAIN Legacy -> Vaults]
    BY VaultTypes
  <2>3. \A r \in DOMAIN Legacy : Legacy[r] \in SecretSets
    BY DEF SecretSets, Secrets
  <2>4. kept \in [DOMAIN Legacy -> SecretSets]
    BY <2>3
  <2>5. legacy \in [DOMAIN Legacy -> SecretSets]
    BY <2>3
  <2>6. QED
    BY <1>1, <2>0, <2>1, <2>2, <2>4, <2>5 DEF VaultTypeOK
<1>4. OverlapIsKnown /\ KeysAreOne
  BY <1>2 DEF OverlapIsKnown, Working, KeysAreOne
<1>5. NothingIsDropped
  BY <1>2 DEF NothingIsDropped, KnowsAll, Writing, Readable
<1>6. QED
  BY <1>3, <1>4, <1>5 DEF VaultInv

LEMMA NextVaultInv ==
  ASSUME VaultAssumption, VaultInv, [Next]_vaultVars PROVE VaultInv'
<1>1. ~keyRace' => ~keyRace
  BY DEF VaultInv, VaultTypeOK, vaultVars, Next, Start, ReadVault, DecryptVault,
         ReadLegacy, LoadKey, WriteKey, PersistVault, UnlinkLegacy,
         Prompt, Kill
<1>2. QED
  BY <1>1, NextVaultType, NextOverlap, NextKeys, NextNothingDropped DEF VaultInv

(* Unless two processes made a key at once, every vault is of the one key, *)
(* and in a repository no two processes worked in at once every secret     *)
(* that was kept can be read, wherever processes are killed.               *)
THEOREM SecretsSurviveAlways == ASSUME VaultAssumption PROVE Spec => []SecretsSurvive
<1>1. VaultInv => SecretsSurvive
  BY DEF VaultInv, KeysAreOne, NothingIsDropped, SecretsSurvive, Repositories, NoVault
<1>2. QED
  BY <1>1, InitVaultInv, NextVaultInv, PTL DEF Spec
-----------------------------------------------------------------------------
(* The source                                                              *)

Procs == Runs \cup Generations
FileMaps == [Names -> Nat]
Commits == [files : FileMaps, head : Nat, tree : FileMaps]
Snapshots == [commit : Nat, dirty : BOOLEAN, list : SUBSET Names, entries : FileMaps]
Fingerprints == FileMaps \X Nat
Templates == [name : Fingerprints, id : Nat, readable : BOOLEAN, snapshot : Snapshots]
Verifying == {"hash", "again", "status"}
Listed == {"clone", "copy"} \cup Verifying
Begun == {"list"} \cup Listed
Stages == {"idle", "claim", "head", "done", "failed", "published", "dead"} \cup Begun
Readers ==
  [at : Stages, job : {"none", "capture", "adopt"}, since : Nat, tries : Nat, commit : Nat, list : SUBSET Names,
   got : FileMaps, next : 1..Len(Paths), same : BOOLEAN, from : Nat, prepared : Snapshots,
   candidates : SUBSET Templates, result : Snapshots]

SourceTypeOK ==
  /\ log \in Seq(Commits) /\ log # <<>> /\ gone \subseteq Names /\ gens \in Nat
  /\ ready \subseteq Templates /\ watched \in [fingerprint : Fingerprints, task : Nat]
  /\ w \in [Procs -> Readers]

Index == 1..Len(log)
(* No bytes come back: a change has a number of its own, and a file that   *)
(* was there and is deleted stays away.                                    *)
NothingComesBack ==
  /\ \A j \in Index, p \in Names : log[j].files[p] <= j
  /\ \A p \in Names, j \in Index :
       Repo.files[p] # 0 /\ Repo.files[p] <= j => log[j].files[p] = Repo.files[p]
  /\ \A p \in gone : Repo.files[p] = 0
  /\ \A p \in Names : Repo.tree[p] # 0 => Repo.files[p] # 0 \/ p \in gone
  /\ \A i, j \in Index : i <= j => log[i].head <= log[j].head

(* A snapshot holds what there was; what it lists and does not hold was    *)
(* deleted.                                                                *)
SnapshotOK(s) ==
  /\ \A p \in Names : s.entries[p] <= Len(log)
  /\ \A p \in s.list : s.entries[p] = 0 => p \in gone

Hashed(x, p) == x.at = "hash" => \E i \in 1..(x.next - 1) : p = Paths[i]
(* Moment k lies between what was read first and what is read again.       *)
Between(x, k) ==
  /\ x.since <= k /\ x.commit <= log[k].head
  /\ x.at = "status" /\ x.same => x.commit = log[k].head
  /\ \A p \in x.list :
       /\ x.got[p] <= k
       /\ x.same /\ Hashed(x, p) /\ x.got[p] # 0 => log[k].files[p] = x.got[p]
       /\ x.same /\ Hashed(x, p) /\ x.got[p] = 0 => p \in gone
  /\ x.job = "capture" => \A p \in x.list : x.got[p] = 0 => log[k].files[p] = 0 /\ p \in gone
  /\ x.job = "adopt" =>
       /\ x.got = x.prepared.entries
       /\ \A p \in Names \ x.list : log[k].files[p] = 0 /\ (x.same => x.got[p] = 0)
       /\ \A p \in x.prepared.list : x.got[p] = 0 => log[k].files[p] = 0
(* What SnapshotIsReal says of one process.                                *)
RealAt(x, k) ==
  /\ x.since <= k /\ log[k].head = x.result.commit
  /\ \A p \in x.result.list : log[k].files[p] = x.result.entries[p]
  /\ x.job = "adopt" =>
       \A p \in Names : log[k].files[p] = x.result.entries[p] \/ (x.result.entries[p] = 0 /\ p \in gone)

(* Each attempt that failed met a change: while there are no more changes  *)
(* than failed attempts, what the present one has read is what there is.   *)
AttemptOK(x) ==
  /\ x.since + x.tries <= Len(log)
  /\ x.at = "idle" => x.tries = 0
  /\ x.at = "failed" => x.tries >= CaptureAttempts
  /\ x.at \in Begun /\ x.job = "capture" /\ x.since + x.tries = Len(log) =>
       /\ x.commit = Repo.head
       /\ x.at \in Listed => x.same
       /\ x.at = "copy" =>
            \A i \in 1..(x.next - 1) : Paths[i] \in x.list => x.got[Paths[i]] = Repo.files[Paths[i]]
       /\ x.at \in Verifying => \A p \in x.list : x.got[p] = Repo.files[p]

ReaderOK(x) ==
  /\ AttemptOK(x)
  /\ x.since <= Len(log)
  /\ SnapshotOK(x.prepared) /\ SnapshotOK(x.result)
  /\ \A p \in Names : x.got[p] <= Len(log)
  /\ x.at \in Begun => x.commit <= Repo.head
  /\ x.at \in Begun \cup {"head"} => x.job # "none"
  /\ x.at \in Listed => \A p \in x.list : Repo.files[p] # 0 \/ p \in gone
  /\ x.at \in {"clone", "copy"} => x.job = "capture"
  /\ x.at = "copy" => \A i \in 1..(x.next - 1) : Paths[i] \in x.list /\ x.got[Paths[i]] = 0 => Paths[i] \in gone
  /\ x.at \in Verifying => \E k \in Index : Between(x, k)
  /\ x.at = "clone" => x.next = 1
  /\ x.at = "status" /\ x.job = "capture" => x.same
  /\ x.at = "done" => \E k \in Index : RealAt(x, k)

Published(g) == g \in Generations /\ w[g].at = "published"
(* A template is one preparation's, and is in ready or in one hand.        *)
TemplatesApart ==
  /\ \A t \in ready : IF t.readable THEN Published(t.id) ELSE t.id = 0
  /\ \A s, t \in ready : s.id = t.id => s = t
  /\ \A c \in Procs : w[c].job = "adopt" => Published(w[c].from) /\ \A t \in ready : t.id # w[c].from
  /\ \A c, d \in Procs : c # d /\ w[c].job = "adopt" /\ w[d].job = "adopt" => w[c].from # w[d].from
  /\ \A g \in Generations : g > gens => w[g].at = "idle"

SourceInv ==
  /\ SourceTypeOK /\ NothingComesBack /\ TemplatesApart
  /\ \A t \in ready : SnapshotOK(t.snapshot)
  /\ \A c \in Procs : ReaderOK(w[c])

LEMMA RepoIs ==
  ASSUME SourceTypeOK
  PROVE  /\ Len(log) \in Nat /\ Len(log) >= 1 /\ Len(log) \in Index
         /\ Repo = log[Len(log)] /\ Repo \in Commits
         /\ \A j \in Index : log[j] \in Commits
<1>1. Len(log) \in Nat /\ Len(log) >= 1
  BY DEF SourceTypeOK
<1>2. \A j \in Index : log[j] \in Commits
  BY DEF SourceTypeOK, Index
<1>3. QED
  BY <1>1, <1>2 DEF Index, Repo, Last

(* The user changes the repository; what readers know stays true.          *)
LEMMA ChangeKeeps ==
  ASSUME SourceInv, NEW e \in Commits, log' = Append(log, e),
         gone \subseteq gone', gone' \subseteq Names, UNCHANGED <<ready, watched, gens, w>>,
         \A p \in Names :
           \/ e.files[p] = Repo.files[p] \/ e.files[p] = Len(log) + 1
           \/ e.files[p] = 0 /\ p \in gone',
         \A p \in gone' : e.files[p] = 0,
         \A p \in Names : e.tree[p] # 0 => e.files[p] # 0 \/ p \in gone',
         Repo.head <= e.head
  PROVE  SourceInv'
<1>0. SourceTypeOK /\ NothingComesBack
  BY DEF SourceInv
<1>1. /\ Len(log)' = Len(log) + 1 /\ log' \in Seq(Commits) /\ log' # <<>>
      /\ log'[Len(log) + 1] = e /\ \A j \in Index : log'[j] = log[j]
  BY <1>0 DEF SourceTypeOK, Index
<1>2. Repo' = e /\ Index' = Index \cup {Len(log) + 1} /\ Index \subseteq Index'
  BY <1>0, <1>1, RepoIs DEF Repo, Last, Index
<1>3. SourceTypeOK'
  BY <1>0, <1>1 DEF SourceTypeOK
<1>4. NothingComesBack'
  <2>1. \A j \in Index', p \in Names : log'[j].files[p] <= j
    <3>1. \A p \in Names : e.files[p] <= Len(log) + 1
      <4>1. \A p \in Names : Repo.files[p] <= Len(log) /\ Repo.files[p] \in Nat
        BY <1>0, RepoIs DEF NothingComesBack, Commits, FileMaps
      <4>2. QED
        BY <4>1, <1>0, RepoIs
    <3>2. \A j \in Index, p \in Names : log'[j].files[p] <= j
      BY <1>0, <1>1 DEF NothingComesBack
    <3>3. \A p \in Names : log'[Len(log) + 1].files[p] <= Len(log) + 1
      BY <1>1, <3>1
    <3>4. QED
      BY <1>2, <3>2, <3>3
  <2>2. ASSUME NEW p \in Names, NEW j \in Index', e.files[p] # 0, e.files[p] <= j PROVE log'[j].files[p] = e.files[p]
    <3>1. CASE j = Len(log) + 1
      BY <1>1, <3>1
    <3>2. CASE j \in Index
      <4>1. e.files[p] = Repo.files[p]
        BY <1>0, <2>2, <3>2, RepoIs DEF Index
      <4>2. QED
        BY <1>0, <1>1, <2>2, <3>2, <4>1 DEF NothingComesBack
    <3>3. QED
      BY <1>2, <3>1, <3>2
  <2>3. ASSUME NEW i \in Index', NEW j \in Index', i <= j PROVE log'[i].head <= log'[j].head
    <3>1. CASE j \in Index
      <4>1. i \in Index
        BY <1>0, <1>2, <2>3, <3>1, RepoIs DEF Index
      <4>2. QED
        BY <1>0, <1>1, <2>3, <3>1, <4>1 DEF NothingComesBack
    <3>2. CASE j = Len(log) + 1 /\ i \in Index
      <4>1. log[i].head <= Repo.head /\ log[i] \in Commits /\ Repo \in Commits
        BY <1>0, <3>2, RepoIs DEF NothingComesBack, Index
      <4>2. log[i].head \in Nat /\ Repo.head \in Nat /\ e.head \in Nat
        BY <4>1 DEF Commits
      <4>3. log'[i].head = log[i].head /\ log'[j].head = e.head
        BY <1>1, <3>2
      <4>4. QED
        BY <4>1, <4>2, <4>3
    <3>3. CASE j = Len(log) + 1 /\ i = j
      BY <1>1, <3>3 DEF Commits
    <3>4. QED
      BY <1>2, <2>3, <3>1, <3>2, <3>3
  <2>4. QED
    BY <1>2, <2>1, <2>2, <2>3 DEF NothingComesBack
<1>5. ASSUME NEW s \in Snapshots, SnapshotOK(s) PROVE SnapshotOK(s)'
  <2>1. \A p \in Names : s.entries[p] \in Nat
    BY DEF Snapshots, FileMaps
  <2>2. QED
    BY <1>0, <1>1, <1>5, <2>1, RepoIs DEF SnapshotOK
<1>6. ASSUME NEW x \in Readers, ReaderOK(x) PROVE ReaderOK(x)'
  <2>1. x.prepared \in Snapshots /\ x.result \in Snapshots /\ x.since \in Nat /\ x.commit \in Nat /\ x.list \subseteq Names
        /\ \A p \in Names : x.got[p] \in Nat
    BY DEF Readers, FileMaps
  <2>2. SnapshotOK(x.prepared)' /\ SnapshotOK(x.result)'
    BY <1>5, <1>6, <2>1 DEF ReaderOK
  <2>3. x.since <= Len(log)' /\ \A p \in Names : x.got[p] <= Len(log)'
    BY <1>0, <1>1, <1>6, <2>1, RepoIs DEF ReaderOK
  <2>4. x.at \in Begun => x.commit <= Repo'.head
    BY <1>0, <1>2, <1>6, <2>1, RepoIs DEF ReaderOK, Commits
  <2>5. x.at \in Listed => \A p \in x.list : Repo'.files[p] # 0 \/ p \in gone'
    BY <1>0, <1>2, <1>6, <2>1, RepoIs DEF ReaderOK
  <2>6. ASSUME NEW k \in Index, Between(x, k) PROVE Between(x, k)'
    BY <1>1, <2>6 DEF Between, Hashed
  <2>7. ASSUME NEW k \in Index, RealAt(x, k) PROVE RealAt(x, k)'
    BY <1>1, <2>7 DEF RealAt
  <2>8. x.at \in Verifying => \E k \in Index' : Between(x, k)'
    BY <1>2, <1>6, <2>6 DEF ReaderOK
  <2>9. x.at = "done" => \E k \in Index' : RealAt(x, k)'
    BY <1>2, <1>6, <2>7 DEF ReaderOK
  <2>10. AttemptOK(x)'
    <3>1. x.tries \in Nat /\ x.since + x.tries <= Len(log)
      BY <1>6 DEF ReaderOK, AttemptOK, Readers
    <3>2. x.since + x.tries < Len(log)'
      BY <1>0, <1>1, <2>1, <3>1, RepoIs
    <3>3. QED
      BY <1>0, <1>1, <1>6, <2>1, <3>1, <3>2, RepoIs DEF ReaderOK, AttemptOK
  <2>11. QED
    BY <1>6, <2>2, <2>3, <2>4, <2>5, <2>8, <2>9, <2>10 DEF ReaderOK
<1>7. \A t \in ready' : SnapshotOK(t.snapshot)'
  BY <1>0, <1>5 DEF SourceInv, SourceTypeOK, Templates
<1>8. \A c \in Procs : ReaderOK(w[c])'
  BY <1>0, <1>6 DEF SourceInv, SourceTypeOK
<1>9. TemplatesApart'
  BY DEF SourceInv, TemplatesApart, Published
<1>10. QED
  BY <1>3, <1>4, <1>7, <1>8, <1>9 DEF SourceInv

LEMMA EditKeeps ==
  ASSUME SourceInv, NEW p \in Names, Edit(p) \/ Delete(p) \/ Commit PROVE SourceInv'
<1>0. SourceTypeOK /\ NothingComesBack
  BY DEF SourceInv
<1>1. /\ Repo.files \in FileMaps /\ Repo.tree \in FileMaps /\ Repo.head \in Nat /\ Len(log) \in Nat
      /\ gone \subseteq Names
  BY <1>0, RepoIs DEF Commits, SourceTypeOK
<1>2. CASE Edit(p)
  <2> DEFINE files == [Repo.files EXCEPT ![p] = Len(log) + 1]
  <2> DEFINE e == [files |-> files, head |-> Repo.head, tree |-> Repo.tree]
  <2>1. /\ p \notin gone /\ log' = Append(log, e) /\ UNCHANGED <<ready, watched, gens, w, gone>>
    BY <1>2 DEF Edit, Change
  <2>2. /\ files \in FileMaps /\ files[p] = Len(log) + 1
        /\ \A q \in Names : q # p => files[q] = Repo.files[q]
    BY <1>1 DEF FileMaps
  <2> HIDE DEF files
  <2>3. e \in Commits
    BY <1>1, <2>2 DEF Commits
  <2>4. \A q \in Names : e.files[q] = files[q] /\ e.tree[q] = Repo.tree[q]
    OBVIOUS
  <2>5. e.head = Repo.head
    OBVIOUS
  <2> HIDE DEF e
  <2>6. \A q \in gone : e.files[q] = 0
    BY <1>0, <1>1, <2>1, <2>2, <2>4 DEF NothingComesBack
  <2>7. \A q \in Names : e.tree[q] # 0 => e.files[q] # 0 \/ q \in gone
    BY <1>0, <1>1, <2>2, <2>4 DEF NothingComesBack
  <2>8. QED
    BY <1>1, <2>1, <2>2, <2>3, <2>4, <2>5, <2>6, <2>7, ChangeKeeps
<1>3. CASE Delete(p)
  <2> DEFINE files == [Repo.files EXCEPT ![p] = 0]
  <2> DEFINE e == [files |-> files, head |-> Repo.head, tree |-> Repo.tree]
  <2>1. gone' = gone \cup {p} /\ log' = Append(log, e) /\ UNCHANGED <<ready, watched, gens, w>>
    BY <1>3 DEF Delete, Change
  <2>2. /\ files \in FileMaps /\ files[p] = 0
        /\ \A q \in Names : q # p => files[q] = Repo.files[q]
    BY <1>1 DEF FileMaps
  <2> HIDE DEF files
  <2>3. e \in Commits
    BY <1>1, <2>2 DEF Commits
  <2>4. \A q \in Names : e.files[q] = files[q] /\ e.tree[q] = Repo.tree[q]
    OBVIOUS
  <2>5. e.head = Repo.head
    OBVIOUS
  <2> HIDE DEF e
  <2>6. \A q \in gone' : e.files[q] = 0
    BY <1>0, <1>1, <2>1, <2>2, <2>4 DEF NothingComesBack
  <2>7. \A q \in Names : e.tree[q] # 0 => e.files[q] # 0 \/ q \in gone'
    BY <1>0, <1>1, <2>1, <2>2, <2>4 DEF NothingComesBack
  <2>8. QED
    BY <1>1, <2>1, <2>2, <2>3, <2>4, <2>5, <2>6, <2>7, ChangeKeeps
<1>4. CASE Commit
  <2> DEFINE e == [files |-> Repo.files, head |-> Repo.head + 1, tree |-> Repo.files]
  <2>1. gone' = gone /\ log' = Append(log, e) /\ UNCHANGED <<ready, watched, gens, w>>
    BY <1>4 DEF Commit, Change
  <2>2. e \in Commits
    BY <1>1 DEF Commits
  <2>3. e.files = Repo.files /\ e.tree = Repo.files /\ e.head = Repo.head + 1
    OBVIOUS
  <2> HIDE DEF e
  <2>4. \A q \in gone : e.files[q] = 0
    BY <1>0, <2>3 DEF NothingComesBack
  <2>5. QED
    BY <1>1, <2>1, <2>2, <2>3, <2>4, ChangeKeeps
<1>5. QED
  BY <1>2, <1>3, <1>4

(* One process goes on.                                                    *)
LEMMA LocalKeeps ==
  ASSUME SourceInv, NEW c \in Procs, NEW x \in Readers, ReaderOK(x), Local(c, x),
         ready' \subseteq Templates, \A t \in ready' : SnapshotOK(t.snapshot),
         watched' \in [fingerprint : Fingerprints, task : Nat], gens' \in Nat, TemplatesApart'
  PROVE  SourceInv'
<1>1. UNCHANGED <<log, gone>> /\ w' = [w EXCEPT ![c] = x]
  BY DEF Local
<1>2. w' \in [Procs -> Readers] /\ w'[c] = x /\ \A d \in Procs : d # c => w'[d] = w[d]
  BY <1>1 DEF SourceInv, SourceTypeOK
<1>3. SourceTypeOK'
  BY <1>1, <1>2 DEF SourceInv, SourceTypeOK
<1>4. NothingComesBack'
  BY <1>1 DEF SourceInv, NothingComesBack, Index, Repo
<1>5. ASSUME NEW s, SnapshotOK(s) PROVE SnapshotOK(s)'
  BY <1>1, <1>5 DEF SnapshotOK
<1>6. ASSUME NEW y, ReaderOK(y) PROVE ReaderOK(y)'
  BY <1>1, <1>6 DEF ReaderOK, AttemptOK, SnapshotOK, Between, Hashed, RealAt, Index, Repo
<1>7. \A t \in ready' : SnapshotOK(t.snapshot)'
  BY <1>5
<1>8. ASSUME NEW d \in Procs PROVE ReaderOK(w[d])'
  <2>1. PICK y \in Readers : y = w'[d] /\ (y = x \/ y = w[d])
    BY <1>2
  <2>2. ReaderOK(y)
    BY <2>1 DEF SourceInv
  <2>3. QED
    BY <1>6, <2>1, <2>2
<1>9. QED
  BY <1>3, <1>4, <1>7, <1>8 DEF SourceInv

(* No template is published and none is taken.                             *)
LEMMA ApartKeeps ==
  ASSUME SourceInv, ready' \subseteq ready, \A g \in Generations : Published(g) => Published(g)',
         \A d \in Procs : w'[d].job = "adopt" => w[d].job = "adopt" /\ w'[d].from = w[d].from,
         \A g \in Generations : g > gens' => w'[g].at = "idle"
  PROVE  TemplatesApart'
<1>1. \A t \in ready' : IF t.readable THEN Published(t.id)' ELSE t.id = 0
  BY DEF SourceInv, TemplatesApart, Published
<1>2. ASSUME NEW d \in Procs, w'[d].job = "adopt"
      PROVE  Published(w[d].from)' /\ \A t \in ready' : t.id # w'[d].from
  <2>1. PICK f : f = w[d].from /\ f = w'[d].from
    BY <1>2
  <2>2. f \in Generations /\ Published(f) /\ \A t \in ready : t.id # f
    BY <1>2, <2>1 DEF SourceInv, TemplatesApart, Published
  <2>3. QED
    BY <2>1, <2>2
<1>3. \A d, q \in Procs : d # q /\ w'[d].job = "adopt" /\ w'[q].job = "adopt" => w'[d].from # w'[q].from
  BY DEF SourceInv, TemplatesApart
<1>4. \A t, q \in ready' : t.id = q.id => t = q
  BY DEF SourceInv, TemplatesApart
<1>5. QED
  BY <1>1, <1>2, <1>3, <1>4 DEF TemplatesApart

(* It holds the template it held, if any.                                  *)
LEMMA StepKeeps ==
  ASSUME SourceInv, NEW c \in Procs, NEW x \in Readers, ReaderOK(x), Local(c, x),
         w[c].at # "published", c \in Generations => w[c].at # "idle",
         x.job = "adopt" => w[c].job = "adopt" /\ x.from = w[c].from,
         ready' \subseteq ready, UNCHANGED <<watched, gens>>
  PROVE  SourceInv'
<1>1. /\ ready' \subseteq Templates /\ \A t \in ready' : SnapshotOK(t.snapshot)
      /\ watched' \in [fingerprint : Fingerprints, task : Nat] /\ gens' \in Nat
  BY DEF SourceInv, SourceTypeOK
<1>2. w'[c] = x /\ \A d \in Procs : d # c => w'[d] = w[d]
  BY DEF Local, SourceInv, SourceTypeOK
<1>3. \A g \in Generations : Published(g) => Published(g)'
  BY <1>2 DEF Published, Procs
<1>4. \A g \in Generations : g > gens' => w'[g].at = "idle"
  BY <1>2 DEF SourceInv, TemplatesApart, Procs
<1>5. TemplatesApart'
  BY <1>2, <1>3, <1>4, ApartKeeps
<1>6. QED
  BY <1>1, <1>5, LocalKeeps

(* A process that reads nothing: what it keeps is about snapshots.         *)
LEMMA QuietOK ==
  ASSUME SourceInv, NEW x \in Readers, x.at \notin Begun, x.at # "done", x.since <= Len(log),
         x.at = "head" => x.job # "none", AttemptOK(x),
         SnapshotOK(x.prepared), SnapshotOK(x.result), \A p \in Names : x.got[p] <= Len(log)
  PROVE  ReaderOK(x)
BY DEF ReaderOK, Begun, Listed, Verifying

LEMMA NothingIsOK ==
  ASSUME SourceInv
  PROVE  /\ Empty \in FileMaps /\ \A p \in Names : Empty[p] <= Len(log)
         /\ NoSnapshot \in Snapshots /\ SnapshotOK(NoSnapshot)
<1>1. Len(log) \in Nat
  BY RepoIs DEF SourceInv
<1>2. Empty \in FileMaps /\ \A p \in Names : Empty[p] <= Len(log)
  BY <1>1 DEF Empty, FileMaps
<1>3. QED
  BY <1>2 DEF NoSnapshot, Snapshots, SnapshotOK

LEMMA HeadBeforeKeeps ==
  ASSUME SourceInv, NEW c \in Procs, HeadBefore(c) PROVE SourceInv'
<1> DEFINE y == [w[c] EXCEPT !.commit = Repo.head, !.at = "list"]
<1>1. w[c] \in Readers /\ ReaderOK(w[c]) /\ w[c].at = "head"
  BY DEF SourceInv, SourceTypeOK, HeadBefore
<1>2. Repo.head \in Nat
  BY RepoIs DEF SourceInv, Commits
<1>3. y \in Readers
  BY <1>1, <1>2 DEF Readers, Stages, Begun
<1>4. /\ y.at = "list" /\ y.commit = Repo.head /\ y.since = w[c].since /\ y.job = w[c].job
      /\ y.tries = w[c].tries /\ y.from = w[c].from
      /\ y.prepared = w[c].prepared /\ y.result = w[c].result /\ y.got = w[c].got
  BY <1>1 DEF Readers
<1>5. Local(c, y) /\ UNCHANGED <<ready, watched, gens>>
  BY DEF HeadBefore
<1> HIDE DEF y
<1>6. ReaderOK(y)
  BY <1>1, <1>2, <1>4 DEF ReaderOK, AttemptOK, Begun, Listed, Verifying
<1>7. QED
  BY <1>1, <1>3, <1>4, <1>5, <1>6, StepKeeps

LEMMA ListPathsKeeps ==
  ASSUME SourceAssumption, SourceInv, NEW c \in Procs, ListPaths(c) PROVE SourceInv'
<1> DEFINE x == w[c]
<1> DEFINE adopting == x.job = "adopt"
<1> DEFINE got == IF adopting THEN x.prepared.entries ELSE Empty
<1> DEFINE same == \A p \in Names \ GitPaths : adopting => x.prepared.entries[p] = 0
<1> DEFINE stage == IF adopting THEN "hash" ELSE "clone"
<1> DEFINE y == [x EXCEPT !.list = GitPaths, !.next = 1, !.got = got, !.same = same, !.at = stage]
<1>1. x \in Readers /\ ReaderOK(x) /\ x.at = "list"
  BY DEF SourceInv, SourceTypeOK, ListPaths
<1>2. Len(Paths) >= 1 /\ Len(Paths) \in Nat
  BY DEF SourceAssumption
<1>3. got \in FileMaps /\ GitPaths \subseteq Names /\ same \in BOOLEAN /\ stage \in Stages
  BY <1>1, NothingIsOK DEF GitPaths, Readers, Snapshots, Stages, Begun, Listed, Verifying
<1>4. Local(c, y) /\ UNCHANGED <<ready, watched, gens>>
  BY DEF ListPaths
<1> HIDE DEF same, got, stage
<1>5. y \in Readers
  <2>1. PICK n \in 1..Len(Paths) : n = 1
    BY <1>2
  <2>2. PICK b \in BOOLEAN : b = same
    BY <1>3
  <2>3. y = [x EXCEPT !.list = GitPaths, !.next = n, !.got = got, !.same = b, !.at = stage]
    BY <2>1, <2>2
  <2>4. QED
    BY <1>1, <1>3, <2>3 DEF Readers
<1>6. /\ y.list = GitPaths /\ y.next = 1 /\ y.got = got
      /\ y.at = stage
      /\ y.since = x.since /\ y.job = x.job /\ y.prepared = x.prepared /\ y.result = x.result
      /\ y.commit = x.commit /\ y.tries = x.tries /\ y.from = x.from
  BY <1>1 DEF Readers
<1>7. y.same = same
  BY <1>1 DEF Readers
<1> HIDE DEF y
<1> USE DEF got, stage
<1>8. ReaderOK(y)
  <2>1. \A p \in Names : y.got[p] <= Len(log)
    BY <1>1, <1>6, NothingIsOK DEF ReaderOK, SnapshotOK
  <2>2. \A p \in y.list : Repo.files[p] # 0 \/ p \in gone
    BY <1>6 DEF SourceInv, NothingComesBack, GitPaths
  <2>3. x.job \in {"capture", "adopt"}
    BY <1>1 DEF ReaderOK, Begun, Readers
  <2>4. ASSUME adopting PROVE Between(y, Len(log))
    <3>1. Repo = log[Len(log)] /\ Len(log) \in Nat
      BY RepoIs DEF SourceInv
    <3>2. \A p \in Names : ~Hashed(y, p)
      BY <1>6, <2>4 DEF Hashed
    <3>3. y.at = "hash" /\ y.job = "adopt" /\ y.got = y.prepared.entries
      BY <1>6, <2>4
    <3>4. \A p \in Names \ y.list : Repo.files[p] = 0 /\ (y.same => y.got[p] = 0)
      BY <1>6, <1>7, <2>4 DEF GitPaths, same
    <3>5. \A p \in y.prepared.list : y.got[p] = 0 => Repo.files[p] = 0
      BY <1>1, <1>6, <2>4 DEF ReaderOK, SnapshotOK, SourceInv, NothingComesBack
    <3>6. y.since <= Len(log) /\ y.commit <= Repo.head
      BY <1>1, <1>6 DEF ReaderOK, Begun
    <3>7. y.list \subseteq Names
      BY <1>3, <1>6
    <3>8. QED
      BY <2>1, <3>1, <3>2, <3>3, <3>4, <3>5, <3>6, <3>7 DEF Between
  <2>5. Len(log) \in Index
    BY RepoIs DEF SourceInv
  <2>6. SnapshotOK(y.prepared) /\ SnapshotOK(y.result) /\ y.since <= Len(log) /\ y.commit <= Repo.head
    BY <1>1, <1>6 DEF ReaderOK, Begun
  <2>7. AttemptOK(y)
    <3>1. AttemptOK(x)
      BY <1>1 DEF ReaderOK
    <3>2. ~adopting => y.same
      BY <1>7 DEF same
    <3>3. QED
      BY <1>1, <1>6, <3>1, <3>2 DEF AttemptOK, Begun, Verifying
  <2>8. CASE adopting
    BY <1>6, <2>1, <2>2, <2>4, <2>5, <2>6, <2>7, <2>8 DEF ReaderOK
  <2>9. CASE ~adopting
    BY <1>6, <2>1, <2>2, <2>3, <2>6, <2>7, <2>9 DEF ReaderOK, Verifying
  <2>10. QED
    BY <2>8, <2>9
<1>9. QED
  BY <1>1, <1>4, <1>5, <1>6, <1>8, StepKeeps

LEMMA PathsAreNames ==
  ASSUME SourceAssumption
  PROVE  /\ Len(Paths) \in Nat /\ Len(Paths) >= 1 /\ 1 \in 1..Len(Paths)
         /\ \A i \in 1..Len(Paths) : Paths[i] \in Names
         /\ \A p \in Names : \E i \in 1..Len(Paths) : p = Paths[i]
BY DEF SourceAssumption, Names, ToSet

LEMMA CloneKeeps ==
  ASSUME SourceInv, NEW c \in Procs, CloneGitMetadata(c) PROVE SourceInv'
<1> DEFINE x == w[c]
<1> DEFINE same == Repo.head = x.commit
<1> DEFINE y == [x EXCEPT !.at = "copy", !.same = same]
<1>1. x \in Readers /\ ReaderOK(x) /\ x.at = "clone"
  BY DEF SourceInv, SourceTypeOK, CloneGitMetadata
<1>2. Local(c, y) /\ UNCHANGED <<ready, watched, gens>>
  BY DEF CloneGitMetadata
<1>3. PICK b \in BOOLEAN : b = same
  OBVIOUS
<1> HIDE DEF same
<1>4. /\ y \in Readers /\ y.at = "copy" /\ y.since = x.since /\ y.job = x.job /\ y.prepared = x.prepared
      /\ y.result = x.result /\ y.commit = x.commit /\ y.list = x.list /\ y.got = x.got /\ y.next = x.next
      /\ y.tries = x.tries /\ y.from = x.from /\ y.same = b
  <2>1. y = [x EXCEPT !.at = "copy", !.same = b]
    BY <1>3
  <2>2. QED
    BY <1>1, <2>1 DEF Readers, Stages, Begun, Listed
<1> HIDE DEF y
<1>5. ReaderOK(y)
  <2>1. y.same = (Repo.head = x.commit)
    BY <1>3, <1>4 DEF same
  <2>2. AttemptOK(y)
    <3>1. AttemptOK(x) /\ y.next = 1
      BY <1>1, <1>4 DEF ReaderOK
    <3>2. \A i \in 1..(y.next - 1) : FALSE
      BY <3>1
    <3>3. QED
      BY <1>1, <1>4, <2>1, <3>1, <3>2 DEF AttemptOK, Begun, Listed, Verifying
  <2>3. QED
    BY <1>1, <1>4, <2>2 DEF ReaderOK, Begun, Listed, Verifying
<1>6. QED
  BY <1>1, <1>2, <1>4, <1>5, StepKeeps

LEMMA CopyKeeps ==
  ASSUME SourceAssumption, SourceInv, NEW c \in Procs, CopyAndHash(c) PROVE SourceInv'
<1> DEFINE x == w[c]
<1> DEFINE p == Paths[x.next]
<1> DEFINE bytes == IF p \in x.list THEN Repo.files[p] ELSE 0
<1> DEFINE got == [x.got EXCEPT ![p] = bytes]
<1> DEFINE last == ~(x.next < Len(Paths))
<1> DEFINE next == IF last THEN 1 ELSE x.next + 1
<1> DEFINE stage == IF last THEN "hash" ELSE "copy"
<1> DEFINE y == NextFile([x EXCEPT !.got[p] = bytes], "hash")
<1>1. x \in Readers /\ ReaderOK(x) /\ x.at = "copy"
  BY DEF SourceInv, SourceTypeOK, CopyAndHash
<1>2. Local(c, y) /\ UNCHANGED <<ready, watched, gens>>
  BY DEF CopyAndHash
<1>3. x.next \in 1..Len(Paths) /\ p \in Names /\ x.got \in FileMaps /\ x.list \subseteq Names
  BY <1>1, PathsAreNames DEF Readers
<1>4. Repo.files \in FileMaps /\ Repo = log[Len(log)] /\ Len(log) \in Nat /\ Len(log) \in Index
  BY RepoIs DEF SourceInv, Commits
<1>5. bytes \in Nat /\ bytes <= Len(log)
  BY <1>3, <1>4 DEF SourceInv, NothingComesBack, FileMaps
<1>6. got \in FileMaps /\ got[p] = bytes /\ \A q \in Names : q # p => got[q] = x.got[q]
  BY <1>3, <1>5 DEF FileMaps
<1>7. next \in 1..Len(Paths) /\ stage \in Stages
  BY <1>3, PathsAreNames DEF Stages, Begun, Listed, Verifying
<1>8. y = [x EXCEPT !.got = got, !.next = next, !.at = stage]
  BY <1>1, <1>3 DEF NextFile, Readers
<1> HIDE DEF y, got, next, stage, bytes
<1>9. /\ y \in Readers /\ y.at = stage /\ y.since = x.since /\ y.job = x.job /\ y.prepared = x.prepared
      /\ y.result = x.result /\ y.commit = x.commit /\ y.list = x.list /\ y.got = got /\ y.next = next
      /\ y.tries = x.tries /\ y.from = x.from /\ y.same = x.same
  BY <1>1, <1>6, <1>7, <1>8 DEF Readers
<1>10. \A q \in Names : y.got[q] <= Len(log)
  BY <1>1, <1>5, <1>6, <1>9 DEF ReaderOK
<1>11. \A q \in x.list : Repo.files[q] # 0 \/ q \in gone
  BY <1>1 DEF ReaderOK, Listed
<1>12. \A i \in 1..x.next : Paths[i] \in x.list /\ got[Paths[i]] = 0 => Paths[i] \in gone
  <2>1. SUFFICES ASSUME NEW i \in 1..x.next, Paths[i] \in x.list, got[Paths[i]] = 0 PROVE Paths[i] \in gone
    OBVIOUS
  <2>2. CASE Paths[i] = p
    BY <1>6, <1>11, <2>1, <2>2 DEF bytes
  <2>3. CASE Paths[i] # p
    <3>1. i \in 1..(x.next - 1)
      BY <1>3, <2>3
    <3>2. QED
      BY <1>1, <1>3, <1>6, <2>1, <2>3, <3>1 DEF ReaderOK
  <2>4. QED
    BY <2>2, <2>3
<1>13. /\ SnapshotOK(y.prepared) /\ SnapshotOK(y.result) /\ y.since <= Len(log) /\ y.commit <= Repo.head
       /\ y.job = "capture"
  BY <1>1, <1>9 DEF ReaderOK, Begun, Listed
<1>14. AttemptOK(y)
  <2>1. AttemptOK(x) /\ x.job = "capture" /\ stage \in {"hash", "copy"}
    BY <1>1 DEF ReaderOK, stage
  <2>2. CASE x.since + x.tries # Len(log)
    BY <1>9, <2>1, <2>2 DEF AttemptOK
  <2>3. CASE x.since + x.tries = Len(log)
    <3>1. /\ x.commit = Repo.head /\ x.same
          /\ \A i \in 1..(x.next - 1) : Paths[i] \in x.list => x.got[Paths[i]] = Repo.files[Paths[i]]
      BY <1>1, <2>1, <2>3 DEF AttemptOK, Begun, Listed
    <3>2. \A i \in 1..x.next : Paths[i] \in x.list => got[Paths[i]] = Repo.files[Paths[i]]
      <4>1. SUFFICES ASSUME NEW i \in 1..x.next, Paths[i] \in x.list PROVE got[Paths[i]] = Repo.files[Paths[i]]
        OBVIOUS
      <4>2. CASE Paths[i] = p
        BY <1>6, <4>1, <4>2 DEF bytes
      <4>3. CASE Paths[i] # p
        <5>1. i \in 1..(x.next - 1)
          BY <1>3, <4>3
        <5>2. QED
          BY <1>3, <1>6, <3>1, <4>1, <4>3, <5>1
      <4>4. QED
        BY <4>2, <4>3
    <3>3. CASE last
      <4>1. x.next = Len(Paths) /\ y.at = "hash"
        BY <1>3, <1>9, <3>3, PathsAreNames DEF stage
      <4>2. \A q \in y.list : y.got[q] = Repo.files[q]
        BY <1>3, <1>9, <3>2, <4>1, PathsAreNames
      <4>3. QED
        BY <1>9, <2>1, <3>1, <4>1, <4>2 DEF AttemptOK
    <3>4. CASE ~last
      <4>1. y.at = "copy" /\ y.next = x.next + 1
        BY <1>9, <3>4 DEF stage, next
      <4>2. \A i \in 1..(y.next - 1) : Paths[i] \in y.list => y.got[Paths[i]] = Repo.files[Paths[i]]
        BY <1>3, <1>9, <3>2, <4>1
      <4>3. QED
        BY <1>9, <2>1, <3>1, <4>1, <4>2 DEF AttemptOK, Verifying
    <3>5. QED
      BY <3>3, <3>4
  <2>4. QED
    BY <2>2, <2>3
<1>15. ReaderOK(y)
  <2>1. CASE last
    <3>1. y.at = "hash" /\ y.next = 1
      BY <1>9, <2>1 DEF stage, next
    <3>2. \A q \in Names : ~Hashed(y, q)
      BY <3>1 DEF Hashed
    <3>3. \A q \in y.list : y.got[q] = 0 => Repo.files[q] = 0 /\ q \in gone
      <4>1. x.next = Len(Paths)
        BY <1>3, <2>1, PathsAreNames
      <4>2. \A q \in y.list : y.got[q] = 0 => q \in gone
        BY <1>3, <1>9, <1>12, <4>1, PathsAreNames
      <4>3. QED
        BY <4>2 DEF SourceInv, NothingComesBack
    <3>4. Between(y, Len(log))
      BY <1>3, <1>4, <1>9, <1>10, <1>13, <3>1, <3>2, <3>3 DEF Between
    <3>5. QED
      BY <1>4, <1>9, <1>10, <1>11, <1>13, <1>14, <3>1, <3>4 DEF ReaderOK
  <2>2. CASE ~last
    <3>1. y.at = "copy" /\ y.next = x.next + 1
      BY <1>9, <2>2 DEF stage, next
    <3>2. \A i \in 1..(y.next - 1) : Paths[i] \in y.list /\ y.got[Paths[i]] = 0 => Paths[i] \in gone
      BY <1>3, <1>9, <1>12, <3>1
    <3>3. QED
      BY <1>9, <1>10, <1>11, <1>13, <1>14, <3>1, <3>2 DEF ReaderOK, Verifying
  <2>3. QED
    BY <2>1, <2>2
<1>16. QED
  BY <1>1, <1>2, <1>9, <1>15, StepKeeps

LEMMA HashKeeps ==
  ASSUME SourceAssumption, SourceInv, NEW c \in Procs, HashLiveEntries(c) PROVE SourceInv'
<1> DEFINE x == w[c]
<1> DEFINE p == Paths[x.next]
<1> DEFINE same == x.same /\ (p \in x.list => Repo.files[p] = x.got[p])
<1> DEFINE last == ~(x.next < Len(Paths))
<1> DEFINE next == IF last THEN 1 ELSE x.next + 1
<1> DEFINE stage == IF last THEN "again" ELSE "hash"
<1> DEFINE y == NextFile([x EXCEPT !.same = same], "again")
<1>1. x \in Readers /\ ReaderOK(x) /\ x.at = "hash"
  BY DEF SourceInv, SourceTypeOK, HashLiveEntries
<1>2. Local(c, y) /\ UNCHANGED <<ready, watched, gens>>
  BY <1>1 DEF HashLiveEntries
<1>3. x.next \in 1..Len(Paths) /\ p \in Names /\ x.got \in FileMaps /\ x.list \subseteq Names
  BY <1>1, PathsAreNames DEF Readers
<1>4. next \in 1..Len(Paths) /\ stage \in Stages
  BY <1>3, PathsAreNames DEF Stages, Begun, Listed, Verifying
<1>5. PICK b \in BOOLEAN : b = same
  BY <1>1 DEF Readers
<1> HIDE DEF same
<1>6. y = [x EXCEPT !.same = b, !.next = next, !.at = stage]
  BY <1>1, <1>3, <1>5 DEF NextFile, Readers
<1> HIDE DEF y, next, stage
<1>7. /\ y \in Readers /\ y.at = stage /\ y.since = x.since /\ y.job = x.job /\ y.prepared = x.prepared
      /\ y.result = x.result /\ y.commit = x.commit /\ y.list = x.list /\ y.got = x.got /\ y.next = next /\ y.same = b
      /\ y.tries = x.tries /\ y.from = x.from
  BY <1>1, <1>4, <1>6 DEF Readers
<1>8. y.at \in {"hash", "again"}
  BY <1>7 DEF stage
<1>9. b => x.same /\ (p \in x.list => Repo.files[p] = x.got[p])
  BY <1>5 DEF same
<1>10. ASSUME NEW q \in Names, Hashed(y, q) PROVE q = p \/ Hashed(x, q)
  <2>1. \E i \in 1..x.next : q = Paths[i]
    BY <1>3, <1>7, <1>10, PathsAreNames DEF Hashed, stage, next
  <2>2. PICK i \in 1..x.next : q = Paths[i]
    BY <2>1
  <2>3. i = x.next \/ i \in 1..(x.next - 1)
    BY <1>3
  <2>4. QED
    BY <2>2, <2>3 DEF Hashed
<1>11. \A q \in x.list : Repo.files[q] # 0 \/ q \in gone
  BY <1>1 DEF ReaderOK, Listed, Verifying
<1>12. ASSUME NEW k \in Index, Between(x, k) PROVE Between(y, k)
  <2>1. ASSUME NEW q \in x.list, b, Hashed(y, q)
        PROVE  /\ x.got[q] # 0 => log[k].files[q] = x.got[q]
               /\ x.got[q] = 0 => q \in gone
    <3>1. CASE Hashed(x, q)
      BY <1>9, <1>12, <2>1, <3>1 DEF Between
    <3>2. CASE q = p
      <4>1. Repo.files[q] = x.got[q]
        BY <1>9, <2>1, <3>2
      <4>2. x.got[q] <= k /\ q \in Names
        BY <1>3, <1>12 DEF Between
      <4>3. QED
        BY <1>11, <4>1, <4>2 DEF SourceInv, NothingComesBack
    <3>3. QED
      BY <1>3, <1>10, <2>1, <3>1, <3>2
  <2>2. \A q \in y.list :
          /\ y.got[q] <= k
          /\ y.same /\ Hashed(y, q) /\ y.got[q] # 0 => log[k].files[q] = y.got[q]
          /\ y.same /\ Hashed(y, q) /\ y.got[q] = 0 => q \in gone
    BY <1>7, <1>12, <2>1 DEF Between
  <2>3. y.same => x.same
    BY <1>7, <1>9
  <2>4. y.job = "adopt" =>
          /\ y.got = y.prepared.entries
          /\ \A q \in Names \ y.list : log[k].files[q] = 0 /\ (y.same => y.got[q] = 0)
          /\ \A q \in y.prepared.list : y.got[q] = 0 => log[k].files[q] = 0
    BY <1>7, <1>12, <2>3 DEF Between
  <2>5. y.job = "capture" => \A q \in y.list : y.got[q] = 0 => log[k].files[q] = 0 /\ q \in gone
    BY <1>7, <1>12 DEF Between
  <2>6. y.since <= k /\ y.commit <= log[k].head
    BY <1>7, <1>12 DEF Between
  <2>7. QED
    BY <1>8, <2>2, <2>4, <2>5, <2>6 DEF Between
<1>13. \E k \in Index : Between(y, k)
  BY <1>1, <1>12 DEF ReaderOK, Verifying
<1>14. ReaderOK(y)
  <2>1. /\ SnapshotOK(y.prepared) /\ SnapshotOK(y.result) /\ y.since <= Len(log) /\ y.commit <= Repo.head
        /\ y.job # "none" /\ \A q \in Names : y.got[q] <= Len(log)
    BY <1>1, <1>7 DEF ReaderOK, Begun, Listed, Verifying
  <2>2. AttemptOK(y)
    <3>1. AttemptOK(x)
      BY <1>1 DEF ReaderOK
    <3>2. x.same /\ (p \in x.list => Repo.files[p] = x.got[p]) => b
      BY <1>5 DEF same
    <3>3. QED
      BY <1>1, <1>3, <1>7, <1>8, <3>1, <3>2 DEF AttemptOK, Begun, Listed, Verifying
  <2>3. QED
    BY <1>7, <1>8, <1>11, <1>13, <2>1, <2>2 DEF ReaderOK
<1>15. QED
  BY <1>1, <1>2, <1>7, <1>14, StepKeeps

LEMMA QuietAttempt ==
  ASSUME NEW x \in Readers, NEW y \in Readers, AttemptOK(x), y.since = x.since, y.tries = x.tries,
         y.at \notin Begun \cup {"idle", "failed"}
  PROVE  AttemptOK(y)
BY DEF AttemptOK

(* An attempt that met a change: what is left of it is no snapshot.        *)
LEMMA ChangedOK ==
  ASSUME SourceAssumption, SourceInv, NEW x \in Readers, ReaderOK(x), x.job # "none",
         x.job = "capture" => x.since + x.tries < Len(log)
  PROVE  Changed(x) \in Readers /\ ReaderOK(Changed(x)) /\ Changed(x).job # "adopt"
<1> DEFINE y == Changed(x)
<1>1. 1 \in 1..Len(Paths) /\ Empty \in FileMaps /\ NoSnapshot \in Snapshots
  BY PathsAreNames, NothingIsOK
<1>2. /\ x.tries + 1 \in Nat
      /\ {"claim", "head", "failed"} \subseteq Stages
  BY DEF Readers, Stages
<1>3. y \in Readers
  BY <1>1, <1>2 DEF Changed, Left, Capture, Readers
<1>4. /\ y.at \in {"claim", "head", "failed"} /\ y.since = x.since /\ (y.at = "head" => y.job = "capture")
      /\ y.job # "adopt" /\ y.got = Empty /\ y.prepared \in {x.prepared, NoSnapshot} /\ y.result = x.result
  BY DEF Changed, Left, Capture, Readers
<1> HIDE DEF y
<1>5. y.at \notin Begun /\ y.at # "done"
  BY <1>4 DEF Begun, Listed, Verifying
<1>6. SnapshotOK(y.prepared) /\ SnapshotOK(y.result) /\ y.since <= Len(log) /\ \A p \in Names : y.got[p] <= Len(log)
  BY <1>4, NothingIsOK DEF ReaderOK
<1>7. AttemptOK(y)
  <2>1. x.since \in Nat /\ x.tries \in Nat /\ x.since + x.tries <= Len(log) /\ Len(log) \in Nat
        /\ CaptureAttempts \in Nat
    BY RepoIs DEF ReaderOK, AttemptOK, Readers, SourceInv, SourceAssumption
  <2>2. \/ y.at = "claim" /\ y.tries = x.tries
        \/ y.at = "head" /\ y.tries = x.tries + 1 /\ x.job = "capture"
        \/ y.at = "failed" /\ y.tries = x.tries + 1 /\ x.job = "capture" /\ ~(x.tries + 1 < CaptureAttempts)
    BY DEF y, Changed, Left, Capture, Readers
  <2>3. QED
    BY <1>4, <1>5, <2>1, <2>2 DEF AttemptOK
<1>8. ReaderOK(y)
  BY <1>3, <1>4, <1>5, <1>6, <1>7, QuietOK
<1>9. QED
  BY <1>3, <1>4, <1>8 DEF y

LEMMA HeadAfterKeeps ==
  ASSUME SourceAssumption, SourceInv, NEW c \in Procs, HeadAfter(c) PROVE SourceInv'
<1> DEFINE x == w[c]
<1> DEFINE same == x.same /\ Repo.head = x.commit
<1> DEFINE y == [x EXCEPT !.same = same, !.at = "status"]
<1>1. x \in Readers /\ ReaderOK(x) /\ x.at = "again"
  BY DEF SourceInv, SourceTypeOK, HeadAfter
<1>2. Local(c, IF x.job = "capture" /\ ~same THEN Changed(x) ELSE y) /\ UNCHANGED <<ready, watched, gens>>
  BY DEF HeadAfter
<1>3. x.job # "none"
  BY <1>1 DEF ReaderOK, Begun, Listed, Verifying
<1>4. PICK b \in BOOLEAN : b = same
  BY <1>1 DEF Readers
<1> HIDE DEF same
<1>5. /\ y \in Readers /\ y.at = "status" /\ y.since = x.since /\ y.job = x.job /\ y.prepared = x.prepared
      /\ y.result = x.result /\ y.commit = x.commit /\ y.list = x.list /\ y.got = x.got /\ y.same = b
      /\ y.tries = x.tries /\ y.from = x.from
  <2>1. y = [x EXCEPT !.same = b, !.at = "status"]
    BY <1>4
  <2>2. QED
    BY <1>1, <2>1 DEF Readers, Stages, Begun, Listed, Verifying
<1> HIDE DEF y
<1>6. CASE x.job = "capture" /\ ~same
  <2>1. Local(c, Changed(x))
    BY <1>2, <1>6
  <2>2. x.since + x.tries < Len(log)
    <3>1. x.since + x.tries \in Nat /\ x.since + x.tries <= Len(log) /\ Len(log) \in Nat
      BY <1>1, RepoIs DEF ReaderOK, AttemptOK, Readers, SourceInv
    <3>2. x.since + x.tries # Len(log)
      BY <1>1, <1>6 DEF same, ReaderOK, AttemptOK, Begun, Listed, Verifying
    <3>3. QED
      BY <3>1, <3>2
  <2>3. Changed(x) \in Readers /\ ReaderOK(Changed(x)) /\ Changed(x).job # "adopt"
    BY <1>1, <1>3, <2>2, ChangedOK
  <2>4. QED
    BY <1>1, <1>2, <2>1, <2>3, StepKeeps
<1>7. CASE ~(x.job = "capture" /\ ~same)
  <2>1. Local(c, y)
    BY <1>2, <1>7
  <2>2. b => x.same /\ Repo.head = x.commit
    BY <1>4 DEF same
  <2>3. y.job = "capture" => y.same
    BY <1>4, <1>5, <1>7
  <2>4. ASSUME NEW k \in Index, Between(x, k) PROVE Between(y, k)
    <3>1. \A q : Hashed(x, q) /\ Hashed(y, q)
      BY <1>1, <1>5 DEF Hashed
    <3>2. log[k].head <= Repo.head /\ log[k].head \in Nat /\ Repo.head \in Nat
      BY RepoIs DEF SourceInv, NothingComesBack, Index, Commits
    <3>3. x.commit <= log[k].head /\ x.commit \in Nat
      BY <1>1, <2>4 DEF Between, Readers
    <3>4. y.same => y.commit = log[k].head
      BY <1>5, <2>2, <3>2, <3>3
    <3>5. y.same => x.same
      BY <1>5, <2>2
    <3>6. QED
      BY <1>5, <2>4, <3>1, <3>4, <3>5 DEF Between
  <2>5. \E k \in Index : Between(y, k)
    BY <1>1, <2>4 DEF ReaderOK, Verifying
  <2>6. /\ SnapshotOK(y.prepared) /\ SnapshotOK(y.result) /\ y.since <= Len(log) /\ y.commit <= Repo.head
        /\ y.job # "none" /\ \A q \in Names : y.got[q] <= Len(log)
        /\ \A q \in y.list : Repo.files[q] # 0 \/ q \in gone
    BY <1>1, <1>3, <1>5 DEF ReaderOK, Begun, Listed, Verifying
  <2>7. AttemptOK(y)
    <3>1. AttemptOK(x)
      BY <1>1 DEF ReaderOK
    <3>2. x.same /\ Repo.head = x.commit => b
      BY <1>4 DEF same
    <3>3. QED
      BY <1>1, <1>5, <3>1, <3>2 DEF AttemptOK, Begun, Listed, Verifying
  <2>8. ReaderOK(y)
    BY <1>5, <2>3, <2>5, <2>6, <2>7 DEF ReaderOK
  <2>9. QED
    BY <1>1, <1>2, <1>5, <2>1, <2>8, StepKeeps
<1>8. QED
  BY <1>6, <1>7

LEMMA StatusKeeps ==
  ASSUME SourceAssumption, SourceInv, NEW c \in Procs, Status(c) PROVE SourceInv'
<1> DEFINE x == w[c]
<1> DEFINE taken == [commit |-> x.commit, dirty |-> Dirty, list |-> x.list, entries |-> x.got]
<1> DEFINE verified == x.same /\ x.prepared.commit = x.commit /\ x.prepared.dirty = Dirty
<1> DEFINE captured == [Left(x) EXCEPT !.at = "done", !.result = taken]
<1> DEFINE adopted == [Left(x) EXCEPT !.at = "done", !.result = x.prepared, !.prepared = NoSnapshot]
<1>1. x \in Readers /\ ReaderOK(x) /\ x.at = "status"
  BY DEF SourceInv, SourceTypeOK, Status
<1>2. /\ Local(c, IF x.job = "capture" THEN captured ELSE IF verified THEN adopted ELSE Changed(x))
      /\ UNCHANGED <<ready, watched, gens>>
  BY DEF Status
<1>3. x.job # "none"
  BY <1>1 DEF ReaderOK, Begun, Listed, Verifying
<1>4. PICK k \in Index : Between(x, k)
  BY <1>1 DEF ReaderOK, Verifying
<1>5. \A q : Hashed(x, q)
  BY <1>1 DEF Hashed
<1>6. taken \in Snapshots
  <2>1. Dirty \in BOOLEAN
    BY DEF Dirty
  <2>2. x.commit \in Nat /\ x.list \in SUBSET Names /\ x.got \in FileMaps
    BY <1>1 DEF Readers
  <2> HIDE DEF x
  <2>3. QED
    BY <2>1, <2>2 DEF Snapshots
<1>7. taken.commit = x.commit /\ taken.list = x.list /\ taken.entries = x.got
  OBVIOUS
<1>8. 1 \in 1..Len(Paths) /\ Empty \in FileMaps /\ NoSnapshot \in Snapshots /\ SnapshotOK(NoSnapshot)
      /\ \A p \in Names : Empty[p] <= Len(log)
  BY PathsAreNames, NothingIsOK
<1> HIDE DEF taken
<1>9. CASE x.job = "capture"
  <2>1. Local(c, captured)
    BY <1>2, <1>9
  <2>2. /\ captured \in Readers /\ captured.at = "done" /\ captured.since = x.since /\ captured.job = "capture"
        /\ captured.prepared = x.prepared /\ captured.result = taken /\ captured.got = Empty
        /\ captured.tries = x.tries
    BY <1>1, <1>6, <1>8, <1>9 DEF Left, Readers, Stages
  <2> HIDE DEF captured
  <2>3. x.same
    BY <1>1, <1>9 DEF ReaderOK
  <2>4. SnapshotOK(taken)
    BY <1>1, <1>4, <1>7, <1>9 DEF SnapshotOK, ReaderOK, Between
  <2>5. RealAt(captured, k)
    <3>1. x.since <= k /\ log[k].head = x.commit
      BY <1>1, <1>4, <2>3 DEF Between
    <3>2. \A p \in x.list : log[k].files[p] = x.got[p]
      BY <1>4, <1>5, <1>9, <2>3 DEF Between
    <3>3. QED
      BY <1>7, <2>2, <3>1, <3>2 DEF RealAt
  <2>6. AttemptOK(captured)
    BY <1>1, <2>2, QuietAttempt DEF ReaderOK, Begun, Listed, Verifying
  <2>7. ReaderOK(captured)
    BY <1>1, <1>8, <2>2, <2>4, <2>5, <2>6 DEF ReaderOK, Begun, Listed, Verifying
  <2>8. QED
    BY <1>1, <1>2, <2>1, <2>2, <2>7, StepKeeps
<1>10. CASE x.job = "adopt" /\ verified
  <2>1. Local(c, adopted)
    BY <1>2, <1>10
  <2>2. /\ adopted \in Readers /\ adopted.at = "done" /\ adopted.since = x.since /\ adopted.job = "adopt"
        /\ adopted.prepared = NoSnapshot /\ adopted.result = x.prepared /\ adopted.got = Empty
        /\ adopted.tries = x.tries /\ adopted.from = x.from
    BY <1>1, <1>8, <1>10 DEF Left, Readers, Stages
  <2> HIDE DEF adopted
  <2>3. x.same /\ x.prepared.commit = x.commit
    BY <1>10
  <2>4. SnapshotOK(x.prepared) /\ x.prepared \in Snapshots
    BY <1>1 DEF ReaderOK, Readers
  <2>5. RealAt(adopted, k)
    <3>1. x.since <= k /\ log[k].head = x.prepared.commit
      BY <1>1, <1>4, <2>3 DEF Between
    <3>2. x.got = x.prepared.entries
      BY <1>4, <1>10 DEF Between
    <3>3. \A p \in Names : log[k].files[p] = x.got[p] \/ (x.got[p] = 0 /\ p \in gone)
      BY <1>4, <1>5, <1>10, <2>3 DEF Between
    <3>4. \A p \in x.prepared.list : log[k].files[p] = x.got[p]
      BY <1>4, <1>10, <2>4, <3>3 DEF Between, Snapshots
    <3>5. QED
      BY <2>2, <3>1, <3>2, <3>3, <3>4 DEF RealAt
  <2>6. AttemptOK(adopted)
    BY <1>1, <2>2, QuietAttempt DEF ReaderOK, Begun, Listed, Verifying
  <2>7. ReaderOK(adopted)
    BY <1>1, <1>8, <2>2, <2>4, <2>5, <2>6 DEF ReaderOK, Begun, Listed, Verifying
  <2>8. QED
    BY <1>1, <1>2, <1>10, <2>1, <2>2, <2>7, StepKeeps
<1>11. CASE x.job # "capture" /\ ~verified
  <2>1. Local(c, Changed(x))
    BY <1>2, <1>11
  <2>2. Changed(x) \in Readers /\ ReaderOK(Changed(x)) /\ Changed(x).job # "adopt"
    BY <1>1, <1>3, <1>11, ChangedOK
  <2>3. QED
    BY <1>1, <1>2, <2>1, <2>2, StepKeeps
<1>12. x.job \in {"none", "capture", "adopt"}
  BY <1>1 DEF Readers
<1>13. QED
  BY <1>3, <1>9, <1>10, <1>11, <1>12

LEMMA BeginKeeps ==
  ASSUME SourceAssumption, SourceInv, NEW r \in Runs, Begin(r) PROVE SourceInv'
<1> DEFINE x == w[r]
<1> DEFINE y == [x EXCEPT !.at = "claim", !.since = Len(log), !.candidates = ready]
<1>1. x \in Readers /\ ReaderOK(x) /\ r \in Procs /\ ready \subseteq Templates
      /\ x.at = "idle" /\ r \notin Generations
  BY DEF SourceInv, SourceTypeOK, Procs, Begin, SourceAssumption
<1>2. Local(r, y) /\ UNCHANGED <<ready, watched, gens>>
  BY DEF Begin
<1>3. Len(log) \in Nat
  BY RepoIs DEF SourceInv
<1>4. /\ y \in Readers /\ y.at = "claim" /\ y.since = Len(log) /\ y.prepared = x.prepared
      /\ y.result = x.result /\ y.got = x.got /\ y.tries = x.tries /\ y.job = x.job /\ y.from = x.from
  BY <1>1, <1>3 DEF Readers, Stages
<1> HIDE DEF y
<1>5. ReaderOK(y)
  <2>1. AttemptOK(y)
    BY <1>1, <1>3, <1>4 DEF ReaderOK, AttemptOK, Begun, Listed, Verifying
  <2>2. QED
    BY <1>1, <1>3, <1>4, <2>1, QuietOK DEF ReaderOK, Begun, Listed, Verifying
<1>6. QED
  BY <1>1, <1>2, <1>4, <1>5, StepKeeps

LEMMA ClaimKeeps ==
  ASSUME SourceAssumption, SourceInv, NEW r \in Runs, Claim(r) PROVE SourceInv'
<1> DEFINE x == w[r]
<1>1. x \in Readers /\ ReaderOK(x) /\ r \in Procs /\ x.at = "claim" /\ x.candidates \subseteq Templates
      /\ r \notin Generations /\ AttemptOK(x)
  BY DEF SourceInv, SourceTypeOK, Procs, Readers, Claim, ReaderOK, SourceAssumption
<1>2. PICK t \in x.candidates :
        IF t \in ready
          THEN ready' = ready \ {t} /\ Local(r, Offer(r, t))
          ELSE UNCHANGED ready /\ Local(r, [x EXCEPT !.candidates = @ \ {t}])
  BY DEF Claim
<1>3. ready' \subseteq ready /\ UNCHANGED <<watched, gens>>
  BY <1>2 DEF Claim
<1> DEFINE skipped == [x EXCEPT !.candidates = @ \ {t}]
<1> DEFINE offered == [x EXCEPT !.candidates = @ \ {t}, !.at = "head", !.job = "adopt", !.from = t.id, !.prepared = t.snapshot]
<1>4. /\ skipped \in Readers /\ skipped.at = "claim" /\ skipped.since = x.since /\ skipped.prepared = x.prepared
      /\ skipped.result = x.result /\ skipped.got = x.got /\ skipped.tries = x.tries
      /\ skipped.job = x.job /\ skipped.from = x.from
  BY <1>1 DEF Readers
<1>5. t \in Templates /\ t.id \in Nat /\ t.snapshot \in Snapshots
  BY <1>1, <1>2 DEF Templates
<1>6. /\ offered \in Readers /\ offered.at = "head" /\ offered.job = "adopt" /\ offered.since = x.since
      /\ offered.prepared = t.snapshot /\ offered.result = x.result /\ offered.got = x.got
      /\ offered.tries = x.tries /\ offered.from = t.id
  BY <1>1, <1>5 DEF Readers, Stages
<1>7. Local(r, skipped) \/ (t \in ready /\ t.readable /\ ready' = ready \ {t} /\ Local(r, offered))
  BY <1>2 DEF Offer
<1> HIDE DEF skipped, offered
<1>8. CASE Local(r, skipped)
  <2>1. ReaderOK(skipped)
    BY <1>1, <1>4, QuietOK, QuietAttempt DEF ReaderOK, Begun, Listed, Verifying
  <2>2. QED
    BY <1>1, <1>3, <1>4, <1>8, <2>1, StepKeeps
<1>9. CASE t \in ready /\ t.readable /\ ready' = ready \ {t} /\ Local(r, offered)
  <2>1. SnapshotOK(t.snapshot)
    BY <1>9 DEF SourceInv
  <2>2. ReaderOK(offered)
    BY <1>1, <1>6, <2>1, QuietOK, QuietAttempt DEF ReaderOK, Begun, Listed, Verifying
  <2>3. w'[r] = offered /\ \A d \in Procs : d # r => w'[d] = w[d]
    BY <1>1, <1>9 DEF Local, SourceInv, SourceTypeOK
  <2>4. \A g \in Generations : w'[g] = w[g]
    BY <1>1, <2>3 DEF Procs
  <2>5. /\ t.id \in Generations /\ w[t.id].at = "published" /\ \A q \in ready : q # t => q.id # t.id
        /\ \A d \in Procs : w[d].job = "adopt" => w[d].from # t.id
    BY <1>9 DEF SourceInv, TemplatesApart, Published
  <2>6. TemplatesApart'
    BY <1>1, <1>3, <1>6, <1>9, <2>3, <2>4, <2>5 DEF SourceInv, TemplatesApart, Published
  <2>7. /\ ready' \subseteq Templates /\ \A q \in ready' : SnapshotOK(q.snapshot)
        /\ watched' \in [fingerprint : Fingerprints, task : Nat] /\ gens' \in Nat
    BY <1>3 DEF SourceInv, SourceTypeOK
  <2>8. QED
    BY <1>1, <1>6, <1>9, <2>2, <2>6, <2>7, LocalKeeps
<1>10. QED
  BY <1>7, <1>8, <1>9

LEMMA CaptureInsteadKeeps ==
  ASSUME SourceAssumption, SourceInv, NEW r \in Runs, CaptureInstead(r) PROVE SourceInv'
<1> DEFINE x == w[r]
<1> DEFINE y == Capture(x)
<1>1. x \in Readers /\ ReaderOK(x) /\ r \in Procs /\ r \notin Generations /\ x.at = "claim"
  BY DEF SourceInv, SourceTypeOK, Procs, CaptureInstead, SourceAssumption
<1>2. Local(r, y) /\ UNCHANGED <<ready, watched, gens>>
  BY DEF CaptureInstead
<1>3. /\ y \in Readers /\ y.at = "head" /\ y.job = "capture" /\ y.since = x.since /\ y.prepared = NoSnapshot
      /\ y.result = x.result /\ y.got = x.got /\ y.tries = x.tries
  BY <1>1, NothingIsOK DEF Capture, Readers, Stages
<1> HIDE DEF y
<1>4. ReaderOK(y)
  BY <1>1, <1>3, NothingIsOK, QuietOK, QuietAttempt DEF ReaderOK, Begun, Listed, Verifying
<1>5. QED
  BY <1>1, <1>2, <1>3, <1>4, StepKeeps

(* What a daemon starts from and ends with.                                *)
LEMMA NoWorkOK ==
  ASSUME SourceAssumption, SourceInv, NEW a \in {"idle", "published", "dead"}
  PROVE  /\ [NoWork EXCEPT !.at = a] \in Readers /\ ReaderOK([NoWork EXCEPT !.at = a])
         /\ Capture(NoWork) \in Readers /\ ReaderOK(Capture(NoWork))
<1>1. /\ 1 \in 1..Len(Paths) /\ Empty \in FileMaps /\ NoSnapshot \in Snapshots /\ SnapshotOK(NoSnapshot)
      /\ \A p \in Names : Empty[p] <= Len(log)
  BY PathsAreNames, NothingIsOK
<1>2. Len(log) \in Nat
  BY RepoIs DEF SourceInv
<1> DEFINE y == [NoWork EXCEPT !.at = a]
<1> DEFINE z == Capture(NoWork)
<1>3. /\ y \in Readers /\ y.at = a /\ y.since = 0 /\ y.prepared = NoSnapshot /\ y.result = NoSnapshot /\ y.got = Empty
      /\ y.tries = 0
  BY <1>1 DEF NoWork, Readers, Stages
<1>4. /\ z \in Readers /\ z.at = "head" /\ z.job = "capture" /\ z.since = 0 /\ z.prepared = NoSnapshot
      /\ z.result = NoSnapshot /\ z.got = Empty /\ z.tries = 0
  BY <1>1 DEF NoWork, Capture, Readers, Stages
<1> HIDE DEF y, z
<1>5. ReaderOK(y)
  BY <1>1, <1>2, <1>3, QuietOK DEF AttemptOK, Begun, Listed, Verifying
<1>6. ReaderOK(z)
  BY <1>1, <1>2, <1>4, QuietOK DEF AttemptOK, Begun, Listed, Verifying
<1>7. QED
  BY <1>3, <1>4, <1>5, <1>6 DEF y, z

LEMMA RefreshKeeps ==
  ASSUME SourceAssumption, SourceInv, RefreshRepository PROVE SourceInv'
<1>1. gens \in Nat /\ ready \subseteq Templates /\ \A t \in ready : SnapshotOK(t.snapshot)
  BY DEF SourceInv, SourceTypeOK
<1>2. /\ gens < MaxGenerations /\ gens' = gens + 1 /\ ready' = ready /\ Local(gens + 1, Capture(NoWork))
      /\ watched' = [fingerprint |-> Fingerprint, task |-> gens + 1]
  BY DEF RefreshRepository
<1>3. gens + 1 \in Procs
  BY <1>1, <1>2 DEF Procs, Generations, SourceAssumption
<1>4. Fingerprint \in Fingerprints
  BY RepoIs DEF SourceInv, Commits, Fingerprint, Fingerprints
<1>5. watched' \in [fingerprint : Fingerprints, task : Nat]
  BY <1>1, <1>2, <1>4
<1>6. Capture(NoWork) \in Readers /\ ReaderOK(Capture(NoWork)) /\ Capture(NoWork).job = "capture"
  BY NoWorkOK DEF Capture, NoWork
<1>7. w'[gens + 1] = Capture(NoWork) /\ \A d \in Procs : d # gens + 1 => w'[d] = w[d]
  BY <1>2, <1>3 DEF Local, SourceInv, SourceTypeOK
<1>8. TemplatesApart'
  <2>1. gens + 1 \in Generations /\ w[gens + 1].at = "idle"
    BY <1>1, <1>2 DEF SourceInv, TemplatesApart, Generations, SourceAssumption
  <2>2. \A g \in Generations : Published(g) => Published(g)'
    BY <1>7, <2>1 DEF Published, Procs
  <2>3. \A g \in Generations : g > gens' => w'[g].at = "idle"
    BY <1>1, <1>2, <1>7 DEF SourceInv, TemplatesApart, Procs, Generations, SourceAssumption
  <2>4. QED
    BY <1>2, <1>6, <1>7, <2>2, <2>3, ApartKeeps
<1>9. gens' \in Nat
  BY <1>1, <1>2
<1>10. QED
  BY <1>1, <1>2, <1>3, <1>5, <1>6, <1>8, <1>9, LocalKeeps

LEMMA PublishKeeps ==
  ASSUME SourceAssumption, SourceInv, NEW g \in Generations, PublishSourceTemplate(g) PROVE SourceInv'
<1> DEFINE made == [name |-> watched.fingerprint, id |-> g, readable |-> TRUE, snapshot |-> w[g].result]
<1>1. /\ g \in Procs /\ g \in Nat
      /\ ready \subseteq Templates /\ \A q \in ready : SnapshotOK(q.snapshot)
      /\ w[g] \in Readers /\ ReaderOK(w[g]) /\ watched \in [fingerprint : Fingerprints, task : Nat] /\ gens \in Nat
  BY DEF SourceInv, SourceTypeOK, Procs, Generations, SourceAssumption
<1>2. w[g].result \in Snapshots /\ SnapshotOK(w[g].result)
  BY <1>1 DEF Readers, ReaderOK
<1>3. made \in Templates /\ made.snapshot = w[g].result /\ made.id = g /\ made.readable
  BY <1>1, <1>2 DEF Templates
<1>4. ready' \subseteq ready \cup {made} /\ Local(g, [NoWork EXCEPT !.at = "published"]) /\ UNCHANGED <<watched, gens>>
  BY DEF PublishSourceTemplate
<1> HIDE DEF made
<1>5. ready' \subseteq Templates /\ \A q \in ready' : SnapshotOK(q.snapshot)
  BY <1>1, <1>2, <1>3, <1>4
<1>6. [NoWork EXCEPT !.at = "published"] \in Readers /\ ReaderOK([NoWork EXCEPT !.at = "published"])
  BY NoWorkOK
<1>7. watched' \in [fingerprint : Fingerprints, task : Nat] /\ gens' \in Nat
  BY <1>1, <1>4
<1>8. TemplatesApart'
  <2>1. w[g].at = "done" /\ w'[g].at = "published" /\ w'[g].job = "none" /\ \A d \in Procs : d # g => w'[d] = w[d]
    BY <1>1, <1>4 DEF PublishSourceTemplate, Local, SourceInv, SourceTypeOK, NoWork
  <2>2. ~Published(g) /\ g # 0 /\ \A q \in Generations : q = g \/ Published(q) => Published(q)'
    BY <2>1 DEF Published, Procs, Generations
  <2>3. /\ \A q \in ready : q.id # g
        /\ \A d \in Procs : w[d].job = "adopt" => w[d].from # g
    BY <2>2 DEF SourceInv, TemplatesApart
  <2>4. \A d \in Procs : w'[d].job = "adopt" => w[d].job = "adopt" /\ w'[d].from = w[d].from
    BY <2>1
  <2>5. \A q \in ready' : IF q.readable THEN Published(q.id)' ELSE q.id = 0
    BY <1>3, <1>4, <2>2 DEF SourceInv, TemplatesApart, Published
  <2>6. ASSUME NEW d \in Procs, w'[d].job = "adopt"
        PROVE  Published(w[d].from)' /\ \A q \in ready' : q.id # w'[d].from
    <3>1. PICK f : f = w[d].from /\ f = w'[d].from
      BY <2>4, <2>6
    <3>2. f \in Generations /\ Published(f) /\ f # g /\ \A q \in ready : q.id # f
      BY <2>3, <2>4, <2>6, <3>1 DEF SourceInv, TemplatesApart, Published
    <3>3. QED
      BY <1>3, <1>4, <2>2, <3>1, <3>2
  <2>7. \A q \in Generations : q > gens' => w'[q].at = "idle"
    BY <1>4, <2>1 DEF SourceInv, TemplatesApart, Procs
  <2>8. \A d, q \in Procs : d # q /\ w'[d].job = "adopt" /\ w'[q].job = "adopt" => w'[d].from # w'[q].from
    BY <2>4 DEF SourceInv, TemplatesApart
  <2>9. \A q, s \in ready' : q.id = s.id => q = s
    BY <1>3, <1>4, <2>3 DEF SourceInv, TemplatesApart
  <2>10. QED
    BY <2>5, <2>6, <2>7, <2>8, <2>9 DEF TemplatesApart
<1>9. QED
  BY <1>1, <1>4, <1>5, <1>6, <1>7, <1>8, LocalKeeps

LEMMA RestartKeeps ==
  ASSUME SourceAssumption, SourceInv, Restart PROVE SourceInv'
<1> DEFINE y == [NoWork EXCEPT !.at = "dead"]
<1>1. y \in Readers /\ ReaderOK(y)
  BY NoWorkOK
<1>2. w \in [Procs -> Readers] /\ \A c \in Procs : ReaderOK(w[c])
  BY DEF SourceInv, SourceTypeOK
<1>3. w' \in [Procs -> Readers] /\ \A c \in Procs : w'[c] = y \/ w'[c] = w[c]
  BY <1>1, <1>2 DEF Restart
<1> HIDE DEF y
<1>4. UNCHANGED <<log, gone, ready, gens>> /\ watched' \in [fingerprint : Fingerprints, task : Nat]
  BY NothingIsOK DEF Restart, Fingerprints
<1>5. SourceTypeOK'
  BY <1>3, <1>4 DEF SourceInv, SourceTypeOK
<1>6. NothingComesBack' /\ \A t \in ready' : SnapshotOK(t.snapshot)'
  BY <1>4 DEF SourceInv, NothingComesBack, Index, Repo, SnapshotOK
<1>7. ASSUME NEW x, ReaderOK(x) PROVE ReaderOK(x)'
  BY <1>4, <1>7 DEF ReaderOK, AttemptOK, SnapshotOK, Between, Hashed, RealAt, Index, Repo
<1>8. ASSUME NEW c \in Procs PROVE ReaderOK(w[c])'
  <2>1. PICK x \in Readers : x = w'[c] /\ (x = y \/ x = w[c])
    BY <1>3
  <2>2. ReaderOK(x)
    BY <1>1, <1>2, <2>1
  <2>3. QED
    BY <1>7, <2>1, <2>2
<1>9. TemplatesApart'
  <2>1. y.job = "none"
    BY DEF y, NoWork
  <2>2. \A g \in Generations : w[g].at \in {"published", "idle"} => w'[g] = w[g]
    BY <1>2 DEF Restart, Procs
  <2>3. \A g \in Generations : Published(g) => Published(g)'
    BY <2>2 DEF Published
  <2>4. \A g \in Generations : g > gens' => w'[g].at = "idle"
    BY <1>4, <2>2 DEF SourceInv, TemplatesApart
  <2>5. QED
    BY <1>3, <1>4, <2>1, <2>3, <2>4, ApartKeeps
<1>10. QED
  BY <1>5, <1>6, <1>8, <1>9 DEF SourceInv

LEMMA InitSourceInv == ASSUME SourceAssumption, SourceInit PROVE SourceInv
<1> DEFINE first == [p \in Names |-> IF p \in Tracked THEN 1 ELSE 0]
<1> DEFINE e == [files |-> first, head |-> 1, tree |-> first]
<1>1. /\ log = <<e>> /\ gone = {} /\ gens = 0 /\ ready \in {{}, {Foreign}}
      /\ watched = [fingerprint |-> <<Empty, 0>>, task |-> 0] /\ w = [c \in Procs |-> NoWork]
  BY DEF SourceInit, Procs
<1>2. first \in FileMaps /\ \A p \in Names : first[p] <= 1
  BY DEF FileMaps
<1> HIDE DEF first
<1>3. e \in Commits /\ e.files = first /\ e.tree = first /\ e.head = 1
  BY <1>2 DEF Commits
<1> HIDE DEF e
<1>4. Len(log) = 1 /\ log[1] = e /\ Index = {1} /\ Repo = e
  BY <1>1 DEF Index, Repo, Last
<1>5. Empty \in FileMaps /\ \A p \in Names : Empty[p] = 0
  BY DEF Empty, FileMaps
<1>6. /\ NoSnapshot \in Snapshots /\ SnapshotOK(NoSnapshot)
  BY <1>4, <1>5 DEF NoSnapshot, Snapshots, SnapshotOK
<1>7. /\ NoWork \in Readers /\ NoWork.at = "idle" /\ NoWork.since = 0 /\ NoWork.prepared = NoSnapshot
      /\ NoWork.result = NoSnapshot /\ NoWork.got = Empty /\ NoWork.tries = 0 /\ NoWork.job = "none"
  BY <1>5, <1>6, PathsAreNames DEF NoWork, Readers, Stages
<1>8. Foreign \in Templates /\ Foreign.snapshot = NoSnapshot /\ Foreign.id = 0 /\ ~Foreign.readable
  BY <1>5, <1>6 DEF Foreign, Templates, Fingerprints
<1>9. SourceTypeOK
  <2>1. log \in Seq(Commits) /\ log # <<>>
    BY <1>1, <1>3
  <2>2. watched \in [fingerprint : Fingerprints, task : Nat]
    BY <1>1, <1>5 DEF Fingerprints
  <2>3. QED
    BY <1>1, <1>7, <1>8, <2>1, <2>2 DEF SourceTypeOK
<1>10. NothingComesBack
  BY <1>1, <1>2, <1>3, <1>4 DEF NothingComesBack, FileMaps
<1>11. ReaderOK(NoWork)
  BY <1>4, <1>5, <1>6, <1>7 DEF ReaderOK, AttemptOK, Begun, Listed, Verifying
<1>12. TemplatesApart
  BY <1>1, <1>7, <1>8 DEF TemplatesApart, Procs
<1>13. QED
  BY <1>1, <1>6, <1>8, <1>9, <1>10, <1>11, <1>12 DEF SourceInv

LEMMA NextSourceInv ==
  ASSUME SourceAssumption, SourceInv, [SourceNext]_sourceVars PROVE SourceInv'
<1>1. ASSUME NEW p \in Names, Edit(p) \/ Delete(p) PROVE SourceInv'
  BY <1>1, EditKeeps
<1>2. CASE Commit
  BY <1>2, EditKeeps, PathsAreNames
<1>3. ASSUME NEW c \in Runs \cup Generations, Snapshot(c) PROVE SourceInv'
  <2>1. c \in Procs
    BY DEF Procs
  <2>2. QED
    BY <1>3, <2>1, HeadBeforeKeeps, ListPathsKeeps, CloneKeeps, CopyKeeps, HashKeeps, HeadAfterKeeps, StatusKeeps
    DEF Snapshot
<1>4. ASSUME NEW r \in Runs, Begin(r) \/ Claim(r) \/ CaptureInstead(r) PROVE SourceInv'
  BY <1>4, BeginKeeps, ClaimKeeps, CaptureInsteadKeeps
<1>5. CASE RefreshRepository
  BY <1>5, RefreshKeeps
<1>6. ASSUME NEW g \in Generations, PublishSourceTemplate(g) PROVE SourceInv'
  BY <1>6, PublishKeeps
<1>7. CASE Restart
  BY <1>7, RestartKeeps
<1>8. CASE UNCHANGED sourceVars
  BY <1>8 DEF sourceVars, SourceInv, SourceTypeOK, NothingComesBack, TemplatesApart, Published, ReaderOK, AttemptOK,
              SnapshotOK, Between, Hashed, RealAt, Index, Repo
<1>9. QED
  BY <1>1, <1>2, <1>3, <1>4, <1>5, <1>6, <1>7, <1>8 DEF SourceNext

(* The source a run works on, captured or adopted, is what the listed     *)
(* files all were at one moment since it began and at the commit it names, *)
(* however the user edits, deletes and commits under the reader, whatever  *)
(* templates the daemon left, and wherever the daemon dies (capture_once,  *)
(* verify_and_adopt).                                                      *)
THEOREM SnapshotsAreReal == ASSUME SourceAssumption PROVE SourceSpec => []SnapshotIsReal
<1>1. SourceInit => SourceInv
  BY InitSourceInv
<1>2. SourceInv /\ [SourceNext]_sourceVars => SourceInv'
  BY NextSourceInv
<1>3. SourceInv => SnapshotIsReal
  <2>1. SUFFICES ASSUME SourceInv, NEW r \in Runs, w[r].at = "done"
                 PROVE  \E m \in Moments(r) :
                          /\ m.head = w[r].result.commit
                          /\ \A p \in w[r].result.list : m.files[p] = w[r].result.entries[p]
                          /\ w[r].job = "adopt" =>
                               \A p \in Names : m.files[p] = w[r].result.entries[p]
                                                \/ (w[r].result.entries[p] = 0 /\ p \in gone)
    BY DEF SnapshotIsReal
  <2>2. w[r] \in Readers /\ ReaderOK(w[r]) /\ Len(log) \in Nat
    BY <2>1, RepoIs DEF SourceInv, SourceTypeOK, Procs
  <2>3. PICK k \in Index : RealAt(w[r], k)
    BY <2>1, <2>2 DEF ReaderOK
  <2>4. w[r].since \in Nat /\ k \in w[r].since..Len(log)
    BY <2>2, <2>3 DEF Index, RealAt, Readers
  <2>5. log[k] \in Moments(r)
    BY <2>4 DEF Moments
  <2>6. QED
    BY <2>3, <2>5 DEF RealAt
<1>4. QED
  BY <1>1, <1>2, <1>3, PTL DEF SourceSpec

(* What the daemon prepared is only a hint: no template is in two hands,   *)
(* and a run is left without a source only when the repository changed in  *)
(* each of its own attempts, whatever it found and in whatever order the   *)
(* candidates failed (take_source_template, capture).                      *)
THEOREM TemplatesAreOnlyHints == ASSUME SourceAssumption PROVE SourceSpec => []TemplatesAreHints
<1>1. SourceInit => SourceInv
  BY InitSourceInv
<1>2. SourceInv /\ [SourceNext]_sourceVars => SourceInv'
  BY NextSourceInv
<1>3. ASSUME SourceInv PROVE TemplatesAreHints
  <2>1. ASSUME NEW r \in Runs, w[r].at = "failed" PROVE Len(log) - w[r].since >= CaptureAttempts
    <3>1. w[r] \in Readers /\ AttemptOK(w[r]) /\ Len(log) \in Nat /\ CaptureAttempts \in Nat
      BY <1>3, RepoIs DEF SourceInv, SourceTypeOK, Procs, ReaderOK, SourceAssumption
    <3>2. w[r].since \in Nat /\ w[r].tries \in Nat
      BY <3>1 DEF Readers
    <3>3. w[r].since + w[r].tries <= Len(log) /\ w[r].tries >= CaptureAttempts
      BY <2>1, <3>1 DEF AttemptOK
    <3>4. QED
      BY <3>1, <3>2, <3>3
  <2>2. QED
    BY <1>3, <2>1 DEF TemplatesAreHints, SourceInv, TemplatesApart, Procs
<1>4. QED
  BY <1>1, <1>2, <1>3, PTL DEF SourceSpec


-----------------------------------------------------------------------------
(* The login                                                               *)

AuthProcs == Callers \cup Logins
(* These hold a token that nobody else has seen yet.                       *)
Holds == {"clear", "remove", "save", "truncate", "write"}
AuthStages == Holds \cup {"idle", "file", "exchange", "poll", "done", "failed", "dead"}
Reasons == {"", "absent", "refresh expired", "spent", "lost", "network"}
Polls == [interval : Int, want : Int, clock : Int, expires : Int, rude : BOOLEAN]
AuthLocals == [at : AuthStages, token : Nat, result : Nat, why : Reasons, began : Nat, poll : Polls]
Tokens == [until : Int, refreshUntil : Int, spent : BOOLEAN, login : Nat]

CredTypeOK ==
  /\ now \in Nat /\ tokens \in Seq(Tokens) /\ ringWorks \in BOOLEAN
  /\ keyring \in 0..Len(tokens) /\ file \in -1..Len(tokens)
  /\ proc \in [AuthProcs -> AuthLocals]
  /\ session \in Nat
  /\ \A x \in AuthProcs :
       /\ proc[x].at = "exchange" => proc[x].token \in 1..Len(tokens)
       /\ proc[x].token \in 0..Len(tokens) /\ proc[x].result \in 0..Len(tokens)
       /\ proc[x].at \in {"file", "exchange"} => x \in Callers
       /\ proc[x].at \in {"poll", "clear", "remove"} => x \in Logins
  /\ ~ringWorks => keyring = None

Spent(t) == tokens[t].spent
LoginOf(t) == tokens[t].login

(* A token on its way to where it is stored is in one hand and unspent.    *)
TokensArePrivate ==
  \A x \in AuthProcs : proc[x].at \in Holds =>
    /\ proc[x].token # None /\ ~Spent(proc[x].token)
    /\ proc[x].token # keyring /\ proc[x].token # file
    /\ \A y \in AuthProcs : y # x => proc[y].token # proc[x].token

PollsAreSlow ==
  \A x \in AuthProcs :
    /\ ~proc[x].poll.rude
    /\ proc[x].at = "poll" => proc[x].poll.interval >= proc[x].poll.want /\ proc[x].poll.interval >= 1

(* While nothing that costs the session happened: a spent token is in the  *)
(* keyring only until the command that spent it has saved; without one in  *)
(* the keyring, the file has it or somebody is about to save one.          *)
StoredIsFresh ==
  causes \subseteq {"overlap"} =>
    /\ keyring # None /\ Spent(keyring) => \E c \in Callers : proc[c].at = "save"
    /\ keyring = None /\ session # None =>
         \/ file > 0 /\ ~Spent(file)
         \/ \E x \in AuthProcs : proc[x].at \in Holds \ {"clear"}

(* While no two processes were at work at once, the one at work has what   *)
(* is stored, and that is of the last login.                               *)
OneAtWork ==
  causes = {} =>
    /\ \A x, y \in Active : x = y
    /\ session # None /\ (\A x \in AuthProcs : proc[x].at \notin Holds) =>
         Stored > 0 /\ LoginOf(Stored) = session
    /\ \A x \in AuthProcs :
         /\ proc[x].at = "file" => keyring = None
         /\ proc[x].at \in {"truncate", "write"} => keyring = None
         /\ x \in Logins /\ proc[x].at \in {"remove", "save"} => keyring = None
         /\ x \in Callers /\ x \in Active => proc[x].began = session
         /\ proc[x].at = "exchange" /\ session # None => proc[x].token = Stored
         /\ x \in Callers /\ proc[x].at \in Holds /\ session # None =>
              LoginOf(proc[x].token) = session

CredInv == /\ CredTypeOK /\ TokensArePrivate /\ PollsAreSlow /\ StoredIsFresh /\ OneAtWork
           /\ CommandsAreServed

LEMMA InitCredInv == ASSUME CredInit PROVE CredInv
<1>1. /\ NotPolling \in Polls /\ ~NotPolling.rude
      /\ AuthIdle \in AuthLocals /\ AuthIdle.at = "idle" /\ AuthIdle.token = 0 /\ AuthIdle.result = 0
      /\ AuthIdle.poll = NotPolling
  BY DEF NotPolling, Polls, AuthIdle, AuthLocals, AuthStages, Reasons, None
<1>2. \A x \in AuthProcs : proc[x] = AuthIdle
  BY DEF CredInit, AuthProcs
<1>3. tokens \in Seq(Tokens) /\ Len(tokens) = 0 /\ now = 0 /\ keyring = 0 /\ file = 0 /\ session = 0
  BY DEF CredInit, None
<1>4. CredTypeOK
  <2>1. proc \in [AuthProcs -> AuthLocals]
    BY <1>1 DEF CredInit, AuthProcs
  <2>2. ringWorks \in BOOLEAN
    BY DEF CredInit
  <2>3. QED
    BY <1>1, <1>2, <1>3, <2>1, <2>2 DEF CredTypeOK, None
<1>5. TokensArePrivate /\ PollsAreSlow
  BY <1>1, <1>2 DEF TokensArePrivate, PollsAreSlow, Holds
<1>6. StoredIsFresh
  BY <1>3 DEF StoredIsFresh, None
<1>7. OneAtWork /\ CommandsAreServed
  <2>1. Active = {}
    BY <1>1, <1>2 DEF Active, AuthEnded, CredInit, AuthProcs
  <2>2. QED
    BY <1>1, <1>2, <1>3, <2>1 DEF OneAtWork, CommandsAreServed, None, AuthProcs, Holds
<1>8. QED
  BY <1>4, <1>5, <1>6, <1>7 DEF CredInv

(* Who is at work.                                                         *)
LEMMA ActiveFacts ==
  ASSUME CredTypeOK, NEW x \in AuthProcs
  PROVE  x \in Active <=> proc[x].at \notin {"idle", "done", "failed", "dead"}
  BY DEF CredTypeOK, Active, AuthEnded

LEMMA Proceeds ==
  ASSUME CredTypeOK, NEW x \in AuthProcs, NEW v, Proceed(x, v)
  PROVE  /\ proc'[x] = v /\ \A y \in AuthProcs : y # x => proc'[y] = proc[y]
         /\ v \in AuthLocals => proc' \in [AuthProcs -> AuthLocals]
  BY DEF CredTypeOK, Proceed

LEMMA MyAuthLocals ==
  ASSUME CredTypeOK, NEW x \in AuthProcs
  PROVE  /\ proc[x] \in AuthLocals /\ proc[x].at \in AuthStages
         /\ proc[x].token \in 0..Len(tokens) /\ proc[x].token \in Nat
         /\ proc[x].result \in 0..Len(tokens) /\ proc[x].began \in Nat
         /\ proc[x].why \in Reasons /\ proc[x].poll \in Polls /\ Len(tokens) \in Nat
  BY DEF CredTypeOK, AuthLocals

(* What new tokens leave of the old ones.                                  *)
LEMMA AppendedTokens ==
  ASSUME NEW s \in Seq(Tokens), NEW new \in Tokens
  PROVE  /\ Append(s, new) \in Seq(Tokens) /\ Len(Append(s, new)) = Len(s) + 1
         /\ Append(s, new)[Len(s) + 1] = new
         /\ \A i \in 1..Len(s) : Append(s, new)[i] = s[i]
  OBVIOUS

LEMMA ExchangedTokens ==
  ASSUME NEW s \in Seq(Tokens), NEW t \in 1..Len(s), NEW new \in Tokens
  PROVE  LET after == Append([s EXCEPT ![t].spent = TRUE], new)
         IN  /\ after \in Seq(Tokens) /\ Len(after) = Len(s) + 1
             /\ after[Len(s) + 1] = new
             /\ \A i \in 1..Len(s) : /\ after[i].login = s[i].login
                                     /\ i # t => after[i].spent = s[i].spent
<1> DEFINE mid == [s EXCEPT ![t].spent = TRUE]
<1>1. s[t] \in Tokens /\ [s[t] EXCEPT !.spent = TRUE] \in Tokens
      /\ [s[t] EXCEPT !.spent = TRUE].login = s[t].login
  <2>1. PICK old \in Tokens : old = s[t]
    OBVIOUS
  <2>2. [old EXCEPT !.spent = TRUE] \in Tokens /\ [old EXCEPT !.spent = TRUE].login = old.login
    BY DEF Tokens
  <2>3. QED
    BY <2>1, <2>2
<1>2. mid = [s EXCEPT ![t] = [s[t] EXCEPT !.spent = TRUE]]
  OBVIOUS
<1>3. mid \in Seq(Tokens) /\ Len(mid) = Len(s)
  BY <1>1, <1>2
<1>4. \A i \in 1..Len(s) : /\ i # t => mid[i] = s[i]
                           /\ mid[t] = [s[t] EXCEPT !.spent = TRUE]
  <2>1. s \in [1..Len(s) -> Tokens]
    OBVIOUS
  <2>2. QED
    BY <1>2, <2>1
<1> HIDE DEF mid
<1>5. /\ Append(mid, new) \in Seq(Tokens) /\ Len(Append(mid, new)) = Len(s) + 1
      /\ Append(mid, new)[Len(s) + 1] = new
      /\ \A i \in 1..Len(s) : Append(mid, new)[i] = mid[i]
  BY <1>3, AppendedTokens
<1>6. QED
  BY <1>1, <1>4, <1>5 DEF mid

-----------------------------------------------------------------------------
(* The clock, and a process that is killed.                                *)
LEMMA TickKeeps == ASSUME CredInv, Tick \/ UNCHANGED credVars PROVE CredInv'
<1>1. UNCHANGED <<tokens, ringWorks, keyring, file, proc, session, causes>> /\ now' \in Nat
  BY DEF Tick, credVars, CredInv, CredTypeOK
<1>2. CredTypeOK' /\ TokensArePrivate' /\ PollsAreSlow'
  BY <1>1 DEF CredInv, CredTypeOK, TokensArePrivate, PollsAreSlow, Spent
<1>3. StoredIsFresh' /\ CommandsAreServed'
  BY <1>1 DEF CredInv, StoredIsFresh, CommandsAreServed, Spent
<1>4. OneAtWork'
  BY <1>1 DEF CredInv, OneAtWork, Active, Stored, LoginOf
<1>5. QED
  BY <1>2, <1>3, <1>4 DEF CredInv

LEMMA CredKillKeeps ==
  ASSUME CredInv, NEW x \in AuthProcs, CredKill(x)
  PROVE  CredInv'
<1> DEFINE v == [AuthIdle EXCEPT !.at = "dead", !.poll = [NotPolling EXCEPT !.rude = proc[x].poll.rude]]
<1>1. CredTypeOK
  BY DEF CredInv
<1>2. proc[x].poll.rude \in BOOLEAN
  BY <1>1, MyAuthLocals DEF Polls
<1>3. v \in AuthLocals /\ v.at = "dead" /\ v.token = 0 /\ v.result = 0 /\ v.poll.rude = proc[x].poll.rude
  <2> DEFINE q == [interval |-> 0, want |-> 0, clock |-> 0, expires |-> 0, rude |-> proc[x].poll.rude]
  <2>1. q \in Polls /\ q.rude = proc[x].poll.rude
    BY <1>2 DEF Polls
  <2>2. [NotPolling EXCEPT !.rude = proc[x].poll.rude] = q
    BY DEF NotPolling
  <2> HIDE DEF q
  <2>3. v = [AuthIdle EXCEPT !.at = "dead", !.poll = q]
    BY <2>2
  <2>4. AuthIdle \in AuthLocals /\ AuthIdle.token = 0 /\ AuthIdle.result = 0
    BY DEF AuthIdle, AuthLocals, AuthStages, Reasons, None, NotPolling, Polls
  <2> HIDE DEF v
  <2>5. QED
    BY <2>1, <2>3, <2>4 DEF AuthLocals, AuthStages
<1>4. /\ UNCHANGED <<now, tokens, ringWorks, keyring, file, session>>
      /\ "killed" \in causes' /\ Proceed(x, v)
  BY DEF CredKill
<1> HIDE DEF v
<1>5. /\ proc'[x] = v /\ \A y \in AuthProcs : y # x => proc'[y] = proc[y]
      /\ proc' \in [AuthProcs -> AuthLocals]
  BY <1>1, <1>3, <1>4, Proceeds
<1>6. CredTypeOK'
  BY <1>1, <1>3, <1>4, <1>5 DEF CredTypeOK
<1>7. TokensArePrivate' /\ PollsAreSlow'
  <2>1. TokensArePrivate'
    BY <1>3, <1>4, <1>5 DEF CredInv, TokensArePrivate, Spent, Holds, None
  <2>2. PollsAreSlow'
    BY <1>3, <1>4, <1>5 DEF CredInv, PollsAreSlow
  <2>3. QED
    BY <2>1, <2>2
<1>8. StoredIsFresh' /\ OneAtWork' /\ CommandsAreServed'
  BY <1>4 DEF StoredIsFresh, OneAtWork, CommandsAreServed
<1>9. QED
  BY <1>6, <1>7, <1>8 DEF CredInv

-----------------------------------------------------------------------------
(* store_and_report clears, and then saves.  A step from one place that    *)
(* holds the token to another.                                             *)
LEMMA HoldOn ==
  ASSUME CredInv, NEW x \in AuthProcs, NEW to \in Holds \ {"clear"}, proc[x].at \in Holds,
         Proceed(x, [proc[x] EXCEPT !.at = to]),
         to = "remove" => x \in Logins,
         UNCHANGED <<now, tokens, ringWorks, session>>,
         keyring' \in {keyring, None}, file' \in {file, None, Torn},
         causes \subseteq causes',
         keyring' # None /\ x \in Callers /\ proc[x].at = "save" => "shadowed" \in causes',
         causes' = {} => keyring' = None
  PROVE  CredInv'
<1> DEFINE v == [proc[x] EXCEPT !.at = to]
<1>1. CredTypeOK
  BY DEF CredInv
<1>2. /\ v \in AuthLocals /\ v.at = to /\ v.token = proc[x].token /\ v.result = proc[x].result
      /\ v.poll = proc[x].poll /\ v.began = proc[x].began
  <2>1. PICK old \in AuthLocals : old = proc[x]
    BY <1>1, MyAuthLocals
  <2>2. QED
    BY <2>1 DEF AuthLocals, AuthStages
<1> HIDE DEF v
<1>3. /\ proc'[x] = v /\ \A y \in AuthProcs : y # x => proc'[y] = proc[y]
      /\ proc' \in [AuthProcs -> AuthLocals]
  BY <1>1, <1>2, Proceeds DEF v
<1>4. CredTypeOK'
  <2>1. keyring' \in 0..Len(tokens) /\ file' \in -1..Len(tokens)
    BY <1>1 DEF CredTypeOK, None, Torn
  <2>2. QED
    BY <1>1, <1>2, <1>3, <2>1 DEF CredTypeOK, Holds, None
<1>5. TokensArePrivate'
  <2>1. proc[x].token # None /\ proc[x].token # Torn
    BY <1>1, MyAuthLocals DEF CredInv, TokensArePrivate, Torn
  <2>2. \A y \in AuthProcs : proc'[y].token = proc[y].token /\ (proc'[y].at \in Holds => proc[y].at \in Holds)
    BY <1>2, <1>3
  <2>3. \A y \in AuthProcs : proc[y].token # Torn
    BY <1>1, MyAuthLocals DEF Torn
  <2>4. QED
    BY <2>1, <2>2, <2>3 DEF CredInv, TokensArePrivate, Spent
<1>6. PollsAreSlow'
  BY <1>2, <1>3 DEF CredInv, PollsAreSlow, Holds
<1>7. StoredIsFresh'
  <2> SUFFICES ASSUME causes' \subseteq {"overlap"}
               PROVE  /\ keyring' # None /\ Spent(keyring)' => \E c \in Callers : proc'[c].at = "save"
                      /\ keyring' = None /\ session # None =>
                           \/ file' > 0 /\ ~Spent(file)'
                           \/ \E y \in AuthProcs : proc'[y].at \in Holds \ {"clear"}
    BY DEF StoredIsFresh
  <2>1. proc'[x].at \in Holds \ {"clear"}
    BY <1>2, <1>3
  <2>2. ASSUME keyring' # None, Spent(keyring)' PROVE \E c \in Callers : proc'[c].at = "save"
    <3>1. keyring' = keyring /\ Spent(keyring)
      BY <2>2 DEF Spent
    <3>2. PICK c \in Callers : proc[c].at = "save"
      BY <2>2, <3>1 DEF CredInv, StoredIsFresh
    <3>3. c # x
      BY <2>2, <3>2
    <3>4. QED
      BY <1>3, <3>2, <3>3 DEF AuthProcs
  <2>3. QED
    BY <2>1, <2>2
<1>8. OneAtWork'
  <2> SUFFICES ASSUME causes' = {} PROVE OneAtWork'
    BY DEF OneAtWork
  <2>1. causes = {}
    OBVIOUS
  <2>2. \A y \in AuthProcs : (y \in Active)' <=> y \in Active
    <3>1. \A y \in AuthProcs : y \in Active <=> proc[y].at \notin {"idle", "done", "failed", "dead"}
      BY <1>1, ActiveFacts
    <3>2. \A y \in AuthProcs : (y \in Active)' <=> proc'[y].at \notin {"idle", "done", "failed", "dead"}
      BY <1>4 DEF CredTypeOK, Active, AuthEnded
    <3>3. QED
      BY <1>2, <1>3, <3>1, <3>2 DEF Holds
  <2>3. Active \subseteq AuthProcs /\ Active' \subseteq AuthProcs
    BY <1>1, <1>4 DEF CredTypeOK, Active
  <2>4. x \in Active
    BY <1>1, ActiveFacts DEF Holds
  <2>5. \A y \in AuthProcs : y # x => y \notin Active
    BY <2>1, <2>4 DEF CredInv, OneAtWork
  <2>6. \A y \in AuthProcs : y # x => proc'[y].at \in {"idle", "done", "failed", "dead"}
    BY <2>5, <1>1, <1>3, ActiveFacts
  <2>7. proc'[x].at \in Holds /\ proc'[x].at = to
    BY <1>2, <1>3
  <2>9. QED
    BY <2>1, <2>2, <2>3, <2>5, <2>6, <2>7, <1>2, <1>3 DEF CredInv, OneAtWork, LoginOf, Holds
<1>9. CommandsAreServed'
  BY <1>2, <1>3 DEF CredInv, CommandsAreServed, AuthProcs, Holds
<1>10. QED
  BY <1>4, <1>5, <1>6, <1>7, <1>8, <1>9 DEF CredInv

LEMMA HoldersKeep ==
  ASSUME CredAssumption, CredInv, NEW x \in AuthProcs,
         ClearKeyring(x) \/ RemoveFile(x) \/ Truncate(x)
           \/ (SaveToKeyring(x) /\ Proceed(x, [proc[x] EXCEPT !.at = "truncate"])
                 /\ UNCHANGED <<keyring, session>>
                 /\ causes' = IF x \in Callers /\ keyring # None THEN causes \cup {"shadowed"} ELSE causes)
  PROVE  CredInv'
<1>1. CASE ClearKeyring(x)
  <2>1. /\ proc[x].at = "clear" /\ keyring' = None /\ Proceed(x, [proc[x] EXCEPT !.at = "remove"])
        /\ UNCHANGED <<now, tokens, ringWorks, file, session, causes>>
    BY <1>1 DEF ClearKeyring
  <2>2. x \in Logins
    BY <2>1 DEF CredInv, CredTypeOK
  <2>3. "remove" \in Holds \ {"clear"} /\ "clear" \in Holds
    BY DEF Holds
  <2>4. QED
    BY <2>1, <2>2, <2>3, HoldOn
<1>2. CASE RemoveFile(x)
  <2>1. /\ proc[x].at = "remove" /\ file' = None /\ Proceed(x, [proc[x] EXCEPT !.at = "save"])
        /\ UNCHANGED <<now, tokens, ringWorks, keyring, session, causes>>
    BY <1>2 DEF RemoveFile
  <2>2. x \in Logins
    BY <2>1 DEF CredInv, CredTypeOK
  <2>3. causes = {} => keyring = None
    BY <2>1, <2>2 DEF CredInv, OneAtWork
  <2>4. "save" \in Holds \ {"clear"} /\ "remove" \in Holds
    BY DEF Holds
  <2>5. QED
    BY <2>1, <2>2, <2>3, <2>4, HoldOn
<1>3. CASE Truncate(x)
  <2>1. /\ proc[x].at = "truncate" /\ file' = Torn /\ Proceed(x, [proc[x] EXCEPT !.at = "write"])
        /\ UNCHANGED <<now, tokens, ringWorks, keyring, session, causes>>
    BY <1>3 DEF Truncate
  <2>2. causes = {} => keyring = None
    BY <2>1 DEF CredInv, OneAtWork
  <2>3. "write" \in Holds \ {"clear"} /\ "truncate" \in Holds
    BY DEF Holds
  <2>4. QED
    BY <2>1, <2>2, <2>3, HoldOn
<1>4. CASE /\ SaveToKeyring(x) /\ Proceed(x, [proc[x] EXCEPT !.at = "truncate"])
           /\ UNCHANGED <<keyring, session>>
           /\ causes' = IF x \in Callers /\ keyring # None THEN causes \cup {"shadowed"} ELSE causes
  <2>1. proc[x].at = "save" /\ UNCHANGED <<now, tokens, ringWorks, file>>
    BY <1>4 DEF SaveToKeyring
  <2>2. causes' = {} => keyring = None
    BY <1>4, <2>1 DEF CredInv, OneAtWork, AuthProcs
  <2>3. "truncate" \in Holds \ {"clear"} /\ "save" \in Holds
    BY DEF Holds
  <2>4. QED
    BY <1>4, <2>1, <2>2, <2>3, HoldOn
<1>5. QED
  BY <1>1, <1>2, <1>3, <1>4

(* The token reaches where it is stored, and is the session's.             *)
LEMMA SaveKeeps ==
  ASSUME CredAssumption, CredInv, NEW x \in AuthProcs, proc[x].at \in {"save", "write"},
         Proceed(x, Saved(x)), session' = NewSession(x),
         UNCHANGED <<now, tokens, ringWorks>>,
         \/ ringWorks /\ keyring' = proc[x].token /\ UNCHANGED <<file, causes>>
         \/ proc[x].at = "write" /\ file' = proc[x].token /\ UNCHANGED <<keyring, causes>>
         \/ proc[x].at = "write" /\ file' = Torn /\ keyring' = keyring /\ causes' = causes \cup {"torn"}
  PROVE  CredInv'
<1> DEFINE v == Saved(x)
           t == proc[x].token
<1>1. CredTypeOK
  BY DEF CredInv
<1>2. /\ t \in 1..Len(tokens) /\ t # 0 /\ ~tokens[t].spent /\ t # keyring /\ t # file /\ Len(tokens) \in Nat
      /\ \A y \in AuthProcs : y # x => proc[y].token # t
  BY <1>1, MyAuthLocals DEF CredInv, TokensArePrivate, Holds, None, Spent
<1>3. /\ v \in AuthLocals /\ v.at = "done" /\ v.token = 0 /\ v.result \in 0..Len(tokens)
      /\ v.poll = proc[x].poll /\ v.began = proc[x].began
      /\ x \in Callers => v.result = t
  <2>1. PICK old \in AuthLocals : old = proc[x]
    BY <1>1, MyAuthLocals
  <2>2. old.token = t /\ old.result \in 0..Len(tokens) /\ t \in Nat
    BY <1>1, <1>2, <2>1, MyAuthLocals
  <2>3. CASE x \in Callers
    <3>1. v = [old EXCEPT !.at = "done", !.result = t, !.token = 0]
      BY <2>1, <2>3 DEF Saved, None
    <3> HIDE DEF v, t
    <3>2. v \in AuthLocals
      BY <2>2, <3>1 DEF AuthLocals, AuthStages
    <3>3. v.at = "done" /\ v.token = 0 /\ v.result = t /\ v.poll = old.poll /\ v.began = old.began
      BY <3>1 DEF AuthLocals
    <3>4. QED
      BY <1>2, <2>1, <3>2, <3>3
  <2>4. CASE x \notin Callers
    <3>1. v = [old EXCEPT !.at = "done", !.token = 0]
      BY <2>1, <2>4 DEF Saved, None
    <3> HIDE DEF v, t
    <3>2. QED
      BY <1>2, <2>1, <2>2, <2>4, <3>1 DEF AuthLocals, AuthStages
  <2>5. QED
    BY <2>3, <2>4
<1> HIDE DEF v
<1>4. /\ proc'[x] = v /\ \A y \in AuthProcs : y # x => proc'[y] = proc[y]
      /\ proc' \in [AuthProcs -> AuthLocals]
  BY <1>1, <1>3, Proceeds DEF v
<1>5. session' \in Nat /\ (x \in Logins => session' = tokens[t].login) /\ (x \in Callers => session' = session)
  <2>1. tokens[t] \in Tokens
    BY <1>1, <1>2 DEF CredTypeOK
  <2>2. QED
    BY <1>1, <2>1 DEF NewSession, CredAssumption, CredTypeOK, Tokens
<1>6. keyring' \in {keyring, t} /\ file' \in {file, t, -1} /\ causes \subseteq causes'
  BY DEF Torn
<1>7. CredTypeOK'
  <2>1. keyring' \in 0..Len(tokens) /\ file' \in -1..Len(tokens) /\ (~ringWorks => keyring' = None)
    BY <1>1, <1>2, <1>6 DEF CredTypeOK, None
  <2>2. QED
    BY <1>1, <1>3, <1>4, <1>5, <2>1 DEF CredTypeOK, None
<1>8. TokensArePrivate'
  <2> SUFFICES ASSUME NEW y \in AuthProcs, proc'[y].at \in Holds
               PROVE  /\ proc'[y].token # None /\ ~tokens'[proc'[y].token].spent
                      /\ proc'[y].token # keyring' /\ proc'[y].token # file'
                      /\ \A z \in AuthProcs : z # y => proc'[z].token # proc'[y].token
    BY DEF TokensArePrivate, Spent
  <2>1. y # x /\ proc'[y] = proc[y]
    BY <1>3, <1>4 DEF Holds
  <2>2. /\ proc[y].token # None /\ ~tokens[proc[y].token].spent
        /\ proc[y].token # keyring /\ proc[y].token # file
        /\ \A z \in AuthProcs : z # y => proc[z].token # proc[y].token
    BY <2>1 DEF CredInv, TokensArePrivate, Spent
  <2>3. proc[y].token # t /\ proc[y].token # -1
    BY <1>1, <1>2, <2>1, MyAuthLocals
  <2>4. QED
    BY <1>3, <1>4, <1>6, <2>1, <2>2, <2>3 DEF None
<1>9. PollsAreSlow'
  BY <1>3, <1>4 DEF CredInv, PollsAreSlow
<1>10. StoredIsFresh'
  <2> SUFFICES ASSUME causes' \subseteq {"overlap"}
               PROVE  /\ keyring' # None /\ tokens[keyring'].spent => \E c \in Callers : proc'[c].at = "save"
                      /\ keyring' = None /\ session' # None => file' > 0 /\ ~tokens[file'].spent
    BY DEF StoredIsFresh, Spent
  <2>1. CASE keyring' = t
    BY <2>1, <1>2 DEF None
  <2>2. CASE keyring' # t
    <3>1. proc[x].at = "write" /\ file' = t /\ keyring' = keyring
      BY <2>2
    <3>2. t > 0
      BY <1>2
    <3>3. ASSUME keyring # None, tokens[keyring].spent PROVE \E c \in Callers : proc'[c].at = "save"
      <4>1. PICK c \in Callers : proc[c].at = "save"
        BY <3>3, <1>6 DEF CredInv, StoredIsFresh, Spent
      <4>2. QED
        BY <4>1, <3>1, <1>4 DEF AuthProcs
    <3>4. QED
      BY <3>1, <3>2, <3>3, <1>2
  <2>3. QED
    BY <2>1, <2>2
<1>11. ASSUME causes' = {} PROVE OneAtWork' /\ CommandsAreServed'
  <2>1. causes = {} /\ (keyring' = t \/ (file' = t /\ keyring' = keyring /\ proc[x].at = "write"))
    BY <1>11
  <2>2. x \in Active
    BY <1>1, ActiveFacts
  <2>3. \A y \in AuthProcs : y # x => y \notin Active
    BY <2>1, <2>2 DEF CredInv, OneAtWork
  <2>4. \A y \in AuthProcs : proc'[y].at \in {"idle", "done", "failed", "dead"}
    BY <2>3, <1>1, <1>3, <1>4, ActiveFacts
  <2>5. Active' = {}
    BY <2>4, <1>7 DEF CredTypeOK, Active, AuthEnded
  <2>6. Stored' = t /\ t > 0
    <3>1. CASE keyring' = t
      BY <3>1, <1>1, <1>2 DEF Stored, None, CredTypeOK
    <3>2. CASE keyring' # t
      <4>1. file' = t /\ keyring' = keyring /\ keyring = None
        BY <3>2, <2>1 DEF CredInv, OneAtWork
      <4>2. QED
        BY <4>1, <1>2 DEF Stored
    <3>3. QED
      BY <3>1, <3>2
  <2>7. session' # None => tokens[t].login = session'
    <3>1. CASE x \in Logins
      BY <3>1, <1>5
    <3>2. CASE x \in Callers
      BY <3>2, <1>5, <2>1 DEF CredInv, OneAtWork, LoginOf, Holds
    <3>3. QED
      BY <3>1, <3>2 DEF AuthProcs
  <2>8. OneAtWork'
    BY <2>4, <2>5, <2>6, <2>7, <1>1 DEF OneAtWork, LoginOf, Holds, None
  <2>9. CommandsAreServed'
    <3> SUFFICES ASSUME NEW c \in Callers, proc'[c].at = "done", proc'[c].began # None
                 PROVE  \/ proc'[c].result # None /\ tokens[proc'[c].result].login = proc'[c].began
                        \/ proc'[c].why \in {"network", "refresh expired"}
      BY DEF CommandsAreServed
    <3>1. CASE c # x
      BY <3>1, <1>4, <2>1 DEF CredInv, CommandsAreServed, AuthProcs
    <3>2. CASE c = x
      <4>1. proc[x].began = session /\ session' = session
        BY <3>2, <2>1, <2>2, <1>5 DEF CredInv, OneAtWork
      <4>2. proc'[x].result = t /\ proc'[x].began = session
        BY <3>2, <4>1, <1>3, <1>4
      <4>3. QED
        BY <3>2, <4>1, <4>2, <2>7, <1>2 DEF None
    <3>3. QED
      BY <3>1, <3>2
  <2>10. QED
    BY <2>8, <2>9
<1>12. OneAtWork' /\ CommandsAreServed'
  BY <1>11 DEF OneAtWork, CommandsAreServed
<1>13. QED
  BY <1>7, <1>8, <1>9, <1>10, <1>12 DEF CredInv

-----------------------------------------------------------------------------
(* A step that writes no token and ends with none in its hands: a load,    *)
(* an exchange that fails, a device code, a poll.                          *)
LEMMA QuietKeeps ==
  ASSUME CredAssumption, CredInv, NEW x \in AuthProcs, NEW v \in AuthLocals, Proceed(x, v),
         proc[x].at \notin Holds, v.at \notin Holds,
         UNCHANGED <<now, tokens, ringWorks, keyring, file, session>>, causes \subseteq causes',
         v.token \in {0, keyring, file, proc[x].token} \cap 0..Len(tokens), v.result \in 0..Len(tokens),
         v.at = "exchange" => v.token \in 1..Len(tokens),
         v.at \in {"file", "exchange"} => x \in Callers, v.at = "poll" => x \in Logins,
         ~v.poll.rude,
         v.at = "poll" => v.poll.interval >= v.poll.want /\ v.poll.interval >= 1,
         causes' = {} =>
           /\ x \in Active \/ Active = {}
           /\ v.at = "file" => keyring = None
           /\ x \in Callers /\ v.at \in {"file", "exchange"} => v.began = session
           /\ v.at = "exchange" /\ session # None => v.token = Stored
           /\ x \in Callers /\ v.at = "done" /\ v.began # None =>
                \/ v.result # None /\ tokens[v.result].login = v.began
                \/ v.why \in {"network", "refresh expired"}
  PROVE  CredInv'
<1>1. CredTypeOK
  BY DEF CredInv
<1>2. /\ proc'[x] = v /\ \A y \in AuthProcs : y # x => proc'[y] = proc[y]
      /\ proc' \in [AuthProcs -> AuthLocals]
  BY <1>1, Proceeds
<1>3. CredTypeOK'
  BY <1>1, <1>2 DEF CredTypeOK, Holds
<1>4. TokensArePrivate'
  <2> SUFFICES ASSUME NEW y \in AuthProcs, proc'[y].at \in Holds
               PROVE  /\ proc'[y].token # None /\ ~tokens[proc'[y].token].spent
                      /\ proc'[y].token # keyring /\ proc'[y].token # file
                      /\ \A z \in AuthProcs : z # y => proc'[z].token # proc'[y].token
    BY DEF TokensArePrivate, Spent
  <2>1. y # x /\ proc'[y] = proc[y]
    BY <1>2
  <2>2. /\ proc[y].token # None /\ ~tokens[proc[y].token].spent
        /\ proc[y].token # keyring /\ proc[y].token # file
        /\ \A z \in AuthProcs : z # y => proc[z].token # proc[y].token
    BY <2>1 DEF CredInv, TokensArePrivate, Spent
  <2>3. QED
    BY <1>2, <2>1, <2>2 DEF None
<1>5. PollsAreSlow'
  BY <1>2 DEF CredInv, PollsAreSlow
<1>6. StoredIsFresh'
  <2>1. \A y \in AuthProcs : proc'[y].at \in Holds <=> proc[y].at \in Holds
    BY <1>2
  <2>2. \A y \in AuthProcs : proc[y].at \in Holds => proc'[y].at = proc[y].at
    BY <1>2
  <2> SUFFICES ASSUME causes' \subseteq {"overlap"}
               PROVE  /\ keyring # None /\ Spent(keyring) => \E c \in Callers : proc'[c].at = "save"
                      /\ keyring = None /\ session # None =>
                           \/ file > 0 /\ ~Spent(file)
                           \/ \E y \in AuthProcs : proc'[y].at \in Holds \ {"clear"}
    BY DEF StoredIsFresh, Spent
  <2>3. causes \subseteq {"overlap"} /\ "save" \in Holds
    BY DEF Holds
  <2>4. QED
    BY <2>1, <2>2, <2>3 DEF CredInv, StoredIsFresh, AuthProcs
<1>7. ASSUME causes' = {} PROVE OneAtWork' /\ CommandsAreServed'
  <2>1. causes = {}
    BY <1>7
  <2>2. \A y \in AuthProcs : y # x => y \notin Active
    BY <2>1, <1>7 DEF CredInv, OneAtWork
  <2>3. \A y \in AuthProcs : y # x => proc'[y].at \in {"idle", "done", "failed", "dead"}
    BY <2>2, <1>1, <1>2, ActiveFacts
  <2>4. Active' \subseteq {x}
    BY <2>3, <1>3 DEF CredTypeOK, Active, AuthEnded
  <2>5. Stored' = Stored
    BY DEF Stored
  <2>6. \A y \in AuthProcs : proc[y].at \notin Holds
    BY <2>3, <1>2 DEF Holds
  <2>7. session # None => Stored > 0 /\ LoginOf(Stored) = session
    BY <2>1, <2>6 DEF CredInv, OneAtWork
  <2>8. v.at \in AuthStages
    BY DEF AuthLocals
  <2>9. x \in Active' => v.at \in {"file", "exchange", "poll"}
    BY <2>8, <1>2, <1>3 DEF CredTypeOK, Active, AuthEnded, AuthStages
  <2>10. OneAtWork'
    <3>1. x \in Callers /\ x \in Active' => proc'[x].began = session
      <4>1. CASE v.at \in {"file", "exchange"}
        BY <4>1, <1>2, <1>7
      <4>2. CASE v.at = "poll"
        BY <4>2 DEF CredAssumption
      <4>3. QED
        BY <2>9, <4>1, <4>2
    <3>2. QED
      BY <1>2, <1>7, <2>3, <2>4, <2>5, <2>7, <3>1 DEF OneAtWork, LoginOf, Holds
  <2>11. CommandsAreServed'
    BY <1>2, <1>7, <2>1 DEF CredInv, CommandsAreServed, AuthProcs
  <2>12. QED
    BY <2>10, <2>11
<1>8. OneAtWork' /\ CommandsAreServed'
  BY <1>7 DEF OneAtWork, CommandsAreServed
<1>9. QED
  BY <1>3, <1>4, <1>5, <1>6, <1>8 DEF CredInv

(* A step that GitHub answers with a new token, for the one it takes back  *)
(* or for a login.                                                         *)
LEMMA IssueKeeps ==
  ASSUME CredAssumption, CredInv, NEW x \in AuthProcs, NEW v \in AuthLocals, Proceed(x, v),
         proc[x].at \notin Holds,
         UNCHANGED <<now, ringWorks, keyring, file, session>>, causes \subseteq causes',
         tokens' \in Seq(Tokens), Len(tokens') = Len(tokens) + 1, ~tokens'[Len(tokens) + 1].spent,
         \A i \in 1..Len(tokens) : tokens'[i].login = tokens[i].login,
         \A i \in 1..Len(tokens) :
           i # proc[x].token \/ proc[x].at # "exchange" => tokens'[i].spent = tokens[i].spent,
         \/ v.at = "clear" /\ v.token = Len(tokens) + 1 /\ x \in Logins /\ proc[x].at # "exchange"
         \/ v.at = "save" /\ v.token = Len(tokens) + 1 /\ x \in Callers /\ proc[x].at = "exchange"
              /\ tokens'[Len(tokens) + 1].login = tokens[proc[x].token].login
         \/ v.at = "done" /\ v.token = 0 /\ "lost" \in causes',
         v.result \in 0..Len(tokens), ~v.poll.rude, v.began = proc[x].began,
         causes' = {} => x \in Active \/ Active = {}
  PROVE  CredInv'
<1> DEFINE n == Len(tokens) + 1
<1>1. CredTypeOK
  BY DEF CredInv
<1>2. /\ proc'[x] = v /\ \A y \in AuthProcs : y # x => proc'[y] = proc[y]
      /\ proc' \in [AuthProcs -> AuthLocals]
  BY <1>1, Proceeds
<1>3. Len(tokens) \in Nat /\ n \in Nat /\ keyring \in 0..Len(tokens) /\ file \in -1..Len(tokens)
  BY <1>1 DEF CredTypeOK
<1>4. \A y \in AuthProcs : proc[y].token \in 0..Len(tokens) /\ proc[y].result \in 0..Len(tokens)
  BY <1>1, MyAuthLocals
<1>5. CredTypeOK'
  <2>1. keyring \in 0..Len(tokens') /\ file \in -1..Len(tokens')
    BY <1>3
  <2>2. v.token \in 0..Len(tokens') /\ v.result \in 0..Len(tokens')
    BY <1>3
  <2>3. ASSUME NEW y \in AuthProcs, y # x
        PROVE  /\ proc[y].at = "exchange" => proc[y].token \in 1..Len(tokens')
               /\ proc[y].token \in 0..Len(tokens') /\ proc[y].result \in 0..Len(tokens')
    BY <1>1, <1>3, <1>4 DEF CredTypeOK
  <2>4. QED
    BY <1>1, <1>2, <2>1, <2>2, <2>3 DEF CredTypeOK
<1>6. TokensArePrivate'
  <2> SUFFICES ASSUME NEW y \in AuthProcs, proc'[y].at \in Holds
               PROVE  /\ proc'[y].token # None /\ ~tokens'[proc'[y].token].spent
                      /\ proc'[y].token # keyring /\ proc'[y].token # file
                      /\ \A z \in AuthProcs : z # y => proc'[z].token # proc'[y].token
    BY DEF TokensArePrivate, Spent
  <2>1. CASE y = x
    <3>1. proc'[y].token = n /\ n # 0 /\ n # keyring /\ n # file
      BY <1>2, <1>3, <2>1 DEF Holds
    <3>2. \A z \in AuthProcs : z # y => proc'[z].token # n
      BY <1>2, <1>3, <1>4, <2>1
    <3>3. QED
      BY <3>1, <3>2 DEF None
  <2>2. CASE y # x
    <3>1. proc'[y] = proc[y]
      BY <1>2, <2>2
    <3>2. /\ proc[y].token # None /\ ~tokens[proc[y].token].spent
          /\ proc[y].token # keyring /\ proc[y].token # file
          /\ \A z \in AuthProcs : z # y => proc[z].token # proc[y].token
      BY <3>1 DEF CredInv, TokensArePrivate, Spent
    <3>3. proc[y].token \in 1..Len(tokens)
      BY <1>3, <1>4, <3>2 DEF None
    <3>4. ~tokens'[proc[y].token].spent
      BY <2>2, <3>2, <3>3
    <3>5. proc[y].token # v.token
      BY <1>3, <3>3
    <3>6. QED
      BY <1>2, <3>1, <3>2, <3>4, <3>5, <2>2
  <2>3. QED
    BY <2>1, <2>2
<1>7. PollsAreSlow'
  BY <1>2 DEF CredInv, PollsAreSlow
<1>8. StoredIsFresh'
  <2> SUFFICES ASSUME causes' \subseteq {"overlap"}
               PROVE  /\ keyring # None /\ tokens'[keyring].spent => \E c \in Callers : proc'[c].at = "save"
                      /\ keyring = None /\ session # None =>
                           \/ file > 0 /\ ~tokens'[file].spent
                           \/ \E y \in AuthProcs : proc'[y].at \in Holds \ {"clear"}
    BY DEF StoredIsFresh, Spent
  <2>1. causes \subseteq {"overlap"} /\ "save" \in Holds \ {"clear"} /\ v.at # "done"
    BY DEF Holds
  <2>2. CASE x \in Callers /\ v.at = "save"
    BY <2>1, <2>2, <1>2
  <2>3. CASE v.at = "clear" /\ proc[x].at # "exchange"
    <3>1. \A i \in 1..Len(tokens) : tokens'[i].spent = tokens[i].spent
      BY <2>3
    <3>2. \A y \in AuthProcs : proc[y].at \in Holds => proc'[y].at = proc[y].at
      BY <1>2
    <3>3. keyring # None => keyring \in 1..Len(tokens)
      BY <1>3 DEF None
    <3>4. file > 0 => file \in 1..Len(tokens)
      BY <1>3
    <3>5. QED
      BY <2>1, <3>1, <3>2, <3>3, <3>4 DEF CredInv, StoredIsFresh, Spent, AuthProcs
  <2>4. QED
    BY <2>1, <2>2, <2>3
<1>9. ASSUME causes' = {} PROVE OneAtWork' /\ CommandsAreServed'
  <2>1. causes = {} /\ v.at \in {"clear", "save"}
    BY <1>9
  <2>2. \A y \in AuthProcs : y # x => y \notin Active
    BY <2>1, <1>9 DEF CredInv, OneAtWork
  <2>3. \A y \in AuthProcs : y # x => proc'[y].at \in {"idle", "done", "failed", "dead"}
    BY <2>2, <1>1, <1>2, ActiveFacts
  <2>4. Active' \subseteq {x}
    BY <2>3, <1>5 DEF CredTypeOK, Active, AuthEnded
  <2>5. \A y \in AuthProcs : proc[y].at \notin Holds
    BY <2>3, <1>2 DEF Holds
  <2>6. x \in Callers => v.at = "save" /\ proc[x].at = "exchange" /\ x \in Active
    BY <2>1, <1>1, ActiveFacts DEF CredAssumption
  <2>7. x \in Callers => v.began = session
    BY <2>1, <2>6 DEF CredInv, OneAtWork
  <2>8. x \in Callers /\ session # None => tokens'[n].login = session
    BY <2>1, <2>5, <2>6 DEF CredInv, OneAtWork, LoginOf, CredAssumption
  <2>9. x \in Logins => v.at = "clear"
    BY <2>1 DEF CredAssumption
  <2>10. OneAtWork'
    <3>1. v.at \in Holds /\ v.token = n
      BY <2>1 DEF Holds
    <3>2. QED
      BY <1>2, <2>1, <2>3, <2>4, <2>7, <2>8, <2>9, <3>1 DEF OneAtWork, LoginOf, Holds
  <2>11. CommandsAreServed'
    <3> SUFFICES ASSUME NEW c \in Callers, proc'[c].at = "done", proc'[c].began # None
                 PROVE  \/ proc'[c].result # None /\ tokens'[proc'[c].result].login = proc'[c].began
                        \/ proc'[c].why \in {"network", "refresh expired"}
      BY DEF CommandsAreServed
    <3>1. c # x /\ c \in AuthProcs /\ proc'[c] = proc[c]
      BY <1>2, <2>1 DEF AuthProcs
    <3>2. \/ proc[c].result # None /\ tokens[proc[c].result].login = proc[c].began
          \/ proc[c].why \in {"network", "refresh expired"}
      BY <2>1, <3>1 DEF CredInv, CommandsAreServed
    <3>3. proc[c].result # None => proc[c].result \in 1..Len(tokens)
      BY <1>3, <1>4, <3>1 DEF None
    <3>4. QED
      BY <3>1, <3>2, <3>3
  <2>12. QED
    BY <2>10, <2>11
<1>10. OneAtWork' /\ CommandsAreServed'
  BY <1>9 DEF OneAtWork, CommandsAreServed
<1>11. QED
  BY <1>5, <1>6, <1>7, <1>8, <1>10 DEF CredInv

-----------------------------------------------------------------------------
(* The operations.                                                         *)
LEMMA SavesKeep ==
  ASSUME CredAssumption, CredInv, NEW x \in AuthProcs, SaveToKeyring(x) \/ WriteFile(x)
  PROVE  CredInv'
<1>1. CASE SaveToKeyring(x)
  <2>1. proc[x].at = "save" /\ UNCHANGED <<now, tokens, ringWorks, file>>
    BY <1>1 DEF SaveToKeyring
  <2>2. CASE /\ ringWorks /\ keyring' = proc[x].token
             /\ Proceed(x, Saved(x)) /\ session' = NewSession(x) /\ UNCHANGED causes
    BY <2>1, <2>2, SaveKeeps
  <2>3. CASE /\ Proceed(x, [proc[x] EXCEPT !.at = "truncate"])
             /\ causes' = IF x \in Callers /\ keyring # None THEN causes \cup {"shadowed"} ELSE causes
             /\ UNCHANGED <<keyring, session>>
    BY <1>1, <2>3, HoldersKeep
  <2>4. QED
    BY <1>1, <2>2, <2>3 DEF SaveToKeyring
<1>2. CASE WriteFile(x)
  <2>1. /\ proc[x].at = "write" /\ Proceed(x, Saved(x)) /\ session' = NewSession(x)
        /\ UNCHANGED <<now, tokens, ringWorks, keyring>>
        /\ \/ file' = proc[x].token /\ UNCHANGED causes
           \/ file' = Torn /\ causes' = causes \cup {"torn"}
    BY <1>2 DEF WriteFile
  <2>2. QED
    BY <2>1, SaveKeeps
<1>3. QED
  BY <1>1, <1>2

LEMMA LoadedFacts ==
  ASSUME CredTypeOK, NEW x \in AuthProcs, NEW t \in -1..Len(tokens)
  PROVE  /\ Loaded(x, t) \in AuthLocals
         /\ Loaded(x, t).at \in {"done", "exchange"}
         /\ Loaded(x, t).token \in {t, proc[x].token} \cap 0..Len(tokens)
         /\ Loaded(x, t).result \in 0..Len(tokens)
         /\ Loaded(x, t).at = "exchange" => Loaded(x, t).token = t /\ t > 0
         /\ Loaded(x, t).began = proc[x].began /\ Loaded(x, t).poll = proc[x].poll
         /\ Loaded(x, t).at = "done" /\ t > 0 => Loaded(x, t).result = t \/ Loaded(x, t).why = "refresh expired"
<1> DEFINE L == Loaded(x, t)
<1>1. PICK old \in AuthLocals : old = proc[x]
  BY MyAuthLocals
<1>2. old.token \in 0..Len(tokens) /\ old.result \in 0..Len(tokens) /\ Len(tokens) \in Nat
  BY <1>1, MyAuthLocals
<1>3. \/ t \in {0, -1} /\ L = [old EXCEPT !.at = "done", !.why = "absent"]
      \/ t > 0 /\ L = [old EXCEPT !.at = "done", !.result = t]
      \/ t > 0 /\ L = [old EXCEPT !.at = "done", !.why = "refresh expired"]
      \/ t > 0 /\ L = [old EXCEPT !.at = "exchange", !.token = t]
  <2>1. t \in {0, -1} \/ (t > 0 /\ t # 0 /\ t # -1)
    BY <1>2
  <2>2. CASE t \in {0, -1}
    BY <1>1, <2>2 DEF Loaded, None, Torn
  <2>3. CASE t > 0 /\ t # 0 /\ t # -1
    BY <1>1, <2>3 DEF Loaded, None, Torn
  <2>4. QED
    BY <2>1, <2>2, <2>3
<1> HIDE DEF L
<1>4. CASE t \in {0, -1} /\ L = [old EXCEPT !.at = "done", !.why = "absent"]
  <2>1. /\ L \in AuthLocals /\ L.at = "done" /\ L.token = old.token /\ L.result = old.result
        /\ L.began = old.began /\ L.poll = old.poll
    BY <1>4 DEF AuthLocals, AuthStages, Reasons
  <2>2. QED
    BY <1>1, <1>2, <1>4, <2>1 DEF L
<1>5. CASE t > 0 /\ L = [old EXCEPT !.at = "done", !.result = t]
  <2>1. t \in Nat /\ t \in 0..Len(tokens)
    BY <1>2, <1>5
  <2>2. /\ L \in AuthLocals /\ L.at = "done" /\ L.token = old.token /\ L.result = t
        /\ L.began = old.began /\ L.poll = old.poll
    BY <1>5, <2>1 DEF AuthLocals, AuthStages, Reasons
  <2>3. QED
    BY <1>1, <1>2, <2>1, <2>2 DEF L
<1>6. CASE t > 0 /\ L = [old EXCEPT !.at = "done", !.why = "refresh expired"]
  <2>1. /\ L \in AuthLocals /\ L.at = "done" /\ L.token = old.token /\ L.result = old.result
        /\ L.began = old.began /\ L.poll = old.poll /\ L.why = "refresh expired"
    BY <1>6 DEF AuthLocals, AuthStages, Reasons
  <2>2. QED
    BY <1>1, <1>2, <2>1 DEF L
<1>7. CASE t > 0 /\ L = [old EXCEPT !.at = "exchange", !.token = t]
  <2>1. t \in Nat /\ t \in 0..Len(tokens)
    BY <1>2, <1>7
  <2>2. /\ L \in AuthLocals /\ L.at = "exchange" /\ L.token = t /\ L.result = old.result
        /\ L.began = old.began /\ L.poll = old.poll
    BY <1>7, <2>1 DEF AuthLocals, AuthStages, Reasons
  <2>3. QED
    BY <1>1, <1>2, <1>7, <2>1, <2>2 DEF L
<1>8. QED
  BY <1>3, <1>4, <1>5, <1>6, <1>7

LEMMA LoadsKeep ==
  ASSUME CredAssumption, CredInv, NEW c \in AuthProcs, LoadFromKeyring(c) \/ LoadFromFile(c)
  PROVE  CredInv'
<1>1. CredTypeOK /\ ~proc[c].poll.rude
  BY DEF CredInv, PollsAreSlow
<1>2. keyring \in 0..Len(tokens) /\ keyring \in -1..Len(tokens) /\ file \in -1..Len(tokens) /\ session \in Nat
      /\ Len(tokens) \in Nat
  BY <1>1 DEF CredTypeOK
<1>3. PICK old \in AuthLocals : old = proc[c]
  BY <1>1, MyAuthLocals
<1>4. old.token \in 0..Len(tokens) /\ old.result \in 0..Len(tokens)
  BY <1>1, <1>3, MyAuthLocals
<1>5. ASSUME causes = {}, \A y \in AuthProcs : y # c => y \notin Active, proc[c].at \notin Holds
      PROVE  session # None => Stored > 0 /\ tokens[Stored].login = session
  <2>1. \A y \in AuthProcs : proc[y].at \notin Holds
    BY <1>1, <1>5, ActiveFacts DEF Holds
  <2>2. QED
    BY <1>5, <2>1 DEF CredInv, OneAtWork, LoginOf
<1>6. CASE LoadFromKeyring(c)
  <2>1. /\ proc[c].at = "idle" /\ c \in Callers /\ causes' = causes \cup Overlapping
        /\ UNCHANGED <<now, tokens, ringWorks, keyring, file, session>>
    BY <1>6 DEF LoadFromKeyring
  <2>2. "idle" \notin Holds /\ "done" \notin Holds /\ "exchange" \notin Holds /\ "file" \notin Holds
    BY DEF Holds
  <2>3. causes' = {} => causes = {} /\ Active = {}
    BY <2>1 DEF Overlapping
  <2>4. causes' = {} /\ session # None => Stored > 0 /\ tokens[Stored].login = session
    BY <1>5, <2>1, <2>2, <2>3
  <2>5. CASE ringWorks /\ keyring # None
    <3> DEFINE L == Loaded(c, keyring)
               v == [L EXCEPT !.began = session]
    <3>1. PICK m \in AuthLocals : m = L
      BY <1>1, <1>2, LoadedFacts
    <3>2. /\ m.at \in {"done", "exchange"} /\ m.token \in {keyring, proc[c].token} \cap 0..Len(tokens)
          /\ m.result \in 0..Len(tokens) /\ m.poll = proc[c].poll
          /\ m.at = "exchange" => m.token = keyring /\ keyring > 0
          /\ m.at = "done" /\ keyring > 0 => m.result = keyring \/ m.why = "refresh expired"
      BY <1>1, <1>2, <3>1, LoadedFacts
    <3> HIDE DEF L
    <3>3. /\ v \in AuthLocals /\ v.at = m.at /\ v.token = m.token /\ v.result = m.result
          /\ v.poll = m.poll /\ v.why = m.why /\ v.began = session
      BY <1>2, <3>1 DEF AuthLocals
    <3>4. Proceed(c, v)
      BY <1>6, <2>5 DEF LoadFromKeyring, L
    <3> HIDE DEF v
    <3>5. Stored = keyring /\ keyring > 0 /\ keyring \in 1..Len(tokens)
      BY <1>2, <2>5 DEF Stored, None
    <3>6. v.at = "exchange" => v.token \in 1..Len(tokens)
      BY <3>2, <3>3, <3>5
    <3>7. causes' = {} /\ v.at = "done" /\ v.began # None =>
            \/ v.result # None /\ tokens[v.result].login = v.began
            \/ v.why \in {"network", "refresh expired"}
      BY <2>4, <3>2, <3>3, <3>5, <2>5
    <3>8. v.token \in {0, keyring, file, proc[c].token} \cap 0..Len(tokens) /\ v.result \in 0..Len(tokens)
      BY <3>2, <3>3
    <3>9. v.at \in {"done", "exchange"} /\ ~v.poll.rude /\ (v.at = "exchange" => v.token = Stored)
      BY <1>1, <3>2, <3>3, <3>5
    <3>10. v.at \notin Holds /\ proc[c].at \notin Holds /\ v.at # "file" /\ v.at # "poll"
      BY <2>1, <2>2, <3>9
    <3>11. QED
      BY <2>1, <2>3, <3>3, <3>4, <3>6, <3>7, <3>8, <3>9, <3>10, QuietKeeps
  <2>6. CASE ~(ringWorks /\ keyring # None)
    <3> DEFINE v == [[old EXCEPT !.began = session] EXCEPT !.at = "file"]
    <3>1. /\ v \in AuthLocals /\ v.at = "file" /\ v.token = old.token /\ v.result = old.result
          /\ v.poll = old.poll /\ v.began = session
      BY <1>2 DEF AuthLocals, AuthStages
    <3>2. Proceed(c, v)
      BY <1>3, <1>6, <2>6 DEF LoadFromKeyring
    <3> HIDE DEF v
    <3>3. keyring = None
      BY <1>1, <2>6 DEF CredTypeOK
    <3>4. v.at \notin Holds /\ proc[c].at \notin Holds /\ ~v.poll.rude
      BY <1>1, <1>3, <2>1, <2>2, <3>1
    <3>5. v.token \in {0, keyring, file, proc[c].token} \cap 0..Len(tokens) /\ v.result \in 0..Len(tokens)
      BY <1>3, <1>4, <3>1
    <3>6. QED
      BY <2>1, <2>3, <3>1, <3>2, <3>3, <3>4, <3>5, QuietKeeps
  <2>7. QED
    BY <2>5, <2>6
<1>7. CASE LoadFromFile(c)
  <2> DEFINE v == Loaded(c, file)
  <2>1. /\ proc[c].at = "file" /\ Proceed(c, v)
        /\ UNCHANGED <<now, tokens, ringWorks, keyring, file, session, causes>>
    BY <1>7 DEF LoadFromFile
  <2>2. /\ v \in AuthLocals /\ v.at \in {"done", "exchange"}
        /\ v.token \in {file, proc[c].token} \cap 0..Len(tokens) /\ v.result \in 0..Len(tokens)
        /\ v.at = "exchange" => v.token = file /\ file > 0
        /\ v.began = proc[c].began /\ v.poll = proc[c].poll
        /\ v.at = "done" /\ file > 0 => v.result = file \/ v.why = "refresh expired"
    BY <1>1, <1>2, LoadedFacts
  <2> HIDE DEF v
  <2>3. c \in Callers /\ c \in Active
    BY <1>1, <2>1, ActiveFacts DEF CredTypeOK
  <2>4. ASSUME causes = {}
        PROVE  /\ keyring = None /\ proc[c].began = session /\ Stored = file
               /\ session # None => file > 0 /\ tokens[file].login = session
    <3>1. keyring = None /\ proc[c].began = session
      BY <2>1, <2>3, <2>4 DEF CredInv, OneAtWork
    <3>2. Stored = file
      BY <3>1 DEF Stored
    <3>3. \A y \in AuthProcs : y # c => y \notin Active
      BY <2>3, <2>4 DEF CredInv, OneAtWork
    <3>4. proc[c].at \notin Holds
      BY <2>1 DEF Holds
    <3>5. QED
      BY <1>5, <2>4, <3>1, <3>2, <3>3, <3>4
  <2>5. v.at \notin Holds /\ proc[c].at \notin Holds /\ v.at # "file" /\ v.at # "poll"
    BY <2>1, <2>2 DEF Holds
  <2>6. v.at = "exchange" => v.token \in 1..Len(tokens)
    BY <1>2, <2>2
  <2>7. causes' = {} /\ v.at = "done" /\ v.began # None =>
          \/ v.result # None /\ tokens[v.result].login = v.began
          \/ v.why \in {"network", "refresh expired"}
    <3> SUFFICES ASSUME causes = {}, v.at = "done", v.began # None
                 PROVE  \/ v.result # None /\ tokens[v.result].login = v.began
                        \/ v.why \in {"network", "refresh expired"}
      BY <2>1
    <3>1. file > 0 /\ tokens[file].login = session /\ v.began = session
      BY <2>2, <2>4
    <3>2. file # None
      BY <1>2, <3>1 DEF None
    <3>3. QED
      BY <2>2, <3>1, <3>2
  <2>8. v.token \in {0, keyring, file, proc[c].token} \cap 0..Len(tokens) /\ ~v.poll.rude
    BY <1>1, <2>2
  <2>9. QED
    BY <2>1, <2>2, <2>3, <2>4, <2>5, <2>6, <2>7, <2>8, QuietKeeps
<1>8. QED
  BY <1>6, <1>7

LEMMA TokenFacts ==
  ASSUME CredTypeOK, NEW t \in 1..Len(tokens)
  PROVE  tokens \in Seq(Tokens) /\ tokens[t] \in Tokens /\ tokens[t].login \in Nat
<1>1. tokens \in Seq(Tokens) /\ tokens[t] \in Tokens
  BY DEF CredTypeOK
<1>2. QED
  BY <1>1 DEF Tokens

LEMMA Issues ==
  ASSUME CredAssumption, CredTypeOK, NEW login \in Nat
  PROVE  /\ Issue(now + Life, now + RefreshLife, login) \in Tokens
         /\ Issue(Never, Never, login) \in Tokens
         /\ ~Issue(now + Life, now + RefreshLife, login).spent /\ ~Issue(Never, Never, login).spent
         /\ Issue(now + Life, now + RefreshLife, login).login = login
<1>1. now + Life \in Int /\ now + RefreshLife \in Int /\ Never \in Int
  BY DEF CredAssumption, CredTypeOK, Never
<1>2. QED
  BY <1>1 DEF Issue, Tokens

LEMMA ExchangeKeeps ==
  ASSUME CredAssumption, CredInv, NEW c \in AuthProcs, RefreshAccessToken(c)
  PROVE  CredInv'
<1> DEFINE t == proc[c].token
           new == Issue(now + Life, now + RefreshLife, tokens[t].login)
           issued == Append([tokens EXCEPT ![t].spent = TRUE], new)
<1>1. CredTypeOK /\ ~proc[c].poll.rude
  BY DEF CredInv, PollsAreSlow
<1>2. proc[c].at = "exchange" /\ UNCHANGED <<now, ringWorks, keyring, file, session>>
  BY DEF RefreshAccessToken
<1>3. t \in 1..Len(tokens) /\ c \in Callers /\ c \in Active /\ Len(tokens) \in Nat
  BY <1>1, <1>2, ActiveFacts DEF CredTypeOK
<1>4. PICK old \in AuthLocals : old = proc[c]
  BY <1>1, MyAuthLocals
<1>5. old.token \in 0..Len(tokens) /\ old.result \in 0..Len(tokens)
  BY <1>1, <1>4, MyAuthLocals
<1>6. proc[c].at \notin Holds /\ "done" \notin Holds
  BY <1>2 DEF Holds
<1>7. ASSUME causes = {}
      PROVE  /\ proc[c].began = session
             /\ session # None => ~tokens[t].spent
  <2>1. proc[c].began = session /\ (session # None => t = Stored)
    BY <1>2, <1>3, <1>7 DEF CredInv, OneAtWork
  <2>2. \A y \in AuthProcs : proc[y].at \notin Holds
    <3>1. \A y \in AuthProcs : y # c => y \notin Active
      BY <1>3, <1>7 DEF CredInv, OneAtWork
    <3>2. QED
      BY <3>1, <1>1, <1>6, ActiveFacts DEF Holds
  <2>3. ASSUME session # None PROVE ~tokens[Stored].spent
    <3>1. CASE keyring # None
      <4>1. Stored = keyring
        BY <3>1, <1>1 DEF Stored, CredTypeOK
      <4>2. \A x \in Callers : proc[x].at # "save"
        BY <2>2 DEF Holds, AuthProcs
      <4>3. QED
        BY <1>7, <3>1, <4>1, <4>2 DEF CredInv, StoredIsFresh, Spent
    <3>2. CASE keyring = None
      <4>1. Stored = file
        BY <3>2 DEF Stored
      <4>2. QED
        BY <1>7, <2>2, <2>3, <3>2, <4>1 DEF CredInv, StoredIsFresh, Spent
    <3>3. QED
      BY <3>1, <3>2
  <2>4. QED
    BY <2>1, <2>3
<1>8. ASSUME NEW why \in Reasons, Proceed(c, [old EXCEPT !.at = "done", !.token = 0, !.why = why]),
             UNCHANGED <<tokens, causes>>,
             causes = {} /\ session # None => why = "network"
      PROVE  CredInv'
  <2> DEFINE v == [old EXCEPT !.at = "done", !.token = 0, !.why = why]
  <2>1. /\ v \in AuthLocals /\ v.at = "done" /\ v.token = 0 /\ v.why = why /\ v.result = old.result
        /\ v.began = old.began /\ v.poll = old.poll
    BY DEF AuthLocals, AuthStages
  <2> HIDE DEF v
  <2>2. v.token \in {0, keyring, file, proc[c].token} \cap 0..Len(tokens) /\ v.result \in 0..Len(tokens)
    BY <1>3, <1>5, <2>1
  <2>3. ~v.poll.rude
    BY <1>1, <1>4, <2>1
  <2>4. causes' = {} /\ v.began # None => v.why = "network"
    BY <1>4, <1>7, <1>8, <2>1
  <2>5. Proceed(c, v)
    BY <1>8 DEF v
  <2>6. QED
    BY <1>2, <1>3, <1>6, <1>8, <2>1, <2>2, <2>3, <2>4, <2>5, QuietKeeps
<1>9. ASSUME tokens' = issued, causes \subseteq causes', NEW v \in AuthLocals, Proceed(c, v),
             \/ v.at = "save" /\ v.token = Len(tokens) + 1
             \/ v.at = "done" /\ v.token = 0 /\ "lost" \in causes',
             v.result = old.result, v.poll = old.poll, v.began = old.began
      PROVE  CredInv'
  <2>1. tokens \in Seq(Tokens) /\ tokens[t].login \in Nat
    BY <1>1, <1>3, TokenFacts
  <2>2. new \in Tokens /\ ~new.spent /\ new.login = tokens[t].login
    BY <1>1, <2>1, Issues
  <2> HIDE DEF t, new
  <2>3. /\ tokens' \in Seq(Tokens) /\ Len(tokens') = Len(tokens) + 1
        /\ tokens'[Len(tokens) + 1] = new
        /\ \A i \in 1..Len(tokens) : /\ tokens'[i].login = tokens[i].login
                                     /\ i # t => tokens'[i].spent = tokens[i].spent
    BY <1>3, <1>9, <2>1, <2>2, ExchangedTokens
  <2> HIDE DEF issued
  <2>4. v.result \in 0..Len(tokens) /\ ~v.poll.rude /\ v.began = proc[c].began
    BY <1>1, <1>4, <1>5, <1>9
  <2>5. /\ \A i \in 1..Len(tokens) :
             i # proc[c].token \/ proc[c].at # "exchange" => tokens'[i].spent = tokens[i].spent
        /\ ~tokens'[Len(tokens) + 1].spent
        /\ tokens'[Len(tokens) + 1].login = tokens[proc[c].token].login
    BY <1>2, <2>2, <2>3 DEF t
  <2>6. QED
    BY <1>2, <1>3, <1>6, <1>9, <2>3, <2>4, <2>5, IssueKeeps
<1>10. CASE tokens[t].spent
  <2>1. Proceed(c, [old EXCEPT !.at = "done", !.token = 0, !.why = "spent"]) /\ UNCHANGED <<tokens, causes>>
    BY <1>4, <1>10 DEF RefreshAccessToken, None
  <2>2. QED
    BY <1>7, <1>8, <1>10, <2>1 DEF Reasons
<1>11. CASE ~tokens[t].spent
  <2>1. Len(issued) = Len(tokens) + 1
    <3>1. tokens \in Seq(Tokens) /\ tokens[t].login \in Nat
      BY <1>1, <1>3, TokenFacts
    <3>2. new \in Tokens
      BY <1>1, <3>1, Issues
    <3> HIDE DEF t, new
    <3>3. QED
      BY <1>3, <3>1, <3>2, ExchangedTokens
  <2>2. \/ /\ tokens' = issued /\ UNCHANGED causes
           /\ Proceed(c, [old EXCEPT !.at = "save", !.token = Len(issued)])
        \/ /\ tokens' = issued /\ causes' = causes \cup {"lost"}
           /\ Proceed(c, [old EXCEPT !.at = "done", !.token = 0, !.why = "lost"])
        \/ /\ Proceed(c, [old EXCEPT !.at = "done", !.token = 0, !.why = "network"])
           /\ UNCHANGED <<tokens, causes>>
    BY <1>4, <1>11 DEF RefreshAccessToken, None
  <2> HIDE DEF issued
  <2>3. CASE /\ tokens' = issued /\ UNCHANGED causes
             /\ Proceed(c, [old EXCEPT !.at = "save", !.token = Len(issued)])
    <3> DEFINE v == [old EXCEPT !.at = "save", !.token = Len(tokens) + 1]
    <3>1. Len(tokens) + 1 \in Nat
      BY <1>3
    <3>2. /\ v \in AuthLocals /\ v.at = "save" /\ v.token = Len(tokens) + 1 /\ v.result = old.result
          /\ v.began = old.began /\ v.poll = old.poll
      BY <3>1 DEF AuthLocals, AuthStages, Holds
    <3>3. Proceed(c, v)
      BY <2>1, <2>3
    <3> HIDE DEF v
    <3>4. QED
      BY <1>9, <2>3, <3>2, <3>3
  <2>4. CASE /\ tokens' = issued /\ causes' = causes \cup {"lost"}
             /\ Proceed(c, [old EXCEPT !.at = "done", !.token = 0, !.why = "lost"])
    <3> DEFINE v == [old EXCEPT !.at = "done", !.token = 0, !.why = "lost"]
    <3>1. /\ v \in AuthLocals /\ v.at = "done" /\ v.token = 0 /\ v.result = old.result
          /\ v.began = old.began /\ v.poll = old.poll
      BY DEF AuthLocals, AuthStages, Reasons
    <3> HIDE DEF v
    <3>2. Proceed(c, v)
      BY <2>4 DEF v
    <3>3. QED
      BY <1>9, <2>4, <3>1, <3>2
  <2>5. CASE /\ Proceed(c, [old EXCEPT !.at = "done", !.token = 0, !.why = "network"])
             /\ UNCHANGED <<tokens, causes>>
    BY <1>8, <2>5 DEF Reasons
  <2>6. QED
    BY <2>2, <2>3, <2>4, <2>5
<1>12. QED
  BY <1>10, <1>11

LEMMA StartsKeep ==
  ASSUME CredAssumption, CredInv, NEW l \in AuthProcs,
         (\E code \in Codes : RequestDeviceCode(l, code)) \/ Paste(l)
  PROVE  CredInv'
<1>1. CredTypeOK /\ ~proc[l].poll.rude
  BY DEF CredInv, PollsAreSlow
<1>2. PICK old \in AuthLocals : old = proc[l]
  BY <1>1, MyAuthLocals
<1>3. old.token \in 0..Len(tokens) /\ old.result \in 0..Len(tokens) /\ Len(tokens) \in Nat
  BY <1>1, <1>2, MyAuthLocals
<1>4. /\ proc[l].at = "idle" /\ l \in Logins /\ l \notin Callers
      /\ UNCHANGED <<now, ringWorks, keyring, file, session>> /\ causes' = causes \cup Overlapping
  BY DEF RequestDeviceCode, Paste, CredAssumption
<1>5. causes \subseteq causes' /\ (causes' = {} => Active = {}) /\ proc[l].at \notin Holds
  BY <1>4 DEF Overlapping, Holds
<1>6. ASSUME NEW code \in Codes, RequestDeviceCode(l, code) PROVE CredInv'
  <2> DEFINE interval == IF code.interval > 1 THEN code.interval ELSE 1
             q == [NotPolling EXCEPT !.interval = interval, !.want = code.interval, !.expires = code.expires]
             v == [old EXCEPT !.at = "poll", !.poll = q]
  <2>1. code.interval \in Nat /\ code.expires \in Nat
    BY DEF CredAssumption
  <2>2. interval \in Int /\ interval >= code.interval /\ interval >= 1
    BY <2>1
  <2> HIDE DEF interval
  <2>3. q \in Polls /\ q.interval = interval /\ q.want = code.interval /\ ~q.rude
    <3>1. NotPolling \in Polls /\ ~NotPolling.rude
      BY DEF NotPolling, Polls
    <3>2. code.interval \in Int /\ code.expires \in Int
      BY <2>1
    <3>3. QED
      BY <2>2, <3>1, <3>2 DEF Polls
  <2>4. Proceed(l, v) /\ UNCHANGED tokens
    BY <1>2, <1>6 DEF RequestDeviceCode, interval
  <2> HIDE DEF q
  <2>5. v \in AuthLocals /\ v.at = "poll" /\ v.token = old.token /\ v.result = old.result /\ v.poll = q
    BY <2>3 DEF AuthLocals, AuthStages
  <2> HIDE DEF v
  <2>6. v.at \notin Holds
    BY <2>5 DEF Holds
  <2>7. v.token \in {0, keyring, file, proc[l].token} \cap 0..Len(tokens) /\ v.result \in 0..Len(tokens)
    BY <1>2, <1>3, <2>5
  <2>8. ~v.poll.rude /\ v.poll.interval >= v.poll.want /\ v.poll.interval >= 1
    BY <2>2, <2>3, <2>5
  <2>9. QED
    BY <1>4, <1>5, <2>4, <2>5, <2>6, <2>7, <2>8, QuietKeeps
<1>7. CASE Paste(l)
  <2> DEFINE new == Issue(Never, Never, Len(tokens) + 1)
             v == [old EXCEPT !.at = "clear", !.token = Len(tokens) + 1]
  <2>1. tokens' = Append(tokens, new) /\ Proceed(l, v)
    BY <1>2, <1>7 DEF Paste
  <2>2. Len(tokens) + 1 \in Nat /\ tokens \in Seq(Tokens)
    BY <1>1, <1>3 DEF CredTypeOK
  <2>3. new \in Tokens /\ ~new.spent
    BY <1>1, <2>2, Issues
  <2>4. /\ v \in AuthLocals /\ v.at = "clear" /\ v.token = Len(tokens) + 1 /\ v.result = old.result
        /\ v.poll = old.poll /\ v.began = old.began
    BY <2>2 DEF AuthLocals, AuthStages, Holds
  <2> HIDE DEF new, v
  <2>5. /\ tokens' \in Seq(Tokens) /\ Len(tokens') = Len(tokens) + 1
        /\ tokens'[Len(tokens) + 1] = new
        /\ \A i \in 1..Len(tokens) : tokens'[i] = tokens[i]
    BY <2>1, <2>2, <2>3, AppendedTokens
  <2>6. v.result \in 0..Len(tokens) /\ ~v.poll.rude /\ v.began = proc[l].began
    BY <1>1, <1>2, <1>3, <2>4
  <2>7. ~tokens'[Len(tokens) + 1].spent /\ proc[l].at # "exchange"
    BY <1>4, <2>3, <2>5
  <2>8. QED
    BY <1>4, <1>5, <2>1, <2>4, <2>5, <2>6, <2>7, IssueKeeps
<1>8. QED
  BY <1>6, <1>7

LEMMA PollKeeps ==
  ASSUME CredAssumption, CredInv, NEW l \in AuthProcs, Poll(l)
  PROVE  CredInv'
<1>1. CredTypeOK /\ ~proc[l].poll.rude
  BY DEF CredInv, PollsAreSlow
<1>2. PICK old \in AuthLocals : old = proc[l]
  BY <1>1, MyAuthLocals
<1>3. old.token \in 0..Len(tokens) /\ old.result \in 0..Len(tokens) /\ Len(tokens) \in Nat
  BY <1>1, <1>2, MyAuthLocals
<1>4. /\ proc[l].at = "poll" /\ UNCHANGED <<now, ringWorks, keyring, file, session, causes>>
      /\ proc[l].at \notin Holds
  BY DEF Poll, Holds
<1>5. l \in Logins /\ l \notin Callers /\ l \in Active
  BY <1>1, <1>4, ActiveFacts DEF CredTypeOK, CredAssumption
<1>6. PICK q \in Polls : q = old.poll
  BY DEF AuthLocals
<1>7. ~q.rude /\ q.interval >= q.want /\ q.interval >= 1
  BY <1>2, <1>4, <1>6 DEF CredInv, PollsAreSlow
<1>8. q.interval \in Int /\ q.want \in Int /\ q.clock \in Int /\ q.rude = FALSE
  BY <1>7 DEF Polls
<1> DEFINE x == [q EXCEPT !.clock = q.clock + q.interval, !.rude = q.rude \/ q.interval < q.want \/ q.interval < 1]
           over == [NotPolling EXCEPT !.rude = x.rude]
           device == Issue(now + Life, now + RefreshLife, Len(tokens) + 1)
<1>9. (q.rude \/ q.interval < q.want \/ q.interval < 1) = FALSE
  BY <1>7, <1>8
<1>10. x \in Polls /\ ~x.rude /\ x.interval = q.interval /\ x.want = q.want /\ x.rude = FALSE
  <2>1. x = [q EXCEPT !.clock = q.clock + q.interval, !.rude = FALSE]
    BY <1>9
  <2> HIDE DEF x
  <2>2. q.clock + q.interval \in Int
    BY <1>8
  <2>3. QED
    BY <2>1, <2>2 DEF Polls
<1>11. IF x.clock >= x.expires
         THEN Proceed(l, [old EXCEPT !.at = "failed", !.poll = [over EXCEPT !.rude = q.rude]]) /\ UNCHANGED tokens
         ELSE \E answer \in Answers(x) :
                /\ tokens' = IF answer = "success" THEN Append(tokens, device) ELSE tokens
                /\ Proceed(l, CASE answer = "success" -> [old EXCEPT !.at = "clear", !.token = Len(tokens) + 1, !.poll = over]
                               [] answer = "pending" -> [old EXCEPT !.poll = x]
                               [] answer = "slow_down" -> [old EXCEPT !.poll = Slower(x)]
                               [] answer = "refused" -> [old EXCEPT !.at = "failed", !.poll = over])
  BY <1>2, <1>6 DEF Poll
<1> HIDE DEF x
<1>12. over \in Polls /\ ~over.rude /\ [over EXCEPT !.rude = q.rude] \in Polls /\ ~[over EXCEPT !.rude = q.rude].rude
  <2>1. NotPolling \in Polls
    BY DEF NotPolling, Polls
  <2>2. over \in Polls /\ ~over.rude
    BY <1>10, <2>1 DEF Polls
  <2> HIDE DEF over
  <2>3. [over EXCEPT !.rude = q.rude] \in Polls /\ ~[over EXCEPT !.rude = q.rude].rude
    BY <1>8, <2>2 DEF Polls
  <2>4. QED
    BY <2>2, <2>3
<1> HIDE DEF over
<1>13. Slower(x) \in Polls /\ ~Slower(x).rude /\ Slower(x).interval >= Slower(x).want /\ Slower(x).interval >= 1
  <2>1. /\ x.interval \in Int /\ x.want \in Int /\ SlowStep \in Nat
        /\ x.interval + SlowStep \in Int /\ x.want + SlowStep \in Int
    BY <1>8, <1>10 DEF CredAssumption
  <2>2. /\ Slower(x) \in Polls /\ Slower(x).interval = x.interval + SlowStep
        /\ Slower(x).want = x.want + SlowStep /\ ~Slower(x).rude
    BY <1>10, <2>1 DEF Slower, Polls
  <2>3. QED
    BY <1>7, <1>8, <1>10, <2>1, <2>2
<1>14. ASSUME NEW r \in Polls, NEW to \in {"poll", "failed"}, ~r.rude,
              to = "poll" => r.interval >= r.want /\ r.interval >= 1,
              Proceed(l, [old EXCEPT !.at = to, !.poll = r]), UNCHANGED tokens
       PROVE  CredInv'
  <2> DEFINE v == [old EXCEPT !.at = to, !.poll = r]
  <2>1. v \in AuthLocals /\ v.at = to /\ v.token = old.token /\ v.result = old.result /\ v.poll = r
    BY DEF AuthLocals, AuthStages
  <2>2. Proceed(l, v)
    BY <1>14
  <2> HIDE DEF v
  <2>3. v.at \notin Holds /\ v.at # "done" /\ v.at \notin {"file", "exchange"}
    BY <2>1 DEF Holds
  <2>4. v.token \in {0, keyring, file, proc[l].token} \cap 0..Len(tokens) /\ v.result \in 0..Len(tokens)
    BY <1>2, <1>3, <2>1
  <2>5. QED
    BY <1>4, <1>5, <1>14, <2>1, <2>2, <2>3, <2>4, QuietKeeps
<1>15. CASE x.clock >= x.expires
  BY <1>11, <1>12, <1>14, <1>15
<1>16. CASE ~(x.clock >= x.expires)
  <2>1. PICK answer \in Answers(x) :
          /\ tokens' = IF answer = "success" THEN Append(tokens, device) ELSE tokens
          /\ Proceed(l, CASE answer = "success" -> [old EXCEPT !.at = "clear", !.token = Len(tokens) + 1, !.poll = over]
                         [] answer = "pending" -> [old EXCEPT !.poll = x]
                         [] answer = "slow_down" -> [old EXCEPT !.poll = Slower(x)]
                         [] answer = "refused" -> [old EXCEPT !.at = "failed", !.poll = over])
    BY <1>11, <1>16
  <2>2. answer \in {"success", "pending", "slow_down", "refused"}
    BY DEF Answers
  <2>3. ASSUME NEW r PROVE [old EXCEPT !.poll = r] = [old EXCEPT !.at = "poll", !.poll = r]
    BY <1>2, <1>4 DEF AuthLocals
  <2>4. CASE answer = "success"
    <3> DEFINE v == [old EXCEPT !.at = "clear", !.token = Len(tokens) + 1, !.poll = over]
    <3>1. tokens' = Append(tokens, device) /\ Proceed(l, v)
      BY <2>1, <2>4
    <3>2. Len(tokens) + 1 \in Nat /\ tokens \in Seq(Tokens)
      BY <1>1, <1>3 DEF CredTypeOK
    <3>3. device \in Tokens /\ ~device.spent
      BY <1>1, <3>2, Issues
    <3>4. /\ v \in AuthLocals /\ v.at = "clear" /\ v.token = Len(tokens) + 1 /\ v.result = old.result
          /\ v.poll = over /\ v.began = old.began
      BY <1>12, <3>2 DEF AuthLocals, AuthStages, Holds
    <3> HIDE DEF device, v
    <3>5. /\ tokens' \in Seq(Tokens) /\ Len(tokens') = Len(tokens) + 1
          /\ tokens'[Len(tokens) + 1] = device
          /\ \A i \in 1..Len(tokens) : tokens'[i] = tokens[i]
      BY <3>1, <3>2, <3>3, AppendedTokens
    <3>6. v.result \in 0..Len(tokens) /\ ~v.poll.rude /\ v.began = proc[l].began
      BY <1>2, <1>3, <1>12, <3>4
    <3>7. ~tokens'[Len(tokens) + 1].spent /\ proc[l].at # "exchange"
      BY <1>4, <3>3, <3>5
    <3>8. QED
      BY <1>4, <1>5, <3>1, <3>4, <3>5, <3>6, <3>7, IssueKeeps
  <2>5. CASE answer = "pending"
    <3>1. Proceed(l, [old EXCEPT !.at = "poll", !.poll = x]) /\ UNCHANGED tokens
      BY <2>1, <2>3, <2>5
    <3>2. x.interval >= x.want /\ x.interval >= 1
      BY <1>7, <1>10
    <3>3. QED
      BY <1>10, <1>14, <3>1, <3>2
  <2>6. CASE answer = "slow_down"
    <3>1. Proceed(l, [old EXCEPT !.at = "poll", !.poll = Slower(x)]) /\ UNCHANGED tokens
      BY <2>1, <2>3, <2>6
    <3>2. QED
      BY <1>13, <1>14, <3>1
  <2>7. CASE answer = "refused"
    <3>1. Proceed(l, [old EXCEPT !.at = "failed", !.poll = over]) /\ UNCHANGED tokens
      BY <2>1, <2>7
    <3>2. QED
      BY <1>12, <1>14, <3>1
  <2>8. QED
    BY <2>2, <2>4, <2>5, <2>6, <2>7
<1>17. QED
  BY <1>15, <1>16

LEMMA NextCredInv ==
  ASSUME CredAssumption, CredInv, [CredNext]_credVars
  PROVE  CredInv'
<1>1. CASE \E x \in AuthProcs :
             \/ LoadFromKeyring(x) \/ LoadFromFile(x) \/ RefreshAccessToken(x)
             \/ SaveToKeyring(x) \/ Truncate(x) \/ WriteFile(x)
             \/ \E code \in Codes : RequestDeviceCode(x, code)
             \/ Poll(x) \/ Paste(x) \/ ClearKeyring(x) \/ RemoveFile(x)
             \/ CredKill(x)
  BY <1>1, LoadsKeep, ExchangeKeeps, SavesKeep, HoldersKeep, StartsKeep, PollKeeps, CredKillKeeps
<1>2. CASE Tick \/ UNCHANGED credVars
  BY <1>2, TickKeeps
<1>3. QED
  BY <1>1, <1>2 DEF CredNext, AuthProcs

LEMMA CredInvSurvives == ASSUME CredInv PROVE SessionSurvives
<1>1. CredTypeOK
  BY DEF CredInv
<1>2. LoginLasts
  <2> SUFFICES ASSUME session # None, Active = {}, causes \subseteq {"overlap"}
               PROVE  Stored > 0 /\ ~tokens[Stored].spent /\ (causes = {} => tokens[Stored].login = session)
    BY DEF LoginLasts
  <2>1. \A x \in AuthProcs : proc[x].at \notin Holds
    BY <1>1, ActiveFacts DEF Holds
  <2>2. \A c \in Callers : proc[c].at # "save"
    BY <2>1 DEF AuthProcs, Holds
  <2>3. Stored > 0 /\ ~tokens[Stored].spent
    <3>1. CASE keyring # None
      <4>1. Stored = keyring /\ keyring > 0
        BY <1>1, <3>1 DEF Stored, CredTypeOK, None
      <4>2. QED
        BY <2>2, <3>1, <4>1 DEF CredInv, StoredIsFresh, Spent
    <3>2. CASE keyring = None
      <4>1. Stored = file
        BY <3>2 DEF Stored
      <4>2. QED
        BY <2>1, <3>2, <4>1 DEF CredInv, StoredIsFresh, Spent
    <3>3. QED
      BY <3>1, <3>2
  <2>4. causes = {} => tokens[Stored].login = session
    BY <2>1 DEF CredInv, OneAtWork, LoginOf
  <2>5. QED
    BY <2>3, <2>4
<1>3. CommandsAreServed /\ PollingIsPolite
  BY DEF CredInv, PollsAreSlow, PollingIsPolite, AuthProcs
<1>4. QED
  BY <1>2, <1>3 DEF SessionSurvives

(* However many commands refresh the login at once, and whatever lives     *)
(* tokens have: unless a process is killed, an answer of GitHub is lost,   *)
(* two writers meet in auth.json or a refresh falls back to a file the     *)
(* keyring shadows, what is stored once nobody is at work can still be     *)
(* exchanged; a command that ran alone gets the token of the login it      *)
(* began with; and GitHub is polled as slowly as it wants (current_token,  *)
(* store_and_report, poll_until_authorized).                               *)
THEOREM SessionSurvivesAlways ==
  ASSUME CredAssumption
  PROVE  CredSpec => []SessionSurvives
<1>1. CredInit => CredInv
  BY InitCredInv
<1>2. CredInv /\ [CredNext]_credVars => CredInv'
  BY NextCredInv
<1>3. CredInv => SessionSurvives
  BY CredInvSurvives
<1>4. QED
  BY <1>1, <1>2, <1>3, PTL DEF CredSpec
-----------------------------------------------------------------------------
(* Confirmations                                                           *)

Preparing == {"mkOutput", "outWorkflow", "outEvidence"}
Keeping == {"durable", "mkDurable", "durWorkflow", "durEvidence", "manifest"}
Exporting == {"output"} \cup Preparing \cup Keeping
Attempted == {Attempt(flow, lock[hub.committed], hub, way) : way \in hub.ways}
Files == [kind : {"dir", "workflow", "evidence"}, run : Recorded \cup {0}]
Results == [conclusion : ExecutionConclusion, assurance : {"none", "local", "clean", "hermetic", "github"}]
Confirming == {"run", "contents", "jobs", "artifacts", "archive", "result", "record"}
CommandStages == {"idle"} \cup Exporting \cup Confirming
Commands ==
  [at : CommandStages, run : Recorded \cup {0}, dir : Dirs \cup {"none"},
   local : ExecutionConclusion \cup {"none"}, artifact : Nat]

CommandOK(x) ==
  /\ cmd[x].at # "idle" => cmd[x].run \in Recorded
  /\ cmd[x].at \in Exporting => cmd[x].dir \in Dirs

ConfirmTypeOK ==
  /\ DOMAIN evidence_jobs(flow) \subseteq Nat
  /\ attempts \in Seq(Attempted)
  /\ outputs \in [Dirs -> SUBSET Files]
  /\ durable \in [Recorded -> SUBSET Exported]
  /\ result \in [Recorded -> Results]
  /\ record \in [Recorded -> Nat]
  /\ cmd \in [DOMAIN cmd -> Commands]
  /\ \A x \in DOMAIN cmd : CommandOK(x)

(* What a confirmation has required by the time it is at a stage.          *)
JobsPassed == \E n \in DOMAIN attempts : verify_jobs(evidence_jobs(flow), attempts[n])
Uploads(n) == n \in DOMAIN attempts /\ attempts[n].artifacts # <<>>
Proves(n, r) == Uploads(n) /\ attempts[n].artifacts[1].content = Evidence(flow, lock[r])
Eligible(r, conclusion) == Classified(lock[r], conclusion, TRUE).assurance = "github"
SameSource(r) == hub.commit = lock[r].commit /\ hub.event = lock[r].event

RequiredBy(l) ==
  /\ l.at \in Confirming => ~lock[l.run].dirty
  /\ l.at \in {"contents", "jobs", "artifacts", "archive", "result", "record"} => SameSource(l.run)
  /\ l.at \in {"jobs", "artifacts", "archive", "result", "record"} => hub.text.semantic = Pinned(flow)
  /\ l.at \in {"artifacts", "archive", "result", "record"} => JobsPassed
  /\ l.at \in {"archive", "result", "record"} => Uploads(l.artifact)
  /\ l.at \in {"result", "record"} => Proves(l.artifact, l.run) /\ Eligible(l.run, l.local)
  /\ l.at = "record" => result[l.run].assurance = "github"
StagesAreEarned == \A x \in DOMAIN cmd : RequiredBy(cmd[x])

(* A raised result has all of it, and so has the record beside it.         *)
ResultsAreEarned ==
  \A r \in Recorded : result[r].assurance = "github" =>
    /\ ~lock[r].dirty /\ SameSource(r) /\ hub.text.semantic = Pinned(flow) /\ JobsPassed
    /\ Eligible(r, result[r].conclusion) /\ \E n \in DOMAIN attempts : Proves(n, r)
RecordsAreEarned ==
  \A r \in Recorded : record[r] # 0 => result[r].assurance = "github" /\ Proves(record[r], r)

(* The stages of an export keep what they have written; in a directory     *)
(* that was not raced for one export writes, before any other wrote there. *)
Kept(r, kinds) == kinds \subseteq durable[r]
KeptBy(l) ==
  /\ l.at = "durWorkflow" => Kept(l.run, {"dir"})
  /\ l.at = "durEvidence" => Kept(l.run, {"dir", "workflow"})
  /\ l.at = "manifest" => Kept(l.run, {"dir", "workflow", "evidence"})
DurableGrows ==
  /\ \A x \in DOMAIN cmd : KeptBy(cmd[x])
  /\ \A t \in told : t.what = "exported" => t.run \in Recorded /\ t.dir \in Dirs /\ Kept(t.run, Exported)
Writes(x, d) == cmd[x].at \in Preparing /\ cmd[x].dir = d
File(kind, r) == [kind |-> kind, run |-> r]
Finished(d, r) == File("workflow", r) \in outputs[d] /\ File("evidence", r) \in outputs[d]
OneWriter(d) ==
  \A x \in DOMAIN cmd : Writes(x, d) =>
    /\ \A y \in DOMAIN cmd : Writes(y, d) => x = y
    /\ \A y \in DOMAIN cmd : cmd[y].at \in Keeping => cmd[y].dir # d
    /\ \A t \in told : t.what = "exported" => t.dir # d
    /\ cmd[x].at = "mkOutput" => outputs[d] = {}
    /\ cmd[x].at # "mkOutput" => outputs[d] # {}
    /\ cmd[x].at = "outEvidence" => File("workflow", cmd[x].run) \in outputs[d]
WholeIn(d) ==
  /\ \A x \in DOMAIN cmd : cmd[x].at \in Keeping /\ cmd[x].dir = d => Finished(d, cmd[x].run)
  /\ \A t \in told : t.what = "exported" /\ t.dir = d => Finished(d, t.run)
OutputsAreWhole == \A d \in Dirs \ raced : OneWriter(d) /\ WholeIn(d)

ConfirmInv ==
  ConfirmTypeOK /\ StagesAreEarned /\ ResultsAreEarned /\ RecordsAreEarned /\ DurableGrows /\ OutputsAreWhole

LEMMA AttemptsProve ==
  ASSUME NEW a \in Attempted, a.artifacts # <<>>
  PROVE  /\ a.artifacts[1].content = [Evidence(flow, lock[hub.committed]) EXCEPT !.commit = hub.commit]
         /\ lock[hub.committed].inputs \subseteq hub.inputs
<1> DEFINE tail == append_evidence_job(flow, lock[hub.committed])
<1>1. PICK way \in hub.ways : a = Attempt(flow, lock[hub.committed], hub, way)
  BY DEF Attempted
<1>2. a.artifacts = IF Proved(flow, tail, hub.inputs, way) THEN Uploaded(tail, hub, way) ELSE <<>>
  BY <1>1 DEF Attempt
<1>3. Proved(flow, tail, hub.inputs, way) /\ a.artifacts = Uploaded(tail, hub, way)
  BY <1>2
<1>4. tail.template = Evidence(flow, lock[hub.committed]) /\ tail.checks = lock[hub.committed].inputs
  BY DEF append_evidence_job
<1>5. a.artifacts[1].content = [tail.template EXCEPT !.commit = hub.commit]
  BY <1>3 DEF Uploaded
<1>6. tail.checks \subseteq hub.inputs
  BY <1>3 DEF Proved
<1>7. QED
  BY <1>4, <1>5, <1>6

(* Evidence that an artifact holds: GitHub checked the locked inputs.      *)
LEMMA EvidenceChecksInputs ==
  ASSUME NEW a \in Attempted, a.artifacts # <<>>, NEW k, a.artifacts[1].content = Evidence(flow, k)
  PROVE  k.inputs \subseteq hub.inputs
<1>1. /\ a.artifacts[1].content = [Evidence(flow, lock[hub.committed]) EXCEPT !.commit = hub.commit]
      /\ lock[hub.committed].inputs \subseteq hub.inputs
  BY AttemptsProve
<1>2. Evidence(flow, k).inputs = k.inputs /\ Evidence(flow, lock[hub.committed]).inputs = lock[hub.committed].inputs
  BY DEF Evidence
<1>3. [Evidence(flow, lock[hub.committed]) EXCEPT !.commit = hub.commit].inputs = lock[hub.committed].inputs
  BY <1>2 DEF Evidence
<1>4. QED
  BY <1>1, <1>2, <1>3

(* What verify_jobs accepts is a match of every expected job with a job of *)
(* its own.                                                                *)
LEMMA StepsMatch ==
  ASSUME NEW expected, NEW steps, StepsPass(expected, steps)
  PROVE  \E g \in [DOMAIN expected -> DOMAIN steps] : \A a, b \in DOMAIN expected :
           (a < b => g[a] < g[b]) /\ steps[g[a]].name = expected[a] /\ steps[g[a]].conclusion = "success"
<1>1. PICK g \in [DOMAIN expected -> DOMAIN steps] : \A k \in DOMAIN expected :
        /\ g[k] \in {i \in DOMAIN steps : steps[i].name = expected[k] /\ \A m \in DOMAIN expected : m < k => g[m] < i}
        /\ steps[g[k]].conclusion = "success"
  BY DEF StepsPass
<1>2. \A a, b \in DOMAIN expected :
        (a < b => g[a] < g[b]) /\ steps[g[a]].name = expected[a] /\ steps[g[a]].conclusion = "success"
  BY <1>1
<1>3. QED
  BY <1>2

LEMMA JobsMatch ==
  ASSUME NEW expected, DOMAIN expected \subseteq Nat, NEW remote, verify_jobs(expected, remote)
  PROVE  \E f \in Injection(DOMAIN expected, DOMAIN remote.jobs) :
           \A k \in DOMAIN f : PassedAs(expected[k], remote.jobs[f[k]])
<1>1. PICK f \in [DOMAIN expected -> DOMAIN remote.jobs] : \A k \in DOMAIN expected :
        /\ FirstPasses(f[k], {i \in DOMAIN remote.jobs \ {f[m] : m \in {m \in DOMAIN expected : m < k}} :
                                remote.jobs[i].name = expected[k].name}, remote.jobs)
        /\ StepsPass(expected[k].steps, remote.jobs[f[k]].steps)
  BY DEF verify_jobs
<1>2. \A k \in DOMAIN expected :
        /\ \A m \in DOMAIN expected : m < k => f[m] # f[k]
        /\ remote.jobs[f[k]].name = expected[k].name /\ remote.jobs[f[k]].conclusion = "success"
  BY <1>1 DEF FirstPasses
<1>3. \A a, b \in DOMAIN expected : f[a] = f[b] => a = b
  <2> SUFFICES ASSUME NEW a \in DOMAIN expected, NEW b \in DOMAIN expected, f[a] = f[b], a # b PROVE FALSE
    OBVIOUS
  <2>1. a \in Nat /\ b \in Nat
    OBVIOUS
  <2>2. a < b \/ b < a
    BY <2>1
  <2>3. QED
    BY <2>2, <1>2
<1>4. f \in Injection(DOMAIN expected, DOMAIN remote.jobs)
  BY <1>3 DEF Injection, IsInjective
<1>5. \A k \in DOMAIN f : PassedAs(expected[k], remote.jobs[f[k]])
  <2> SUFFICES ASSUME NEW k \in DOMAIN expected PROVE PassedAs(expected[k], remote.jobs[f[k]])
    OBVIOUS
  <2>1. StepsPass(expected[k].steps, remote.jobs[f[k]].steps)
    BY <1>1
  <2>2. QED
    BY <2>1, <1>2, StepsMatch DEF PassedAs
<1>6. QED
  BY <1>4, <1>5

LEMMA FixedStay ==
  ASSUME [ConfirmNext]_confirmVars
  PROVE  /\ flow' = flow /\ lock' = lock /\ hub' = hub
         /\ Recorded' = Recorded /\ Commands' = Commands /\ Files' = Files /\ Attempted' = Attempted
<1>1. flow' = flow /\ lock' = lock /\ hub' = hub
  <2>0. CASE UNCHANGED confirmVars
    BY <2>0 DEF confirmVars
  <2>1. CASE RunAttempt
    BY <2>1 DEF RunAttempt, fixed
  <2>2. ASSUME NEW x \in DOMAIN cmd, NEW r \in Recorded, StartConfirm(x, r) \/ \E d \in Dirs : StartExport(x, r, d)
        PROVE  UNCHANGED fixed
    <3>1. CASE StartConfirm(x, r)
      BY <3>1 DEF StartConfirm
    <3>2. ASSUME NEW d \in Dirs, StartExport(x, r, d) PROVE UNCHANGED fixed
      BY <3>2 DEF StartExport
    <3>3. QED
      BY <2>2, <3>1, <3>2
  <2>3. ASSUME NEW x \in DOMAIN cmd,
               \/ CheckOutput(x) \/ MakeOutput(x) \/ WriteOutputWorkflow(x) \/ WriteOutputEvidence(x) \/ CheckDurable(x)
               \/ MakeDurable(x) \/ WriteDurableWorkflow(x) \/ WriteDurableEvidence(x) \/ WriteManifest(x)
        PROVE  UNCHANGED fixed
    BY <2>3 DEF CheckOutput, PutOutput, MakeOutput, WriteOutputWorkflow, WriteOutputEvidence, CheckDurable, PutDurable,
                MakeDurable, WriteDurableWorkflow, WriteDurableEvidence, WriteManifest
  <2>4. ASSUME NEW x \in DOMAIN cmd,
               \/ FetchRun(x) \/ FetchWorkflow(x) \/ FetchJobs(x) \/ FetchArtifacts(x) \/ FetchArchive(x)
               \/ WriteResult(x) \/ WriteRecord(x) \/ Abort(x)
        PROVE  UNCHANGED fixed
    BY <2>4 DEF Request, FetchRun, FetchWorkflow, FetchJobs, FetchArtifacts, FetchArchive, WriteResult, WriteRecord, Abort
  <2>5. QED
    BY <2>0, <2>1, <2>2, <2>3, <2>4 DEF ConfirmNext, fixed
<1>2. Recorded' = Recorded
  BY <1>1 DEF Recorded
<1>3. Commands' = Commands /\ Files' = Files
  BY <1>2 DEF Commands, Files
<1>4. Attempted' = Attempted
  BY <1>1 DEF Attempted
<1>5. QED
  BY <1>1, <1>2, <1>3, <1>4

LEMMA ClassifiedIsResult ==
  ASSUME NEW k, NEW conclusion \in ExecutionConclusion, NEW confirmed
  PROVE  Classified(k, conclusion, confirmed) \in Results
BY DEF Classified, Results

LEMMA WaitingIsCommand == Waiting \in Commands /\ Waiting.at = "idle"
BY DEF Waiting, Commands, CommandStages

LEMMA TurnTypes ==
  ASSUME ConfirmTypeOK, NEW x \in DOMAIN cmd, NEW l \in Commands, Turn(x, l), Recorded' = Recorded, Commands' = Commands,
         l.at # "idle" => l.run \in Recorded, l.at \in Exporting => l.dir \in Dirs
  PROVE  /\ DOMAIN cmd' = DOMAIN cmd /\ cmd'[x] = l /\ \A y \in DOMAIN cmd \ {x} : cmd'[y] = cmd[y]
         /\ cmd' \in [DOMAIN cmd' -> Commands'] /\ \A y \in DOMAIN cmd' : CommandOK(y)'
<1>1. DOMAIN cmd' = DOMAIN cmd /\ cmd'[x] = l /\ \A y \in DOMAIN cmd \ {x} : cmd'[y] = cmd[y]
  BY DEF Turn
<1>2. cmd' \in [DOMAIN cmd' -> Commands']
  BY <1>1 DEF Turn, ConfirmTypeOK
<1>3. ASSUME NEW y \in DOMAIN cmd PROVE CommandOK(y)'
  <2>1. CASE y = x
    BY <2>1, <1>1 DEF CommandOK, Exporting, Preparing, Keeping
  <2>2. CASE y # x
    <3>1. cmd'[y] = cmd[y] /\ CommandOK(y)
      BY <2>2, <1>1 DEF ConfirmTypeOK
    <3>2. QED
      BY <3>1 DEF CommandOK
  <2>3. QED
    BY <2>1, <2>2
<1>4. QED
  BY <1>1, <1>2, <1>3

(* A command that ends or is at its next stage.                            *)
LEMMA AtTypes ==
  ASSUME ConfirmTypeOK, NEW x \in DOMAIN cmd, NEW stage \in CommandStages, stage # "idle", At(x, stage), cmd[x].at # "idle",
         stage \in Exporting => cmd[x].at \in Exporting, Recorded' = Recorded, Commands' = Commands
  PROVE  /\ DOMAIN cmd' = DOMAIN cmd /\ \A y \in DOMAIN cmd \ {x} : cmd'[y] = cmd[y]
         /\ cmd'[x] = [cmd[x] EXCEPT !.at = stage]
         /\ cmd' \in [DOMAIN cmd' -> Commands'] /\ \A y \in DOMAIN cmd' : CommandOK(y)'
<1>1. cmd[x] \in Commands /\ CommandOK(x)
  BY DEF ConfirmTypeOK
<1>2. [cmd[x] EXCEPT !.at = stage] \in Commands
  BY <1>1 DEF Commands
<1>3. [cmd[x] EXCEPT !.at = stage].run = cmd[x].run /\ [cmd[x] EXCEPT !.at = stage].dir = cmd[x].dir
      /\ [cmd[x] EXCEPT !.at = stage].at = stage
  BY <1>1 DEF Commands
<1>4. Turn(x, [cmd[x] EXCEPT !.at = stage])
  BY DEF At
<1>5. QED
  BY <1>1, <1>2, <1>3, <1>4, TurnTypes DEF CommandOK

LEMMA EndTypes ==
  ASSUME ConfirmTypeOK, NEW x \in DOMAIN cmd, Turn(x, Waiting), Recorded' = Recorded, Commands' = Commands
  PROVE  /\ DOMAIN cmd' = DOMAIN cmd /\ \A y \in DOMAIN cmd \ {x} : cmd'[y] = cmd[y]
         /\ cmd'[x] = Waiting
         /\ cmd' \in [DOMAIN cmd' -> Commands'] /\ \A y \in DOMAIN cmd' : CommandOK(y)'
BY WaitingIsCommand, TurnTypes DEF Exporting, Preparing, Keeping

(* A request leaves the command idle or at its next stage with what that   *)
(* stage requires.                                                         *)
Advances(x, l) ==
  l = Waiting \/ (cmd[x].at # "idle" /\ l.run = cmd[x].run /\ l.at \in Confirming /\ RequiredBy(l))
LEMMA WaitingRequires == RequiredBy(Waiting)
BY DEF RequiredBy, Waiting, Confirming

LEMMA RequestAdvances ==
  ASSUME ConfirmTypeOK, NEW x \in DOMAIN cmd, RequiredBy(cmd[x]),
         FetchRun(x) \/ FetchWorkflow(x) \/ FetchJobs(x) \/ FetchArtifacts(x) \/ FetchArchive(x)
  PROVE  /\ UNCHANGED <<attempts, outputs, durable, result, record, told, raced>>
         /\ \E l \in Commands : Turn(x, l) /\ Advances(x, l)
<1> DEFINE Step(l) == [cmd[x] EXCEPT !.at = l]
<1>0. cmd[x] \in Commands /\ Waiting \in Commands /\ Len(attempts) \in Nat
  BY WaitingIsCommand DEF ConfirmTypeOK
<1>1. ASSUME NEW stage, NEW required, NEW next, Request(x, stage, required, next),
             required /\ attempts # <<>> /\ cmd[x].at = stage => next \in Commands /\ Advances(x, next)
      PROVE  /\ UNCHANGED <<attempts, outputs, durable, result, record, told, raced>>
             /\ \E l \in Commands : Turn(x, l) /\ Advances(x, l)
  <2>1. UNCHANGED <<attempts, outputs, durable, result, record, told, raced>> /\ cmd[x].at = stage /\ attempts # <<>>
    BY <1>1 DEF Request, keptFiles
  <2>2. CASE required
    BY <2>2, <2>1, <1>1 DEF Request
  <2>3. CASE ~required
    <3>1. Turn(x, Waiting)
      BY <2>3, <1>1 DEF Request
    <3>2. Advances(x, Waiting)
      BY DEF Advances
    <3>3. QED
      BY <3>1, <3>2, <2>1, <1>0
  <2>4. QED
    BY <2>1, <2>2, <2>3
<1>2. \A stage \in Confirming :
        /\ Step(stage) \in Commands /\ Step(stage).at = stage /\ Step(stage).run = cmd[x].run
        /\ Step(stage).local = cmd[x].local /\ Step(stage).artifact = cmd[x].artifact
  BY <1>0 DEF Commands, CommandStages
<1>3. CASE FetchRun(x)
  <2> DEFINE e == Evidence(flow, lock[cmd[x].run])
             required == Now.conclusion = "success" /\ hub.commit = e.commit /\ hub.event = e.event /\ hub.path = e.path
  <2>1. Request(x, "run", required, Step("contents"))
    BY <1>3 DEF FetchRun
  <2>2. e.commit = lock[cmd[x].run].commit /\ e.event = lock[cmd[x].run].event
    BY DEF Evidence
  <2>3. required /\ attempts # <<>> /\ cmd[x].at = "run" => Step("contents") \in Commands /\ Advances(x, Step("contents"))
    BY <1>2, <2>2 DEF Advances, RequiredBy, SameSource, Confirming
  <2>4. QED
    BY <2>1, <2>3, <1>1
<1>4. CASE FetchWorkflow(x)
  <2> DEFINE required == hub.text.marker /\ hub.text.semantic = Evidence(flow, lock[cmd[x].run]).workflow
  <2>1. Request(x, "contents", required, Step("jobs"))
    BY <1>4 DEF FetchWorkflow
  <2>2. Evidence(flow, lock[cmd[x].run]).workflow = Pinned(flow)
    BY DEF Evidence
  <2>3. required /\ attempts # <<>> /\ cmd[x].at = "contents" => Step("jobs") \in Commands /\ Advances(x, Step("jobs"))
    BY <1>2, <2>2 DEF Advances, RequiredBy, Confirming
  <2>4. QED
    BY <2>1, <2>3, <1>1
<1>5. CASE FetchJobs(x)
  <2> DEFINE required == verify_jobs(evidence_jobs(flow), Now)
  <2>1. Request(x, "jobs", required, Step("artifacts"))
    BY <1>5 DEF FetchJobs
  <2>2. attempts # <<>> => Len(attempts) \in DOMAIN attempts
    BY <1>0 DEF ConfirmTypeOK
  <2>3. required /\ attempts # <<>> => JobsPassed
    BY <2>2 DEF JobsPassed, Now
  <2>4. required /\ attempts # <<>> /\ cmd[x].at = "jobs" => Step("artifacts") \in Commands /\ Advances(x, Step("artifacts"))
    BY <1>2, <2>3 DEF Advances, RequiredBy, Confirming
  <2>5. QED
    BY <2>1, <2>4, <1>1
<1>6. CASE FetchArtifacts(x)
  <2> DEFINE required == unique_evidence_artifact(Now.artifacts)
             next == [cmd[x] EXCEPT !.at = "archive", !.artifact = Len(attempts)]
  <2>1. Request(x, "artifacts", required, next)
    BY <1>6 DEF FetchArtifacts
  <2>2. attempts # <<>> => Len(attempts) \in DOMAIN attempts
    BY <1>0 DEF ConfirmTypeOK
  <2>3. required /\ attempts # <<>> => Uploads(Len(attempts))
    BY <2>2 DEF unique_evidence_artifact, Now, Uploads
  <2>4. next \in Commands /\ next.at = "archive" /\ next.run = cmd[x].run /\ next.artifact = Len(attempts)
    BY <1>0 DEF Commands, CommandStages, Confirming
  <2>5. required /\ attempts # <<>> /\ cmd[x].at = "artifacts" => next \in Commands /\ Advances(x, next)
    BY <2>3, <2>4 DEF Advances, RequiredBy, Confirming
  <2>6. QED
    BY <2>1, <2>5, <1>1
<1>7. CASE FetchArchive(x)
  <2> DEFINE a == attempts[cmd[x].artifact].artifacts[1]
             required == /\ a.intact /\ a.content = Evidence(flow, lock[cmd[x].run])
                         /\ Classified(lock[cmd[x].run], cmd[x].local, TRUE).assurance = "github"
  <2>1. Request(x, "archive", required, Step("result"))
    BY <1>7 DEF FetchArchive
  <2>2. required /\ cmd[x].at = "archive" => Proves(cmd[x].artifact, cmd[x].run) /\ Eligible(cmd[x].run, cmd[x].local)
    BY DEF Proves, Eligible, RequiredBy
  <2>3. required /\ attempts # <<>> /\ cmd[x].at = "archive" => Step("result") \in Commands /\ Advances(x, Step("result"))
    BY <1>2, <2>2 DEF Advances, RequiredBy, Confirming
  <2>4. QED
    BY <2>1, <2>3, <1>1
<1>8. QED
  BY <1>3, <1>4, <1>5, <1>6, <1>7

(* Attempts are only added, and a raised result stays raised: what a stage *)
(* required is still there.                                                *)
LEMMA RequirementsLast ==
  ASSUME NEW l, RequiredBy(l), flow' = flow, lock' = lock, hub' = hub,
         \A n \in DOMAIN attempts : n \in DOMAIN attempts' /\ attempts'[n] = attempts[n],
         \A r : result[r].assurance = "github" => result'[r].assurance = "github"
  PROVE  /\ RequiredBy(l)' 
         /\ JobsPassed => JobsPassed'
         /\ \A n, r : Proves(n, r) => Proves(n, r)'
<1>1. JobsPassed => JobsPassed'
  BY DEF JobsPassed
<1>2. \A n : Uploads(n) => Uploads(n)'
  BY DEF Uploads
<1>3. \A n, r : Proves(n, r) => Proves(n, r)'
  BY <1>2 DEF Proves, Uploads
<1>4. \A r : SameSource(r)' = SameSource(r)
  BY DEF SameSource
<1>5. \A r, k : Eligible(r, k)' = Eligible(r, k)
  BY DEF Eligible
<1>6. QED
  BY <1>1, <1>2, <1>3, <1>4, <1>5 DEF RequiredBy

LEMMA AttemptGrows ==
  ASSUME ConfirmTypeOK, RunAttempt
  PROVE  /\ attempts' \in Seq(Attempted)
         /\ \A n \in DOMAIN attempts : n \in DOMAIN attempts' /\ attempts'[n] = attempts[n]
         /\ UNCHANGED <<outputs, durable, result, record, cmd, told, raced>>
<1>1. PICK a \in Attempted : attempts' = Append(attempts, a)
  BY DEF RunAttempt, Attempted
<1>2. attempts \in Seq(Attempted)
  BY DEF ConfirmTypeOK
<1>3. attempts' \in Seq(Attempted) /\ \A n \in DOMAIN attempts : n \in DOMAIN attempts' /\ attempts'[n] = attempts[n]
  BY <1>1, <1>2
<1>4. QED
  BY <1>3 DEF RunAttempt, keptFiles

Earned == StagesAreEarned /\ ResultsAreEarned /\ RecordsAreEarned
LEMMA OthersRequireNothing == ASSUME NEW l, l.at \notin Confirming PROVE RequiredBy(l)
BY DEF RequiredBy, Confirming

(* A step that writes neither a result nor a record.                       *)
LEMMA QuietStep ==
  ASSUME Earned, flow' = flow, lock' = lock, hub' = hub, result' = result, record' = record,
         \A n \in DOMAIN attempts : n \in DOMAIN attempts' /\ attempts'[n] = attempts[n],
         \A y \in DOMAIN cmd' : (y \in DOMAIN cmd /\ cmd'[y] = cmd[y]) \/ RequiredBy(cmd'[y])
  PROVE  Earned'
<1>1. StagesAreEarned'
  <2> SUFFICES ASSUME NEW y \in DOMAIN cmd', NEW l, l = cmd'[y] PROVE RequiredBy(l)'
    BY DEF StagesAreEarned, RequiredBy
  <2>1. RequiredBy(l)
    BY DEF Earned, StagesAreEarned
  <2>2. QED
    BY <2>1, RequirementsLast
<1>2. /\ JobsPassed => JobsPassed'
      /\ \A n, r : Proves(n, r) => Proves(n, r)'
  BY WaitingRequires, RequirementsLast
<1>3. Recorded' = Recorded /\ (\A r : SameSource(r)' = SameSource(r)) /\ \A r, k : Eligible(r, k)' = Eligible(r, k)
  BY DEF Recorded, SameSource, Eligible
<1>4. ResultsAreEarned'
  BY <1>2, <1>3 DEF Earned, ResultsAreEarned
<1>5. RecordsAreEarned'
  BY <1>2, <1>3 DEF Earned, RecordsAreEarned
<1>6. QED
  BY <1>1, <1>4, <1>5 DEF Earned

LEMMA WriteResultEarned ==
  ASSUME ConfirmTypeOK, Earned, flow' = flow, lock' = lock, hub' = hub, NEW x \in DOMAIN cmd, WriteResult(x)
  PROVE  ConfirmTypeOK' /\ Earned'
<1> DEFINE r == cmd[x].run
<1>0. Recorded' = Recorded /\ Commands' = Commands /\ Files' = Files /\ Attempted' = Attempted
  BY DEF Recorded, Commands, Files, Attempted
<1>1. cmd[x].at = "result" /\ cmd[x] \in Commands /\ r \in Recorded /\ RequiredBy(cmd[x])
  BY DEF WriteResult, ConfirmTypeOK, CommandOK, Earned, StagesAreEarned
<1>2. Eligible(r, cmd[x].local) /\ Proves(cmd[x].artifact, r) /\ JobsPassed /\ ~lock[r].dirty /\ SameSource(r)
      /\ hub.text.semantic = Pinned(flow)
  BY <1>1 DEF RequiredBy, Confirming
<1>3. cmd[x].local = "passed" /\ Classified(lock[r], cmd[x].local, TRUE).conclusion = cmd[x].local
  BY <1>2 DEF Eligible, Classified
<1>4. Classified(lock[r], cmd[x].local, TRUE) \in Results
  BY <1>3, ClassifiedIsResult DEF ExecutionConclusion
<1>5. result' = [result EXCEPT ![r] = Classified(lock[r], cmd[x].local, TRUE)]
      /\ At(x, "record") /\ UNCHANGED <<attempts, outputs, durable, record, told, raced>>
  BY DEF WriteResult
<1>6. /\ DOMAIN cmd' = DOMAIN cmd /\ \A y \in DOMAIN cmd \ {x} : cmd'[y] = cmd[y]
      /\ cmd'[x] = [cmd[x] EXCEPT !.at = "record"]
      /\ cmd' \in [DOMAIN cmd' -> Commands'] /\ \A y \in DOMAIN cmd' : CommandOK(y)'
  BY <1>0, <1>1, <1>5, AtTypes DEF CommandStages, Confirming, Exporting, Preparing, Keeping
<1>7. /\ result' \in [Recorded -> Results] /\ result'[r].assurance = "github" /\ result'[r].conclusion = cmd[x].local
      /\ \A k \in Recorded \ {r} : result'[k] = result[k]
  BY <1>1, <1>2, <1>3, <1>4, <1>5 DEF ConfirmTypeOK, Eligible
<1>8. ConfirmTypeOK'
  BY <1>0, <1>5, <1>6, <1>7 DEF ConfirmTypeOK, Results
<1>9. \A k \in Recorded : result[k].assurance = "github" => result'[k].assurance = "github"
  BY <1>7
<1>10. /\ JobsPassed' = JobsPassed /\ \A n, k : Proves(n, k)' = Proves(n, k) /\ Uploads(n)' = Uploads(n)
       /\ \A k : SameSource(k)' = SameSource(k) /\ \A c : Eligible(k, c)' = Eligible(k, c)
  BY <1>5 DEF JobsPassed, Proves, Uploads, SameSource, Eligible
<1>11. StagesAreEarned'
  <2> SUFFICES ASSUME NEW y \in DOMAIN cmd, NEW l, l = cmd'[y] PROVE RequiredBy(l)'
    BY <1>6 DEF StagesAreEarned, RequiredBy
  <2>1. CASE y = x
    <3>1. cmd'[x].at = "record" /\ cmd'[x].run = r /\ cmd'[x].artifact = cmd[x].artifact /\ cmd'[x].local = cmd[x].local
      BY <1>1, <1>6 DEF Commands
    <3>2. Uploads(cmd[x].artifact)
      BY <1>2 DEF Proves
    <3>3. QED
      BY <2>1, <3>1, <3>2, <1>2, <1>7, <1>10 DEF RequiredBy, Confirming
  <2>2. CASE y # x
    <3>1. cmd'[y] = cmd[y] /\ RequiredBy(cmd[y]) /\ CommandOK(y)
      BY <2>2, <1>6 DEF Earned, StagesAreEarned, ConfirmTypeOK
    <3>2. cmd[y].at = "record" => result[cmd[y].run].assurance = "github" /\ cmd[y].run \in Recorded
      BY <3>1 DEF RequiredBy, CommandOK
    <3>3. QED
      BY <3>1, <3>2, <1>9, <1>10 DEF RequiredBy
  <2>3. QED
    BY <2>1, <2>2
<1>12. ResultsAreEarned'
  <2> SUFFICES ASSUME NEW k \in Recorded, result'[k].assurance = "github"
               PROVE  /\ ~lock[k].dirty /\ SameSource(k) /\ hub.text.semantic = Pinned(flow) /\ JobsPassed
                      /\ Eligible(k, result'[k].conclusion) /\ \E n \in DOMAIN attempts : Proves(n, k)
    BY <1>0, <1>5, <1>10 DEF ResultsAreEarned
  <2>1. CASE k = r
    <3>1. cmd[x].artifact \in DOMAIN attempts
      BY <1>2 DEF Proves, Uploads
    <3>2. QED
      BY <2>1, <3>1, <1>2, <1>7
  <2>2. CASE k # r
    BY <2>2, <1>7 DEF Earned, ResultsAreEarned
  <2>3. QED
    BY <2>1, <2>2
<1>13. RecordsAreEarned'
  BY <1>0, <1>5, <1>9, <1>10 DEF Earned, RecordsAreEarned
<1>14. QED
  BY <1>8, <1>11, <1>12, <1>13 DEF Earned

LEMMA WriteRecordEarned ==
  ASSUME ConfirmTypeOK, Earned, flow' = flow, lock' = lock, hub' = hub, NEW x \in DOMAIN cmd, WriteRecord(x)
  PROVE  ConfirmTypeOK' /\ Earned'
<1> DEFINE r == cmd[x].run
<1>0. Recorded' = Recorded /\ Commands' = Commands /\ Files' = Files /\ Attempted' = Attempted
  BY DEF Recorded, Commands, Files, Attempted
<1>1. cmd[x].at = "record" /\ cmd[x] \in Commands /\ r \in Recorded /\ RequiredBy(cmd[x])
  BY DEF WriteRecord, ConfirmTypeOK, CommandOK, Earned, StagesAreEarned
<1>2. Proves(cmd[x].artifact, r) /\ result[r].assurance = "github" /\ cmd[x].artifact \in Nat
  BY <1>1 DEF RequiredBy, Commands
<1>3. /\ record' = [record EXCEPT ![r] = cmd[x].artifact] /\ Turn(x, Waiting)
      /\ UNCHANGED <<attempts, outputs, durable, result, told, raced>>
  BY DEF WriteRecord, End
<1>4. /\ DOMAIN cmd' = DOMAIN cmd /\ \A y \in DOMAIN cmd \ {x} : cmd'[y] = cmd[y]
      /\ cmd'[x] = Waiting
      /\ cmd' \in [DOMAIN cmd' -> Commands'] /\ \A y \in DOMAIN cmd' : CommandOK(y)'
  BY <1>0, <1>3, EndTypes
<1>5. record' \in [Recorded -> Nat] /\ record'[r] = cmd[x].artifact /\ \A k \in Recorded \ {r} : record'[k] = record[k]
  BY <1>1, <1>2, <1>3 DEF ConfirmTypeOK
<1>6. ConfirmTypeOK'
  BY <1>0, <1>3, <1>4, <1>5 DEF ConfirmTypeOK
<1>7. /\ JobsPassed' = JobsPassed /\ \A n, k : Proves(n, k)' = Proves(n, k)
      /\ \A k : SameSource(k)' = SameSource(k) /\ \A c : Eligible(k, c)' = Eligible(k, c)
  BY <1>3 DEF JobsPassed, Proves, Uploads, SameSource, Eligible
<1>8. StagesAreEarned'
  <2> SUFFICES ASSUME NEW y \in DOMAIN cmd, NEW l, l = cmd'[y] PROVE RequiredBy(l)'
    BY <1>4 DEF StagesAreEarned, RequiredBy
  <2>1. RequiredBy(l)
    BY <1>4, WaitingRequires DEF Earned, StagesAreEarned
  <2>2. QED
    BY <2>1, <1>3, RequirementsLast
<1>9. ResultsAreEarned'
  BY <1>0, <1>3, <1>7 DEF Earned, ResultsAreEarned
<1>10. RecordsAreEarned'
  BY <1>0, <1>2, <1>3, <1>5, <1>7 DEF Earned, RecordsAreEarned
<1>11. QED
  BY <1>6, <1>8, <1>9, <1>10 DEF Earned

(* The steps that turn one command and leave results and records alone.    *)
LEMMA QuietTurn ==
  ASSUME ConfirmTypeOK, Earned, flow' = flow, lock' = lock, hub' = hub, NEW x \in DOMAIN cmd,
         DOMAIN cmd' = DOMAIN cmd /\ \A y \in DOMAIN cmd \ {x} : cmd'[y] = cmd[y],
         cmd' \in [DOMAIN cmd' -> Commands'] /\ \A y \in DOMAIN cmd' : CommandOK(y)',
         RequiredBy(cmd'[x]), UNCHANGED <<attempts, result, record>>,
         outputs' \in [Dirs -> SUBSET Files], durable' \in [Recorded -> SUBSET Exported]
  PROVE  ConfirmTypeOK' /\ Earned'
<1>0. Recorded' = Recorded /\ Files' = Files /\ Attempted' = Attempted
  BY DEF Recorded, Files, Attempted
<1>1. ConfirmTypeOK'
  BY <1>0 DEF ConfirmTypeOK
<1>2. Earned'
  BY QuietStep
<1>3. QED
  BY <1>1, <1>2

LEMMA LeavesFiles ==
  ASSUME ConfirmTypeOK, Earned, flow' = flow, lock' = lock, hub' = hub, NEW x \in DOMAIN cmd,
         NEW l \in Commands, Turn(x, l), l.at # "idle" => l.run \in Recorded /\ l.at \notin Exporting, RequiredBy(l),
         UNCHANGED <<attempts, outputs, durable, result, record>>
  PROVE  ConfirmTypeOK' /\ Earned'
<1>0. Recorded' = Recorded /\ Commands' = Commands
  BY DEF Recorded, Commands
<1>1. outputs \in [Dirs -> SUBSET Files] /\ durable \in [Recorded -> SUBSET Exported]
  BY DEF ConfirmTypeOK
<1>2. l.at = "idle" => l.at \notin Exporting
  BY DEF Exporting, Preparing, Keeping
<1>3. /\ DOMAIN cmd' = DOMAIN cmd /\ cmd'[x] = l /\ \A y \in DOMAIN cmd \ {x} : cmd'[y] = cmd[y]
      /\ cmd' \in [DOMAIN cmd' -> Commands'] /\ \A y \in DOMAIN cmd' : CommandOK(y)'
  BY <1>0, <1>2, TurnTypes
<1>4. RequiredBy(cmd'[x])
  BY <1>3
<1>5. QED
  BY <1>1, <1>3, <1>4, QuietTurn

LEMMA ConfirmationTurns ==
  ASSUME ConfirmTypeOK, Earned, flow' = flow, lock' = lock, hub' = hub, NEW x \in DOMAIN cmd,
         \/ FetchRun(x) \/ FetchWorkflow(x) \/ FetchJobs(x) \/ FetchArtifacts(x) \/ FetchArchive(x) \/ Abort(x)
  PROVE  ConfirmTypeOK' /\ Earned'
<1>0. Recorded' = Recorded /\ Commands' = Commands
  BY DEF Recorded, Commands
<1>1. outputs \in [Dirs -> SUBSET Files] /\ durable \in [Recorded -> SUBSET Exported] /\ RequiredBy(cmd[x])
  BY DEF ConfirmTypeOK, Earned, StagesAreEarned
<1>3. CASE FetchRun(x) \/ FetchWorkflow(x) \/ FetchJobs(x) \/ FetchArtifacts(x) \/ FetchArchive(x)
  <2>1. UNCHANGED <<attempts, outputs, durable, result, record>>
    BY <1>1, <1>3, RequestAdvances
  <2>2. PICK l \in Commands : Turn(x, l) /\ Advances(x, l)
    BY <1>1, <1>3, RequestAdvances
  <2>3. (l.at # "idle" => l.run \in Recorded /\ l.at \notin Exporting) /\ RequiredBy(l)
    <3>1. CASE l = Waiting
      BY <3>1, WaitingIsCommand, WaitingRequires
    <3>2. CASE l # Waiting
      <4>1. cmd[x].at # "idle" /\ l.run = cmd[x].run /\ l.at \in Confirming /\ RequiredBy(l)
        BY <2>2, <3>2 DEF Advances
      <4>2. l.run \in Recorded
        BY <4>1 DEF ConfirmTypeOK, CommandOK
      <4>3. l.at \notin Exporting
        BY <4>1 DEF Confirming, Exporting, Preparing, Keeping
      <4>4. QED
        BY <4>1, <4>2, <4>3
    <3>3. QED
      BY <3>1, <3>2
  <2>4. QED
    BY <2>1, <2>2, <2>3, LeavesFiles
<1>4. CASE Abort(x)
  <2>1. Turn(x, Waiting) /\ UNCHANGED <<attempts, outputs, durable, result, record>>
    BY <1>4 DEF Abort, keptFiles
  <2>2. QED
    BY LeavesFiles, <2>1, WaitingIsCommand, WaitingRequires
<1>5. QED
  BY <1>3, <1>4

LEMMA StartConfirmTurns ==
  ASSUME ConfirmTypeOK, Earned, flow' = flow, lock' = lock, hub' = hub, NEW x \in DOMAIN cmd,
         NEW r \in Recorded, StartConfirm(x, r)
  PROVE  ConfirmTypeOK' /\ Earned'
<1>1. Recorded' = Recorded /\ Commands' = Commands
  BY DEF Recorded, Commands
<1>2. outputs \in [Dirs -> SUBSET Files] /\ durable \in [Recorded -> SUBSET Exported] /\ RequiredBy(cmd[x])
  BY DEF ConfirmTypeOK, Earned, StagesAreEarned
<1>3. UNCHANGED <<attempts, outputs, durable, result, record>>
  BY DEF StartConfirm, keptFiles
<1>4. CASE "evidence" \in durable[r] /\ matches_lock(Evidence(flow, lock[r]), lock[r])
  <2> DEFINE l == [Waiting EXCEPT !.at = "run", !.run = r, !.local = result[r].conclusion]
  <2>1. Turn(x, l)
    BY <1>4 DEF StartConfirm
  <2>2. result[r].conclusion \in ExecutionConclusion
    BY DEF ConfirmTypeOK, Results
  <2>3. l \in Commands /\ l.at = "run" /\ l.run = r
    BY <2>2 DEF Waiting, Commands, CommandStages, Confirming
  <2>4. ~lock[r].dirty
    BY <1>4 DEF matches_lock
  <2>5. RequiredBy(l)
    BY <2>3, <2>4 DEF RequiredBy, Confirming
  <2>6. l.at \notin Exporting
    BY <2>3 DEF Exporting, Preparing, Keeping
  <2> HIDE DEF l
  <2>7. QED
    BY LeavesFiles, <1>3, <2>1, <2>3, <2>5, <2>6
<1>5. CASE ~("evidence" \in durable[r] /\ matches_lock(Evidence(flow, lock[r]), lock[r]))
  <2>1. cmd' = cmd
    BY <1>5 DEF StartConfirm
  <2>2. cmd \in [DOMAIN cmd -> Commands] /\ \A y \in DOMAIN cmd : CommandOK(y)
    BY DEF ConfirmTypeOK
  <2>3. \A y \in DOMAIN cmd' : CommandOK(y)'
    BY <2>1, <2>2, <1>1 DEF CommandOK
  <2>4. QED
    BY <1>3, <2>1, <2>2, <2>3, <1>1, <1>2, QuietTurn
<1>6. QED
  BY <1>4, <1>5

LEMMA ExportAt ==
  ASSUME ConfirmTypeOK, Earned, flow' = flow, lock' = lock, hub' = hub, NEW x \in DOMAIN cmd, cmd[x].at \in Exporting,
         NEW stage \in Exporting, At(x, stage), UNCHANGED <<attempts, result, record>>,
         outputs' \in [Dirs -> SUBSET Files], durable' \in [Recorded -> SUBSET Exported]
  PROVE  ConfirmTypeOK' /\ Earned'
<1>0. Recorded' = Recorded /\ Commands' = Commands
  BY DEF Recorded, Commands
<1>1. stage \in CommandStages /\ stage # "idle" /\ cmd[x].at # "idle" /\ stage \notin Confirming
  BY DEF CommandStages, Exporting, Preparing, Keeping, Confirming
<1>2. /\ DOMAIN cmd' = DOMAIN cmd /\ \A y \in DOMAIN cmd \ {x} : cmd'[y] = cmd[y]
      /\ cmd'[x] = [cmd[x] EXCEPT !.at = stage]
      /\ cmd' \in [DOMAIN cmd' -> Commands'] /\ \A y \in DOMAIN cmd' : CommandOK(y)'
  BY <1>0, <1>1, AtTypes
<1>3. cmd[x] \in Commands
  BY DEF ConfirmTypeOK
<1>4. cmd'[x].at = stage
  BY <1>2, <1>3 DEF Commands
<1>5. RequiredBy(cmd'[x])
  BY <1>1, <1>4, OthersRequireNothing
<1>6. QED
  BY <1>2, <1>5, QuietTurn

LEMMA ExportEnds ==
  ASSUME ConfirmTypeOK, Earned, flow' = flow, lock' = lock, hub' = hub, NEW x \in DOMAIN cmd,
         Turn(x, Waiting), UNCHANGED <<attempts, result, record>>,
         outputs' \in [Dirs -> SUBSET Files], durable' \in [Recorded -> SUBSET Exported]
  PROVE  ConfirmTypeOK' /\ Earned'
<1>0. Recorded' = Recorded /\ Commands' = Commands
  BY DEF Recorded, Commands
<1>1. /\ DOMAIN cmd' = DOMAIN cmd /\ \A y \in DOMAIN cmd \ {x} : cmd'[y] = cmd[y]
      /\ cmd'[x] = Waiting
      /\ cmd' \in [DOMAIN cmd' -> Commands'] /\ \A y \in DOMAIN cmd' : CommandOK(y)'
  BY <1>0, EndTypes
<1>2. QED
  BY <1>1, WaitingRequires, QuietTurn

LEMMA StartExportTurns ==
  ASSUME ConfirmTypeOK, Earned, flow' = flow, lock' = lock, hub' = hub, NEW x \in DOMAIN cmd,
         NEW r \in Recorded, NEW d \in Dirs, StartExport(x, r, d)
  PROVE  ConfirmTypeOK' /\ Earned'
<1>1. Recorded' = Recorded /\ Commands' = Commands
  BY DEF Recorded, Commands
<1>2. outputs \in [Dirs -> SUBSET Files] /\ durable \in [Recorded -> SUBSET Exported] /\ RequiredBy(cmd[x])
  BY DEF ConfirmTypeOK, Earned, StagesAreEarned
<1>3. UNCHANGED <<attempts, outputs, durable, result, record>>
  BY DEF StartExport, keptFiles
<1>4. CASE Refusal(r) = "none"
  <2> DEFINE l == [Waiting EXCEPT !.at = "output", !.run = r, !.dir = d]
  <2>1. Turn(x, l)
    BY <1>4 DEF StartExport
  <2>2. l \in Commands /\ l.at = "output" /\ l.run = r /\ l.dir = d
    BY DEF Waiting, Commands, CommandStages, Exporting
  <2>3. RequiredBy(l)
    BY <2>2, OthersRequireNothing DEF Confirming
  <2> HIDE DEF l
  <2>4. /\ DOMAIN cmd' = DOMAIN cmd /\ cmd'[x] = l /\ \A y \in DOMAIN cmd \ {x} : cmd'[y] = cmd[y]
        /\ cmd' \in [DOMAIN cmd' -> Commands'] /\ \A y \in DOMAIN cmd' : CommandOK(y)'
    BY <1>1, <2>1, <2>2, TurnTypes
  <2>5. RequiredBy(cmd'[x])
    BY <2>3, <2>4
  <2>6. QED
    BY <1>2, <1>3, <2>4, <2>5, QuietTurn
<1>5. CASE Refusal(r) # "none"
  <2>1. cmd' = cmd
    BY <1>5 DEF StartExport
  <2>2. cmd \in [DOMAIN cmd -> Commands] /\ \A y \in DOMAIN cmd : CommandOK(y)
    BY DEF ConfirmTypeOK
  <2>3. \A y \in DOMAIN cmd' : CommandOK(y)'
    BY <2>1, <2>2, <1>1 DEF CommandOK
  <2>4. QED
    BY <1>1, <1>2, <1>3, <2>1, <2>2, <2>3, QuietTurn
<1>6. QED
  BY <1>4, <1>5

(* What a directory holds after a write.                                   *)
LEMMA PutHolds ==
  ASSUME ConfirmTypeOK, NEW x \in DOMAIN cmd, cmd[x].at \in Exporting, NEW kind \in {"dir", "workflow", "evidence"},
         outputs' = [outputs EXCEPT ![cmd[x].dir] = Holding(@, kind, IF kind = "dir" THEN 0 ELSE cmd[x].run)]
  PROVE  /\ outputs' \in [Dirs -> SUBSET Files] /\ cmd[x].dir \in Dirs
         /\ \A d \in Dirs \ {cmd[x].dir} : outputs'[d] = outputs[d]
         /\ outputs'[cmd[x].dir] = {f \in outputs[cmd[x].dir] : f.kind # kind} \cup
                                   {File(kind, IF kind = "dir" THEN 0 ELSE cmd[x].run)}
<1> DEFINE r == IF kind = "dir" THEN 0 ELSE cmd[x].run
           held == {f \in outputs[cmd[x].dir] : f.kind # kind} \cup {File(kind, r)}
<1>1. cmd[x].dir \in Dirs /\ cmd[x] \in Commands /\ outputs \in [Dirs -> SUBSET Files]
  BY DEF ConfirmTypeOK, CommandOK
<1>2. r \in Recorded \cup {0}
  BY <1>1 DEF Commands
<1>3. File(kind, r) \in Files
  BY <1>2 DEF File, Files
<1>4. held \in SUBSET Files
  BY <1>1, <1>3
<1>5. outputs' = [outputs EXCEPT ![cmd[x].dir] = held]
  BY DEF Holding, File
<1> HIDE DEF held
<1>6. /\ outputs' \in [Dirs -> SUBSET Files] /\ outputs'[cmd[x].dir] = held
      /\ \A d \in Dirs \ {cmd[x].dir} : outputs'[d] = outputs[d]
  BY <1>1, <1>4, <1>5
<1>7. QED
  BY <1>1, <1>6 DEF held

LEMMA DurableHolds ==
  ASSUME ConfirmTypeOK, NEW x \in DOMAIN cmd, cmd[x].at # "idle", NEW kind \in Exported,
         durable' = [durable EXCEPT ![cmd[x].run] = @ \cup {kind}]
  PROVE  /\ durable' \in [Recorded -> SUBSET Exported] /\ cmd[x].run \in Recorded
         /\ durable'[cmd[x].run] = durable[cmd[x].run] \cup {kind}
         /\ \A r \in Recorded \ {cmd[x].run} : durable'[r] = durable[r]
BY DEF ConfirmTypeOK, CommandOK

LEMMA ExportTurns ==
  ASSUME ConfirmTypeOK, Earned, flow' = flow, lock' = lock, hub' = hub, NEW x \in DOMAIN cmd,
         \/ CheckOutput(x) \/ MakeOutput(x) \/ WriteOutputWorkflow(x) \/ WriteOutputEvidence(x) \/ CheckDurable(x)
         \/ MakeDurable(x) \/ WriteDurableWorkflow(x) \/ WriteDurableEvidence(x) \/ WriteManifest(x)
  PROVE  ConfirmTypeOK' /\ Earned'
<1>1. outputs \in [Dirs -> SUBSET Files] /\ durable \in [Recorded -> SUBSET Exported]
  BY DEF ConfirmTypeOK
<1>2. ASSUME NEW stage \in {"output", "durable"}, cmd[x].at = stage, NEW next \in Exporting,
             Turn(x, Waiting) \/ At(x, next), UNCHANGED <<attempts, outputs, durable, result, record>>
      PROVE  ConfirmTypeOK' /\ Earned'
  <2>1. cmd[x].at \in Exporting
    BY <1>2 DEF Exporting, Keeping
  <2>2. QED
    BY <1>1, <1>2, <2>1, ExportAt, ExportEnds
<1>3. ASSUME NEW stage \in Exporting, NEW kind \in {"dir", "workflow", "evidence"}, NEW next \in Exporting,
             PutOutput(x, stage, kind, next)
      PROVE  ConfirmTypeOK' /\ Earned'
  <2>1. /\ cmd[x].at \in Exporting /\ At(x, next) /\ UNCHANGED <<attempts, durable, result, record>>
        /\ outputs' = [outputs EXCEPT ![cmd[x].dir] = Holding(@, kind, IF kind = "dir" THEN 0 ELSE cmd[x].run)]
    BY <1>3 DEF PutOutput
  <2>2. outputs' \in [Dirs -> SUBSET Files]
    BY <2>1, PutHolds
  <2>3. QED
    BY <1>1, <2>1, <2>2, ExportAt
<1>4. ASSUME NEW stage \in Exporting, NEW kind \in Exported, PutDurable(x, stage, kind),
             Turn(x, Waiting) \/ \E next \in Exporting : At(x, next)
      PROVE  ConfirmTypeOK' /\ Earned'
  <2>1. /\ cmd[x].at \in Exporting /\ UNCHANGED <<attempts, outputs, result, record>>
        /\ durable' = [durable EXCEPT ![cmd[x].run] = @ \cup {kind}]
    BY <1>4 DEF PutDurable
  <2>2. cmd[x].at # "idle"
    BY <2>1 DEF Exporting, Preparing, Keeping
  <2>3. durable' \in [Recorded -> SUBSET Exported]
    BY <2>1, <2>2, DurableHolds
  <2>4. QED
    BY <1>1, <1>4, <2>1, <2>3, ExportAt, ExportEnds
<1>5. {"output", "mkOutput", "outWorkflow", "outEvidence", "durable", "mkDurable", "durWorkflow", "durEvidence", "manifest"}
        \subseteq Exporting
  BY DEF Exporting, Preparing, Keeping
<1>6. {"dir", "workflow", "evidence", "manifest"} \subseteq Exported
  BY DEF Exported
<1>7. CASE CheckOutput(x)
  <2>1. /\ cmd[x].at = "output" /\ (Turn(x, Waiting) \/ At(x, "mkOutput"))
        /\ UNCHANGED <<attempts, outputs, durable, result, record>>
    BY <1>7 DEF CheckOutput, End, keptFiles
  <2>2. QED
    BY <1>2, <1>5, <2>1
<1>8. CASE CheckDurable(x)
  <2>1. /\ cmd[x].at = "durable" /\ (Turn(x, Waiting) \/ At(x, "mkDurable"))
        /\ UNCHANGED <<attempts, outputs, durable, result, record>>
    BY <1>8 DEF CheckDurable, End, keptFiles
  <2>2. QED
    BY <1>2, <1>5, <2>1
<1>9. CASE MakeOutput(x) \/ WriteOutputWorkflow(x) \/ WriteOutputEvidence(x)
  BY <1>3, <1>5, <1>9 DEF MakeOutput, WriteOutputWorkflow, WriteOutputEvidence
<1>10. CASE MakeDurable(x) \/ WriteDurableWorkflow(x) \/ WriteDurableEvidence(x)
  BY <1>4, <1>5, <1>6, <1>10 DEF MakeDurable, WriteDurableWorkflow, WriteDurableEvidence
<1>11. CASE WriteManifest(x)
  BY <1>4, <1>5, <1>6, <1>11 DEF WriteManifest, Report
<1>12. QED
  BY <1>7, <1>8, <1>9, <1>10, <1>11

LEMMA NextEarned ==
  ASSUME ConfirmTypeOK, Earned, [ConfirmNext]_confirmVars
  PROVE  ConfirmTypeOK' /\ Earned'
<1>1. flow' = flow /\ lock' = lock /\ hub' = hub /\ Recorded' = Recorded /\ Commands' = Commands /\ Files' = Files
      /\ Attempted' = Attempted
  BY FixedStay
<1>2. CASE UNCHANGED <<attempts, outputs, durable, result, record, cmd>>
  <2>1. \A y \in DOMAIN cmd : CommandOK(y)' = CommandOK(y)
    BY <1>1, <1>2 DEF CommandOK
  <2>2. ConfirmTypeOK'
    BY <1>1, <1>2, <2>1 DEF ConfirmTypeOK
  <2>3. QED
    BY <1>1, <1>2, <2>2, QuietStep
<1>3. CASE RunAttempt
  <2>1. /\ attempts' \in Seq(Attempted) /\ UNCHANGED <<outputs, durable, result, record, cmd>>
        /\ \A n \in DOMAIN attempts : n \in DOMAIN attempts' /\ attempts'[n] = attempts[n]
    BY <1>3, AttemptGrows
  <2>2. \A y \in DOMAIN cmd : CommandOK(y)' = CommandOK(y)
    BY <1>1, <2>1 DEF CommandOK
  <2>3. ConfirmTypeOK'
    BY <1>1, <2>1, <2>2 DEF ConfirmTypeOK
  <2>4. QED
    BY <1>1, <2>1, <2>3, QuietStep
<1>4. ASSUME NEW x \in DOMAIN cmd, NEW r \in Recorded, StartConfirm(x, r) \/ \E d \in Dirs : StartExport(x, r, d)
      PROVE  ConfirmTypeOK' /\ Earned'
  BY <1>1, <1>4, StartConfirmTurns, StartExportTurns
<1>5. ASSUME NEW x \in DOMAIN cmd,
             \/ CheckOutput(x) \/ MakeOutput(x) \/ WriteOutputWorkflow(x) \/ WriteOutputEvidence(x) \/ CheckDurable(x)
             \/ MakeDurable(x) \/ WriteDurableWorkflow(x) \/ WriteDurableEvidence(x) \/ WriteManifest(x)
      PROVE  ConfirmTypeOK' /\ Earned'
  BY <1>1, <1>5, ExportTurns
<1>6. ASSUME NEW x \in DOMAIN cmd,
             \/ FetchRun(x) \/ FetchWorkflow(x) \/ FetchJobs(x) \/ FetchArtifacts(x) \/ FetchArchive(x)
             \/ WriteResult(x) \/ WriteRecord(x) \/ Abort(x)
      PROVE  ConfirmTypeOK' /\ Earned'
  BY <1>1, <1>6, ConfirmationTurns, WriteResultEarned, WriteRecordEarned
<1>7. QED
  BY <1>2, <1>3, <1>4, <1>5, <1>6 DEF ConfirmNext, confirmVars

LEMMA DurableStep ==
  ASSUME ConfirmTypeOK, DurableGrows, Recorded' = Recorded, \A r \in Recorded : durable[r] \subseteq durable'[r],
         \A y \in DOMAIN cmd' : (y \in DOMAIN cmd /\ cmd'[y] = cmd[y]) \/ KeptBy(cmd[y])',
         \A t \in told' : t \in told \/ (t.what = "exported" => t.run \in Recorded /\ t.dir \in Dirs /\ Kept(t.run, Exported)')
  PROVE  DurableGrows'
<1>1. \A kinds : \A r \in Recorded : Kept(r, kinds) => Kept(r, kinds)'
  BY DEF Kept
<1>2. ASSUME NEW y \in DOMAIN cmd' PROVE KeptBy(cmd[y])'
  <2>1. CASE y \in DOMAIN cmd /\ cmd'[y] = cmd[y]
    <3>1. KeptBy(cmd[y]) /\ (cmd[y].at # "idle" => cmd[y].run \in Recorded)
      BY <2>1 DEF DurableGrows, ConfirmTypeOK, CommandOK, KeptBy
    <3>2. QED
      BY <2>1, <3>1, <1>1 DEF KeptBy
  <2>2. QED
    BY <2>1
<1>3. \A t \in told' : t.what = "exported" => t.run \in Recorded /\ t.dir \in Dirs /\ Kept(t.run, Exported)'
  BY <1>1 DEF DurableGrows
<1>4. QED
  BY <1>2, <1>3 DEF DurableGrows, KeptBy

LEMMA TurnedAway ==
  ASSUME ConfirmTypeOK, DurableGrows, Recorded' = Recorded, durable' = durable, NEW x \in DOMAIN cmd, NEW l, Turn(x, l),
         l.at \notin {"durWorkflow", "durEvidence", "manifest"}, \A t \in told' : t \in told \/ t.what # "exported"
  PROVE  DurableGrows'
<1>1. DOMAIN cmd' = DOMAIN cmd /\ cmd'[x] = l /\ \A y \in DOMAIN cmd \ {x} : cmd'[y] = cmd[y]
  BY DEF Turn, ConfirmTypeOK
<1>2. KeptBy(cmd[x])'
  BY <1>1 DEF KeptBy
<1>3. \A y \in DOMAIN cmd' : (y \in DOMAIN cmd /\ cmd'[y] = cmd[y]) \/ KeptBy(cmd[y])'
  BY <1>1, <1>2
<1>4. QED
  BY <1>3, DurableStep

LEMMA AtStage ==
  ASSUME ConfirmTypeOK, NEW x \in DOMAIN cmd, NEW stage, At(x, stage)
  PROVE  /\ DOMAIN cmd' = DOMAIN cmd /\ \A y \in DOMAIN cmd \ {x} : cmd'[y] = cmd[y]
         /\ cmd'[x].at = stage /\ cmd'[x].run = cmd[x].run /\ cmd'[x].dir = cmd[x].dir
         /\ \E l : Turn(x, l) /\ l.at = stage
<1>1. cmd[x] \in Commands
  BY DEF ConfirmTypeOK
<1>2. PICK l : l = [cmd[x] EXCEPT !.at = stage]
  OBVIOUS
<1>3. l.at = stage /\ l.run = cmd[x].run /\ l.dir = cmd[x].dir
  BY <1>1, <1>2 DEF Commands
<1>4. Turn(x, l)
  BY <1>2 DEF At
<1>5. DOMAIN cmd' = DOMAIN cmd /\ cmd'[x] = l /\ \A y \in DOMAIN cmd \ {x} : cmd'[y] = cmd[y]
  BY <1>4 DEF Turn, ConfirmTypeOK
<1>6. QED
  BY <1>3, <1>4, <1>5

LEMMA DurablePut ==
  ASSUME ConfirmTypeOK, DurableGrows, Recorded' = Recorded, NEW x \in DOMAIN cmd, NEW stage, NEW kind \in Exported,
         cmd[x].at # "idle", PutDurable(x, stage, kind), NEW next, At(x, next), UNCHANGED told,
         next = "durWorkflow" => {"dir"} \subseteq durable[cmd[x].run] \cup {kind},
         next = "durEvidence" => {"dir", "workflow"} \subseteq durable[cmd[x].run] \cup {kind},
         next = "manifest" => {"dir", "workflow", "evidence"} \subseteq durable[cmd[x].run] \cup {kind}
  PROVE  DurableGrows'
<1>1. durable' = [durable EXCEPT ![cmd[x].run] = @ \cup {kind}]
  BY DEF PutDurable
<1>2. /\ cmd[x].run \in Recorded /\ durable'[cmd[x].run] = durable[cmd[x].run] \cup {kind}
      /\ \A r \in Recorded \ {cmd[x].run} : durable'[r] = durable[r]
  BY <1>1, DurableHolds
<1>3. \A r \in Recorded : durable[r] \subseteq durable'[r]
  BY <1>2
<1>4. /\ DOMAIN cmd' = DOMAIN cmd /\ \A y \in DOMAIN cmd \ {x} : cmd'[y] = cmd[y]
      /\ cmd'[x].at = next /\ cmd'[x].run = cmd[x].run
  BY AtStage
<1>5. KeptBy(cmd[x])'
  BY <1>2, <1>4 DEF KeptBy, Kept
<1>6. \A y \in DOMAIN cmd' : (y \in DOMAIN cmd /\ cmd'[y] = cmd[y]) \/ KeptBy(cmd[y])'
  BY <1>4, <1>5
<1>7. QED
  BY <1>3, <1>6, DurableStep

LEMMA NextDurable ==
  ASSUME ConfirmTypeOK, Earned, DurableGrows, [ConfirmNext]_confirmVars
  PROVE  DurableGrows'
<1>0. Recorded' = Recorded
  BY FixedStay
<1>1. \A x \in DOMAIN cmd : KeptBy(cmd[x]) /\ RequiredBy(cmd[x]) /\ CommandOK(x)
  BY DEF DurableGrows, KeptBy, Earned, StagesAreEarned, ConfirmTypeOK
<1>2. CASE UNCHANGED <<durable, cmd, told>>
  BY <1>0, <1>2, DurableStep
<1>3. CASE RunAttempt
  BY <1>0, <1>2, <1>3, AttemptGrows
<1>4. ASSUME NEW x \in DOMAIN cmd, NEW r \in Recorded, StartConfirm(x, r) PROVE DurableGrows'
  <2>1. durable' = durable
    BY <1>4 DEF StartConfirm, keptFiles
  <2>2. CASE "evidence" \in durable[r] /\ matches_lock(Evidence(flow, lock[r]), lock[r])
    <3> DEFINE l == [Waiting EXCEPT !.at = "run", !.run = r, !.local = result[r].conclusion]
    <3>1. Turn(x, l) /\ told' = told
      BY <1>4, <2>2 DEF StartConfirm
    <3>2. l.at = "run"
      BY DEF Waiting
    <3> HIDE DEF l
    <3>3. QED
      BY <1>0, <2>1, <3>1, <3>2, TurnedAway
  <2>3. CASE ~("evidence" \in durable[r] /\ matches_lock(Evidence(flow, lock[r]), lock[r]))
    <3>1. cmd' = cmd /\ told' = told \cup {[what |-> "noEvidence", run |-> r, dir |-> "none"]}
      BY <1>4, <2>3 DEF StartConfirm
    <3>2. \A t \in told' : t \in told \/ t.what # "exported"
      BY <3>1
    <3>3. QED
      BY <1>0, <2>1, <3>1, <3>2, DurableStep
  <2>4. QED
    BY <2>2, <2>3
<1>5. ASSUME NEW x \in DOMAIN cmd, NEW r \in Recorded, NEW d \in Dirs, StartExport(x, r, d) PROVE DurableGrows'
  <2>1. durable' = durable
    BY <1>5 DEF StartExport, keptFiles
  <2>2. CASE Refusal(r) = "none"
    <3> DEFINE l == [Waiting EXCEPT !.at = "output", !.run = r, !.dir = d]
    <3>1. Turn(x, l) /\ told' = told
      BY <1>5, <2>2 DEF StartExport
    <3>2. l.at = "output"
      BY DEF Waiting
    <3> HIDE DEF l
    <3>3. QED
      BY <1>0, <2>1, <3>1, <3>2, TurnedAway
  <2>3. CASE Refusal(r) # "none"
    <3>1. cmd' = cmd /\ told' = told \cup {[what |-> Refusal(r), run |-> r, dir |-> "none"]}
      BY <1>5, <2>3 DEF StartExport
    <3>2. Refusal(r) # "exported"
      BY DEF Refusal
    <3>3. \A t \in told' : t \in told \/ t.what # "exported"
      BY <3>1, <3>2
    <3>4. QED
      BY <1>0, <2>1, <3>1, <3>3, DurableStep
  <2>4. QED
    BY <2>2, <2>3
<1>6. ASSUME NEW x \in DOMAIN cmd, NEW next \in {"mkOutput", "outWorkflow", "outEvidence", "durable", "mkDurable", "record"},
             At(x, next) \/ Turn(x, Waiting), UNCHANGED <<durable, told>>
      PROVE  DurableGrows'
  <2>1. PICK l : Turn(x, l) /\ (l.at = next \/ l.at = "idle")
    BY <1>6, AtStage, WaitingIsCommand
  <2>2. QED
    BY <1>0, <1>6, <2>1, TurnedAway
<1>7. ASSUME NEW x \in DOMAIN cmd,
             CheckOutput(x) \/ MakeOutput(x) \/ WriteOutputWorkflow(x) \/ WriteOutputEvidence(x) \/ CheckDurable(x)
             \/ WriteResult(x) \/ WriteRecord(x) \/ Abort(x)
      PROVE  DurableGrows'
  <2>1. CASE CheckOutput(x)
    BY <1>6, <2>1 DEF CheckOutput, End, keptFiles
  <2>2. CASE MakeOutput(x) \/ WriteOutputWorkflow(x) \/ WriteOutputEvidence(x)
    BY <1>6, <2>2 DEF MakeOutput, WriteOutputWorkflow, WriteOutputEvidence, PutOutput
  <2>3. CASE CheckDurable(x)
    BY <1>6, <2>3 DEF CheckDurable, End, keptFiles
  <2>4. CASE WriteResult(x)
    BY <1>6, <2>4 DEF WriteResult
  <2>5. CASE WriteRecord(x)
    BY <1>6, <2>5 DEF WriteRecord, End
  <2>6. CASE Abort(x)
    BY <1>6, <2>6 DEF Abort, keptFiles
  <2>7. QED
    BY <1>7, <2>1, <2>2, <2>3, <2>4, <2>5, <2>6
<1>8. ASSUME NEW x \in DOMAIN cmd,
             FetchRun(x) \/ FetchWorkflow(x) \/ FetchJobs(x) \/ FetchArtifacts(x) \/ FetchArchive(x)
      PROVE  DurableGrows'
  <2>1. UNCHANGED <<durable, told>>
    BY <1>1, <1>8, RequestAdvances
  <2>2. PICK l \in Commands : Turn(x, l) /\ Advances(x, l)
    BY <1>1, <1>8, RequestAdvances
  <2>3. l.at \notin {"durWorkflow", "durEvidence", "manifest"}
    BY <2>2, WaitingIsCommand DEF Advances, Confirming
  <2>4. QED
    BY <1>0, <2>1, <2>2, <2>3, TurnedAway
<1>9. "dir" \in Exported /\ "workflow" \in Exported /\ "evidence" \in Exported /\ "manifest" \in Exported
  BY DEF Exported
<1>10. ASSUME NEW x \in DOMAIN cmd, MakeDurable(x) PROVE DurableGrows'
  <2>1. PutDurable(x, "mkDurable", "dir") /\ At(x, "durWorkflow") /\ told' = told /\ cmd[x].at # "idle"
    BY <1>10 DEF MakeDurable, PutDurable
  <2>2. QED
    BY <1>0, <1>9, <2>1, DurablePut
<1>11. ASSUME NEW x \in DOMAIN cmd, WriteDurableWorkflow(x) PROVE DurableGrows'
  <2>1. PutDurable(x, "durWorkflow", "workflow") /\ At(x, "durEvidence") /\ told' = told /\ cmd[x].at = "durWorkflow"
    BY <1>11 DEF WriteDurableWorkflow, PutDurable
  <2>2. {"dir", "workflow"} \subseteq durable[cmd[x].run] \cup {"workflow"}
    BY <1>1, <2>1 DEF KeptBy, Kept
  <2>3. QED
    BY <1>0, <1>9, <2>1, <2>2, DurablePut
<1>12. ASSUME NEW x \in DOMAIN cmd, WriteDurableEvidence(x) PROVE DurableGrows'
  <2>1. PutDurable(x, "durEvidence", "evidence") /\ At(x, "manifest") /\ told' = told /\ cmd[x].at = "durEvidence"
    BY <1>12 DEF WriteDurableEvidence, PutDurable
  <2>2. {"dir", "workflow", "evidence"} \subseteq durable[cmd[x].run] \cup {"evidence"}
    BY <1>1, <2>1 DEF KeptBy, Kept
  <2>3. QED
    BY <1>0, <1>9, <2>1, <2>2, DurablePut
<1>13. ASSUME NEW x \in DOMAIN cmd, WriteManifest(x) PROVE DurableGrows'
  <2>1. /\ cmd[x].at = "manifest" /\ durable' = [durable EXCEPT ![cmd[x].run] = @ \cup {"manifest"}]
        /\ Turn(x, Waiting) /\ told' = told \cup {[what |-> "exported", run |-> cmd[x].run, dir |-> cmd[x].dir]}
    BY <1>13 DEF WriteManifest, PutDurable, Report
  <2>2. /\ cmd[x].run \in Recorded /\ durable'[cmd[x].run] = durable[cmd[x].run] \cup {"manifest"}
        /\ \A r \in Recorded \ {cmd[x].run} : durable'[r] = durable[r]
    BY <1>9, <2>1, DurableHolds
  <2>3. \A r \in Recorded : durable[r] \subseteq durable'[r]
    BY <2>2
  <2>4. cmd[x].dir \in Dirs
    BY <1>1, <2>1 DEF CommandOK, Exporting, Keeping
  <2>5. Exported \subseteq durable'[cmd[x].run]
    <3>1. Exported \subseteq durable[cmd[x].run] \cup {"manifest"}
      BY <1>1, <2>1 DEF KeptBy, Kept, Exported
    <3>2. QED
      BY <2>2, <3>1
  <2>6. DOMAIN cmd' = DOMAIN cmd /\ cmd'[x] = Waiting /\ \A y \in DOMAIN cmd \ {x} : cmd'[y] = cmd[y]
    BY <2>1 DEF Turn, ConfirmTypeOK
  <2>7. KeptBy(cmd[x])'
    BY <2>6, WaitingIsCommand DEF KeptBy
  <2>8. \A y \in DOMAIN cmd' : (y \in DOMAIN cmd /\ cmd'[y] = cmd[y]) \/ KeptBy(cmd[y])'
    BY <2>6, <2>7
  <2>9. \A t \in told' : t \in told \/ (t.what = "exported" => t.run \in Recorded /\ t.dir \in Dirs /\ Kept(t.run, Exported)')
    <3> SUFFICES ASSUME NEW t \in told', t \notin told PROVE t.run \in Recorded /\ t.dir \in Dirs /\ Kept(t.run, Exported)'
      OBVIOUS
    <3>1. t.run = cmd[x].run /\ t.dir = cmd[x].dir
      BY <2>1
    <3>2. QED
      BY <2>2, <2>4, <2>5, <3>1 DEF Kept
  <2>10. QED
    BY <1>0, <2>3, <2>8, <2>9, DurableStep
<1>14. QED
  BY <1>2, <1>3, <1>4, <1>5, <1>7, <1>8, <1>10, <1>11, <1>12, <1>13 DEF ConfirmNext, confirmVars

(* A step after which a directory holds what it held, and no command is    *)
(* further in it than before.                                              *)
LEMMA OutputQuiet ==
  ASSUME NEW d \in Dirs, OneWriter(d), WholeIn(d), outputs'[d] = outputs[d],
         \A t \in told' : t \in told \/ t.what # "exported",
         \A y \in DOMAIN cmd' :
           /\ y \in DOMAIN cmd
           /\ \/ cmd'[y] = cmd[y] \/ cmd'[y].at \notin Preparing \cup Keeping \/ cmd'[y].dir # d
              \/ cmd[y].at \in Keeping /\ cmd'[y].at \in Keeping /\ cmd'[y].run = cmd[y].run /\ cmd'[y].dir = cmd[y].dir
  PROVE  OneWriter(d)' /\ WholeIn(d)'
<1>0. \A s : ~(s \in Preparing /\ s \in Keeping)
  BY DEF Preparing, Keeping
<1>1. \A y \in DOMAIN cmd' : Writes(y, d)' => Writes(y, d) /\ cmd'[y] = cmd[y]
  BY <1>0 DEF Writes
<1>2. \A y \in DOMAIN cmd' : cmd'[y].at \in Keeping /\ cmd'[y].dir = d =>
        cmd[y].at \in Keeping /\ cmd[y].dir = d /\ cmd'[y].run = cmd[y].run
  OBVIOUS
<1>3. OneWriter(d)'
  <2> SUFFICES ASSUME NEW x \in DOMAIN cmd', Writes(x, d)'
               PROVE  /\ \A y \in DOMAIN cmd' : Writes(y, d)' => x = y
                      /\ \A y \in DOMAIN cmd' : cmd'[y].at \in Keeping => cmd'[y].dir # d
                      /\ \A t \in told' : t.what = "exported" => t.dir # d
                      /\ cmd'[x].at = "mkOutput" => outputs'[d] = {}
                      /\ cmd'[x].at # "mkOutput" => outputs'[d] # {}
                      /\ cmd'[x].at = "outEvidence" => File("workflow", cmd'[x].run) \in outputs'[d]
    BY DEF OneWriter, File
  <2>1. Writes(x, d) /\ cmd'[x] = cmd[x] /\ x \in DOMAIN cmd
    BY <1>1
  <2>2. \A y \in DOMAIN cmd' : Writes(y, d)' => x = y
    BY <1>1, <2>1 DEF OneWriter
  <2>3. \A y \in DOMAIN cmd' : cmd'[y].at \in Keeping => cmd'[y].dir # d
    BY <1>2, <2>1 DEF OneWriter
  <2>4. \A t \in told' : t.what = "exported" => t.dir # d
    BY <2>1 DEF OneWriter
  <2>5. /\ cmd'[x].at = "mkOutput" => outputs'[d] = {}
        /\ cmd'[x].at # "mkOutput" => outputs'[d] # {}
        /\ cmd'[x].at = "outEvidence" => File("workflow", cmd'[x].run) \in outputs'[d]
    BY <2>1 DEF OneWriter
  <2>6. QED
    BY <2>2, <2>3, <2>4, <2>5
<1>4. WholeIn(d)'
  <2>1. \A r : Finished(d, r)' = Finished(d, r)
    BY DEF Finished, File
  <2>2. \A x \in DOMAIN cmd' : cmd'[x].at \in Keeping /\ cmd'[x].dir = d => Finished(d, cmd'[x].run)
    BY <1>2 DEF WholeIn
  <2>3. \A t \in told' : t.what = "exported" /\ t.dir = d => Finished(d, t.run)
    BY DEF WholeIn
  <2>4. QED
    BY <2>1, <2>2, <2>3 DEF WholeIn, Finished, File
<1>5. QED
  BY <1>3, <1>4

LEMMA CheckOutputWhole ==
  ASSUME ConfirmTypeOK, NEW x \in DOMAIN cmd, CheckOutput(x), NEW d \in Dirs, d \notin raced', OneWriter(d), WholeIn(d)
  PROVE  OneWriter(d)' /\ WholeIn(d)'
<1>1. /\ cmd[x].at = "output" /\ outputs' = outputs
      /\ raced' = raced \cup {e \in Dirs : /\ e = cmd[x].dir /\ outputs[e] = {}
                                           /\ \E y \in DOMAIN cmd : cmd[y].at = "mkOutput" /\ cmd[y].dir = e}
  BY DEF CheckOutput, keptFiles
<1>2. CASE outputs[cmd[x].dir] # {}
  <2>1. Turn(x, Waiting) /\ told' = told
    BY <1>2 DEF CheckOutput, End
  <2>2. DOMAIN cmd' = DOMAIN cmd /\ cmd'[x] = Waiting /\ \A y \in DOMAIN cmd \ {x} : cmd'[y] = cmd[y]
    BY <2>1 DEF Turn, ConfirmTypeOK
  <2>3. cmd'[x].at \notin Preparing \cup Keeping
    BY <2>2, WaitingIsCommand DEF Preparing, Keeping
  <2>4. QED
    BY <1>1, <2>1, <2>2, <2>3, OutputQuiet
<1>3. CASE outputs[cmd[x].dir] = {}
  <2>1. At(x, "mkOutput") /\ told' = told
    BY <1>3 DEF CheckOutput
  <2>2. /\ DOMAIN cmd' = DOMAIN cmd /\ \A y \in DOMAIN cmd \ {x} : cmd'[y] = cmd[y]
        /\ cmd'[x].at = "mkOutput" /\ cmd'[x].run = cmd[x].run /\ cmd'[x].dir = cmd[x].dir
    BY <2>1, AtStage
  <2>3. CASE cmd[x].dir # d
    BY <1>1, <2>1, <2>2, <2>3, OutputQuiet
  <2>4. CASE cmd[x].dir = d
    <3>1. \A y \in DOMAIN cmd : ~Writes(y, d)
      <4> SUFFICES ASSUME NEW y \in DOMAIN cmd, Writes(y, d) PROVE FALSE
        OBVIOUS
      <4>1. cmd[y].at # "mkOutput"
        BY <1>1, <1>3, <2>4 DEF Writes
      <4>2. QED
        BY <4>1, <1>3, <2>4 DEF OneWriter
    <3>2. \A y \in DOMAIN cmd : cmd[y].at \in Keeping => cmd[y].dir # d
      BY <1>3, <2>4 DEF WholeIn, Finished
    <3>3. \A t \in told : t.what = "exported" => t.dir # d
      BY <1>3, <2>4 DEF WholeIn, Finished
    <3>4. \A y \in DOMAIN cmd' : Writes(y, d)' => y = x
      BY <2>2, <3>1 DEF Writes
    <3>5. \A y \in DOMAIN cmd' : cmd'[y].at \in Keeping => cmd'[y].dir # d
      BY <2>2, <3>2 DEF Keeping
    <3>6. OneWriter(d)'
      BY <1>1, <1>3, <2>1, <2>2, <2>4, <3>3, <3>4, <3>5 DEF OneWriter
    <3>7. WholeIn(d)'
      BY <2>1, <3>3, <3>5 DEF WholeIn
    <3>8. QED
      BY <3>6, <3>7
  <2>5. QED
    BY <2>3, <2>4
<1>4. QED
  BY <1>2, <1>3

LEMMA PutOutputWhole ==
  ASSUME ConfirmTypeOK, NEW x \in DOMAIN cmd, MakeOutput(x) \/ WriteOutputWorkflow(x) \/ WriteOutputEvidence(x),
         NEW d \in Dirs, OneWriter(d), WholeIn(d)
  PROVE  OneWriter(d)' /\ WholeIn(d)'
<1>1. PICK stage \in Preparing, kind \in {"dir", "workflow", "evidence"}, next \in Preparing \cup Keeping :
        /\ PutOutput(x, stage, kind, next)
        /\ \/ stage = "mkOutput" /\ kind = "dir" /\ next = "outWorkflow"
           \/ stage = "outWorkflow" /\ kind = "workflow" /\ next = "outEvidence"
           \/ stage = "outEvidence" /\ kind = "evidence" /\ next = "durable"
  BY DEF MakeOutput, WriteOutputWorkflow, WriteOutputEvidence, Preparing, Keeping
<1>2. /\ cmd[x].at = stage /\ At(x, next) /\ told' = told
      /\ outputs' = [outputs EXCEPT ![cmd[x].dir] = Holding(@, kind, IF kind = "dir" THEN 0 ELSE cmd[x].run)]
  BY <1>1 DEF PutOutput
<1>3. cmd[x].at \in Exporting
  BY <1>2 DEF Exporting
<1>4. /\ cmd[x].dir \in Dirs /\ \A e \in Dirs \ {cmd[x].dir} : outputs'[e] = outputs[e]
      /\ outputs'[cmd[x].dir] = {f \in outputs[cmd[x].dir] : f.kind # kind} \cup
                                {File(kind, IF kind = "dir" THEN 0 ELSE cmd[x].run)}
  BY <1>2, <1>3, PutHolds
<1>5. /\ DOMAIN cmd' = DOMAIN cmd /\ \A y \in DOMAIN cmd \ {x} : cmd'[y] = cmd[y]
      /\ cmd'[x].at = next /\ cmd'[x].run = cmd[x].run /\ cmd'[x].dir = cmd[x].dir
  BY <1>2, AtStage
<1>6. CASE cmd[x].dir # d
  <2>1. outputs'[d] = outputs[d]
    BY <1>4, <1>6
  <2>2. QED
    BY <1>2, <1>5, <1>6, <2>1, OutputQuiet
<1>7. CASE cmd[x].dir = d
  <2>1. Writes(x, d)
    BY <1>2, <1>7 DEF Writes
  <2>2. /\ \A y \in DOMAIN cmd : Writes(y, d) => x = y
        /\ \A y \in DOMAIN cmd : cmd[y].at \in Keeping => cmd[y].dir # d
        /\ \A t \in told : t.what = "exported" => t.dir # d
        /\ cmd[x].at = "outEvidence" => File("workflow", cmd[x].run) \in outputs[d]
    BY <2>1 DEF OneWriter
  <2>3. \A y \in DOMAIN cmd' : Writes(y, d)' => y = x
    BY <1>5, <2>2 DEF Writes
  <2>4. \A y \in DOMAIN cmd' : cmd'[y].at \in Keeping /\ cmd'[y].dir = d => y = x
    BY <1>5, <2>2
  <2>5. outputs'[d] # {}
    BY <1>4, <1>7
  <2>6. kind = "workflow" => File("workflow", cmd[x].run) \in outputs'[d]
    BY <1>4, <1>7
  <2>7. kind = "evidence" => File("evidence", cmd[x].run) \in outputs'[d] /\ File("workflow", cmd[x].run) \in outputs'[d]
    <3> SUFFICES ASSUME kind = "evidence"
                 PROVE  File("evidence", cmd[x].run) \in outputs'[d] /\ File("workflow", cmd[x].run) \in outputs'[d]
      OBVIOUS
    <3>1. File("workflow", cmd[x].run).kind # kind
      BY DEF File
    <3>2. File("workflow", cmd[x].run) \in outputs[d]
      BY <1>1, <1>2, <2>2
    <3>3. QED
      BY <1>4, <1>7, <3>1, <3>2
  <2>8. CASE next \in Preparing
    <3>1. next # "mkOutput" /\ next \notin Keeping /\ (next = "outEvidence" => kind = "workflow")
      BY <1>1, <2>8 DEF Keeping, Preparing
    <3>2. OneWriter(d)'
      BY <1>2, <1>5, <2>2, <2>3, <2>4, <2>5, <2>6, <3>1 DEF OneWriter, File
    <3>3. WholeIn(d)'
      BY <1>2, <1>5, <2>2, <2>4, <3>1 DEF WholeIn
    <3>4. QED
      BY <3>2, <3>3
  <2>9. CASE next \notin Preparing
    <3>1. kind = "evidence"
      BY <1>1, <2>9 DEF Preparing
    <3>2. \A y \in DOMAIN cmd' : ~Writes(y, d)'
      BY <1>5, <2>3, <2>9 DEF Writes
    <3>3. OneWriter(d)'
      BY <3>2 DEF OneWriter
    <3>4. WholeIn(d)'
      BY <1>2, <1>5, <2>2, <2>4, <2>7, <3>1 DEF WholeIn, Finished, File
    <3>5. QED
      BY <3>3, <3>4
  <2>10. QED
    BY <2>8, <2>9
<1>8. QED
  BY <1>6, <1>7

LEMMA WriteManifestWhole ==
  ASSUME ConfirmTypeOK, NEW x \in DOMAIN cmd, WriteManifest(x), NEW d \in Dirs, OneWriter(d), WholeIn(d)
  PROVE  OneWriter(d)' /\ WholeIn(d)'
<1>1. /\ cmd[x].at = "manifest" /\ outputs' = outputs /\ Turn(x, Waiting)
      /\ told' = told \cup {[what |-> "exported", run |-> cmd[x].run, dir |-> cmd[x].dir]}
  BY DEF WriteManifest, PutDurable, Report
<1>2. DOMAIN cmd' = DOMAIN cmd /\ cmd'[x] = Waiting /\ \A y \in DOMAIN cmd \ {x} : cmd'[y] = cmd[y]
  BY <1>1 DEF Turn, ConfirmTypeOK
<1>3. cmd'[x].at \notin Preparing /\ cmd'[x].at \notin Keeping /\ cmd[x].at \in Keeping
  BY <1>1, <1>2, WaitingIsCommand DEF Preparing, Keeping
<1>4. \A y \in DOMAIN cmd' : Writes(y, d)' => Writes(y, d) /\ cmd'[y] = cmd[y] /\ y # x
  BY <1>2, <1>3 DEF Writes
<1>5. \A y \in DOMAIN cmd' : cmd'[y].at \in Keeping => cmd'[y] = cmd[y] /\ y # x
  BY <1>2, <1>3
<1>6. \A t \in told' : t \in told \/ (t.run = cmd[x].run /\ t.dir = cmd[x].dir)
  BY <1>1
<1>7. OneWriter(d)'
  <2> SUFFICES ASSUME NEW y \in DOMAIN cmd', Writes(y, d)'
               PROVE  /\ \A z \in DOMAIN cmd' : Writes(z, d)' => y = z
                      /\ \A z \in DOMAIN cmd' : cmd'[z].at \in Keeping => cmd'[z].dir # d
                      /\ \A t \in told' : t.what = "exported" => t.dir # d
                      /\ cmd'[y].at = "mkOutput" => outputs'[d] = {}
                      /\ cmd'[y].at # "mkOutput" => outputs'[d] # {}
                      /\ cmd'[y].at = "outEvidence" => File("workflow", cmd'[y].run) \in outputs'[d]
    BY DEF OneWriter, File
  <2>1. Writes(y, d) /\ cmd'[y] = cmd[y] /\ y \in DOMAIN cmd
    BY <1>2, <1>4
  <2>2. cmd[x].dir # d
    BY <1>3, <2>1 DEF OneWriter
  <2>3. \A z \in DOMAIN cmd' : Writes(z, d)' => y = z
    BY <1>2, <1>4, <2>1 DEF OneWriter
  <2>4. \A z \in DOMAIN cmd' : cmd'[z].at \in Keeping => cmd'[z].dir # d
    BY <1>2, <1>5, <2>1 DEF OneWriter
  <2>5. \A t \in told' : t.what = "exported" => t.dir # d
    BY <1>6, <2>1, <2>2 DEF OneWriter
  <2>6. /\ cmd'[y].at = "mkOutput" => outputs'[d] = {}
        /\ cmd'[y].at # "mkOutput" => outputs'[d] # {}
        /\ cmd'[y].at = "outEvidence" => File("workflow", cmd'[y].run) \in outputs'[d]
    BY <1>1, <2>1 DEF OneWriter
  <2>7. QED
    BY <2>3, <2>4, <2>5, <2>6
<1>8. WholeIn(d)'
  <2>1. \A y \in DOMAIN cmd' : cmd'[y].at \in Keeping /\ cmd'[y].dir = d => Finished(d, cmd'[y].run)
    BY <1>2, <1>5 DEF WholeIn
  <2>2. \A t \in told' : t.what = "exported" /\ t.dir = d => Finished(d, t.run)
    BY <1>3, <1>6 DEF WholeIn
  <2>3. QED
    BY <1>1, <2>1, <2>2 DEF WholeIn, Finished, File
<1>9. QED
  BY <1>7, <1>8

(* A command that leaves the directories alone: it ends, confirms, or goes *)
(* on with github-export.                                                  *)
LEMMA LeavesOutputs ==
  ASSUME ConfirmTypeOK, NEW x \in DOMAIN cmd, NEW l, Turn(x, l),
         \/ l.at \notin Preparing \cup Keeping
         \/ cmd[x].at \in Keeping /\ l.at \in Keeping /\ l.run = cmd[x].run /\ l.dir = cmd[x].dir,
         outputs' = outputs, \A t \in told' : t \in told \/ t.what # "exported",
         NEW d \in Dirs, OneWriter(d), WholeIn(d)
  PROVE  OneWriter(d)' /\ WholeIn(d)'
<1>1. DOMAIN cmd' = DOMAIN cmd /\ cmd'[x] = l /\ \A y \in DOMAIN cmd \ {x} : cmd'[y] = cmd[y]
  BY DEF Turn, ConfirmTypeOK
<1>2. QED
  BY <1>1, OutputQuiet

LEMMA NextWhole ==
  ASSUME ConfirmTypeOK, Earned, OutputsAreWhole, [ConfirmNext]_confirmVars
  PROVE  OutputsAreWhole'
<1>1. raced \subseteq raced'
  <2>1. CASE UNCHANGED confirmVars
    BY <2>1 DEF confirmVars
  <2>2. CASE RunAttempt
    BY <2>2 DEF RunAttempt
  <2>3. ASSUME NEW x \in DOMAIN cmd, NEW r \in Recorded, StartConfirm(x, r) PROVE raced' = raced
    BY <2>3 DEF StartConfirm
  <2>4. ASSUME NEW x \in DOMAIN cmd, NEW r \in Recorded, NEW d \in Dirs, StartExport(x, r, d) PROVE raced' = raced
    BY <2>4 DEF StartExport
  <2>5. ASSUME NEW x \in DOMAIN cmd,
               \/ CheckOutput(x) \/ MakeOutput(x) \/ WriteOutputWorkflow(x) \/ WriteOutputEvidence(x) \/ CheckDurable(x)
               \/ MakeDurable(x) \/ WriteDurableWorkflow(x) \/ WriteDurableEvidence(x) \/ WriteManifest(x)
        PROVE  raced \subseteq raced'
    BY <2>5 DEF CheckOutput, PutOutput, MakeOutput, WriteOutputWorkflow, WriteOutputEvidence, CheckDurable, PutDurable,
                MakeDurable, WriteDurableWorkflow, WriteDurableEvidence, WriteManifest
  <2>6. ASSUME NEW x \in DOMAIN cmd,
               \/ FetchRun(x) \/ FetchWorkflow(x) \/ FetchJobs(x) \/ FetchArtifacts(x) \/ FetchArchive(x)
               \/ WriteResult(x) \/ WriteRecord(x) \/ Abort(x)
        PROVE  raced' = raced
    BY <2>6 DEF Request, FetchRun, FetchWorkflow, FetchJobs, FetchArtifacts, FetchArchive, WriteResult, WriteRecord, Abort
  <2>7. QED
    BY <2>1, <2>2, <2>3, <2>4, <2>5, <2>6 DEF ConfirmNext
<1> SUFFICES ASSUME NEW d \in Dirs, d \notin raced' PROVE OneWriter(d)' /\ WholeIn(d)'
  BY DEF OutputsAreWhole
<1>2. OneWriter(d) /\ WholeIn(d)
  BY <1>1 DEF OutputsAreWhole
<1>3. \A x \in DOMAIN cmd : RequiredBy(cmd[x])
  BY DEF Earned, StagesAreEarned
<1>4. CASE UNCHANGED <<outputs, cmd, told>>
  BY <1>2, <1>4, OutputQuiet
<1>5. CASE RunAttempt
  BY <1>4, <1>5, AttemptGrows
<1>6. ASSUME NEW x \in DOMAIN cmd, NEW r \in Recorded, StartConfirm(x, r) PROVE OneWriter(d)' /\ WholeIn(d)'
  <2>1. outputs' = outputs
    BY <1>6 DEF StartConfirm, keptFiles
  <2>2. CASE "evidence" \in durable[r] /\ matches_lock(Evidence(flow, lock[r]), lock[r])
    <3> DEFINE l == [Waiting EXCEPT !.at = "run", !.run = r, !.local = result[r].conclusion]
    <3>1. Turn(x, l) /\ told' = told
      BY <1>6, <2>2 DEF StartConfirm
    <3>2. l.at \notin Preparing \cup Keeping
      BY DEF Waiting, Preparing, Keeping
    <3> HIDE DEF l
    <3>3. QED
      BY <1>2, <2>1, <3>1, <3>2, LeavesOutputs
  <2>3. CASE ~("evidence" \in durable[r] /\ matches_lock(Evidence(flow, lock[r]), lock[r]))
    <3>1. cmd' = cmd /\ told' = told \cup {[what |-> "noEvidence", run |-> r, dir |-> "none"]}
      BY <1>6, <2>3 DEF StartConfirm
    <3>2. \A t \in told' : t \in told \/ t.what # "exported"
      BY <3>1
    <3>3. QED
      BY <1>2, <2>1, <3>1, <3>2, OutputQuiet
  <2>4. QED
    BY <2>2, <2>3
<1>7. ASSUME NEW x \in DOMAIN cmd, NEW r \in Recorded, NEW e \in Dirs, StartExport(x, r, e) PROVE OneWriter(d)' /\ WholeIn(d)'
  <2>1. outputs' = outputs
    BY <1>7 DEF StartExport, keptFiles
  <2>2. CASE Refusal(r) = "none"
    <3> DEFINE l == [Waiting EXCEPT !.at = "output", !.run = r, !.dir = e]
    <3>1. Turn(x, l) /\ told' = told
      BY <1>7, <2>2 DEF StartExport
    <3>2. l.at \notin Preparing \cup Keeping
      BY DEF Waiting, Preparing, Keeping
    <3> HIDE DEF l
    <3>3. QED
      BY <1>2, <2>1, <3>1, <3>2, LeavesOutputs
  <2>3. CASE Refusal(r) # "none"
    <3>1. cmd' = cmd /\ told' = told \cup {[what |-> Refusal(r), run |-> r, dir |-> "none"]}
      BY <1>7, <2>3 DEF StartExport
    <3>2. Refusal(r) # "exported"
      BY DEF Refusal
    <3>3. \A t \in told' : t \in told \/ t.what # "exported"
      BY <3>1, <3>2
    <3>4. QED
      BY <1>2, <2>1, <3>1, <3>3, OutputQuiet
  <2>4. QED
    BY <2>2, <2>3
<1>8. ASSUME NEW x \in DOMAIN cmd,
             CheckOutput(x) \/ MakeOutput(x) \/ WriteOutputWorkflow(x) \/ WriteOutputEvidence(x) \/ WriteManifest(x)
      PROVE  OneWriter(d)' /\ WholeIn(d)'
  BY <1>2, <1>8, CheckOutputWhole, PutOutputWhole, WriteManifestWhole
<1>9. ASSUME NEW x \in DOMAIN cmd, Turn(x, Waiting), UNCHANGED <<outputs, told>> PROVE OneWriter(d)' /\ WholeIn(d)'
  <2>1. Waiting.at \notin Preparing \cup Keeping
    BY WaitingIsCommand DEF Preparing, Keeping
  <2>2. QED
    BY <1>2, <1>9, <2>1, LeavesOutputs
<1>10. ASSUME NEW x \in DOMAIN cmd, NEW next, At(x, next), UNCHANGED <<outputs, told>>,
              (cmd[x].at \in Keeping /\ next \in Keeping) \/ next = "record"
       PROVE  OneWriter(d)' /\ WholeIn(d)'
  <2>1. cmd[x] \in Commands
    BY DEF ConfirmTypeOK
  <2>2. PICK l : l = [cmd[x] EXCEPT !.at = next]
    OBVIOUS
  <2>3. l.at = next /\ l.run = cmd[x].run /\ l.dir = cmd[x].dir
    BY <2>1, <2>2 DEF Commands
  <2>4. Turn(x, l)
    BY <1>10, <2>2 DEF At
  <2>5. "record" \notin Preparing \cup Keeping
    BY DEF Preparing, Keeping
  <2>6. QED
    BY <1>2, <1>10, <2>3, <2>4, <2>5, LeavesOutputs
<1>11. ASSUME NEW x \in DOMAIN cmd, CheckDurable(x) PROVE OneWriter(d)' /\ WholeIn(d)'
  <2>1. cmd[x].at = "durable" /\ UNCHANGED <<outputs, told>> /\ (Turn(x, Waiting) \/ At(x, "mkDurable"))
    BY <1>11 DEF CheckDurable, End, keptFiles
  <2>2. cmd[x].at \in Keeping /\ "mkDurable" \in Keeping
    BY <2>1 DEF Keeping
  <2>3. QED
    BY <1>9, <1>10, <2>1, <2>2
<1>12. ASSUME NEW x \in DOMAIN cmd, MakeDurable(x) \/ WriteDurableWorkflow(x) \/ WriteDurableEvidence(x)
       PROVE  OneWriter(d)' /\ WholeIn(d)'
  <2>1. PICK next \in Keeping : cmd[x].at \in Keeping /\ UNCHANGED <<outputs, told>> /\ At(x, next)
    BY <1>12 DEF MakeDurable, WriteDurableWorkflow, WriteDurableEvidence, PutDurable, Keeping
  <2>2. QED
    BY <1>10, <2>1
<1>13. ASSUME NEW x \in DOMAIN cmd, WriteResult(x) \/ WriteRecord(x) \/ Abort(x) PROVE OneWriter(d)' /\ WholeIn(d)'
  <2>1. UNCHANGED <<outputs, told>> /\ (Turn(x, Waiting) \/ At(x, "record"))
    BY <1>13 DEF WriteResult, WriteRecord, Abort, End, keptFiles
  <2>2. QED
    BY <1>9, <1>10, <2>1
<1>14. ASSUME NEW x \in DOMAIN cmd,
              FetchRun(x) \/ FetchWorkflow(x) \/ FetchJobs(x) \/ FetchArtifacts(x) \/ FetchArchive(x)
       PROVE  OneWriter(d)' /\ WholeIn(d)'
  <2>1. UNCHANGED <<outputs, told>>
    BY <1>3, <1>14, RequestAdvances
  <2>2. PICK l \in Commands : Turn(x, l) /\ Advances(x, l)
    BY <1>3, <1>14, RequestAdvances
  <2>3. l.at \notin Preparing \cup Keeping
    BY <2>2, WaitingIsCommand DEF Advances, Confirming, Preparing, Keeping
  <2>4. QED
    BY <1>2, <2>1, <2>2, <2>3, LeavesOutputs
<1>15. QED
  BY <1>4, <1>5, <1>6, <1>7, <1>8, <1>11, <1>12, <1>13, <1>14 DEF ConfirmNext, confirmVars

LEMMA InitConfirmInv == ASSUME ConfirmAssumption, ConfirmInit PROVE ConfirmInv
<1>1. PICK k \in Cases :
        /\ flow = k.flow /\ lock = k.locks /\ hub = k.hub
        /\ result = [r \in DOMAIN k.locks |-> Classified(k.locks[r], k.conclusions[r], FALSE)]
        /\ durable = [r \in DOMAIN k.locks |-> IF r \in k.exported THEN Exported ELSE {}]
        /\ cmd = [x \in k.commands |-> Waiting]
  BY DEF ConfirmInit
<1>2. attempts = <<>> /\ outputs = [d \in Dirs |-> {}] /\ record = [r \in Recorded |-> 0] /\ told = {} /\ raced = {}
  BY DEF ConfirmInit
<1>3. Recorded = DOMAIN k.locks
  BY <1>1 DEF Recorded
<1>4. \A x \in DOMAIN cmd : cmd[x] = Waiting
  BY <1>1
<1>5. \A r \in Recorded : k.conclusions[r] \in ExecutionConclusion
  BY <1>3 DEF ConfirmAssumption
<1>6. \A r \in Recorded : result[r] \in Results /\ result[r].assurance # "github"
  <2> SUFFICES ASSUME NEW r \in Recorded PROVE result[r] \in Results /\ result[r].assurance # "github"
    OBVIOUS
  <2>1. result[r] = Classified(k.locks[r], k.conclusions[r], FALSE)
    BY <1>1, <1>3
  <2>2. Classified(k.locks[r], k.conclusions[r], FALSE).assurance # "github"
    BY DEF Classified
  <2>3. QED
    BY <1>5, <2>1, <2>2, ClassifiedIsResult
<1>7. ConfirmTypeOK
  <2>1. evidence_jobs(flow) \in Seq(Range(evidence_jobs(flow)))
    BY <1>1 DEF ConfirmAssumption
  <2>2. DOMAIN evidence_jobs(flow) \subseteq Nat
    BY <2>1
  <2>3. attempts \in Seq(Attempted)
    BY <1>2
  <2>4. outputs \in [Dirs -> SUBSET Files] /\ record \in [Recorded -> Nat]
    BY <1>2
  <2>5. durable \in [Recorded -> SUBSET Exported]
    BY <1>1, <1>3
  <2>6. result \in [Recorded -> Results]
    BY <1>1, <1>3, <1>6
  <2>7. cmd \in [DOMAIN cmd -> Commands]
    BY <1>1, WaitingIsCommand
  <2>8. \A x \in DOMAIN cmd : CommandOK(x)
    BY <1>4, WaitingIsCommand DEF CommandOK, Exporting, Preparing, Keeping
  <2>9. QED
    BY <2>2, <2>3, <2>4, <2>5, <2>6, <2>7, <2>8 DEF ConfirmTypeOK
<1>8. StagesAreEarned /\ ResultsAreEarned /\ RecordsAreEarned
  BY <1>2, <1>4, <1>6, WaitingRequires DEF StagesAreEarned, ResultsAreEarned, RecordsAreEarned
<1>9. DurableGrows
  BY <1>2, <1>4, WaitingIsCommand DEF DurableGrows, KeptBy
<1>10. OutputsAreWhole
  BY <1>2, <1>4, WaitingIsCommand DEF OutputsAreWhole, OneWriter, WholeIn, Writes, Preparing, Keeping
<1>11. QED
  BY <1>7, <1>8, <1>9, <1>10 DEF ConfirmInv

LEMMA NextConfirmInv == ASSUME ConfirmInv, [ConfirmNext]_confirmVars PROVE ConfirmInv'
<1>1. ConfirmTypeOK /\ Earned
  BY DEF ConfirmInv, Earned
<1>2. ConfirmTypeOK' /\ Earned'
  BY <1>1, NextEarned
<1>3. DurableGrows' /\ OutputsAreWhole'
  BY <1>1, NextDurable, NextWhole DEF ConfirmInv
<1>4. QED
  BY <1>2, <1>3 DEF ConfirmInv, Earned

LEMMA ConfirmInvExact == ASSUME ConfirmInv PROVE ConfirmationIsExact
<1>1. ConfirmationIsEarned
  <2> SUFFICES ASSUME NEW r \in Recorded, result[r].assurance = "github"
               PROVE  /\ ~lock[r].dirty /\ lock[r].hermetic /\ lock[r].support = "supported" /\ result[r].conclusion = "passed"
                      /\ hub.commit = lock[r].commit /\ hub.event = lock[r].event /\ lock[r].inputs \subseteq hub.inputs
                      /\ hub.text.semantic = Pinned(flow)
                      /\ \E n \in DOMAIN attempts :
                           \E f \in Injection(DOMAIN evidence_jobs(flow), DOMAIN attempts[n].jobs) :
                             \A k \in DOMAIN f : PassedAs(evidence_jobs(flow)[k], attempts[n].jobs[f[k]])
    BY DEF ConfirmationIsEarned
  <2>1. /\ ~lock[r].dirty /\ SameSource(r) /\ hub.text.semantic = Pinned(flow) /\ JobsPassed
        /\ Eligible(r, result[r].conclusion)
    BY DEF ConfirmInv, ResultsAreEarned
  <2>2. lock[r].hermetic /\ lock[r].support = "supported" /\ result[r].conclusion = "passed"
    BY <2>1 DEF Eligible, Classified
  <2>3. lock[r].inputs \subseteq hub.inputs
    <3>1. PICK n \in DOMAIN attempts : Proves(n, r)
      BY DEF ConfirmInv, ResultsAreEarned
    <3>2. attempts[n] \in Attempted
      BY DEF ConfirmInv, ConfirmTypeOK
    <3>3. QED
      BY <3>1, <3>2, EvidenceChecksInputs DEF Proves, Uploads
  <2>4. PICK n \in DOMAIN attempts : verify_jobs(evidence_jobs(flow), attempts[n])
    BY <2>1 DEF JobsPassed
  <2>5. DOMAIN evidence_jobs(flow) \subseteq Nat
    BY DEF ConfirmInv, ConfirmTypeOK
  <2>6. \E f \in Injection(DOMAIN evidence_jobs(flow), DOMAIN attempts[n].jobs) :
          \A k \in DOMAIN f : PassedAs(evidence_jobs(flow)[k], attempts[n].jobs[f[k]])
    BY <2>4, <2>5, JobsMatch
  <2>7. QED
    BY <2>1, <2>2, <2>3, <2>6 DEF SameSource
<1>2. RecordFollowsResult
  BY DEF ConfirmInv, RecordsAreEarned, RecordFollowsResult, Proves
<1>3. ExportStaysWhole
  <2> SUFFICES ASSUME NEW t \in told, t.what = "exported"
               PROVE  /\ durable[t.run] = Exported
                      /\ t.dir \notin raced =>
                           \A kind \in {"workflow", "evidence"} : [kind |-> kind, run |-> t.run] \in outputs[t.dir]
    BY DEF ExportStaysWhole
  <2>1. t.run \in Recorded /\ t.dir \in Dirs /\ Exported \subseteq durable[t.run]
    BY DEF ConfirmInv, DurableGrows, Kept
  <2>2. durable[t.run] \subseteq Exported
    BY <2>1 DEF ConfirmInv, ConfirmTypeOK
  <2>3. t.dir \notin raced => Finished(t.dir, t.run)
    BY <2>1 DEF ConfirmInv, OutputsAreWhole, WholeIn
  <2>4. QED
    BY <2>1, <2>2, <2>3 DEF Finished, File
<1>4. QED
  BY <1>1, <1>2, <1>3 DEF ConfirmationIsExact

(* A result is raised to github-confirmed only by a GitHub run of the      *)
(* locked work, in which every locked job passed as a job of its own; the  *)
(* record of it is beside a confirmed result and names an artifact with    *)
(* its evidence; and a reported export stays whole: for any workflow, any  *)
(* runs of it, any GitHub run, any number of commands, exports and         *)
(* attempts, wherever commands fail or are killed.                         *)
THEOREM ConfirmationsAreExact == ASSUME ConfirmAssumption PROVE ConfirmSpec => []ConfirmationIsExact
<1>1. QED
  BY InitConfirmInv, NextConfirmInv, ConfirmInvExact, PTL DEF ConfirmSpec
=============================================================================
