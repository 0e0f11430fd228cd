----------------------------- MODULE SecretVault -----------------------------
(***************************************************************************)
(* Secrets kept for a repository: .litci/secrets.vault, encrypted with the *)
(* one ~/.litci/vault.key of the user, and the plaintext .litci/secrets of *)
(* older versions, which the first read migrates.  Every file is replaced  *)
(* by a rename; no lock spans a read and the write after it.  A process    *)
(* reads the vault of its repository and may then save a secret that was   *)
(* typed at its prompt.                                                    *)
(***************************************************************************)
EXTENDS Integers, FiniteSets

CONSTANTS
  Users,       \* litci run processes
  RepoOf,      \* the repository of each
  Legacy,      \* secrets in the plaintext file of each repository, or {}
  MaxSecrets   \* MAX_ASSIGNMENTS

VARIABLES
  key,      \* vault.key: 0, or the number of the key
  keys,     \* keys made so far
  vault,    \* of each repository: NoVault, or [key, secrets]
  legacy,   \* of each repository: plaintext secrets; {}: no such file
  u,        \* processes
  kept,     \* secrets a process was told are kept (history)
  overlap,  \* repositories two processes worked in at once (history)
  keyRace   \* two processes made a key at once (history)

vaultVars == <<key, keys, vault, legacy, u, kept, overlap, keyRace>>

Repositories == DOMAIN Legacy
VaultAssumption ==
  RepoOf \in [Users -> Repositories] /\ Legacy = [r \in Repositories |-> Legacy[r]]
NoVault == [key |-> 0, secrets |-> {}]
Idle == [at |-> "idle", saving |-> FALSE, seen |-> NoVault, secrets |-> {}, key |-> 0]
Ended == {"done", "failed", "dead"}
Busy == {x \in Users : u[x].at \notin Ended \cup {"idle"}}

Init ==
  /\ \E made \in {0, 1} : key = made /\ keys = made
  /\ vault = [r \in Repositories |-> NoVault]
  /\ legacy = Legacy
  /\ u = [x \in Users |-> Idle]
  /\ kept = [r \in Repositories |-> Legacy[r]]
  /\ overlap = {} /\ keyRace = FALSE

Become(x, locals) == u' = [u EXCEPT ![x] = locals]
Fail(x) == Become(x, [Idle EXCEPT !.at = "failed"])
Start(x) ==
  /\ u[x].at = "idle"
  /\ Become(x, [Idle EXCEPT !.at = "read"])
  /\ overlap' = overlap \cup {RepoOf[x] : y \in {y \in Busy : RepoOf[y] = RepoOf[x]}}
  /\ UNCHANGED <<key, keys, vault, legacy, kept, keyRace>>

\* What a read is for: to resolve secrets, or to add one to them.
HaveRead(x, secrets) ==
  IF ~u[x].saving THEN [Idle EXCEPT !.at = "prompt"]
  ELSE IF Cardinality(secrets \cup {x}) > MaxSecrets THEN [Idle EXCEPT !.at = "failed"]
  ELSE [Idle EXCEPT !.at = "key", !.saving = TRUE, !.secrets = secrets \cup {x}]
\* read_dotenv_secrets: the vault, and only without one the legacy file.
ReadVault(x) ==
  /\ u[x].at = "read"
  /\ Become(x, IF vault[RepoOf[x]] = NoVault THEN [u[x] EXCEPT !.at = "legacy"]
               ELSE [u[x] EXCEPT !.at = "decrypt", !.seen = vault[RepoOf[x]]])
  /\ UNCHANGED <<key, keys, vault, legacy, kept, overlap, keyRace>>
\* decrypt_vault, with the key that is there by now.
DecryptVault(x) ==
  /\ u[x].at = "decrypt"
  /\ IF u[x].seen.key = key THEN Become(x, HaveRead(x, u[x].seen.secrets)) ELSE Fail(x)
  /\ UNCHANGED <<key, keys, vault, legacy, kept, overlap, keyRace>>
MutReadLegacy(x) ==   \* the plaintext goes first
  /\ u[x].at = "legacy"
  /\ Become(x, IF legacy[RepoOf[x]] = {} THEN HaveRead(x, {})
               ELSE [u[x] EXCEPT !.at = "key", !.secrets = legacy[RepoOf[x]]])
  /\ legacy' = [legacy EXCEPT ![RepoOf[x]] = {}]
  /\ UNCHANGED <<key, keys, vault, kept, overlap, keyRace>>
ReadLegacy(x) ==
  /\ u[x].at = "legacy"
  /\ Become(x, IF legacy[RepoOf[x]] = {} THEN HaveRead(x, {})
               ELSE [u[x] EXCEPT !.at = "key", !.secrets = legacy[RepoOf[x]]])
  /\ UNCHANGED <<key, keys, vault, legacy, kept, overlap, keyRace>>

\* persist_vault and append_secret's entries: the key first, made if absent.
LoadKey(x) ==
  /\ u[x].at = "key"
  /\ IF key # 0
       THEN Become(x, [u[x] EXCEPT !.at = "persist", !.key = key]) /\ UNCHANGED <<keys, keyRace>>
       ELSE /\ keys' = keys + 1
            /\ Become(x, [u[x] EXCEPT !.at = "writeKey", !.key = keys + 1])
            /\ keyRace' = (keyRace \/ \E y \in Users : u[y].at = "writeKey")
  /\ UNCHANGED <<key, vault, legacy, kept, overlap>>
WriteKey(x) ==
  /\ u[x].at = "writeKey"
  /\ key' = u[x].key
  /\ Become(x, [u[x] EXCEPT !.at = "persist"])
  /\ UNCHANGED <<keys, vault, legacy, kept, overlap, keyRace>>
\* write_atomic_at: a rename over whatever vault is there now.
PersistVault(x) ==
  /\ u[x].at = "persist"
  /\ vault' = [vault EXCEPT ![RepoOf[x]] = [key |-> u[x].key, secrets |-> u[x].secrets]]
  /\ IF x \in u[x].secrets
       THEN /\ Become(x, [Idle EXCEPT !.at = "done"])
            /\ kept' = [kept EXCEPT ![RepoOf[x]] = @ \cup {x}]
       ELSE Become(x, [u[x] EXCEPT !.at = "unlink"]) /\ UNCHANGED kept
  /\ UNCHANGED <<key, keys, legacy, overlap, keyRace>>
\* The plaintext goes last; it is an error if another removed it.
UnlinkLegacy(x) ==
  /\ u[x].at = "unlink"
  /\ IF legacy[RepoOf[x]] = {} THEN Fail(x) ELSE Become(x, HaveRead(x, u[x].secrets))
  /\ legacy' = [legacy EXCEPT ![RepoOf[x]] = {}]
  /\ UNCHANGED <<key, keys, vault, kept, overlap, keyRace>>

\* resolve_secrets has what it needs, or prompts and offers to save.
Prompt(x) ==
  /\ u[x].at = "prompt"
  /\ \/ Become(x, [Idle EXCEPT !.at = "done"])
     \/ Become(x, [Idle EXCEPT !.at = "read", !.saving = TRUE])
  /\ UNCHANGED <<key, keys, vault, legacy, kept, overlap, keyRace>>
Kill(x) ==
  /\ x \in Busy
  /\ Become(x, [Idle EXCEPT !.at = "dead"])
  /\ UNCHANGED <<key, keys, vault, legacy, kept, overlap, keyRace>>

Next ==
  \E x \in Users :
    \/ Start(x) \/ ReadVault(x) \/ DecryptVault(x) \/ ReadLegacy(x) \/ LoadKey(x) \/ WriteKey(x)
    \/ PersistVault(x) \/ UnlinkLegacy(x) \/ Prompt(x) \/ Kill(x)
Spec == Init /\ [][Next]_vaultVars

\* ------------------------------------------------------------ properties
Readable(r) ==
  IF vault[r] = NoVault THEN legacy[r] ELSE IF vault[r].key = key THEN vault[r].secrets ELSE {}
\* Unless two processes made a key at once, a secret that a user was told is
\* kept, or that stood in the legacy file, can still be read if no two
\* processes worked in its repository at once, wherever one is killed and
\* whatever happens in other repositories; and a vault can always be read
\* (persist_vault, read_dotenv_secrets).
SecretsSurvive ==
  ~keyRace => \A r \in Repositories :
    /\ vault[r].key \in {0, key}
    /\ r \notin overlap => kept[r] \subseteq Readable(r)

\* secrets/dotenv.rs:3-7: the vault is authenticated with the key "stored at
\* mode 0600 in `~/.litci/vault.key`", and the legacy file is "encrypted
\* atomically, and removed only after the vault and its parent directory have
\* been synchronized": what was migrated can be read.
MigratedIsReadable ==
  \A r \in Repositories : Legacy[r] # {} /\ legacy[r] = {} => Legacy[r] \subseteq Readable(r)
=============================================================================
