---------------------------- MODULE ImageResolver ----------------------------
(***************************************************************************)
(* From an image reference to one platform manifest (oci.rs).  A resolution *)
(* asks the registry for the digest a tag names, takes the manifest from   *)
(* the content store if two aliases say it is known, and else fetches the  *)
(* top manifest, the platform manifest and the config, each verified, and  *)
(* records the two aliases.  Tags move, processes are killed, litci clean  *)
(* drops the objects and leaves the aliases.                               *)
(*                                                                         *)
(* The digest of the linux/amd64 manifest of top t is <<"m", t>>, or t     *)
(* itself when t is no index; its config is <<"c", t>>.                    *)
(***************************************************************************)
EXTENDS Integers, FiniteSets

CONSTANTS
  Resolvers,   \* processes
  OfflineOnes, \* those that run with --offline
  Tops,        \* top manifests the tag may name
  FirstTop,
  Index,       \* the tops that are an index
  Foreign,     \* the tops without linux/amd64
  MaxEvents    \* moves, kills, cleans and broken answers (bound)

VARIABLES
  tag,       \* the top the tag names at the registry
  manifests,   \* verified objects of the content store
  top, plat, \* aliases oci-top and oci-linux-amd64 of the reference
  r,         \* resolutions: where they are, their locals, and what they saw
  events

imageVars == <<tag, manifests, top, plat, r, events>>

Unknown == "none"
NoDigest == <<"none", "none">>
ImageAssumption == FirstTop \in Tops /\ Unknown \notin Tops
Platform(t) == IF t \in Index THEN <<"m", t>> ELSE <<t, t>>
Config(t) == <<"c", t>>
TopObject(t) == <<t, t>>
\* The top whose platform manifest has that digest.
TopOf(m) == m[2]
NotBegun == [at |-> "idle", probe |-> Unknown, got |-> Unknown, digest |-> NoDigest, hit |-> FALSE, why |-> "", seen |-> {},
         warm |-> FALSE]

ImageInit ==
  /\ tag = FirstTop
  /\ manifests = {} /\ top = Unknown /\ plat = NoDigest
  /\ r = [c \in Resolvers |-> NotBegun]
  /\ events = 0

May == events < MaxEvents
\* Processes are interchangeable: they start in a fixed order.
First(c) == c = CHOOSE x \in Resolvers \ OfflineOnes : r[x].at = "idle"
Become(c, x) == r' = [r EXCEPT ![c] = x]
Broken(c, reason) == Become(c, [NotBegun EXCEPT !.at = "failed", !.why = reason, !.seen = r[c].seen, !.warm = r[c].warm])
Rest == UNCHANGED <<tag, top, plat, events>>

\* authenticate: HEAD, with a token when the registry wants one; the answer
\* may leave the digest out.
Authenticate(c) ==
  /\ r[c].at = "idle" /\ c \notin OfflineOnes /\ First(c)
  /\ \/ \E digest \in {tag, Unknown} :
          Become(c, [r[c] EXCEPT !.at = IF digest = Unknown THEN "top" ELSE "cached", !.probe = digest, !.seen = {tag}])
        /\ UNCHANGED events
     \/ May /\ events' = events + 1 /\ Broken(c, "network")
  /\ UNCHANGED <<tag, manifests, top, plat>>
\* resolve_linux_amd64_offline: the alias is the probe.
Offline(c) ==
  /\ r[c].at = "idle" /\ c \in OfflineOnes
  /\ IF top = Unknown THEN Broken(c, "offline")
     ELSE Become(c, [r[c] EXCEPT !.at = "cached", !.probe = top, !.warm = \E x \in Resolvers : r[x].at = "done"])
  /\ UNCHANGED manifests /\ Rest

Miss(c) == IF c \in OfflineOnes THEN Broken(c, "offline") ELSE Become(c, [r[c] EXCEPT !.at = "top"])
\* cached_resolution: the two aliases, one after the other.
CachedTop(c) ==
  /\ r[c].at = "cached"
  /\ IF top = r[c].probe THEN Become(c, [r[c] EXCEPT !.at = "platform"]) ELSE Miss(c)
  /\ UNCHANGED manifests /\ Rest
CachedPlatform(c) ==
  /\ r[c].at = "platform"
  /\ IF plat = NoDigest THEN Miss(c)
     ELSE IF ~({plat, Config(TopOf(plat))} \subseteq manifests) THEN Miss(c)
     ELSE Become(c, [r[c] EXCEPT !.at = "done", !.digest = plat, !.hit = TRUE])
  /\ UNCHANGED manifests /\ Rest

\* fetch_manifest by the tag: what it names now must be what HEAD said.
FetchTop(c) ==
  /\ r[c].at = "top"
  /\ IF r[c].probe \notin {Unknown, tag} THEN Broken(c, "digest") /\ UNCHANGED manifests
     ELSE Become(c, [r[c] EXCEPT !.at = "child", !.got = tag, !.seen = @ \cup {tag}]) /\ manifests' = manifests \cup {TopObject(tag)}
  /\ Rest
\* The platform manifest, by digest; a foreign index has none.
FetchChild(c) ==
  /\ r[c].at = "child"
  /\ IF r[c].got \in Foreign \cap Index THEN Broken(c, "platform") /\ UNCHANGED manifests
     ELSE Become(c, [r[c] EXCEPT !.at = "config"]) /\ manifests' = manifests \cup {Platform(r[c].got)}
  /\ Rest
\* The config, by digest; its platform is checked again.
FetchConfig(c) ==
  /\ r[c].at = "config"
  /\ manifests' = manifests \cup {Config(r[c].got)}
  /\ IF r[c].got \in Foreign THEN Broken(c, "platform") ELSE Become(c, [r[c] EXCEPT !.at = "record"])
  /\ Rest
RecordTop(c) ==
  /\ r[c].at = "record"
  /\ top' = r[c].got
  /\ Become(c, [r[c] EXCEPT !.at = "recordPlatform"])
  /\ UNCHANGED <<tag, manifests, plat, events>>
MutRecordPlatform(c) ==   \* one alias is thought to be enough
  /\ r[c].at = "recordPlatform"
  /\ Become(c, [r[c] EXCEPT !.at = "done", !.digest = Platform(r[c].got)])
  /\ UNCHANGED <<tag, manifests, top, plat, events>>
RecordPlatform(c) ==
  /\ r[c].at = "recordPlatform"
  /\ plat' = Platform(r[c].got)
  /\ Become(c, [r[c] EXCEPT !.at = "done", !.digest = Platform(r[c].got)])
  /\ UNCHANGED <<tag, manifests, top, events>>

\* ----------------------------------------------------------- environment
Move ==
  /\ May /\ events' = events + 1
  /\ \E t \in Tops \ {tag} : tag' = t
  /\ r' = [c \in Resolvers |-> IF r[c].at \in {"idle", "done", "failed", "dead"} THEN r[c]
                               ELSE [r[c] EXCEPT !.seen = @ \cup {tag'}]]
  /\ UNCHANGED <<manifests, top, plat>>
Kill(c) ==
  /\ May /\ events' = events + 1
  /\ r[c].at \notin {"idle", "done", "failed", "dead"}
  /\ Become(c, [NotBegun EXCEPT !.at = "dead"])
  /\ UNCHANGED <<tag, manifests, top, plat>>
Clean ==
  /\ May /\ events' = events + 1
  /\ manifests # {} /\ manifests' = {}
  /\ UNCHANGED <<tag, top, plat, r>>

Resolve(c) ==
  \/ Authenticate(c) \/ Offline(c) \/ CachedTop(c) \/ CachedPlatform(c) \/ FetchTop(c) \/ FetchChild(c)
  \/ FetchConfig(c) \/ RecordTop(c) \/ RecordPlatform(c)
ImageNext ==
  \/ \E c \in Resolvers : Resolve(c) \/ Kill(c)
  \/ Move \/ Clean
ImageSpec == ImageInit /\ [][ImageNext]_imageVars

\* ------------------------------------------------------------ properties
\* An image that was fetched is the linux/amd64 manifest of what the tag
\* named while it was resolved, though it moves meanwhile, and never one of
\* another platform; a resolution without network succeeds once one with it
\* has, if nothing moved, died or was cleaned (resolve_linux_amd64).
FetchedImageIsExact ==
  \A c \in Resolvers :
    /\ r[c].at = "done" /\ ~r[c].hit => r[c].digest = Platform(r[c].got) /\ r[c].got \in r[c].seen
    /\ r[c].at = "done" => TopOf(r[c].digest) \notin Foreign
    /\ r[c].why = "digest" => Cardinality(r[c].seen) > 1
    /\ r[c].why = "offline" => c \in OfflineOnes /\ ~(r[c].warm /\ events = 0)

\* oci.rs:26-41: a resolved image is the manifest its reference names, from
\* the content store only "after the registry's zero-body alias recheck":
\* what an online resolution returns is the platform manifest of a top the
\* tag named meanwhile.
ImageIsTheTags ==
  \A c \in Resolvers \ OfflineOnes :
    r[c].at = "done" => \E t \in r[c].seen : r[c].digest = Platform(t)
=============================================================================
