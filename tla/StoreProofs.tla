---------------------------- MODULE StoreProofs ----------------------------
(***************************************************************************)
(* The stores that processes share, for any number of processes.           *)
(*                                                                         *)
(* Images: a resolution carries what the tag named since it began (Sees),  *)
(* so a fetched manifest is one the tag named and a refusal means that it  *)
(* moved; and as long as nothing disturbs the store, whoever is done left  *)
(* both aliases and both objects behind (Undisturbed).                     *)
(*                                                                         *)
(* Artifacts: as long as no name of a run had two open uploads, an upload  *)
(* owns the directory it staged (Owns, Apart), so finalize, which looks it *)
(* up by name, moves what that upload wrote (FinalIsWhole).                *)
(*                                                                         *)
(* The cache: two saves can share an id, but only one of them can still    *)
(* put something in its place (Reserves, Separate), so an entry is what    *)
(* one save wrote and stays (EntriesStay).                                 *)
(*                                                                         *)
(* Actions: what a client has at each stage (InPlace); the moments its     *)
(* resolutions come from, one for all when it is frozen (Moments); that    *)
(* what it used still stands in the store while nothing was cleaned        *)
(* (Holds); and that a success leaves everything behind the next run needs *)
(* (Provided).                                                             *)
(***************************************************************************)
EXTENDS ImageResolver, ArtifactStore, CacheStore, ActionStore, FiniteSetTheorems, TLAPS

-----------------------------------------------------------------------------
(* Images                                                                  *)

Fetching == {"child", "config", "record", "recordPlatform"}
Active == Fetching \cup {"cached", "platform", "top"}
ImageLabels == Active \cup {"idle", "done", "failed", "dead"}
MaybeTops == Tops \cup {Unknown}
Digests == {Platform(t) : t \in Tops} \cup {NoDigest}
Reasons == {"", "network", "offline", "digest", "platform"}
Views == {S \in SUBSET Tops : IsFiniteSet(S)}
Resolutions ==
  [at : ImageLabels, probe : MaybeTops, got : MaybeTops, digest : Digests, hit : BOOLEAN, why : Reasons, seen : Views,
   warm : BOOLEAN]

ImageTypeOK ==
  /\ tag \in Tops /\ top \in MaybeTops /\ plat \in Digests /\ events \in Nat
  /\ r \in [Resolvers -> Resolutions]

(* What a resolution saw, and where only an online one can be.             *)
Sees(c) ==
  /\ r[c].at \in Active /\ c \notin OfflineOnes => tag \in r[c].seen /\ r[c].probe \in r[c].seen \cup {Unknown}
  /\ r[c].at \in Fetching \cup {"top"} => c \notin OfflineOnes
  /\ r[c].at \in Fetching => r[c].got \in r[c].seen
  /\ r[c].at \in {"record", "recordPlatform"} => r[c].got \notin Foreign
  /\ r[c].at = "cached" => r[c].probe # Unknown
  /\ r[c].at # "failed" => r[c].why = ""

Ready ==
  top = FirstTop /\ plat = Platform(FirstTop) /\ {Platform(FirstTop), Config(FirstTop)} \subseteq manifests

(* Nothing moved, died, was cleaned or broke.                              *)
Calm ==
  /\ tag = FirstTop
  /\ top \in {Unknown, FirstTop}
  /\ plat \in {NoDigest, Platform(FirstTop)}
CalmOne(c) ==
  /\ r[c].at \in Fetching => r[c].got = FirstTop
  /\ r[c].at \in {"config", "record", "recordPlatform"} => Platform(FirstTop) \in manifests
  /\ r[c].at \in {"record", "recordPlatform"} => Config(FirstTop) \in manifests
  /\ r[c].at \in {"platform", "recordPlatform"} => top = FirstTop
  /\ r[c].at = "cached" /\ c \in OfflineOnes => r[c].probe = FirstTop /\ top = FirstTop
  /\ r[c].at = "done" => Ready
  /\ r[c].warm => Ready
Undisturbed == events = 0 => Calm /\ \A c \in Resolvers : CalmOne(c)

(* What FetchedImageIsExact says of one resolution.                        *)
ExactOne(c) ==
  /\ r[c].at = "done" /\ ~r[c].hit => r[c].digest = Platform(r[c].got) /\ r[c].got \in r[c].seen
  /\ r[c].at = "done" => TopOf(r[c].digest) \notin Foreign
  /\ r[c].why = "digest" => Cardinality(r[c].seen) > 1
  /\ r[c].why = "offline" => c \in OfflineOnes /\ ~(r[c].warm /\ events = 0)

AliasIsRunnable == plat # NoDigest => TopOf(plat) \notin Foreign

ImageInv ==
  /\ ImageTypeOK /\ AliasIsRunnable
  /\ \A c \in Resolvers : Sees(c) /\ ExactOne(c)
  /\ Undisturbed

LEMMA PlatformFacts ==
  ASSUME ImageAssumption
  PROVE  \A t \in Tops : Platform(t) \in Digests /\ Platform(t) # NoDigest /\ TopOf(Platform(t)) = t
<1>1. \A t : TopOf(Platform(t)) = t
  BY DEF Platform, TopOf
<1>2. TopOf(NoDigest) = Unknown
  BY DEF TopOf, NoDigest, Unknown
<1>3. QED
  BY <1>1, <1>2 DEF ImageAssumption, Digests

LEMMA MoreThanOne ==
  ASSUME NEW S \in Views, NEW a \in S, NEW b \in S, a # b PROVE Cardinality(S) > 1
<1>1. IsFiniteSet(S) /\ IsFiniteSet({a, b}) /\ Cardinality({a, b}) = 2
  <2>1. IsFiniteSet({a}) /\ Cardinality({a}) = 1
    BY FS_Singleton
  <2>2. {a, b} = {a} \cup {b} /\ b \notin {a}
    OBVIOUS
  <2>3. IsFiniteSet({a} \cup {b}) /\ Cardinality({a} \cup {b}) = 1 + 1
    BY <2>1, <2>2, FS_AddElement, Zenon
  <2>4. QED
    BY <2>2, <2>3 DEF Views
<1>2. Cardinality({a, b}) <= Cardinality(S)
  BY <1>1, FS_Subset
<1>3. Cardinality(S) \in Nat
  BY <1>1, FS_CardinalityType
<1>4. QED
  BY <1>1, <1>2, <1>3

LEMMA ViewTypes ==
  /\ {} \in Views
  /\ \A t \in Tops : {t} \in Views /\ \A S \in Views : S \cup {t} \in Views
<1>1. IsFiniteSet({})
  BY FS_EmptySet
<1>2. \A t \in Tops : IsFiniteSet({t})
  BY FS_Singleton
<1>3. \A t \in Tops, S \in Views : IsFiniteSet(S \cup {t})
  BY FS_AddElement DEF Views
<1>4. QED
  BY <1>1, <1>2, <1>3 DEF Views

LEMMA ResolutionTypes ==
  /\ NotBegun \in Resolutions
  /\ \A l \in Resolutions :
       /\ l.at \in ImageLabels /\ l.probe \in MaybeTops /\ l.got \in MaybeTops /\ l.digest \in Digests
       /\ l.hit \in BOOLEAN /\ l.why \in Reasons /\ l.seen \in Views /\ l.warm \in BOOLEAN
<1>1. NotBegun \in Resolutions
  BY ViewTypes DEF NotBegun, Resolutions, ImageLabels, MaybeTops, Digests, Reasons
<1>2. QED
  BY <1>1 DEF Resolutions

LEMMA ResolutionFields ==
  ASSUME NEW l \in Resolutions, NEW a, NEW p, NEW g, NEW d, NEW s, NEW b
  PROVE  /\ LET n == [l EXCEPT !.at = a] IN
            /\ n.at = a /\ n.probe = l.probe /\ n.got = l.got /\ n.seen = l.seen /\ n.why = l.why /\ n.warm = l.warm
         /\ LET n == [l EXCEPT !.at = a, !.probe = p, !.seen = s] IN
            /\ n.at = a /\ n.probe = p /\ n.got = l.got /\ n.seen = s /\ n.why = l.why /\ n.warm = l.warm
         /\ LET n == [l EXCEPT !.at = a, !.probe = p, !.warm = b] IN
            /\ n.at = a /\ n.probe = p /\ n.got = l.got /\ n.seen = l.seen /\ n.why = l.why /\ n.warm = b
         /\ LET n == [l EXCEPT !.at = a, !.got = g, !.seen = s] IN
            /\ n.at = a /\ n.probe = l.probe /\ n.got = g /\ n.seen = s /\ n.why = l.why /\ n.warm = l.warm
         /\ LET n == [l EXCEPT !.at = a, !.digest = d] IN
            /\ n.at = a /\ n.digest = d /\ n.got = l.got /\ n.seen = l.seen /\ n.why = l.why /\ n.warm = l.warm
         /\ LET n == [l EXCEPT !.at = a, !.digest = d, !.hit = b] IN
            /\ n.at = a /\ n.digest = d /\ n.hit = b /\ n.got = l.got /\ n.seen = l.seen /\ n.why = l.why /\ n.warm = l.warm
         /\ LET n == [l EXCEPT !.seen = s] IN
            /\ n.at = l.at /\ n.probe = l.probe /\ n.got = l.got /\ n.digest = l.digest /\ n.hit = l.hit
            /\ n.seen = s /\ n.why = l.why /\ n.warm = l.warm
         /\ LET n == [l EXCEPT !.at = a, !.why = p, !.seen = s, !.warm = b] IN
            /\ n.at = a /\ n.why = p /\ n.seen = s /\ n.warm = b
  BY DEF Resolutions

LEMMA ResolutionKept ==
  ASSUME NEW l \in Resolutions
  PROVE  /\ \A a \in ImageLabels : [l EXCEPT !.at = a] \in Resolutions
         /\ \A a \in ImageLabels, p \in MaybeTops, s \in Views :
              /\ [l EXCEPT !.at = a, !.probe = p, !.seen = s] \in Resolutions
              /\ [l EXCEPT !.at = a, !.got = p, !.seen = s] \in Resolutions
         /\ \A a \in ImageLabels, p \in MaybeTops, b \in BOOLEAN :
              [l EXCEPT !.at = a, !.probe = p, !.warm = b] \in Resolutions
         /\ \A a \in ImageLabels, d \in Digests : [l EXCEPT !.at = a, !.digest = d] \in Resolutions
         /\ \A a \in ImageLabels, d \in Digests, b \in BOOLEAN : [l EXCEPT !.at = a, !.digest = d, !.hit = b] \in Resolutions
         /\ \A s \in Views : [l EXCEPT !.seen = s] \in Resolutions
         /\ \A a \in ImageLabels, y \in Reasons, s \in Views, b \in BOOLEAN :
              [l EXCEPT !.at = a, !.why = y, !.seen = s, !.warm = b] \in Resolutions
  BY DEF Resolutions

(* A step of one resolution as another sees it.                            *)
Aside(c) == \A y \in Resolvers : y # c => r'[y] = r[y]
Grows ==
  /\ events' = 0 => events = 0
  /\ events' = 0 => /\ manifests \subseteq manifests' /\ (top = FirstTop => top' = FirstTop)
                    /\ (Ready => Ready')

LEMMA OthersKeep ==
  ASSUME NEW y \in Resolvers, Sees(y), ExactOne(y), events = 0 => CalmOne(y), r'[y] = r[y], tag' = tag, Grows
  PROVE  Sees(y)' /\ ExactOne(y)' /\ (events' = 0 => CalmOne(y)')
<1>1. Sees(y)'
  BY DEF Sees
<1>2. ExactOne(y)'
  BY DEF ExactOne, Grows
<1>3. ASSUME events' = 0 PROVE CalmOne(y)'
  <2>1. CalmOne(y)
    BY <1>3 DEF Grows
  <2>2. manifests \subseteq manifests' /\ (top = FirstTop => top' = FirstTop) /\ (Ready => Ready')
    BY <1>3 DEF Grows
  <2>3. QED
    BY <2>1, <2>2 DEF CalmOne
<1>4. QED
  BY <1>1, <1>2, <1>3

(* Where the steps leave their resolution.                                 *)
Fails(c, reason) == r'[c].at = "failed" /\ r'[c].why = reason /\ r'[c].seen = r[c].seen /\ r'[c].warm = r[c].warm
Moves(c, label) ==
  r'[c].at = label /\ r'[c].probe = r[c].probe /\ r'[c].got = r[c].got /\ r'[c].seen = r[c].seen /\ r'[c].why = r[c].why
  /\ r'[c].warm = r[c].warm

LEMMA BecomeResolution ==
  ASSUME ImageTypeOK, NEW c \in Resolvers, NEW l, Become(c, l)
  PROVE  /\ r'[c] = l /\ Aside(c)
         /\ l \in Resolutions => r' \in [Resolvers -> Resolutions]
  BY DEF ImageTypeOK, Become, Aside

LEMMA BrokenResolution ==
  ASSUME ImageTypeOK, NEW c \in Resolvers, NEW reason \in Reasons, Broken(c, reason)
  PROVE  Fails(c, reason) /\ Aside(c) /\ r' \in [Resolvers -> Resolutions]
<1> DEFINE l == [NotBegun EXCEPT !.at = "failed", !.why = reason, !.seen = r[c].seen, !.warm = r[c].warm]
<1>1. r[c] \in Resolutions
  BY DEF ImageTypeOK
<1>2. l \in Resolutions
  <2>1. "failed" \in ImageLabels /\ r[c].seen \in Views /\ r[c].warm \in BOOLEAN /\ NotBegun \in Resolutions
    BY <1>1, ResolutionTypes DEF ImageLabels
  <2>2. QED
    BY <2>1, ResolutionKept
<1>3. l.at = "failed" /\ l.why = reason /\ l.seen = r[c].seen /\ l.warm = r[c].warm
  BY ResolutionTypes, ResolutionFields
<1>4. Become(c, l)
  BY DEF Broken
<1> HIDE DEF l
<1>5. QED
  BY <1>2, <1>3, <1>4, BecomeResolution DEF Fails

LEMMA MovedResolution ==
  ASSUME ImageTypeOK, NEW c \in Resolvers, NEW label \in ImageLabels, Become(c, [r[c] EXCEPT !.at = label])
  PROVE  Moves(c, label) /\ Aside(c) /\ r' \in [Resolvers -> Resolutions]
<1> DEFINE l == [r[c] EXCEPT !.at = label]
<1>1. r[c] \in Resolutions
  BY DEF ImageTypeOK
<1>2. l \in Resolutions
  BY <1>1, ResolutionTypes, ResolutionKept
<1>3. /\ l.at = label /\ l.probe = r[c].probe /\ l.got = r[c].got /\ l.seen = r[c].seen /\ l.why = r[c].why
      /\ l.warm = r[c].warm
  BY <1>1, ResolutionFields
<1> HIDE DEF l
<1>4. QED
  BY <1>2, <1>3, BecomeResolution DEF Moves, l

(* A step of c: it leaves the others alone, and c itself in order.         *)
InOrder(c) ==
  /\ ImageTypeOK' /\ AliasIsRunnable'
  /\ Aside(c) /\ tag' = tag /\ Grows
  /\ Sees(c)' /\ ExactOne(c)'
  /\ events' = 0 => Calm' /\ CalmOne(c)'

LEMMA StepKeepsInv ==
  ASSUME ImageInv, NEW c \in Resolvers, InOrder(c) PROVE ImageInv'
<1>1. ASSUME NEW y \in Resolvers PROVE Sees(y)' /\ ExactOne(y)' /\ (events' = 0 => CalmOne(y)')
  <2>1. CASE y = c
    BY <2>1 DEF InOrder
  <2>2. CASE y # c
    BY <2>2, OthersKeep DEF InOrder, ImageInv, Undisturbed, Aside
  <2>3. QED
    BY <2>1, <2>2
<1>2. QED
  BY <1>1 DEF InOrder, ImageInv, Undisturbed

(* A resolution that fails, or only goes on, beside unchanged stores.      *)
LEMMA FailureInOrder ==
  ASSUME ImageInv, NEW c \in Resolvers, NEW reason \in Reasons, Broken(c, reason), UNCHANGED <<tag, top, plat>>,
         manifests \subseteq manifests', events' \in {events, events + 1},
         reason = "digest" => Cardinality(r[c].seen) > 1,
         reason = "offline" => c \in OfflineOnes /\ ~(r[c].warm /\ events = 0)
  PROVE  InOrder(c)
<1>1. Fails(c, reason) /\ Aside(c) /\ r' \in [Resolvers -> Resolutions]
  BY BrokenResolution DEF ImageInv
<1>2. events \in Nat /\ events' \in Nat /\ (events' = 0 => events = 0)
  BY DEF ImageInv, ImageTypeOK
<1>3. Ready => Ready'
  BY DEF Ready
<1>4. ImageTypeOK' /\ AliasIsRunnable' /\ Grows
  BY <1>1, <1>2, <1>3 DEF ImageInv, ImageTypeOK, AliasIsRunnable, Grows
<1>5. Sees(c)' /\ ExactOne(c)'
  BY <1>1, <1>2 DEF Fails, Sees, ExactOne, Active, Fetching
<1>6. ASSUME events' = 0 PROVE Calm' /\ CalmOne(c)'
  <2>1. Calm /\ CalmOne(c)
    BY <1>2, <1>6 DEF ImageInv, Undisturbed
  <2>2. QED
    BY <1>1, <1>3, <2>1 DEF Fails, Calm, CalmOne, Fetching
<1>7. QED
  BY <1>1, <1>4, <1>5, <1>6 DEF InOrder

LEMMA MoveOnInOrder ==
  ASSUME ImageInv, NEW c \in Resolvers, NEW label \in Active, Become(c, [r[c] EXCEPT !.at = label]),
         UNCHANGED <<tag, plat, events>>, top' \in MaybeTops, manifests \subseteq manifests',
         r[c].at \in Active, c \in OfflineOnes => label = "platform",
         label \in Fetching => r[c].got \in r[c].seen,
         label \in {"record", "recordPlatform"} => r[c].got \notin Foreign,
         label # "cached",
         events = 0 =>
           /\ top' = FirstTop \/ top' = top
           /\ label \in Fetching => r[c].got = FirstTop
           /\ label \in {"config", "record", "recordPlatform"} => Platform(FirstTop) \in manifests'
           /\ label \in {"record", "recordPlatform"} => Config(FirstTop) \in manifests'
           /\ label \in {"platform", "recordPlatform"} => top' = FirstTop
  PROVE  InOrder(c)
<1>1. Moves(c, label) /\ Aside(c) /\ r' \in [Resolvers -> Resolutions]
  BY MovedResolution DEF ImageInv, ImageLabels
<1>2. ASSUME events = 0 PROVE Ready => Ready'
  BY <1>2 DEF Ready
<1>3. ImageTypeOK' /\ AliasIsRunnable' /\ Grows
  BY <1>1, <1>2 DEF ImageInv, ImageTypeOK, AliasIsRunnable, Grows
<1>4. Sees(c)
  BY DEF ImageInv
<1>5. Sees(c)'
  BY <1>1, <1>4 DEF Moves, Sees, Active, Fetching
<1>6. ExactOne(c)'
  BY <1>1, <1>4 DEF Moves, ExactOne, Sees, Active, Fetching
<1>7. ASSUME events' = 0 PROVE Calm' /\ CalmOne(c)'
  <2>1. Calm /\ CalmOne(c) /\ events = 0
    BY <1>7 DEF ImageInv, Undisturbed
  <2>2. QED
    BY <1>1, <1>2, <2>1 DEF Moves, Calm, CalmOne, Fetching, Active
<1>8. QED
  BY <1>1, <1>3, <1>5, <1>6, <1>7 DEF InOrder

LEMMA AuthenticateInOrder ==
  ASSUME ImageAssumption, ImageInv, NEW c \in Resolvers, Authenticate(c) PROVE InOrder(c)
<1>0. ImageTypeOK /\ r[c] \in Resolutions /\ tag \in Tops /\ Unknown \notin Tops /\ c \notin OfflineOnes
  BY DEF ImageInv, ImageTypeOK, ImageAssumption, Authenticate
<1>1. CASE May /\ events' = events + 1 /\ Broken(c, "network")
  BY <1>1, FailureInOrder DEF Authenticate, Reasons
<1>2. ASSUME NEW digest \in {tag, Unknown}, UNCHANGED events,
             Become(c, [r[c] EXCEPT !.at = IF digest = Unknown THEN "top" ELSE "cached", !.probe = digest, !.seen = {tag}])
      PROVE  InOrder(c)
  <2> DEFINE a == IF digest = Unknown THEN "top" ELSE "cached"
             l == [r[c] EXCEPT !.at = a, !.probe = digest, !.seen = {tag}]
  <2>1. a \in ImageLabels /\ digest \in MaybeTops /\ {tag} \in Views
    BY <1>0, ViewTypes DEF ImageLabels, Active, MaybeTops
  <2>2. l \in Resolutions
    BY <1>0, <2>1, ResolutionKept
  <2>3. /\ l.at = a /\ l.probe = digest /\ l.seen = {tag} /\ l.why = r[c].why /\ l.warm = r[c].warm
    BY <1>0, ResolutionFields
  <2>4. Become(c, l)
    BY <1>2
  <2>5. a \in {"top", "cached"} /\ (a = "cached" => digest # Unknown)
    OBVIOUS
  <2> HIDE DEF a, l
  <2>6. r'[c] = l /\ Aside(c) /\ r' \in [Resolvers -> Resolutions]
    BY <1>0, <2>2, <2>4, BecomeResolution
  <2>7. UNCHANGED <<tag, manifests, top, plat>> /\ r[c].at = "idle"
    BY DEF Authenticate
  <2>8. ImageTypeOK' /\ AliasIsRunnable' /\ Grows
    BY <1>2, <2>6, <2>7 DEF ImageInv, ImageTypeOK, AliasIsRunnable, Grows, Ready
  <2>9. r[c].why = ""
    BY <2>7 DEF ImageInv, Sees
  <2>10. Sees(c)' /\ ExactOne(c)'
    BY <1>0, <2>3, <2>5, <2>6, <2>7, <2>9 DEF Sees, ExactOne, Active, Fetching
  <2>11. ASSUME events' = 0 PROVE Calm' /\ CalmOne(c)'
    <3>1. Calm /\ CalmOne(c)
      BY <1>2, <2>11 DEF ImageInv, Undisturbed
    <3>2. Ready => Ready'
      BY <2>7 DEF Ready
    <3>3. QED
      BY <1>0, <2>3, <2>5, <2>6, <2>7, <3>1, <3>2 DEF Calm, CalmOne, Fetching
  <2>12. QED
    BY <2>6, <2>7, <2>8, <2>10, <2>11 DEF InOrder
<1>3. QED
  BY <1>1, <1>2 DEF Authenticate

LEMMA OfflineInOrder ==
  ASSUME ImageAssumption, ImageInv, NEW c \in Resolvers, Offline(c) PROVE InOrder(c)
<1>0. ImageTypeOK /\ r[c] \in Resolutions /\ c \in OfflineOnes /\ r[c].at = "idle"
      /\ UNCHANGED <<tag, manifests, top, plat, events>>
  BY DEF ImageInv, ImageTypeOK, Offline, Rest
<1>1. events = 0 => Calm /\ CalmOne(c)
  BY DEF ImageInv, Undisturbed
<1>2. CASE top = Unknown
  <2>1. ~(r[c].warm /\ events = 0)
    BY <1>1, <1>2 DEF CalmOne, Ready, ImageAssumption
  <2>2. QED
    BY <1>0, <1>2, <2>1, FailureInOrder DEF Offline, Reasons
<1>3. CASE top # Unknown
  <2> DEFINE b == \E x \in Resolvers : r[x].at = "done"
             l == [r[c] EXCEPT !.at = "cached", !.probe = top, !.warm = b]
  <2>1. "cached" \in ImageLabels /\ top \in MaybeTops /\ b \in BOOLEAN
    BY <1>0 DEF ImageLabels, Active, ImageTypeOK
  <2>2. l \in Resolutions
    BY <1>0, <2>1, ResolutionKept
  <2>3. /\ l.at = "cached" /\ l.probe = top /\ l.why = r[c].why /\ (l.warm <=> b)
    BY <1>0, ResolutionFields
  <2>4. Become(c, l)
    BY <1>3 DEF Offline
  <2>5. b /\ events = 0 => Ready
    BY DEF ImageInv, Undisturbed, CalmOne
  <2> HIDE DEF b, l
  <2>6. r'[c] = l /\ Aside(c) /\ r' \in [Resolvers -> Resolutions]
    BY <1>0, <2>2, <2>4, BecomeResolution
  <2>8. ImageTypeOK' /\ AliasIsRunnable' /\ Grows
    BY <1>0, <2>6 DEF ImageInv, ImageTypeOK, AliasIsRunnable, Grows, Ready
  <2>9. r[c].why = ""
    BY <1>0 DEF ImageInv, Sees
  <2>10. Sees(c)' /\ ExactOne(c)'
    BY <1>0, <1>3, <2>3, <2>6, <2>9 DEF Sees, ExactOne, Active, Fetching
  <2>11. ASSUME events' = 0 PROVE Calm' /\ CalmOne(c)'
    <3>1. Calm /\ CalmOne(c) /\ top = FirstTop
      BY <1>0, <1>1, <1>3, <2>11 DEF Calm
    <3>2. Ready => Ready'
      BY <1>0 DEF Ready
    <3>3. QED
      BY <1>0, <2>3, <2>5, <2>6, <2>11, <3>1, <3>2 DEF Calm, CalmOne, Fetching
  <2>12. QED
    BY <1>0, <2>6, <2>8, <2>10, <2>11 DEF InOrder
<1>4. QED
  BY <1>2, <1>3

(* A miss sends an online resolution to the registry; nothing that could   *)
(* serve an offline one was missed.                                        *)
LEMMA MissInOrder ==
  ASSUME ImageInv, NEW c \in Resolvers, Miss(c), UNCHANGED <<manifests, tag, top, plat, events>>, r[c].at \in Active,
         c \in OfflineOnes => ~(r[c].warm /\ events = 0)
  PROVE  InOrder(c)
<1>1. CASE c \in OfflineOnes
  BY <1>1, FailureInOrder DEF Miss, Reasons
<1>2. CASE c \notin OfflineOnes
  <2>1. Become(c, [r[c] EXCEPT !.at = "top"]) /\ "top" \in Active /\ "top" \notin Fetching
    BY <1>2 DEF Miss, Active, Fetching
  <2>2. top' \in MaybeTops
    BY DEF ImageInv, ImageTypeOK
  <2>3. QED
    BY <1>2, <2>1, <2>2, MoveOnInOrder
<1>3. QED
  BY <1>1, <1>2

LEMMA CachedTopInOrder ==
  ASSUME ImageAssumption, ImageInv, NEW c \in Resolvers, CachedTop(c) PROVE InOrder(c)
<1>0. r[c].at = "cached" /\ r[c].at \in Active /\ UNCHANGED <<tag, manifests, top, plat, events>>
  BY DEF CachedTop, Rest, Active
<1>1. events = 0 => Calm /\ CalmOne(c)
  BY DEF ImageInv, Undisturbed
<1>2. CASE top = r[c].probe
  <2>1. Become(c, [r[c] EXCEPT !.at = "platform"]) /\ "platform" \in Active /\ "platform" \notin Fetching
    BY <1>2 DEF CachedTop, Active, Fetching
  <2>2. top' \in MaybeTops
    BY <1>0 DEF ImageInv, ImageTypeOK
  <2>3. events = 0 => top = FirstTop
    BY <1>0, <1>1, <1>2 DEF Calm, ImageInv, Sees
  <2>4. QED
    BY <1>0, <2>1, <2>2, <2>3, MoveOnInOrder
<1>3. CASE top # r[c].probe
  <2>1. c \in OfflineOnes => events # 0
    BY <1>0, <1>1, <1>3 DEF CalmOne
  <2>2. QED
    BY <1>0, <1>3, <2>1, MissInOrder DEF CachedTop
<1>4. QED
  BY <1>2, <1>3

LEMMA CachedPlatformInOrder ==
  ASSUME ImageAssumption, ImageInv, NEW c \in Resolvers, CachedPlatform(c) PROVE InOrder(c)
<1>0. /\ r[c].at = "platform" /\ r[c].at \in Active /\ UNCHANGED <<tag, manifests, top, plat, events>>
      /\ ImageTypeOK /\ r[c] \in Resolutions /\ FirstTop \in Tops
  BY DEF CachedPlatform, Rest, Active, ImageInv, ImageTypeOK, ImageAssumption
<1>1. events = 0 => Calm /\ CalmOne(c)
  BY DEF ImageInv, Undisturbed
<1>2. CASE plat # NoDigest /\ {plat, Config(TopOf(plat))} \subseteq manifests
  <2> DEFINE l == [r[c] EXCEPT !.at = "done", !.digest = plat, !.hit = TRUE]
  <2>1. "done" \in ImageLabels /\ plat \in Digests /\ TRUE \in BOOLEAN
    BY <1>0 DEF ImageLabels, ImageTypeOK
  <2>2. l \in Resolutions
    BY <1>0, <2>1, ResolutionKept
  <2>3. /\ l.at = "done" /\ l.digest = plat /\ l.hit /\ l.why = r[c].why /\ l.warm = r[c].warm
    BY <1>0, ResolutionFields
  <2>4. Become(c, l)
    BY <1>2 DEF CachedPlatform
  <2> HIDE DEF l
  <2>5. r'[c] = l /\ Aside(c) /\ r' \in [Resolvers -> Resolutions]
    BY <1>0, <2>2, <2>4, BecomeResolution
  <2>6. ImageTypeOK' /\ AliasIsRunnable' /\ Grows
    BY <1>0, <2>5 DEF ImageInv, ImageTypeOK, AliasIsRunnable, Grows, Ready
  <2>7. r[c].why = "" /\ TopOf(plat) \notin Foreign
    BY <1>0, <1>2 DEF ImageInv, Sees, AliasIsRunnable
  <2>8. Sees(c)'
    BY <2>3, <2>5, <2>7 DEF Sees, Active, Fetching
  <2>9. ExactOne(c)'
    BY <2>3, <2>5, <2>7 DEF ExactOne
  <2>10. ASSUME events' = 0 PROVE Calm' /\ CalmOne(c)'
    <3>1. Calm /\ CalmOne(c) /\ top = FirstTop /\ plat = Platform(FirstTop)
      BY <1>0, <1>1, <1>2, <2>10 DEF Calm, CalmOne
    <3>2. Ready'
      BY <1>0, <1>2, <3>1, PlatformFacts DEF Ready
    <3>3. QED
      BY <1>0, <2>3, <2>5, <3>1, <3>2 DEF Calm, CalmOne, Fetching
  <2>11. QED
    BY <1>0, <2>5, <2>6, <2>8, <2>9, <2>10 DEF InOrder
<1>3. CASE plat = NoDigest \/ ~({plat, Config(TopOf(plat))} \subseteq manifests)
  <2>1. ~(r[c].warm /\ events = 0)
    BY <1>0, <1>1, <1>3, PlatformFacts DEF CalmOne, Ready
  <2>2. Miss(c)
    BY <1>3 DEF CachedPlatform
  <2>3. QED
    BY <1>0, <2>1, <2>2, MissInOrder
<1>4. QED
  BY <1>2, <1>3

LEMMA FetchTopInOrder ==
  ASSUME ImageAssumption, ImageInv, NEW c \in Resolvers, FetchTop(c) PROVE InOrder(c)
<1>0. /\ r[c].at = "top" /\ r[c].at \in Active /\ UNCHANGED <<tag, top, plat, events>>
      /\ ImageTypeOK /\ r[c] \in Resolutions /\ r[c].seen \in Views
      /\ c \notin OfflineOnes /\ tag \in r[c].seen /\ r[c].probe \in r[c].seen \cup {Unknown} /\ r[c].why = ""
  BY ResolutionTypes DEF FetchTop, Rest, Active, ImageInv, ImageTypeOK, Sees
<1>1. CASE r[c].probe \notin {Unknown, tag}
  <2>1. Cardinality(r[c].seen) > 1
    BY <1>0, <1>1, MoreThanOne
  <2>2. QED
    BY <1>0, <1>1, <2>1, FailureInOrder DEF FetchTop, Reasons
<1>2. CASE r[c].probe \in {Unknown, tag}
  <2> DEFINE l == [r[c] EXCEPT !.at = "child", !.got = tag, !.seen = @ \cup {tag}]
  <2>1. "child" \in ImageLabels /\ tag \in MaybeTops /\ r[c].seen \cup {tag} \in Views
    BY <1>0, ViewTypes DEF ImageLabels, Active, Fetching, ImageTypeOK, MaybeTops
  <2>2. l \in Resolutions
    BY <1>0, <2>1, ResolutionKept
  <2>3. /\ l.at = "child" /\ l.got = tag /\ l.probe = r[c].probe /\ l.seen = r[c].seen \cup {tag} /\ l.why = r[c].why
        /\ l.warm = r[c].warm
    BY <1>0 DEF Resolutions
  <2>4. Become(c, l) /\ manifests' = manifests \cup {TopObject(tag)}
    BY <1>2 DEF FetchTop
  <2> HIDE DEF l
  <2>5. r'[c] = l /\ Aside(c) /\ r' \in [Resolvers -> Resolutions]
    BY <1>0, <2>2, <2>4, BecomeResolution
  <2>6. Ready => Ready'
    BY <1>0, <2>4 DEF Ready
  <2>7. ImageTypeOK' /\ AliasIsRunnable' /\ Grows
    BY <1>0, <2>4, <2>5, <2>6 DEF ImageInv, ImageTypeOK, AliasIsRunnable, Grows
  <2>8. Sees(c)' /\ ExactOne(c)'
    BY <1>0, <2>3, <2>5 DEF Sees, ExactOne, Active, Fetching
  <2>9. ASSUME events' = 0 PROVE Calm' /\ CalmOne(c)'
    <3>1. Calm /\ CalmOne(c)
      BY <1>0, <2>9 DEF ImageInv, Undisturbed
    <3>2. QED
      BY <1>0, <2>3, <2>5, <2>6, <3>1 DEF Calm, CalmOne, Fetching
  <2>10. QED
    BY <1>0, <2>5, <2>7, <2>8, <2>9 DEF InOrder
<1>3. QED
  BY <1>1, <1>2

LEMMA FetchChildInOrder ==
  ASSUME ImageInv, NEW c \in Resolvers, FetchChild(c) PROVE InOrder(c)
<1>0. /\ r[c].at = "child" /\ r[c].at \in Active /\ UNCHANGED <<tag, top, plat, events>>
      /\ c \notin OfflineOnes /\ r[c].got \in r[c].seen /\ top' \in MaybeTops
  BY DEF FetchChild, Rest, Active, Fetching, ImageInv, ImageTypeOK, Sees
<1>1. CASE r[c].got \in Foreign \cap Index
  BY <1>0, <1>1, FailureInOrder DEF FetchChild, Reasons
<1>2. CASE r[c].got \notin Foreign \cap Index
  <2>1. /\ Become(c, [r[c] EXCEPT !.at = "config"]) /\ manifests' = manifests \cup {Platform(r[c].got)}
        /\ "config" \in Active
    BY <1>2 DEF FetchChild, Active, Fetching
  <2>2. events = 0 => r[c].got = FirstTop
    BY <1>0 DEF ImageInv, Undisturbed, CalmOne, Fetching
  <2>3. QED
    BY <1>0, <2>1, <2>2, MoveOnInOrder
<1>3. QED
  BY <1>1, <1>2

LEMMA FetchConfigInOrder ==
  ASSUME ImageInv, NEW c \in Resolvers, FetchConfig(c) PROVE InOrder(c)
<1>0. /\ r[c].at = "config" /\ r[c].at \in Active /\ UNCHANGED <<tag, top, plat, events>>
      /\ c \notin OfflineOnes /\ r[c].got \in r[c].seen /\ top' \in MaybeTops
      /\ manifests' = manifests \cup {Config(r[c].got)}
  BY DEF FetchConfig, Rest, Active, Fetching, ImageInv, ImageTypeOK, Sees
<1>1. CASE r[c].got \in Foreign
  BY <1>0, <1>1, FailureInOrder DEF FetchConfig, Reasons
<1>2. CASE r[c].got \notin Foreign
  <2>1. Become(c, [r[c] EXCEPT !.at = "record"]) /\ "record" \in Active
    BY <1>2 DEF FetchConfig, Active, Fetching
  <2>2. events = 0 => r[c].got = FirstTop /\ Platform(FirstTop) \in manifests
    BY <1>0 DEF ImageInv, Undisturbed, CalmOne, Fetching
  <2>3. QED
    BY <1>0, <1>2, <2>1, <2>2, MoveOnInOrder
<1>3. QED
  BY <1>1, <1>2

LEMMA RecordTopInOrder ==
  ASSUME ImageInv, NEW c \in Resolvers, RecordTop(c) PROVE InOrder(c)
<1>0. /\ r[c].at = "record" /\ r[c].at \in Active /\ UNCHANGED <<tag, plat, events, manifests>> /\ top' = r[c].got
      /\ c \notin OfflineOnes /\ r[c].got \in r[c].seen /\ r[c].got \notin Foreign
      /\ Become(c, [r[c] EXCEPT !.at = "recordPlatform"]) /\ "recordPlatform" \in Active
  BY DEF RecordTop, Active, Fetching, ImageInv, Sees
<1>1. r[c] \in Resolutions
  BY DEF ImageInv, ImageTypeOK
<1>2. top' \in MaybeTops
  BY <1>0, <1>1, ResolutionTypes
<1>3. events = 0 => r[c].got = FirstTop /\ {Platform(FirstTop), Config(FirstTop)} \subseteq manifests
  BY <1>0 DEF ImageInv, Undisturbed, CalmOne, Fetching
<1>4. QED
  BY <1>0, <1>2, <1>3, MoveOnInOrder

LEMMA RecordPlatformInOrder ==
  ASSUME ImageAssumption, ImageInv, NEW c \in Resolvers, RecordPlatform(c) PROVE InOrder(c)
<1>0. /\ r[c].at = "recordPlatform" /\ UNCHANGED <<tag, manifests, top, events>>
      /\ plat' = Platform(r[c].got)
      /\ Become(c, [r[c] EXCEPT !.at = "done", !.digest = Platform(r[c].got)])
      /\ ImageTypeOK /\ r[c] \in Resolutions /\ r[c].seen \in Views /\ FirstTop \in Tops
      /\ r[c].got \in r[c].seen /\ r[c].got \notin Foreign /\ r[c].why = ""
  BY ResolutionTypes DEF RecordPlatform, Fetching, ImageInv, ImageTypeOK, Sees, ImageAssumption
<1>1. r[c].got \in Tops
  BY <1>0 DEF Views
<1>2. Platform(r[c].got) \in Digests /\ TopOf(Platform(r[c].got)) \notin Foreign
  BY <1>0, <1>1, PlatformFacts
<1> DEFINE l == [r[c] EXCEPT !.at = "done", !.digest = Platform(r[c].got)]
<1>3. l \in Resolutions
  BY <1>0, <1>2, ResolutionKept DEF ImageLabels
<1>4. /\ l.at = "done" /\ l.digest = Platform(r[c].got) /\ l.got = r[c].got /\ l.seen = r[c].seen /\ l.why = r[c].why
      /\ l.warm = r[c].warm
  BY <1>0 DEF Resolutions
<1>5. Become(c, l)
  BY <1>0
<1> HIDE DEF l
<1>6. r'[c] = l /\ Aside(c) /\ r' \in [Resolvers -> Resolutions]
  BY <1>0, <1>3, <1>5, BecomeResolution
<1>7. ASSUME events = 0 PROVE Ready' /\ Calm'
  <2>1. Calm /\ CalmOne(c)
    BY <1>7 DEF ImageInv, Undisturbed
  <2>2. r[c].got = FirstTop /\ top = FirstTop /\ {Platform(FirstTop), Config(FirstTop)} \subseteq manifests
    BY <1>0, <2>1 DEF CalmOne, Fetching
  <2>3. QED
    BY <1>0, <2>1, <2>2 DEF Ready, Calm
<1>8. ImageTypeOK' /\ AliasIsRunnable' /\ Grows
  BY <1>0, <1>2, <1>6, <1>7 DEF ImageTypeOK, AliasIsRunnable, Grows
<1>9. Sees(c)' /\ ExactOne(c)'
  BY <1>0, <1>2, <1>4, <1>6 DEF Sees, ExactOne, Active, Fetching
<1>10. ASSUME events' = 0 PROVE Calm' /\ CalmOne(c)'
  BY <1>0, <1>4, <1>6, <1>7, <1>10 DEF CalmOne, Fetching
<1>11. QED
  BY <1>0, <1>6, <1>8, <1>9, <1>10 DEF InOrder

LEMMA KillInOrder == ASSUME ImageInv, NEW c \in Resolvers, Kill(c) PROVE InOrder(c)
<1> DEFINE l == [NotBegun EXCEPT !.at = "dead"]
<1>0. ImageTypeOK /\ UNCHANGED <<tag, manifests, top, plat>> /\ events' = events + 1 /\ Become(c, l) /\ events \in Nat
  BY DEF Kill, ImageInv, ImageTypeOK
<1>1. l \in Resolutions /\ l.at = "dead" /\ l.why = ""
  BY ResolutionTypes, ResolutionKept, ResolutionFields DEF ImageLabels, NotBegun
<1> HIDE DEF l
<1>2. r'[c] = l /\ Aside(c) /\ r' \in [Resolvers -> Resolutions]
  BY <1>0, <1>1, BecomeResolution
<1>3. events' \in Nat /\ events' # 0
  BY <1>0
<1>4. ImageTypeOK' /\ AliasIsRunnable' /\ Grows
  BY <1>0, <1>2, <1>3 DEF ImageInv, ImageTypeOK, AliasIsRunnable, Grows
<1>5. Sees(c)' /\ ExactOne(c)'
  BY <1>1, <1>2 DEF Sees, ExactOne, Active, Fetching
<1>6. QED
  BY <1>0, <1>2, <1>3, <1>4, <1>5 DEF InOrder

LEMMA MoveKeepsInv == ASSUME ImageInv, Move PROVE ImageInv'
<1>0. /\ ImageTypeOK /\ UNCHANGED <<manifests, top, plat>> /\ events' \in Nat /\ events' # 0 /\ tag' \in Tops
  BY DEF Move, ImageInv, ImageTypeOK
<1>1. ASSUME NEW c \in Resolvers PROVE r'[c] \in Resolutions /\ Sees(c)' /\ ExactOne(c)'
  <2>0. r[c] \in Resolutions /\ r[c].seen \in Views /\ Sees(c) /\ ExactOne(c)
    BY <1>0, ResolutionTypes DEF ImageInv, ImageTypeOK
  <2>1. CASE r[c].at \in {"idle", "done", "failed", "dead"}
    <3>1. r'[c] = r[c]
      BY <2>1 DEF Move
    <3>2. QED
      BY <1>0, <2>0, <2>1, <3>1 DEF Sees, ExactOne, Active, Fetching
  <2>2. CASE r[c].at \notin {"idle", "done", "failed", "dead"}
    <3> DEFINE l == [r[c] EXCEPT !.seen = @ \cup {tag'}]
    <3>1. r'[c] = l
      BY <2>2 DEF Move
    <3>2. r[c].seen \cup {tag'} \in Views
      BY <1>0, <2>0, ViewTypes
    <3>3. l \in Resolutions
      BY <2>0, <3>2, ResolutionKept
    <3>4. /\ l.at = r[c].at /\ l.probe = r[c].probe /\ l.got = r[c].got /\ l.seen = r[c].seen \cup {tag'}
          /\ l.why = r[c].why
      BY <2>0, ResolutionFields
    <3> HIDE DEF l
    <3>5. QED
      BY <1>0, <2>0, <2>2, <3>1, <3>3, <3>4 DEF Sees, ExactOne, Active, Fetching
  <2>3. QED
    BY <2>1, <2>2
<1>2. r' = [c \in Resolvers |-> r'[c]]
  BY DEF Move
<1>3. r' \in [Resolvers -> Resolutions]
  BY <1>1, <1>2
<1>4. QED
  BY <1>0, <1>1, <1>3 DEF ImageInv, ImageTypeOK, AliasIsRunnable, Undisturbed

LEMMA CleanKeepsInv == ASSUME ImageInv, Clean PROVE ImageInv'
<1>0. UNCHANGED <<tag, top, plat, r>> /\ events' \in Nat /\ events' # 0 /\ ImageTypeOK
  BY DEF Clean, ImageInv, ImageTypeOK
<1>1. \A c \in Resolvers : Sees(c)' /\ ExactOne(c)'
  BY <1>0 DEF ImageInv, Sees, ExactOne
<1>2. QED
  BY <1>0, <1>1 DEF ImageInv, ImageTypeOK, AliasIsRunnable, Undisturbed

LEMMA InitImageInv == ASSUME ImageAssumption, ImageInit PROVE ImageInv
<1>1. ImageTypeOK /\ \A c \in Resolvers : r[c] = NotBegun
  BY ResolutionTypes DEF ImageInit, ImageTypeOK, ImageAssumption, MaybeTops, Digests
<1>2. NotBegun.at = "idle" /\ NotBegun.why = "" /\ ~NotBegun.warm
  BY DEF NotBegun
<1>3. \A c \in Resolvers : Sees(c) /\ ExactOne(c) /\ CalmOne(c)
  BY <1>1, <1>2 DEF Sees, ExactOne, CalmOne, Active, Fetching
<1>4. Calm /\ AliasIsRunnable
  BY DEF ImageInit, Calm, AliasIsRunnable
<1>5. QED
  BY <1>1, <1>3, <1>4 DEF ImageInv, Undisturbed

LEMMA NextImageInv ==
  ASSUME ImageAssumption, ImageInv, [ImageNext]_imageVars PROVE ImageInv'
<1>1. ASSUME NEW c \in Resolvers, Resolve(c) \/ Kill(c) PROVE ImageInv'
  <2>1. InOrder(c)
    BY <1>1, AuthenticateInOrder, OfflineInOrder, CachedTopInOrder, CachedPlatformInOrder, FetchTopInOrder,
       FetchChildInOrder, FetchConfigInOrder, RecordTopInOrder, RecordPlatformInOrder, KillInOrder DEF Resolve
  <2>2. QED
    BY <2>1, StepKeepsInv
<1>2. CASE UNCHANGED imageVars
  BY <1>2 DEF imageVars, ImageInv, ImageTypeOK, AliasIsRunnable, Undisturbed, Sees, ExactOne, Calm, CalmOne, Ready
<1>3. QED
  BY <1>1, <1>2, MoveKeepsInv, CleanKeepsInv DEF ImageNext

(* However many processes resolve one reference while its tag moves, is    *)
(* cached and cleaned: a fetched image is the linux/amd64 manifest of what *)
(* the tag named meanwhile, never one of another platform; "digest" is     *)
(* only said when the tag moved; and an offline run finds what an online   *)
(* one left unless something moved, died or was cleaned.                   *)
THEOREM ImagesAreExact == ASSUME ImageAssumption PROVE ImageSpec => []FetchedImageIsExact
<1>1. ImageInv => FetchedImageIsExact
  BY DEF ImageInv, ExactOne, FetchedImageIsExact
<1>2. QED
  BY <1>1, InitImageInv, NextImageInv, PTL DEF ImageSpec

-----------------------------------------------------------------------------
(* Artifacts                                                               *)

Keys == {Key(u) : u \in Uploads}
Pieces == Uploads \X Nat
ArtifactDirs == [meta : SUBSET Keys, blocks : SUBSET Pieces, blob : Seq(Pieces)]
UploadLabels == {"idle", "refused", "mkdir", "upload", "finalize", "failed", "abandoned", "uploaded"}
ArtifactTypeOK ==
  /\ staged \in [ArtifactIds -> ArtifactDirs] /\ finalized \in [ArtifactIds -> ArtifactDirs]
  /\ at \in [Uploads -> UploadLabels] /\ DOMAIN id = Uploads
  /\ deleted \in BOOLEAN

Stored(dirs, key) == \E i \in ArtifactIds : dirs[i].meta = {key}
Begun(u) == at[u] \in {"upload", "finalize"}
OneOfAName(dirs) == \A i, j \in ArtifactIds : dirs[i].meta # {} /\ dirs[i].meta = dirs[j].meta => i = j

(* An upload owns its staged directory, and nothing of its name is final.  *)
Owns(u) ==
  /\ at[u] = "mkdir" => ~Stored(staged, Key(u)) /\ ~Stored(finalized, Key(u))
  /\ Begun(u) => id[u] \in ArtifactIds /\ staged[id[u]].meta = {Key(u)} /\ ~Stored(finalized, Key(u))
  /\ at[u] = "finalize" => staged[id[u]].blob = Whole(u)
Apart(u, v) ==
  /\ Begun(u) /\ Begun(v) /\ Key(u) = Key(v) => u = v
  /\ at[u] = "mkdir" /\ at[v] = "mkdir" /\ ScopeOf[u] = ScopeOf[v] => u = v
FinalIsWhole ==
  \A i \in ArtifactIds : finalized[i] # None =>
    \E u \in Uploads : at[u] = "uploaded" /\ finalized[i].meta = {Key(u)} /\ finalized[i].blob = Whole(u)
FetchIsHonest ==
  /\ fetch.at = "url" /\ ~deleted => fetch.id \in ArtifactIds /\ finalized[fetch.id].meta = {fetch.key}
  /\ fetch.at = "read" /\ ~deleted =>
       \E u \in Uploads : Key(u) = fetch.key /\ at[u] = "uploaded" /\ fetch.bytes = Whole(u)
  /\ fetch.at = "notfound" => deleted

FetchTypeOK == fetch = [at |-> fetch.at, key |-> fetch.key, id |-> fetch.id, bytes |-> fetch.bytes]

ArtifactGood ==
  /\ ArtifactTypeOK
  /\ OneOfAName(staged) /\ OneOfAName(finalized)
  /\ \A u \in Uploads : Owns(u) /\ \A v \in Uploads : Apart(u, v)
  /\ FinalIsWhole /\ FetchIsHonest
ArtifactInv == clash = {} => ArtifactGood

LEMMA DirTypes ==
  /\ None \in ArtifactDirs /\ None.meta = {}
  /\ \A u \in Uploads : [None EXCEPT !.meta = {Key(u)}] \in ArtifactDirs /\ [None EXCEPT !.meta = {Key(u)}].meta = {Key(u)}
  /\ \A dir \in ArtifactDirs :
       /\ dir.meta # {} => dir # None
       /\ \A b \in SUBSET Pieces : /\ [dir EXCEPT !.blocks = b] \in ArtifactDirs
                                   /\ [dir EXCEPT !.blocks = b].meta = dir.meta /\ [dir EXCEPT !.blocks = b].blob = dir.blob
       /\ \A s \in Seq(Pieces) : /\ [dir EXCEPT !.blob = s] \in ArtifactDirs
                                 /\ [dir EXCEPT !.blob = s].meta = dir.meta /\ [dir EXCEPT !.blob = s].blob = s
       /\ dir.blocks \in SUBSET Pieces
<1>1. None.meta = {} /\ None \in ArtifactDirs
  BY DEF None, ArtifactDirs
<1>2. \A u \in Uploads : Key(u) \in Keys
  BY DEF Keys
<1>3. \A u \in Uploads : [None EXCEPT !.meta = {Key(u)}] \in ArtifactDirs /\ [None EXCEPT !.meta = {Key(u)}].meta = {Key(u)}
  BY <1>1, <1>2 DEF ArtifactDirs
<1>4. QED
  BY <1>1, <1>3 DEF ArtifactDirs

LEMMA WholeTypes ==
  ASSUME UploadAssumption, NEW u \in Uploads
  PROVE  Whole(u) \in Seq(Pieces) /\ Whole(u) # <<>> /\ (\A n \in 1..Blocks[u] : <<u, n>> \in Pieces)
<1>1. Blocks[u] \in Nat
  BY DEF UploadAssumption
<1>2. CASE Blocks[u] = 0
  BY <1>2 DEF Whole, Pieces
<1>3. CASE Blocks[u] # 0
  <2>1. Whole(u) = [n \in 1..Blocks[u] |-> <<u, n>>]
    BY <1>3 DEF Whole, BlockList
  <2>2. Whole(u) \in Seq(Pieces)
    BY <1>1, <2>1 DEF Pieces
  <2>3. 1 \in DOMAIN Whole(u) /\ 1 \notin DOMAIN <<>>
    BY <1>1, <1>3, <2>1
  <2>4. QED
    BY <1>1, <2>2, <2>3 DEF Pieces
<1>4. QED
  BY <1>2, <1>3

LEMMA NamedIsStored ==
  ASSUME NEW dirs \in [ArtifactIds -> ArtifactDirs], NEW key
  PROVE  /\ \A i : i \in Named(dirs, key) <=> i \in ArtifactIds /\ dirs[i].meta = {key}
         /\ Named(dirs, key) = {} <=> ~Stored(dirs, key)
<1>1. \A i \in ArtifactIds : dirs[i].meta = {key} => dirs[i] # None
  BY DirTypes
<1>2. \A i : i \in Named(dirs, key) <=> i \in ArtifactIds /\ dirs[i].meta = {key}
  BY <1>1 DEF Named, PresentIn
<1>3. QED
  BY <1>2 DEF Stored

(* The only directory of a name is the lowest.                             *)
LEMMA LowestOfOne ==
  ASSUME NEW dirs \in [ArtifactIds -> ArtifactDirs], OneOfAName(dirs), NEW key, Named(dirs, key) # {}
  PROVE  Min(Named(dirs, key)) \in ArtifactIds /\ dirs[Min(Named(dirs, key))].meta = {key}
<1>1. PICK i \in Named(dirs, key) : TRUE
  OBVIOUS
<1>2. i \in Int /\ \A j \in Named(dirs, key) : j = i
  <2>1. \A j \in Named(dirs, key) : j \in ArtifactIds /\ dirs[j].meta = {key} /\ dirs[j].meta # {}
    BY NamedIsStored
  <2>2. \A j \in Named(dirs, key) : j = i
    BY <1>1, <2>1 DEF OneOfAName
  <2>3. QED
    BY <1>1, <2>1, <2>2 DEF ArtifactIds
<1>3. Named(dirs, key) = {i}
  BY <1>1, <1>2
<1>4. Min({i}) = i
  BY <1>2 DEF Min
<1>5. QED
  BY <1>1, <1>3, <1>4, NamedIsStored

(* An upload that ends without a result leaves everything as it is.        *)
LEMMA EndingKeeps ==
  ASSUME ArtifactGood, NEW u \in Uploads, NEW label \in {"refused", "failed", "abandoned"}, UploadGoto(u, label),
         at[u] # "uploaded", UNCHANGED <<staged, finalized, id, fetch, deleted>>
  PROVE  ArtifactGood'
<1>1. at' \in [Uploads -> UploadLabels] /\ at'[u] = label /\ \A v \in Uploads : v # u => at'[v] = at[v]
  BY DEF ArtifactGood, ArtifactTypeOK, UploadGoto, UploadLabels
<1>2. ArtifactTypeOK' /\ OneOfAName(staged)' /\ OneOfAName(finalized)'
  BY <1>1 DEF ArtifactGood, ArtifactTypeOK, OneOfAName
<1>3. \A v \in Uploads : Owns(v)'
  BY <1>1 DEF ArtifactGood, Owns, Begun, Stored
<1>4. \A v, x \in Uploads : Apart(v, x)'
  BY <1>1 DEF ArtifactGood, Apart, Begun
<1>5. FinalIsWhole' /\ FetchIsHonest'
  BY <1>1 DEF ArtifactGood, FinalIsWhole, FetchIsHonest
<1>6. QED
  BY <1>2, <1>3, <1>4, <1>5 DEF ArtifactGood

LEMMA CreateKeeps ==
  ASSUME ArtifactGood, NEW u \in Uploads, Create(u), clash' = {} PROVE ArtifactGood'
<1>0. /\ at[u] = "idle" /\ Free(ScopeOf[u]) /\ UNCHANGED <<staged, finalized, fetch, deleted>>
      /\ staged \in [ArtifactIds -> ArtifactDirs] /\ finalized \in [ArtifactIds -> ArtifactDirs]
  BY DEF Create, ArtifactGood, ArtifactTypeOK
<1>1. CASE Named(finalized, Key(u)) # {}
  BY <1>0, <1>1, EndingKeeps DEF Create
<1>2. CASE Named(finalized, Key(u)) = {}
  <2>1. Named(staged, Key(u)) = {} /\ UploadGoto(u, "mkdir")
    BY <1>2 DEF Create
  <2>2. ~Stored(staged, Key(u)) /\ ~Stored(finalized, Key(u))
    BY <1>0, <1>2, <2>1, NamedIsStored
  <2>3. at' \in [Uploads -> UploadLabels] /\ at'[u] = "mkdir" /\ \A v \in Uploads : v # u => at'[v] = at[v]
    BY <2>1 DEF ArtifactGood, ArtifactTypeOK, UploadGoto, UploadLabels
  <2>4. DOMAIN id' = Uploads /\ \A v \in Uploads : v # u => id'[v] = id[v]
    BY <1>2 DEF Create, ArtifactGood, ArtifactTypeOK
  <2>5. ArtifactTypeOK' /\ OneOfAName(staged)' /\ OneOfAName(finalized)'
    BY <1>0, <2>3, <2>4 DEF ArtifactGood, ArtifactTypeOK, OneOfAName
  <2>6. \A v \in Uploads : Owns(v)'
    BY <1>0, <2>2, <2>3, <2>4 DEF ArtifactGood, Owns, Begun, Stored
  <2>7. \A v, x \in Uploads : Apart(v, x)'
    BY <1>0, <2>3 DEF ArtifactGood, Apart, Begun, Free
  <2>8. FinalIsWhole' /\ FetchIsHonest'
    BY <1>0, <2>3 DEF ArtifactGood, FinalIsWhole, FetchIsHonest
  <2>9. QED
    BY <2>5, <2>6, <2>7, <2>8 DEF ArtifactGood
<1>3. QED
  BY <1>1, <1>2

LEMMA AllocateIdKeeps ==
  ASSUME ArtifactGood, NEW u \in Uploads, AllocateId(u) PROVE ArtifactGood'
<1>0. /\ at[u] = "mkdir" /\ id[u] \in ArtifactIds /\ UNCHANGED <<finalized, fetch, deleted>>
      /\ staged \in [ArtifactIds -> ArtifactDirs]
      /\ ~Stored(staged, Key(u)) /\ ~Stored(finalized, Key(u))
  BY DEF AllocateId, ArtifactGood, ArtifactTypeOK, Owns
<1>1. CASE staged[id[u]] # None
  <2>1. UNCHANGED <<staged, at>> /\ DOMAIN id' = Uploads /\ \A v \in Uploads : v # u => id'[v] = id[v]
    BY <1>1 DEF AllocateId, ArtifactGood, ArtifactTypeOK
  <2>2. ArtifactTypeOK' /\ OneOfAName(staged)' /\ OneOfAName(finalized)'
    BY <1>0, <2>1 DEF ArtifactGood, ArtifactTypeOK, OneOfAName
  <2>3. \A v \in Uploads : Owns(v)'
    BY <1>0, <2>1 DEF ArtifactGood, Owns, Begun, Stored
  <2>4. \A v, x \in Uploads : Apart(v, x)'
    BY <1>0, <2>1 DEF ArtifactGood, Apart, Begun
  <2>5. FinalIsWhole' /\ FetchIsHonest'
    BY <1>0, <2>1 DEF ArtifactGood, FinalIsWhole, FetchIsHonest
  <2>6. QED
    BY <2>2, <2>3, <2>4, <2>5 DEF ArtifactGood
<1>2. CASE staged[id[u]] = None
  <2> DEFINE dir == [None EXCEPT !.meta = {Key(u)}]
  <2>1. dir \in ArtifactDirs /\ dir.meta = {Key(u)}
    BY DirTypes
  <2>2. staged' = [staged EXCEPT ![id[u]] = dir] /\ UploadGoto(u, "upload") /\ id' = id
    BY <1>2 DEF AllocateId, write_meta
  <2> HIDE DEF dir
  <2>3. /\ staged' \in [ArtifactIds -> ArtifactDirs] /\ staged'[id[u]].meta = {Key(u)}
        /\ \A i \in ArtifactIds : i # id[u] => staged'[i] = staged[i]
    BY <1>0, <2>1, <2>2
  <2>4. at' \in [Uploads -> UploadLabels] /\ at'[u] = "upload" /\ \A v \in Uploads : v # u => at'[v] = at[v]
    BY <2>2 DEF ArtifactGood, ArtifactTypeOK, UploadGoto, UploadLabels
  <2>5. ArtifactTypeOK' /\ OneOfAName(finalized)'
    BY <1>0, <2>2, <2>3, <2>4 DEF ArtifactGood, ArtifactTypeOK, OneOfAName
  <2>6. OneOfAName(staged)'
    BY <1>0, <2>3 DEF ArtifactGood, OneOfAName, Stored
  <2>7. ASSUME NEW v \in Uploads, v # u PROVE Owns(v)' /\ (Begun(v) => Key(v) # Key(u))
    <3>1. Owns(v) /\ Apart(u, v)
      BY DEF ArtifactGood
    <3>2. CASE at[v] = "mkdir"
      <4>1. Key(v) # Key(u)
        BY <1>0, <2>7, <3>1, <3>2 DEF Apart, Key
      <4>2. ~Stored(staged, Key(v))'
        BY <1>0, <2>3, <3>1, <3>2, <4>1 DEF Owns, Stored
      <4>3. QED
        BY <1>0, <2>4, <2>7, <3>1, <3>2, <4>2 DEF Owns, Begun, Stored
    <3>3. CASE Begun(v)
      <4>1. id[v] \in ArtifactIds /\ staged[id[v]].meta = {Key(v)} /\ id[v] # id[u] /\ Key(v) # Key(u)
        BY <1>0, <1>2, <3>1, <3>3, DirTypes DEF Owns, Stored
      <4>2. QED
        BY <1>0, <2>2, <2>3, <2>4, <2>7, <3>1, <3>3, <4>1 DEF Owns, Begun, Stored
    <3>4. QED
      BY <2>4, <2>7, <3>2, <3>3 DEF Owns, Begun
  <2>8. Owns(u)'
    BY <1>0, <2>2, <2>3, <2>4 DEF Owns, Begun, Stored
  <2>9. \A v, x \in Uploads : Apart(v, x)'
    BY <1>0, <2>4, <2>7 DEF ArtifactGood, Apart, Begun
  <2>10. FinalIsWhole' /\ FetchIsHonest'
    BY <1>0, <2>4 DEF ArtifactGood, FinalIsWhole, FetchIsHonest
  <2>11. QED
    BY <2>5, <2>6, <2>7, <2>8, <2>9, <2>10 DEF ArtifactGood
<1>3. QED
  BY <1>1, <1>2

(* An upload writes into its own directory only.                           *)
LEMMA WritingKeeps ==
  ASSUME ArtifactGood, NEW u \in Uploads, at[u] = "upload", NEW dir \in ArtifactDirs, dir.meta = staged[id[u]].meta,
         staged' = [staged EXCEPT ![id[u]] = dir], UNCHANGED <<finalized, id, fetch, deleted>>,
         \/ at' = at
         \/ UploadGoto(u, "finalize") /\ dir.blob = Whole(u)
  PROVE  ArtifactGood'
<1>0. /\ id[u] \in ArtifactIds /\ staged[id[u]].meta = {Key(u)} /\ staged \in [ArtifactIds -> ArtifactDirs]
  BY DEF ArtifactGood, ArtifactTypeOK, Owns, Begun
<1>1. /\ staged' \in [ArtifactIds -> ArtifactDirs] /\ staged'[id[u]] = dir
      /\ \A i \in ArtifactIds : staged'[i].meta = staged[i].meta /\ (i # id[u] => staged'[i] = staged[i])
  BY <1>0
<1>2. /\ at' \in [Uploads -> UploadLabels] /\ at'[u] \in {"upload", "finalize"}
      /\ at'[u] = "finalize" => dir.blob = Whole(u)
      /\ \A v \in Uploads : v # u => at'[v] = at[v]
  BY DEF ArtifactGood, ArtifactTypeOK, UploadGoto, UploadLabels
<1>3. ArtifactTypeOK' /\ OneOfAName(finalized)'
  BY <1>1, <1>2 DEF ArtifactGood, ArtifactTypeOK, OneOfAName
<1>4. OneOfAName(staged)'
  BY <1>1 DEF ArtifactGood, OneOfAName
<1>5. ASSUME NEW v \in Uploads, v # u PROVE Owns(v)'
  <2>1. Owns(v) /\ Apart(u, v)
    BY DEF ArtifactGood
  <2>2. CASE Begun(v)
    <3>1. Key(v) # Key(u)
      BY <1>5, <2>1, <2>2 DEF Apart, Begun
    <3>2. id[v] \in ArtifactIds /\ staged[id[v]].meta = {Key(v)} /\ id[v] # id[u]
      BY <1>0, <2>1, <2>2, <3>1 DEF Owns
    <3>3. QED
      BY <1>1, <1>2, <1>5, <2>1, <2>2, <3>2 DEF Owns, Begun, Stored
  <2>3. CASE ~Begun(v)
    BY <1>1, <1>2, <1>5, <2>1, <2>3 DEF Owns, Begun, Stored
  <2>4. QED
    BY <2>2, <2>3
<1>6. Owns(u)'
  BY <1>0, <1>1, <1>2 DEF ArtifactGood, Owns, Begun, Stored
<1>7. \A v, x \in Uploads : Apart(v, x)'
  BY <1>2 DEF ArtifactGood, Apart, Begun
<1>8. FinalIsWhole' /\ FetchIsHonest'
  BY <1>2 DEF ArtifactGood, FinalIsWhole, FetchIsHonest
<1>9. QED
  BY <1>3, <1>4, <1>5, <1>6, <1>7, <1>8 DEF ArtifactGood

LEMMA OwnDirectory ==
  ASSUME ArtifactGood, NEW u \in Uploads, Begun(u)
  PROVE  id[u] \in ArtifactIds /\ staged[id[u]] \in ArtifactDirs /\ Open(u)
<1>1. id[u] \in ArtifactIds /\ staged[id[u]].meta = {Key(u)} /\ staged[id[u]] \in ArtifactDirs
  BY DEF ArtifactGood, Owns, ArtifactTypeOK
<1>2. QED
  BY <1>1, DirTypes DEF Open

LEMMA StageBlockKeeps ==
  ASSUME UploadAssumption, ArtifactGood, NEW u \in Uploads, NEW n \in 1..Blocks[u], StageBlock(u, n) PROVE ArtifactGood'
<1>0. at[u] = "upload" /\ Begun(u) /\ Open(u) /\ staged[id[u]] \in ArtifactDirs
  BY OwnDirectory DEF StageBlock, Begun
<1> DEFINE dir == [staged[id[u]] EXCEPT !.blocks = @ \cup {<<u, n>>}]
<1>1. staged[id[u]].blocks \cup {<<u, n>>} \in SUBSET Pieces
  BY <1>0, DirTypes, WholeTypes
<1>2. dir \in ArtifactDirs /\ dir.meta = staged[id[u]].meta
  BY <1>0, <1>1, DirTypes
<1>3. staged' = [staged EXCEPT ![id[u]] = dir] /\ UNCHANGED <<finalized, id, fetch, deleted>> /\ at' = at
  BY <1>0 DEF StageBlock
<1> HIDE DEF dir
<1>4. QED
  BY <1>0, <1>2, <1>3, WritingKeeps

LEMMA CommitKeeps ==
  ASSUME UploadAssumption, ArtifactGood, NEW u \in Uploads, CommitBlocks(u) \/ PutWhole(u) PROVE ArtifactGood'
<1>0. at[u] = "upload" /\ Begun(u) /\ Open(u) /\ staged[id[u]] \in ArtifactDirs /\ Whole(u) \in Seq(Pieces)
  BY OwnDirectory, WholeTypes DEF CommitBlocks, PutWhole, Begun
<1> DEFINE dir == [staged[id[u]] EXCEPT !.blob = Whole(u)]
<1>1. dir \in ArtifactDirs /\ dir.meta = staged[id[u]].meta /\ dir.blob = Whole(u)
  BY <1>0, DirTypes
<1>2. Blocks[u] \in Nat
  BY DEF UploadAssumption
<1>3. staged' = [staged EXCEPT ![id[u]] = dir] /\ UNCHANGED <<finalized, id, fetch, deleted>> /\ UploadGoto(u, "finalize")
  <2>1. CASE CommitBlocks(u)
    BY <1>0, <1>2, <2>1 DEF CommitBlocks, Whole
  <2>2. CASE PutWhole(u)
    BY <1>0, <2>2 DEF PutWhole, Whole
  <2>3. QED
    BY <2>1, <2>2
<1> HIDE DEF dir
<1>4. QED
  BY <1>0, <1>1, <1>3, WritingKeeps

(* The staged directory of that name is the upload's own, and whole.       *)
LEMMA FinalizeKeeps ==
  ASSUME UploadAssumption, ArtifactGood, NEW u \in Uploads, FinalizeArtifact(u) PROVE ArtifactGood'
<1>0. /\ at[u] = "finalize" /\ UNCHANGED <<id, fetch, deleted>>
      /\ staged \in [ArtifactIds -> ArtifactDirs] /\ finalized \in [ArtifactIds -> ArtifactDirs]
      /\ id[u] \in ArtifactIds /\ staged[id[u]].meta = {Key(u)} /\ staged[id[u]].blob = Whole(u)
      /\ ~Stored(finalized, Key(u))
  BY DEF FinalizeArtifact, ArtifactGood, ArtifactTypeOK, Owns, Begun
<1>1. CASE UploadGoto(u, "failed") /\ UNCHANGED <<staged, finalized>>
  BY <1>0, <1>1, EndingKeeps
<1>2. ASSUME NEW i \in Named(staged, Key(u)), finalized[i] = None, finalized' = [finalized EXCEPT ![i] = staged[i]],
             staged' = [staged EXCEPT ![i] = None], UploadGoto(u, "uploaded")
      PROVE  ArtifactGood'
  <2>1. i = id[u] /\ staged[i] \in ArtifactDirs /\ staged[i] # None
    <3>1. i \in ArtifactIds /\ staged[i].meta = {Key(u)} /\ staged[i].meta # {}
      BY <1>0, <1>2, NamedIsStored
    <3>2. i = id[u]
      BY <1>0, <3>1 DEF ArtifactGood, OneOfAName
    <3>3. QED
      BY <1>0, <3>1, <3>2, DirTypes
  <2>2. /\ staged' \in [ArtifactIds -> ArtifactDirs] /\ staged'[i].meta = {}
        /\ \A j \in ArtifactIds : j # i => staged'[j] = staged[j]
    BY <1>0, <1>2, <2>1, DirTypes
  <2>3. /\ finalized' \in [ArtifactIds -> ArtifactDirs]
        /\ finalized'[i].meta = {Key(u)} /\ finalized'[i].blob = Whole(u)
        /\ \A j \in ArtifactIds : j # i => finalized'[j] = finalized[j]
    BY <1>0, <1>2, <2>1
  <2>4. at' \in [Uploads -> UploadLabels] /\ at'[u] = "uploaded" /\ \A v \in Uploads : v # u => at'[v] = at[v]
    BY <1>2 DEF ArtifactGood, ArtifactTypeOK, UploadGoto, UploadLabels
  <2>5. ArtifactTypeOK'
    BY <1>0, <2>2, <2>3, <2>4 DEF ArtifactGood, ArtifactTypeOK
  <2>6. OneOfAName(staged)'
    BY <2>2 DEF ArtifactGood, OneOfAName
  <2>7. OneOfAName(finalized)'
    BY <1>0, <2>1, <2>3 DEF ArtifactGood, OneOfAName, Stored
  <2>8. ASSUME NEW v \in Uploads, v # u PROVE Owns(v)'
    <3>1. Owns(v) /\ Apart(u, v)
      BY DEF ArtifactGood
    <3>2. CASE at[v] = "mkdir"
      <4>1. Key(v) # Key(u)
        BY <1>0, <3>1, <3>2 DEF Owns, Stored
      <4>2. ~Stored(staged, Key(v))'
        BY <1>0, <2>1, <2>2, <3>1, <3>2 DEF Owns, Stored
      <4>3. ~Stored(finalized, Key(v))'
        BY <1>0, <2>1, <2>3, <3>1, <3>2, <4>1 DEF Owns, Stored
      <4>4. QED
        BY <2>4, <2>8, <3>2, <4>2, <4>3 DEF Owns, Begun
    <3>3. CASE Begun(v)
      <4>1. Key(v) # Key(u)
        BY <1>0, <2>8, <3>1, <3>3 DEF Apart, Begun
      <4>2. id[v] \in ArtifactIds /\ staged[id[v]].meta = {Key(v)} /\ id[v] # i
        BY <1>0, <2>1, <3>1, <3>3, <4>1 DEF Owns
      <4>3. ~Stored(finalized, Key(v))'
        BY <2>1, <2>3, <3>1, <3>3, <4>1 DEF Owns, Stored
      <4>4. QED
        BY <1>0, <2>2, <2>4, <2>8, <3>1, <3>3, <4>2, <4>3 DEF Owns, Begun
    <3>4. QED
      BY <2>4, <2>8, <3>2, <3>3 DEF Owns, Begun
  <2>9. Owns(u)' /\ \A v, x \in Uploads : Apart(v, x)'
    BY <2>4 DEF ArtifactGood, Owns, Apart, Begun
  <2>10. FinalIsWhole'
    BY <1>0, <2>3, <2>4 DEF ArtifactGood, FinalIsWhole
  <2>11. FetchIsHonest'
    <3>1. fetch.at = "url" /\ ~deleted => fetch.id # i
      BY <1>2, DirTypes DEF ArtifactGood, FetchIsHonest
    <3>2. QED
      BY <1>0, <2>1, <2>3, <2>4, <3>1 DEF ArtifactGood, FetchIsHonest
  <2>12. QED
    BY <2>5, <2>6, <2>7, <2>8, <2>9, <2>10, <2>11 DEF ArtifactGood
<1>3. QED
  BY <1>1, <1>2 DEF FinalizeArtifact

LEMMA FetchingKeeps ==
  ASSUME ArtifactGood, UNCHANGED <<staged, finalized, at, id>>, deleted' \in BOOLEAN, FetchIsHonest' PROVE ArtifactGood'
<1>1. ArtifactTypeOK' /\ OneOfAName(staged)' /\ OneOfAName(finalized)' /\ FinalIsWhole'
  BY DEF ArtifactGood, ArtifactTypeOK, OneOfAName, FinalIsWhole
<1>2. \A u \in Uploads : Owns(u)' /\ \A v \in Uploads : Apart(u, v)'
  BY DEF ArtifactGood, Owns, Apart, Begun, Stored
<1>3. QED
  BY <1>1, <1>2 DEF ArtifactGood

LEMMA GetSignedUrlKeeps ==
  ASSUME ArtifactGood, NEW key, GetSignedUrl(key) PROVE ArtifactGood'
<1>0. UNCHANGED <<staged, finalized, at, id>> /\ deleted' = FALSE /\ finalized \in [ArtifactIds -> ArtifactDirs]
  BY DEF GetSignedUrl, ArtifactGood, ArtifactTypeOK
<1>1. CASE Named(finalized, key) = {}
  <2>1. fetch'.at = "missing"
    BY <1>1 DEF GetSignedUrl, NoFetch
  <2>2. QED
    BY <1>0, <2>1, FetchingKeeps DEF FetchIsHonest
<1>2. CASE Named(finalized, key) # {}
  <2>1. fetch'.at = "url" /\ fetch'.key = key /\ fetch'.id = Min(Named(finalized, key))
    BY <1>2 DEF GetSignedUrl, NoFetch
  <2>2. fetch'.id \in ArtifactIds /\ finalized'[fetch'.id].meta = {fetch'.key}
    BY <1>0, <1>2, <2>1, LowestOfOne DEF ArtifactGood
  <2>3. FetchIsHonest'
    BY <2>1, <2>2 DEF FetchIsHonest
  <2>4. QED
    BY <1>0, <2>3, FetchingKeeps
<1>3. QED
  BY <1>1, <1>2

LEMMA BlobGetKeeps == ASSUME UploadAssumption, ArtifactGood, FetchTypeOK, BlobGet PROVE ArtifactGood'
<1>0. /\ fetch.at = "url" /\ UNCHANGED <<staged, finalized, at, id, deleted>> /\ deleted \in BOOLEAN
      /\ finalized \in [ArtifactIds -> ArtifactDirs]
  BY DEF BlobGet, ArtifactGood, ArtifactTypeOK
<1>1. CASE finalized[fetch.id] # None /\ finalized[fetch.id].blob # <<>>
  <2>1. fetch'.at = "read" /\ fetch'.key = fetch.key /\ fetch'.bytes = finalized[fetch.id].blob
    BY <1>1 DEF BlobGet, FetchTypeOK
  <2>2. ASSUME ~deleted PROVE \E u \in Uploads : Key(u) = fetch.key /\ at[u] = "uploaded" /\ fetch'.bytes = Whole(u)
    <3>1. fetch.id \in ArtifactIds /\ finalized[fetch.id].meta = {fetch.key}
      BY <1>0, <2>2 DEF ArtifactGood, FetchIsHonest
    <3>2. PICK u \in Uploads :
            at[u] = "uploaded" /\ finalized[fetch.id].meta = {Key(u)} /\ finalized[fetch.id].blob = Whole(u)
      BY <1>1, <3>1 DEF ArtifactGood, FinalIsWhole
    <3>3. QED
      BY <2>1, <3>1, <3>2
  <2>3. FetchIsHonest'
    BY <1>0, <2>1, <2>2 DEF FetchIsHonest
  <2>4. QED
    BY <1>0, <2>3, FetchingKeeps
<1>2. CASE ~(finalized[fetch.id] # None /\ finalized[fetch.id].blob # <<>>)
  <2>1. fetch'.at = "notfound"
    BY <1>2 DEF BlobGet, FetchTypeOK
  <2>2. deleted
    <3>1. SUFFICES ASSUME ~deleted PROVE FALSE
      OBVIOUS
    <3>2. fetch.id \in ArtifactIds /\ finalized[fetch.id].meta = {fetch.key}
      BY <1>0, <3>1 DEF ArtifactGood, FetchIsHonest
    <3>3. finalized[fetch.id] # None
      BY <1>0, <3>2, DirTypes
    <3>4. PICK u \in Uploads : finalized[fetch.id].blob = Whole(u)
      BY <3>2, <3>3 DEF ArtifactGood, FinalIsWhole
    <3>5. QED
      BY <1>2, <3>3, <3>4, WholeTypes
  <2>3. FetchIsHonest'
    BY <1>0, <2>1, <2>2 DEF FetchIsHonest
  <2>4. QED
    BY <1>0, <2>3, FetchingKeeps
<1>3. QED
  BY <1>1, <1>2

LEMMA DeleteKeeps == ASSUME ArtifactGood, NEW key, DeleteArtifact(key) PROVE ArtifactGood'
<1> DEFINE k == Min(Named(finalized, key))
<1>0. /\ UNCHANGED <<staged, at, id, fetch>> /\ deleted' = TRUE /\ finalized' = [finalized EXCEPT ![k] = None]
      /\ finalized \in [ArtifactIds -> ArtifactDirs] /\ Named(finalized, key) # {}
  BY DEF DeleteArtifact, ArtifactGood, ArtifactTypeOK
<1>1. k \in ArtifactIds
  BY <1>0, LowestOfOne DEF ArtifactGood
<1> HIDE DEF k
<1>2. /\ finalized' \in [ArtifactIds -> ArtifactDirs] /\ finalized'[k] = None
      /\ \A i \in ArtifactIds : i # k => finalized'[i] = finalized[i]
  BY <1>0, <1>1, DirTypes
<1>3. ArtifactTypeOK' /\ OneOfAName(staged)'
  BY <1>0, <1>2 DEF ArtifactGood, ArtifactTypeOK, OneOfAName
<1>4. OneOfAName(finalized)'
  BY <1>2, DirTypes DEF ArtifactGood, OneOfAName
<1>5. \A x : Stored(finalized, x)' => Stored(finalized, x)
  BY <1>2, DirTypes DEF Stored
<1>6. \A u \in Uploads : Owns(u)'
  BY <1>0, <1>5 DEF ArtifactGood, Owns, Begun, Stored
<1>7. \A u, v \in Uploads : Apart(u, v)'
  BY <1>0 DEF ArtifactGood, Apart, Begun
<1>8. FinalIsWhole'
  BY <1>0, <1>2 DEF ArtifactGood, FinalIsWhole
<1>9. FetchIsHonest'
  BY <1>0 DEF FetchIsHonest
<1>10. QED
  BY <1>3, <1>4, <1>6, <1>7, <1>8, <1>9 DEF ArtifactGood

LEMMA InitArtifactInv == ASSUME UploadAssumption, ArtifactInit PROVE ArtifactInv /\ FetchTypeOK
<1>1. ArtifactTypeOK /\ \A i \in ArtifactIds : staged[i] = None /\ finalized[i] = None
  BY DirTypes DEF ArtifactInit, ArtifactTypeOK, UploadLabels
<1>2. OneOfAName(staged) /\ OneOfAName(finalized) /\ FinalIsWhole
  BY <1>1, DirTypes DEF OneOfAName, FinalIsWhole
<1>3. \A u \in Uploads : Owns(u) /\ \A v \in Uploads : Apart(u, v)
  BY DEF ArtifactInit, Owns, Apart, Begun
<1>4. FetchIsHonest /\ FetchTypeOK
  BY DEF ArtifactInit, NoFetch, FetchIsHonest, FetchTypeOK
<1>5. QED
  BY <1>1, <1>2, <1>3, <1>4 DEF ArtifactInv, ArtifactGood

LEMMA NextFetchType == ASSUME FetchTypeOK, [ArtifactNext]_artifactVars PROVE FetchTypeOK'
<1>1. CASE UNCHANGED fetch
  BY <1>1 DEF FetchTypeOK
<1>2. ASSUME NEW key, GetSignedUrl(key) PROVE FetchTypeOK'
  BY <1>2 DEF GetSignedUrl, NoFetch, FetchTypeOK
<1>3. CASE BlobGet
  BY <1>3 DEF BlobGet, FetchTypeOK
<1>4. QED
  BY <1>1, <1>2, <1>3
  DEF ArtifactNext, artifactVars, Create, AllocateId, CommitBlocks, PutWhole, FinalizeArtifact, AbandonUpload, StageBlock,
      DeleteArtifact

LEMMA NextArtifactInv ==
  ASSUME UploadAssumption, ArtifactInv, FetchTypeOK, [ArtifactNext]_artifactVars PROVE ArtifactInv'
<1>1. SUFFICES ASSUME clash' = {} PROVE ArtifactGood'
  BY DEF ArtifactInv
<1>2. clash = {}
  BY <1>1 DEF ArtifactNext, artifactVars, Create, AllocateId, CommitBlocks, PutWhole, FinalizeArtifact, AbandonUpload,
         StageBlock, GetSignedUrl, BlobGet, DeleteArtifact
<1>3. ArtifactGood
  BY <1>2 DEF ArtifactInv
<1>4. ASSUME NEW u \in Uploads, AbandonUpload(u) PROVE ArtifactGood'
  BY <1>3, <1>4, EndingKeeps DEF AbandonUpload
<1>5. CASE UNCHANGED artifactVars
  BY <1>3, <1>5, FetchingKeeps DEF artifactVars, ArtifactGood, ArtifactTypeOK, FetchIsHonest
<1>6. QED
  BY <1>1, <1>3, <1>4, <1>5, CreateKeeps, AllocateIdKeeps, StageBlockKeeps, CommitKeeps, FinalizeKeeps, GetSignedUrlKeeps,
     BlobGetKeeps, DeleteKeeps DEF ArtifactNext

(* For any uploads in any runs, with any blocks: as long as no name of a   *)
(* run has two open uploads, a download is the whole of one upload of that *)
(* name in that run which ended, a blob is missing only if it was deleted, *)
(* and a name is finalized once, though ids are allocated without a lock   *)
(* and finalize looks the upload up by its name.                           *)
THEOREM DownloadsAreUploads == ASSUME UploadAssumption PROVE ArtifactSpec => []DownloadIsAnUpload
<1>1. ArtifactInv => DownloadIsAnUpload
  <2>1. SUFFICES ASSUME ArtifactGood
                 PROVE  /\ fetch.at = "read" /\ ~deleted =>
                             \E u \in Uploads : Key(u) = fetch.key /\ at[u] = "uploaded" /\ fetch.bytes = Whole(u)
                        /\ fetch.at = "notfound" => deleted
                        /\ \A i, j \in PresentIn(finalized) : finalized[i].meta = finalized[j].meta => i = j
    BY DEF ArtifactInv, DownloadIsAnUpload
  <2>2. \A i \in PresentIn(finalized) : i \in ArtifactIds /\ finalized[i].meta # {}
    BY <2>1 DEF PresentIn, ArtifactGood, FinalIsWhole
  <2>3. \A i, j \in PresentIn(finalized) : finalized[i].meta = finalized[j].meta => i = j
    BY <2>1, <2>2 DEF ArtifactGood, OneOfAName
  <2>4. QED
    BY <2>1, <2>3 DEF ArtifactGood, FetchIsHonest
<1>2. QED
  BY <1>1, InitArtifactInv, NextFetchType, NextArtifactInv, PTL DEF ArtifactSpec
-----------------------------------------------------------------------------
(* The cache                                                               *)

(* A save whose reservation is, or will stay, where it created it.         *)
Kept == {"meta", "upload", "rename", "gone", "failed"}
Uploading == {"upload", "rename"}
Reserves(c) ==
  /\ pc[c] \notin Uploading \cup {"saved", "failed", "gone"} => sent[c] = {}
  /\ pc[c] \in Kept => next[c] \in Ids /\ reserved[next[c]] # Absent
  /\ pc[c] \in {"saved", "failed"} => next[c] \in Ids /\ entries[next[c]] # Absent
  /\ pc[c] \in Uploading => reserved[next[c]].meta = c
  /\ pc[c] = "rename" => sent[c] = Offsets
  /\ pc[c] \in Uploading /\ entries[next[c]] = Absent => \A o \in sent[c] : reserved[next[c]].blob[o] = c
Separate(c, d) == pc[c] \in Kept /\ pc[d] \in Kept /\ next[c] = next[d] => c = d
SaveInv ==
  /\ TypeOK /\ EntryWhole /\ ConflictIsReal
  /\ \A c \in Savers : Reserves(c) /\ \A d \in Savers : Separate(c, d)

(* What a lookup holds.                                                    *)
Found == {"found", "read", "lost"}
LookupOK ==
  /\ restore.at # "idle" => restore.start \subseteq Present(entries) /\ restore.query \in Queries
  /\ restore.at \in Found =>
       /\ restore.id \in Ids
       /\ restore = [at |-> restore.at, query |-> restore.query, start |-> restore.start, key |-> restore.key,
                     exact |-> restore.exact, id |-> restore.id]
CacheInv == SaveInv /\ LookupOK /\ HitIsServed /\ SavedIsFound

LEMMA CacheDirTypes ==
  /\ Fresh \in Dirs /\ Fresh # Absent
  /\ \A dir \in Dirs, t \in 0..MaxClock :
       /\ [dir EXCEPT !.created = t] \in Dirs
       /\ [dir EXCEPT !.created = t].meta = dir.meta /\ [dir EXCEPT !.created = t].blob = dir.blob
<1>1. Fresh \in Dirs
  BY CacheAssumption DEF Fresh, Dirs, Hole
<1>2. \A dir \in Dirs, t \in 0..MaxClock :
        /\ [dir EXCEPT !.created = t] \in Dirs
        /\ [dir EXCEPT !.created = t].meta = dir.meta /\ [dir EXCEPT !.created = t].blob = dir.blob
  BY DEF Dirs
<1>3. QED
  BY <1>1, <1>2, CacheAssumption

LEMMA ChunkWritten ==
  ASSUME NEW dir \in Dirs, NEW c \in Savers, NEW o \in Offsets
  PROVE  /\ [dir EXCEPT !.blob[o] = c] \in Dirs
         /\ [dir EXCEPT !.blob[o] = c].meta = dir.meta
         /\ [dir EXCEPT !.blob[o] = c].blob[o] = c
         /\ \A q \in Offsets : q # o => [dir EXCEPT !.blob[o] = c].blob[q] = dir.blob[q]
<1>1. dir.blob \in [Offsets -> Savers \cup {Absent}]
  BY DEF Dirs
<1>2. /\ [dir EXCEPT !.blob[o] = c] \in Dirs
      /\ [dir EXCEPT !.blob[o] = c].meta = dir.meta
      /\ [dir EXCEPT !.blob[o] = c].blob = [dir.blob EXCEPT ![o] = c]
  BY DEF Dirs
<1>3. QED
  BY <1>1, <1>2

(* A save that has no reservation yet moves on.                            *)
LEMMA SearchKeeps ==
  ASSUME SaveInv, NEW c \in Savers, Reserve(c) \/ ScanPending(c) \/ ScanCommitted(c) PROVE SaveInv'
<1> DEFINE before == {"check", "pending", "entries", "create", "conflict"}
<1>1. /\ pc[c] \in before /\ pc'[c] \in before /\ pc' \in [Savers -> PCs] /\ DOMAIN next' = Savers
      /\ reserved' = reserved /\ entries' = entries /\ sent' = sent /\ restore' = restore /\ clock' = clock
      /\ \A d \in Savers : d # c => pc'[d] = pc[d] /\ next'[d] = next[d]
  BY DEF SaveInv, TypeOK, Reserve, ScanPending, ScanCommitted, Goto, PCs
<1>2. TypeOK' /\ EntryWhole'
  BY <1>1 DEF SaveInv, TypeOK, EntryWhole, Present
<1>3. ConflictIsReal'
  <2>1. pc'[c] = "conflict" => Committed(KeyOf[c], VersionOf[c]) # {}
    BY DEF Reserve, ScanPending, ScanCommitted, Goto, SaveInv, TypeOK
  <2>2. QED
    BY <1>1, <2>1 DEF SaveInv, ConflictIsReal, Committed, Present
<1>4. \A d \in Savers : Reserves(d)'
  BY <1>1 DEF SaveInv, Reserves, Kept, Uploading
<1>5. \A d, e \in Savers : Separate(d, e)'
  BY <1>1 DEF SaveInv, Separate, Kept
<1>6. QED
  BY <1>2, <1>3, <1>4, <1>5 DEF SaveInv

(* The reservation of c, which no other save keeps, is written or made.    *)
LEMMA OwnReservation ==
  ASSUME SaveInv, NEW c \in Savers, NEW dir \in Dirs,
         next[c] \in Ids, reserved' = [reserved EXCEPT ![next[c]] = dir],
         \A d \in Savers : d # c /\ pc[d] \in Kept => next[d] # next[c],
         UNCHANGED <<entries, next, restore>>, clock' \in 0..MaxClock,
         pc' \in [Savers -> PCs], sent' \in [Savers -> SUBSET Offsets],
         pc'[c] \in Kept \cup Ended, pc'[c] # "conflict", pc[c] # "conflict",
         \A d \in Savers : d # c => pc'[d] = pc[d] /\ sent'[d] = sent[d],
         Reserves(c)'
  PROVE  SaveInv'
<1>1. /\ reserved' \in [Ids -> Dirs \cup {Absent}] /\ reserved'[next[c]] = dir
      /\ \A i \in Ids : i # next[c] => reserved'[i] = reserved[i]
  BY DEF SaveInv, TypeOK
<1>2. TypeOK' /\ EntryWhole'
  BY <1>1 DEF SaveInv, TypeOK, EntryWhole, Present
<1>3. ConflictIsReal'
  BY DEF SaveInv, ConflictIsReal, Committed, Present
<1>4. ASSUME NEW d \in Savers, d # c PROVE Reserves(d)'
  <2>1. pc'[d] = pc[d] /\ sent'[d] = sent[d] /\ next'[d] = next[d] /\ Reserves(d)
    BY <1>4 DEF SaveInv
  <2>2. pc[d] \in Kept => next[d] \in Ids /\ reserved'[next[d]] = reserved[next[d]]
    BY <1>1, <1>4, <2>1 DEF Reserves
  <2>3. QED
    BY <2>1, <2>2 DEF Reserves, Kept, Uploading
<1>5. \A d, e \in Savers : Separate(d, e)'
  BY DEF SaveInv, Separate
<1>6. QED
  BY <1>2, <1>3, <1>4, <1>5 DEF SaveInv

LEMMA CreateDirKeeps ==
  ASSUME SaveInv, NEW c \in Savers, CreateDir(c) PROVE SaveInv'
<1>1. CASE reserved[next[c]] = Absent
  <2>1. /\ reserved' = [reserved EXCEPT ![next[c]] = Fresh] /\ next[c] \in Ids /\ pc[c] = "create"
        /\ pc' = [pc EXCEPT ![c] = "meta"] /\ UNCHANGED <<clock, entries, next, sent, restore>>
    BY <1>1 DEF CreateDir
  <2>2. \A d \in Savers : d # c /\ pc[d] \in Kept => next[d] # next[c]
    BY <1>1 DEF SaveInv, Reserves
  <2>3. pc' \in [Savers -> PCs] /\ pc'[c] = "meta" /\ \A d \in Savers : d # c => pc'[d] = pc[d]
    BY <2>1 DEF SaveInv, TypeOK, PCs
  <2>4. reserved'[next[c]] = Fresh /\ sent[c] = {}
    BY <2>1 DEF SaveInv, TypeOK, Reserves, Uploading
  <2>5. Reserves(c)'
    BY <2>1, <2>3, <2>4, CacheDirTypes DEF Reserves, Uploading, Kept
  <2>6. QED
    BY <2>1, <2>2, <2>3, <2>5, CacheDirTypes, OwnReservation DEF SaveInv, TypeOK, Kept
<1>2. CASE reserved[next[c]] # Absent
  <2>1. /\ pc[c] = "create" /\ next' = [next EXCEPT ![c] = @ + 1]
        /\ UNCHANGED <<clock, pc, reserved, entries, sent, restore>>
    BY <1>2 DEF CreateDir
  <2>2. DOMAIN next' = Savers /\ \A d \in Savers : d # c => next'[d] = next[d]
    BY <2>1 DEF SaveInv, TypeOK
  <2>3. TypeOK' /\ EntryWhole' /\ ConflictIsReal'
    BY <2>1, <2>2 DEF SaveInv, TypeOK, EntryWhole, ConflictIsReal, Committed, Present
  <2>4. \A d \in Savers : Reserves(d)'
    BY <2>1, <2>2 DEF SaveInv, Reserves, Kept, Uploading
  <2>5. \A d, e \in Savers : Separate(d, e)'
    BY <2>1, <2>2 DEF SaveInv, Separate, Kept
  <2>6. QED
    BY <2>3, <2>4, <2>5 DEF SaveInv
<1>3. QED
  BY <1>1, <1>2

LEMMA Reserved ==
  ASSUME SaveInv, NEW c \in Savers, pc[c] \in Kept
  PROVE  /\ next[c] \in Ids /\ reserved[next[c]] \in Dirs
         /\ \A d \in Savers : d # c /\ pc[d] \in Kept => next[d] # next[c]
  BY DEF SaveInv, TypeOK, Reserves, Separate

LEMMA WriteMetaKeeps ==
  ASSUME SaveInv, NEW c \in Savers, WriteMeta(c) PROVE SaveInv'
<1> DEFINE dir == [reserved[next[c]] EXCEPT !.meta = c, !.created = clock]
<1>1. pc[c] = "meta" /\ sent[c] = {} /\ clock \in 0..MaxClock /\ reserved[next[c]] \in Dirs
  BY Reserved DEF WriteMeta, Goto, SaveInv, Reserves, TypeOK, Uploading, Kept
<1>2. dir \in Dirs /\ dir.meta = c
  BY <1>1 DEF Dirs
<1>3. /\ reserved' = [reserved EXCEPT ![next[c]] = dir]
      /\ pc' = [pc EXCEPT ![c] = "upload"] /\ UNCHANGED <<clock, entries, next, sent, restore>>
  BY <1>1, Reserved DEF WriteMeta, Goto, Kept, SaveInv, TypeOK
<1> HIDE DEF dir
<1>4. /\ pc' \in [Savers -> PCs] /\ pc'[c] = "upload" /\ reserved'[next[c]] = dir
      /\ \A d \in Savers : d # c => pc'[d] = pc[d]
  BY <1>1, <1>3, Reserved DEF SaveInv, TypeOK, PCs, Kept
<1>5. Reserves(c)'
  BY <1>1, <1>2, <1>3, <1>4, Reserved, CacheAssumption DEF Reserves, Kept, Uploading
<1>6. QED
  BY <1>1, <1>2, <1>3, <1>4, <1>5, Reserved, OwnReservation DEF SaveInv, TypeOK, Kept

LEMMA UploadKeeps ==
  ASSUME SaveInv, NEW c \in Savers, NEW o \in Offsets, Upload(c, o) PROVE SaveInv'
<1> DEFINE dir == [reserved[next[c]] EXCEPT !.blob[o] = c]
<1>1. pc[c] = "upload" /\ reserved[next[c]] \in Dirs /\ next[c] \in Ids /\ reserved[next[c]].meta = c
  BY Reserved DEF Upload, SaveInv, Reserves, Kept, Uploading
<1>2. /\ dir \in Dirs /\ dir.meta = c /\ dir.blob[o] = c
      /\ \A q \in Offsets : q # o => dir.blob[q] = reserved[next[c]].blob[q]
  <2>1. PICK old \in Dirs : old = reserved[next[c]]
    BY <1>1
  <2>2. dir = [old EXCEPT !.blob[o] = c]
    BY <2>1
  <2>3. QED
    BY <1>1, <2>1, <2>2, ChunkWritten
<1>3. /\ reserved' = [reserved EXCEPT ![next[c]] = dir]
      /\ sent' = [sent EXCEPT ![c] = @ \cup {o}] /\ UNCHANGED <<clock, entries, pc, next, restore>>
  BY <1>1 DEF Upload, SaveInv, TypeOK
<1> HIDE DEF dir
<1>4. /\ sent' \in [Savers -> SUBSET Offsets] /\ sent'[c] = sent[c] \cup {o} /\ reserved'[next[c]] = dir
      /\ \A d \in Savers : d # c => sent'[d] = sent[d]
  BY <1>1, <1>3 DEF SaveInv, TypeOK
<1>5. Reserves(c)'
  <2>1. Reserves(c) /\ sent[c] \subseteq Offsets
    BY DEF SaveInv, TypeOK
  <2>2. QED
    BY <1>1, <1>2, <1>3, <1>4, <2>1, CacheAssumption DEF Reserves, Kept, Uploading
<1>6. QED
  BY <1>1, <1>2, <1>3, <1>4, <1>5, Reserved, OwnReservation DEF SaveInv, TypeOK, Kept

LEMMA CommitMetaKeeps ==
  ASSUME SaveInv, NEW c \in Savers, CommitMeta(c) PROVE SaveInv'
<1> DEFINE dir == [reserved[next[c]] EXCEPT !.created = clock]
<1>1. /\ pc[c] = "upload" /\ sent[c] = Offsets /\ clock \in 0..MaxClock
      /\ reserved[next[c]] \in Dirs /\ next[c] \in Ids /\ reserved[next[c]].meta = c
  BY Reserved DEF CommitMeta, Goto, SaveInv, Reserves, TypeOK, Uploading, Kept
<1>2. dir \in Dirs /\ dir.meta = c /\ dir.blob = reserved[next[c]].blob
  BY <1>1, CacheDirTypes
<1>3. /\ reserved' = [reserved EXCEPT ![next[c]] = dir]
      /\ pc' = [pc EXCEPT ![c] = "rename"] /\ UNCHANGED <<clock, entries, next, sent, restore>>
  BY <1>1 DEF CommitMeta, Goto, SaveInv, TypeOK
<1> HIDE DEF dir
<1>4. /\ pc' \in [Savers -> PCs] /\ pc'[c] = "rename" /\ reserved'[next[c]] = dir
      /\ \A d \in Savers : d # c => pc'[d] = pc[d]
  BY <1>1, <1>3 DEF SaveInv, TypeOK, PCs
<1>5. Reserves(c)'
  BY <1>1, <1>2, <1>3, <1>4, CacheAssumption DEF SaveInv, Reserves, Kept, Uploading
<1>6. QED
  BY <1>1, <1>2, <1>3, <1>4, <1>5, Reserved, OwnReservation DEF SaveInv, TypeOK, Kept

LEMMA AbandonKeeps ==
  ASSUME SaveInv, NEW c \in Savers, Abandon(c) PROVE SaveInv'
<1>1. /\ pc[c] \in {"meta", "upload"} /\ pc'[c] = "gone" /\ pc' \in [Savers -> PCs]
      /\ \A d \in Savers : d # c => pc'[d] = pc[d]
      /\ UNCHANGED <<clock, reserved, entries, next, sent, restore>>
  BY DEF Abandon, SaveInv, TypeOK, PCs
<1>2. TypeOK' /\ EntryWhole' /\ ConflictIsReal'
  BY <1>1 DEF SaveInv, TypeOK, EntryWhole, ConflictIsReal, Committed, Present
<1>3. \A d \in Savers : Reserves(d)'
  BY <1>1 DEF SaveInv, Reserves, Kept, Uploading
<1>4. \A d, e \in Savers : Separate(d, e)'
  BY <1>1 DEF SaveInv, Separate, Kept
<1>5. QED
  BY <1>2, <1>3, <1>4 DEF SaveInv

(* A late request of a save that ended lands in a reservation of the same  *)
(* id that somebody else may be filling; but then the id is committed and  *)
(* that reservation will never be.                                         *)
LEMMA LateChunkKeeps ==
  ASSUME SaveInv, NEW c \in Savers, NEW o \in Offsets, LateChunk(c, o) PROVE SaveInv'
<1> DEFINE dir == [reserved[next[c]] EXCEPT !.blob[o] = c]
<1>1. pc[c] \in {"saved", "failed", "gone"} /\ next[c] \in Ids /\ reserved[next[c]] \in Dirs
  BY DEF LateChunk, SaveInv, TypeOK, Reserves, Uploading, Kept, Ended
<1>2. dir \in Dirs /\ dir.meta = reserved[next[c]].meta
  BY <1>1 DEF Dirs
<1>3. reserved' = [reserved EXCEPT ![next[c]] = dir] /\ UNCHANGED <<clock, entries, pc, next, sent, restore>>
  BY <1>1 DEF LateChunk, SaveInv, TypeOK
<1> HIDE DEF dir
<1>4. /\ reserved' \in [Ids -> Dirs \cup {Absent}] /\ reserved'[next[c]] = dir
      /\ \A i \in Ids : i # next[c] => reserved'[i] = reserved[i]
  BY <1>1, <1>2, <1>3 DEF SaveInv, TypeOK
<1>5. TypeOK' /\ EntryWhole' /\ ConflictIsReal'
  BY <1>3, <1>4 DEF SaveInv, TypeOK, EntryWhole, ConflictIsReal, Committed, Present
<1>6. ASSUME NEW d \in Savers PROVE Reserves(d)'
  <2>1. Reserves(d)
    BY DEF SaveInv
  <2>2. CASE pc[d] \in Uploading /\ next[d] = next[c]
    <3>1. pc[c] # "gone"
      BY <1>1, <2>2 DEF SaveInv, Separate, Kept, Uploading
    <3>2. entries[next[c]] # Absent
      BY <1>1, <3>1 DEF SaveInv, Reserves
    <3>3. QED
      BY <1>1, <1>2, <1>3, <1>4, <2>1, <2>2, <3>2, CacheAssumption DEF Reserves, Kept, Uploading
  <2>3. CASE ~(pc[d] \in Uploading /\ next[d] = next[c])
    BY <1>2, <1>3, <1>4, <2>1, <2>3, CacheAssumption DEF Reserves, Kept, Uploading
  <2>4. QED
    BY <2>2, <2>3
<1>7. \A d, e \in Savers : Separate(d, e)'
  BY <1>3 DEF SaveInv, Separate
<1>8. QED
  BY <1>5, <1>6, <1>7 DEF SaveInv

(* What was committed stays as it is.                                      *)
EntriesStay == \A i \in Present(entries) : i \in Present(entries)' /\ entries'[i] = entries[i]

LEMMA RenameKeeps ==
  ASSUME SaveInv, NEW c \in Savers, CommitRename(c) PROVE SaveInv' /\ EntriesStay
<1>1. /\ pc[c] = "rename" /\ next[c] \in Ids /\ reserved[next[c]] \in Dirs /\ reserved[next[c]].meta = c
      /\ sent[c] = Offsets /\ UNCHANGED <<clock, next, sent, restore>>
      /\ entries[next[c]] = Absent => \A o \in Offsets : reserved[next[c]].blob[o] = c
  BY Reserved DEF CommitRename, SaveInv, Reserves, Uploading, Kept
<1>2. CASE entries[next[c]] = Absent
  <2>1. /\ pc' = [pc EXCEPT ![c] = "saved"] /\ entries' = [entries EXCEPT ![next[c]] = reserved[next[c]]]
        /\ reserved' = [reserved EXCEPT ![next[c]] = Absent]
    BY <1>2 DEF CommitRename
  <2>2. /\ pc' \in [Savers -> PCs] /\ pc'[c] = "saved" /\ \A d \in Savers : d # c => pc'[d] = pc[d]
        /\ entries' \in [Ids -> Dirs \cup {Absent}] /\ entries'[next[c]] = reserved[next[c]]
        /\ reserved' \in [Ids -> Dirs \cup {Absent}]
        /\ \A i \in Ids : i # next[c] => entries'[i] = entries[i] /\ reserved'[i] = reserved[i]
    BY <1>1, <2>1 DEF SaveInv, TypeOK, PCs
  <2>3. TypeOK'
    BY <1>1, <2>2 DEF SaveInv, TypeOK
  <2>4. EntryWhole'
    BY <1>1, <1>2, <2>2, CacheAssumption DEF SaveInv, EntryWhole, Present
  <2>5. EntriesStay
    BY <1>2, <2>2 DEF EntriesStay, Present
  <2>6. ConflictIsReal'
    BY <1>1, <2>2, <2>5 DEF SaveInv, ConflictIsReal, Committed, EntriesStay, Present
  <2>7. ASSUME NEW d \in Savers PROVE Reserves(d)'
    <3>1. CASE d = c
      BY <1>1, <2>2, <3>1, CacheAssumption DEF Reserves, Kept, Uploading
    <3>2. CASE d # c
      <4>1. pc'[d] = pc[d] /\ sent'[d] = sent[d] /\ next'[d] = next[d] /\ Reserves(d)
        BY <1>1, <2>2, <3>2 DEF SaveInv
      <4>2. pc[d] \in Kept => next[d] # next[c]
        BY <1>1, <3>2, Reserved DEF Kept
      <4>3. pc[d] \in {"saved", "failed"} => entries'[next[d]] # Absent
        BY <1>1, <2>2, <4>1, CacheAssumption DEF Reserves
      <4>4. QED
        BY <2>2, <4>1, <4>2, <4>3 DEF Reserves, Kept, Uploading
    <3>3. QED
      BY <3>1, <3>2
  <2>8. \A d, e \in Savers : Separate(d, e)'
    BY <1>1, <2>2 DEF SaveInv, Separate, Kept
  <2>9. QED
    BY <2>3, <2>4, <2>5, <2>6, <2>7, <2>8 DEF SaveInv
<1>3. CASE entries[next[c]] # Absent
  <2>1. /\ pc'[c] = "failed" /\ pc' \in [Savers -> PCs] /\ \A d \in Savers : d # c => pc'[d] = pc[d]
        /\ UNCHANGED <<entries, reserved>>
    BY <1>3 DEF CommitRename, SaveInv, TypeOK, PCs
  <2>2. TypeOK' /\ EntryWhole' /\ ConflictIsReal' /\ EntriesStay
    BY <1>1, <2>1 DEF SaveInv, TypeOK, EntryWhole, ConflictIsReal, Committed, Present, EntriesStay
  <2>3. \A d \in Savers : Reserves(d)'
    BY <1>1, <1>3, <2>1, CacheAssumption DEF SaveInv, Reserves, Kept, Uploading
  <2>4. \A d, e \in Savers : Separate(d, e)'
    BY <1>1, <2>1 DEF SaveInv, Separate, Kept
  <2>5. QED
    BY <2>2, <2>3, <2>4 DEF SaveInv
<1>4. QED
  BY <1>2, <1>3

LEMMA InitCacheInv == ASSUME Init PROVE CacheInv
<1> USE DEF Init, Idle
<1>1. TypeOK
  BY CacheAssumption DEF TypeOK, PCs
<1>2. EntryWhole /\ ConflictIsReal
  BY DEF EntryWhole, ConflictIsReal, Present
<1>3. \A c, d \in Savers : Reserves(c) /\ Separate(c, d)
  BY DEF Reserves, Separate, Kept, Uploading
<1>4. LookupOK /\ HitIsServed /\ SavedIsFound
  BY DEF LookupOK, HitIsServed, SavedIsFound, Found
<1>5. QED
  BY <1>1, <1>2, <1>3, <1>4 DEF CacheInv, SaveInv

Lookup == (\E q \in Queries : LookupBegin(q)) \/ LookupEnd \/ Download \/ Forget

LEMMA NextSaveInv ==
  ASSUME CacheInv, [Next]_vars PROVE SaveInv' /\ EntriesStay
<1>1. ASSUME UNCHANGED <<reserved, entries, pc, next, sent>>, clock' \in 0..MaxClock,
             restore'.at \in {"idle", "listing", "found", "miss", "read", "lost"}
      PROVE  SaveInv' /\ EntriesStay
  <2>1. TypeOK' /\ EntryWhole' /\ ConflictIsReal' /\ EntriesStay
    BY <1>1 DEF CacheInv, SaveInv, TypeOK, EntryWhole, ConflictIsReal, Committed, Present, EntriesStay
  <2>2. \A c, d \in Savers : Reserves(c)' /\ Separate(c, d)'
    BY <1>1 DEF CacheInv, SaveInv, Reserves, Separate
  <2>3. QED
    BY <2>1, <2>2 DEF SaveInv
<1>2. CASE UNCHANGED vars \/ Tick
  BY <1>1, <1>2, CacheAssumption DEF vars, Tick, CacheInv, SaveInv, TypeOK
<1>3. CASE Lookup
  <2>1. restore.at \in {"idle", "listing", "found", "miss", "read", "lost"} /\ clock \in 0..MaxClock
    BY DEF CacheInv, SaveInv, TypeOK
  <2>2. CASE LookupEnd
    BY <1>1, <2>1, <2>2 DEF LookupEnd
  <2>3. CASE Download
    <3>1. restore'.at \in {"read", "lost"}
      BY <2>3 DEF Download, CacheInv, LookupOK, Found
    <3>2. QED
      BY <1>1, <2>1, <2>3, <3>1 DEF Download
  <2>4. CASE Forget \/ \E q \in Queries : LookupBegin(q)
    BY <1>1, <2>1, <2>4 DEF Forget, LookupBegin, Idle
  <2>5. QED
    BY <1>3, <2>2, <2>3, <2>4 DEF Lookup
<1>4. ASSUME NEW c \in Savers, SaveStep(c) \/ Abandon(c) \/ \E o \in Offsets : LateChunk(c, o)
      PROVE  SaveInv' /\ EntriesStay
  <2>1. SaveInv
    BY DEF CacheInv
  <2>2. CASE CommitRename(c)
    BY <2>1, <2>2, RenameKeeps
  <2>3. CASE ~CommitRename(c)
    <3>1. entries' = entries
      BY <1>4, <2>3 DEF SaveStep, Reserve, ScanPending, ScanCommitted, CreateDir, WriteMeta, Upload, CommitMeta, Abandon,
         LateChunk
    <3>2. EntriesStay
      BY <3>1 DEF EntriesStay, Present
    <3>3. QED
      BY <1>4, <2>1, <2>3, <3>2, SearchKeeps, CreateDirKeeps, WriteMetaKeeps, UploadKeeps, CommitMetaKeeps, AbandonKeeps,
         LateChunkKeeps DEF SaveStep
  <2>4. QED
    BY <2>2, <2>3
<1>5. QED
  BY <1>2, <1>3, <1>4 DEF Next, Lookup

(* What a lookup ends with: by the first position that has a candidate.    *)
LEMMA LookupEndKeeps ==
  ASSUME CacheInv, LookupEnd PROVE LookupOK' /\ HitIsServed' /\ SavedIsFound'
<1> DEFINE q == restore.query
<1>1. /\ restore.start \subseteq Present(entries) /\ q \in Queries /\ UNCHANGED <<entries, pc, next>>
      /\ Len(q.keys) \in Nat /\ Len(q.keys) >= 1
  BY CacheAssumption DEF LookupEnd, CacheInv, LookupOK
<1>2. PICK seen \in SUBSET Present(entries) :
        /\ restore.start \subseteq seen
        /\ IF Positions(q, seen) = {}
             THEN restore' = [at |-> "miss", query |-> q, start |-> restore.start]
             ELSE \E p \in Positions(q, seen) :
                    \E k \in Selected(q, p, seen) :
                      \E i \in Committed(k, q.version) \cap seen :
                        restore' = [at |-> "found", query |-> q, start |-> restore.start,
                                    key |-> k, exact |-> p = 1, id |-> i]
  BY DEF LookupEnd
<1>3. \A i \in seen : i \in Ids /\ entries[i] # Absent
  BY DEF Present
<1>4. \A i \in seen : VersionOf[entries[i].meta] = q.version /\ KeyOf[entries[i].meta] = q.keys[1] =>
        i \in Candidates(q, 1, seen)
  BY DEF Candidates
<1>5. Candidates(q, 1, seen) # {} => Positions(q, seen) = {1}
  BY <1>1 DEF Positions
<1>6. Committed(q.keys[1], q.version) \cap seen # {} => Positions(q, seen) = {1}
  BY <1>4, <1>5 DEF Committed
<1> HIDE DEF q
<1>7. CASE Positions(q, seen) = {}
  <2>1. restore' = [at |-> "miss", query |-> q, start |-> restore.start]
    BY <1>2, <1>7
  <2>2. LookupOK' /\ HitIsServed'
    BY <1>1, <2>1 DEF LookupOK, HitIsServed, Found, Present
  <2>3. Committed(q.keys[1], q.version) \cap restore.start = {}
    BY <1>2, <1>6, <1>7
  <2>4. SavedIsFound'
    BY <1>1, <2>1, <2>3 DEF SavedIsFound, Committed, Present
  <2>5. QED
    BY <2>2, <2>4
<1>8. CASE Positions(q, seen) # {}
  <2>p. PICK p \in Positions(q, seen) :
          \E k \in Selected(q, p, seen) : \E i \in Committed(k, q.version) \cap seen :
            restore' = [at |-> "found", query |-> q, start |-> restore.start, key |-> k, exact |-> p = 1, id |-> i]
    BY <1>2, <1>8
  <2>k. PICK k \in Selected(q, p, seen) : \E i \in Committed(k, q.version) \cap seen :
            restore' = [at |-> "found", query |-> q, start |-> restore.start, key |-> k, exact |-> p = 1, id |-> i]
    BY <2>p
  <2>1. PICK i \in Committed(k, q.version) \cap seen :
          restore' = [at |-> "found", query |-> q, start |-> restore.start, key |-> k, exact |-> p = 1, id |-> i]
    BY <2>k
  <2>2. /\ restore'.at = "found" /\ restore'.query = q /\ restore'.start = restore.start /\ restore'.key = k
        /\ restore'.exact = (p = 1) /\ restore'.id = i
    BY <2>1
  <2>3. LookupOK'
    <3>1. restore' = [at |-> restore'.at, query |-> restore'.query, start |-> restore'.start, key |-> restore'.key,
                      exact |-> restore'.exact, id |-> restore'.id]
      BY <2>1, <2>2
    <3>2. QED
      BY <1>1, <1>3, <2>2, <3>1 DEF LookupOK, Present
  <2>4. KeyOf[entries[i].meta] = k /\ VersionOf[entries[i].meta] = q.version
    BY DEF Committed
  <2>5. p = 1 <=> k = q.keys[1]
    <3>1. p = 1 => k = q.keys[1]
      BY DEF Selected, Candidates
    <3>2. k = q.keys[1] => Positions(q, seen) = {1}
      BY <1>4, <1>5, <2>4
    <3>3. QED
      BY <3>1, <3>2
  <2>6. HitIsServed'
    BY <1>1, <1>3, <2>2, <2>4, <2>5 DEF HitIsServed
  <2>7. SavedIsFound'
    <3>1. Committed(q.keys[1], q.version) \cap restore.start # {} => p = 1
      BY <1>2, <1>6
    <3>2. QED
      BY <1>1, <2>2, <3>1 DEF SavedIsFound, Committed, Present
  <2>8. QED
    BY <2>3, <2>6, <2>7
<1>9. QED
  BY <1>7, <1>8

LEMMA NextLookup ==
  ASSUME CacheInv, EntriesStay, [Next]_vars PROVE LookupOK' /\ HitIsServed' /\ SavedIsFound'
<1>1. CASE restore' = restore
  <2>1. LookupOK'
    BY <1>1 DEF CacheInv, LookupOK, EntriesStay
  <2>2. HitIsServed'
    BY <1>1 DEF CacheInv, LookupOK, HitIsServed, Found, EntriesStay, Present
  <2>3. ASSUME restore.at # "idle"
        PROVE  Committed(restore.query.keys[1], restore.query.version)' \cap restore.start
                 = Committed(restore.query.keys[1], restore.query.version) \cap restore.start
    BY <1>1, <2>3 DEF CacheInv, LookupOK, EntriesStay, Committed, Present
  <2>4. SavedIsFound'
    BY <1>1, <2>3 DEF CacheInv, SavedIsFound
  <2>5. QED
    BY <2>1, <2>2, <2>4
<1>2. CASE LookupEnd
  BY <1>2, LookupEndKeeps
<1>3. CASE Download
  <2>1. /\ restore.at = "found" /\ entries' = entries /\ entries[restore.id] # Absent
        /\ restore' = [restore EXCEPT !.at = "read"]
    BY <1>3 DEF Download, CacheInv, HitIsServed
  <2>2. restore' = [at |-> "read", query |-> restore.query, start |-> restore.start, key |-> restore.key,
                    exact |-> restore.exact, id |-> restore.id]
    BY <2>1 DEF CacheInv, LookupOK, Found
  <2>3. /\ restore'.at = "read" /\ restore'.query = restore.query /\ restore'.start = restore.start
        /\ restore'.key = restore.key /\ restore'.exact = restore.exact /\ restore'.id = restore.id
    BY <2>2
  <2>4. LookupOK'
    BY <2>1, <2>2, <2>3 DEF CacheInv, LookupOK, Found, Present
  <2>5. HitIsServed' /\ SavedIsFound'
    BY <2>1, <2>3 DEF CacheInv, HitIsServed, SavedIsFound
  <2>6. QED
    BY <2>4, <2>5
<1>4. CASE Forget
  <2>1. restore'.at = "idle"
    BY <1>4 DEF Forget, Idle
  <2>2. QED
    BY <2>1 DEF LookupOK, HitIsServed, SavedIsFound, Found
<1>5. ASSUME NEW q \in Queries, LookupBegin(q) PROVE LookupOK' /\ HitIsServed' /\ SavedIsFound'
  <2>1. restore'.at = "listing" /\ restore'.query = q /\ restore'.start = Present(entries) /\ entries' = entries
    BY <1>5 DEF LookupBegin
  <2>2. QED
    BY <2>1 DEF LookupOK, HitIsServed, SavedIsFound, Found, Present
<1>6. QED
  BY <1>1, <1>2, <1>3, <1>4, <1>5
  DEF Next, vars, Tick, SaveStep, Reserve, ScanPending, ScanCommitted, CreateDir, WriteMeta, Upload, CommitMeta,
      CommitRename, Abandon, LateChunk

(* For any number of runs that save and restore through one directory tree *)
(* without a lock, wherever a save stops and though two may be given one   *)
(* id: a committed entry holds every chunk of the save it names and none   *)
(* of another, what a lookup answers is there when it is downloaded, it    *)
(* never misses what was committed before it began, and a conflict is real.*)
THEOREM CacheEntriesAreTrue == Spec => []CacheIsTrue
<1>1. CacheInv => CacheIsTrue
  BY DEF CacheInv, SaveInv, CacheIsTrue
<1>2. CacheInv /\ [Next]_vars => CacheInv'
  BY NextSaveInv, NextLookup DEF CacheInv
<1>3. QED
  BY <1>1, <1>2, InitCacheInv, PTL DEF Spec
-----------------------------------------------------------------------------
(* Actions                                                                 *)

ActionStages == {"idle", "preflight", "freeze", "execute", "node", "rename", "done", "failed", "dead"}
ActionSteps == {"pin", "dest", "look", "restore", "reinstall", "fetch", "verify", "install"}
ActionReasons == {"", "offline", "network", "unread", "cut", "absent", "moved", "lost", "vanished", "identity"}
MaybeShas == Shas \cup {NoSha}
CommitTrees == UNION {TreesOf(s) : s \in Shas}
Trees == CommitTrees \cup {NoTree, Part, Bundle}
RefNames == Range(Refs)

SharedTypeOK ==
  /\ mode \in [Clients -> {"run", "offline", "daemon"}]
  /\ past \in Seq([RefNames -> Shas]) /\ past # <<>> /\ past[1] = Start
  /\ textAlias \in [RefNames -> MaybeShas]
  /\ alias \in [Shas -> Trees] /\ dest \in [Shas -> Trees] /\ objects \in SUBSET Trees /\ node \in Trees
  /\ cleans \in Nat /\ (clean # "no" => cleans > 0)
  /\ served \in BOOLEAN /\ warm \in SUBSET Clients /\ began \in [Clients -> Nat]
ClientTypeOK ==
  /\ stage \in [Clients -> ActionStages] /\ step \in [Clients -> ActionSteps]
  /\ pos \in [Clients -> 1..Len(Refs)]
  /\ sha \in [Clients -> MaybeShas] /\ tmp \in [Clients -> Trees] /\ prev \in [Clients -> Trees]
  /\ pinned \in [Clients -> [RefNames -> MaybeShas]] /\ frozen \in [Clients -> BOOLEAN]
  /\ got \in [Clients -> [RefNames -> Trees]] /\ ran \in [Clients -> [RefNames -> Trees]]
  /\ why \in [Clients -> ActionReasons]

Works(c) == stage[c] \in {"preflight", "execute"}
Locked(c, ref) == pinned[c][ref] # NoSha /\ got[c][ref] # NoTree

(* What a client has when it is where it is.                               *)
InPlace(c) ==
  /\ stage[c] = "idle" =>
       /\ ~frozen[c] /\ pos[c] = 1 /\ step[c] = "pin"
       /\ \A ref \in RefNames : pinned[c][ref] = NoSha /\ got[c][ref] = NoTree /\ ran[c][ref] = NoTree
  /\ why[c] # "" => stage[c] = "failed"
  /\ \A ref \in RefNames : (ran[c][ref] # NoTree => got[c][ref] # NoTree) /\ (got[c][ref] # NoTree => pinned[c][ref] # NoSha)
  /\ stage[c] = "preflight" /\ mode[c] # "daemon" => \A j \in 1..(pos[c] - 1) : Locked(c, Refs[j])
  /\ stage[c] \in {"freeze", "execute", "node", "rename"} => mode[c] # "daemon" /\ \A ref \in RefNames : Locked(c, ref)
  /\ stage[c] = "freeze" => step[c] = "pin"
  /\ Works(c) /\ step[c] # "pin" => sha[c] = pinned[c][Ref(c)] /\ sha[c] # NoSha
  /\ Works(c) /\ step[c] \in {"reinstall", "install"} => tmp[c] # NoTree
  /\ frozen[c] => \A ref \in RefNames : pinned[c][ref] # NoSha
PlaceInv == SharedTypeOK /\ ClientTypeOK /\ \A c \in Clients : InPlace(c)

(* The moments a client's resolutions come from.                           *)
Since(c, ref, m) == \E t \in began[c]..m : past[t][ref] = pinned[c][ref]
Moments(c) ==
  /\ stage[c] # "idle" => began[c] \in 1..Len(past)
  /\ c \notin OfflineClients =>
       /\ \A ref \in RefNames : pinned[c][ref] # NoSha => Since(c, ref, Len(past))
       /\ stage[c] = "freeze" /\ NeverBack =>
            \E m \in began[c]..Len(past) :
              /\ \A ref \in RefNames : Since(c, ref, m)
              /\ \A j \in 1..(pos[c] - 1) : past[m][Refs[j]] = pinned[c][Refs[j]]
       /\ frozen[c] /\ NeverBack => \E t \in began[c]..Len(past) : pinned[c] = past[t]
MomentInv == \A c \in Clients : Moments(c)

(* The store and what clients hold of it, while nothing was cleaned.       *)
Sound ==
  /\ node \in {NoTree, Bundle}
  /\ \A s \in Shas : /\ dest[s] \in TreesOf(s) \cup {NoTree} /\ alias[s] \in TreesOf(s) \cup {NoTree}
                     /\ alias[s] # NoTree => alias[s] \in objects
HoldsStep(c) ==
  /\ Works(c) /\ step[c] \in {"look", "verify", "reinstall", "install"} => tmp[c] \in TreesOf(sha[c]) \cup {NoTree}
  /\ Works(c) /\ step[c] \in {"look", "verify"} /\ tmp[c] = NoTree => dest[sha[c]] # NoTree
  /\ Works(c) /\ step[c] = "verify" => prev[c] \in TreesOf(sha[c]) \cup {NoTree} /\ (prev[c] # NoTree => prev[c] \in objects)
HoldsTrees(c) ==
  \A ref \in RefNames : /\ got[c][ref] # NoTree => got[c][ref] = dest[pinned[c][ref]]
                        /\ ran[c][ref] # NoTree => ran[c][ref] = dest[pinned[c][ref]]
Holds(c) == HoldsStep(c) /\ HoldsTrees(c)
StoreInv == cleans = 0 => Sound /\ \A c \in Clients : Holds(c)

(* Names, while no reference moved.                                        *)
Still == Len(past) = 1
StillNames(c) ==
  \A ref \in RefNames : pinned[c][ref] # NoSha => pinned[c][ref] = Start[ref] /\ textAlias[ref] # NoSha
StillInv ==
  Still => /\ \A ref \in RefNames : textAlias[ref] \in {NoSha, Start[ref]}
           /\ \A c \in Clients : StillNames(c)

(* Once a run has succeeded, everything is there for the next one.         *)
Provided == node # NoTree /\ \A ref \in RefNames : textAlias[ref] # NoSha /\ dest[Start[ref]] # NoTree
Causes(c) ==
  /\ why[c] # "absent"
  /\ why[c] = "moved" => Len(past) > 1
  /\ why[c] \in {"lost", "vanished"} => cleans > 0
  /\ why[c] = "identity" => cleans > 0 \/ sha[c] \in Exported
  /\ why[c] = "offline" => c \in OfflineClients /\ ~(c \in warm /\ Still /\ cleans = 0)
  /\ c \in warm => served
  /\ c \in warm /\ Still /\ cleans = 0 /\ Works(c) => step[c] \notin {"restore", "reinstall", "fetch"}
CauseInv == (served /\ Still /\ cleans = 0 => Provided) /\ \A c \in Clients : Causes(c)

LEMMA NextIndex ==
  ASSUME NEW n \in Nat, NEW k \in 1..n, k < n PROVE k + 1 \in 1..n
  OBVIOUS

LEMMA RefFacts ==
  ASSUME ActionAssumption
  PROVE  /\ Len(Refs) \in Nat \ {0} /\ DOMAIN Refs = 1..Len(Refs)
         /\ \A j \in 1..Len(Refs) : Refs[j] \in RefNames
         /\ \A ref \in RefNames : \E j \in 1..Len(Refs) : Refs[j] = ref
         /\ Start \in [RefNames -> Shas] /\ NoSha \notin Shas
<1>1. Refs \in Seq(RefNames) /\ Refs # <<>>
  BY DEF ActionAssumption, RefNames
<1>2. Len(Refs) \in Nat \ {0} /\ DOMAIN Refs = 1..Len(Refs)
  BY <1>1
<1>3. RefNames = {Refs[j] : j \in 1..Len(Refs)}
  BY <1>2 DEF RefNames, Range
<1>4. QED
  BY <1>2, <1>3 DEF ActionAssumption, RefNames

LEMMA TreeFacts ==
  /\ NoTree \in Trees /\ Bundle \in Trees /\ Part \in Trees
  /\ Bundle # NoTree /\ Part # NoTree /\ Bundle # Part
  /\ \A s : NoTree \notin TreesOf(s)
  /\ \A s : Tree(s, "tar") \in TreesOf(s) /\ Tree(s, "git") \in TreesOf(s)
  /\ \A s \in Shas : TreesOf(s) \subseteq Trees
  /\ \A s : s \notin Exported => \A x, y \in TreesOf(s) : x = y
<1>1. Len(NoTree) = 0 /\ Len(Bundle) = 2 /\ Len(Part) = 1
  BY DEF NoTree, Bundle, Part
<1>2. Bundle # NoTree /\ Part # NoTree /\ Bundle # Part
  BY <1>1
<1>3. ASSUME NEW s, NEW form PROVE Tree(s, form) # NoTree
  <2>1. Len(Tree(s, form)) = 2
    BY DEF Tree
  <2>2. QED
    BY <1>1, <2>1
<1>4. ASSUME NEW s PROVE NoTree \notin TreesOf(s)
  BY <1>3 DEF TreesOf
<1>5. ASSUME NEW s PROVE Tree(s, "tar") \in TreesOf(s) /\ Tree(s, "git") \in TreesOf(s)
  BY DEF TreesOf
<1>6. ASSUME NEW s, s \notin Exported, NEW x \in TreesOf(s), NEW y \in TreesOf(s) PROVE x = y
  BY <1>6 DEF TreesOf, Tree
<1>7. ASSUME NEW s \in Shas PROVE TreesOf(s) \subseteq Trees
  BY DEF Trees, CommitTrees
<1>8. NoTree \in Trees /\ Bundle \in Trees /\ Part \in Trees
  BY DEF Trees
<1>9. QED
  BY <1>2, <1>4, <1>5, <1>6, <1>7, <1>8

LEMMA PastFacts ==
  ASSUME SharedTypeOK
  PROVE  /\ Len(past) \in Nat \ {0} /\ DOMAIN past = 1..Len(past)
         /\ \A t \in 1..Len(past) : past[t] \in [RefNames -> Shas]
         /\ remote = past[Len(past)] /\ remote \in [RefNames -> Shas]
         /\ moves = Len(past) - 1
<1>1. past \in Seq([RefNames -> Shas]) /\ past # <<>>
  BY DEF SharedTypeOK
<1>2. Len(past) \in Nat \ {0} /\ DOMAIN past = 1..Len(past)
  BY <1>1
<1>3. QED
  BY <1>1, <1>2 DEF remote, moves

(* What a resolution can answer.                                           *)
LEMMA AnswerFacts ==
  ASSUME ActionAssumption, SharedTypeOK, NEW c \in Clients, NEW ref \in RefNames, NEW answer \in Answers(c, ref)
  PROVE  /\ c \in OfflineClients =>
              \/ answer = textAlias[ref] /\ answer \in Shas
              \/ answer = "offline" /\ textAlias[ref] = NoSha /\ answer \notin Shas
         /\ c \notin OfflineClients =>
              \/ answer = remote[ref] /\ answer \in Shas
              \/ answer \in {"network", "unread", "cut"} /\ answer \notin Shas
<1>1. remote[ref] \in Shas /\ NoSha \notin Shas
  BY PastFacts, RefFacts
<1>2. CASE c \in OfflineClients
  BY <1>2 DEF Answers, SharedTypeOK, MaybeShas, ActionAssumption
<1>3. CASE c \notin OfflineClients
  <2>1. ASSUME NEW exit PROVE LsRemote(ref, exit) \in {"network", remote[ref]}
    <3>1. CASE Kind[ref] = "branch"
      BY <1>1, <3>1 DEF LsRemote, Advertised
    <3>2. CASE Kind[ref] = "annotated"
      BY <1>1, <3>2 DEF LsRemote, Advertised
    <3>3. CASE Kind[ref] \notin {"branch", "annotated"}
      BY <1>1, <3>3 DEF LsRemote, Advertised
    <3>4. QED
      BY <3>1, <3>2, <3>3
  <2>2. ASSUME NEW size PROVE ResolveBlocking(ref, size) \in {"unread", "cut", remote[ref]}
    BY DEF ResolveBlocking
  <2>3. answer \in {"network", "unread", "cut", remote[ref]}
    BY <1>3, <2>1, <2>2 DEF Answers
  <2>4. QED
    BY <1>1, <1>3, <2>3 DEF ActionAssumption
<1>4. QED
  BY <1>2, <1>3

(* A client that another one's step leaves alone.                          *)
Same(d) ==
  /\ stage'[d] = stage[d] /\ step'[d] = step[d] /\ pos'[d] = pos[d] /\ sha'[d] = sha[d] /\ tmp'[d] = tmp[d] /\ prev'[d] = prev[d]
  /\ pinned'[d] = pinned[d] /\ frozen'[d] = frozen[d] /\ got'[d] = got[d] /\ ran'[d] = ran[d] /\ why'[d] = why[d]
Alone(c) == mode' = mode /\ \A d \in Clients \ {c} : Same(d)
Placed(c) == SharedTypeOK' /\ ClientTypeOK' /\ Alone(c) /\ InPlace(c)'

LEMMA SameInPlace ==
  ASSUME mode' = mode, NEW d \in Clients, Same(d), InPlace(d) PROVE InPlace(d)'
  BY DEF Same, InPlace, Locked, Works, Ref

LEMMA PlacedKeeps ==
  ASSUME PlaceInv, NEW c \in Clients, Placed(c) PROVE PlaceInv'
  BY SameInPlace DEF PlaceInv, Placed, Alone

(* A failure: where it leaves the client, and what it leaves alone.        *)
FailTypes(c) ==
  /\ stage' \in [Clients -> ActionStages] /\ step' \in [Clients -> ActionSteps] /\ pos' \in [Clients -> 1..Len(Refs)]
  /\ why' \in [Clients -> ActionReasons]
  /\ \A d \in Clients \ {c} : stage'[d] = stage[d] /\ step'[d] = step[d] /\ pos'[d] = pos[d] /\ why'[d] = why[d]

LEMMA FailPlaces ==
  ASSUME ActionAssumption, PlaceInv, NEW c \in Clients, NEW reason \in ActionReasons \ {""}, FailWith(c, reason),
         stage[c] \in {"preflight", "execute", "freeze", "node"}
  PROVE  /\ FailTypes(c)
         /\ \/ mode[c] # "daemon" /\ stage'[c] = "failed" /\ why'[c] = reason
            \/ mode[c] = "daemon" /\ stage'[c] = "done" /\ why'[c] = why[c] /\ stage[c] = "preflight"
            \/ mode[c] = "daemon" /\ stage'[c] = "preflight" /\ step'[c] = "pin" /\ why'[c] = why[c] /\ stage[c] = "preflight"
<1>1. stage[c] # "preflight" => mode[c] # "daemon"
  BY DEF PlaceInv, InPlace
<1>2. Len(Refs) \in Nat \ {0} /\ pos[c] \in 1..Len(Refs)
  BY RefFacts DEF PlaceInv, ClientTypeOK
<1>3. CASE mode[c] # "daemon"
  <2>1. stage' = [stage EXCEPT ![c] = "failed"] /\ why' = [why EXCEPT ![c] = reason] /\ step' = step /\ pos' = pos
    BY <1>3 DEF FailWith, Set
  <2>2. QED
    BY <1>3, <2>1 DEF PlaceInv, ClientTypeOK, FailTypes, ActionStages
<1>4. CASE mode[c] = "daemon" /\ pos[c] < Len(Refs)
  <2>1. pos' = [pos EXCEPT ![c] = pos[c] + 1] /\ step' = [step EXCEPT ![c] = "pin"] /\ stage' = stage /\ why' = why
    BY <1>4 DEF FailWith, Set, StepTo
  <2>2. pos[c] + 1 \in 1..Len(Refs)
    BY <1>2, <1>4, NextIndex
  <2>3. stage[c] = "preflight"
    BY <1>1, <1>4
  <2>4. QED
    BY <1>4, <2>1, <2>2, <2>3 DEF PlaceInv, ClientTypeOK, FailTypes, ActionSteps
<1>5. CASE mode[c] = "daemon" /\ ~(pos[c] < Len(Refs))
  <2>1. stage' = [stage EXCEPT ![c] = "done"] /\ step' = step /\ pos' = pos /\ why' = why
    BY <1>5 DEF FailWith, Set
  <2>2. stage[c] = "preflight"
    BY <1>1, <1>5
  <2>3. QED
    BY <1>5, <2>1, <2>2 DEF PlaceInv, ClientTypeOK, FailTypes, ActionStages
<1>6. QED
  BY <1>3, <1>4, <1>5

LEMMA FailInPlace ==
  ASSUME ActionAssumption, PlaceInv, NEW c \in Clients, NEW reason \in ActionReasons \ {""}, FailWith(c, reason),
         stage[c] \in {"preflight", "execute", "freeze", "node"},
         mode' = mode, pinned' = pinned, frozen' = frozen, got' = got, ran' = ran
  PROVE  InPlace(c)'
<1>1. InPlace(c)
  BY DEF PlaceInv
<1>2. \A ref \in RefNames : (ran[c][ref] # NoTree => got[c][ref] # NoTree) /\ (got[c][ref] # NoTree => pinned[c][ref] # NoSha)
  BY <1>1 DEF InPlace
<1>3. frozen[c] => \A ref \in RefNames : pinned[c][ref] # NoSha
  BY <1>1 DEF InPlace
<1>4. stage[c] # "failed" => why[c] = ""
  BY <1>1 DEF InPlace
<1>5. QED
  BY <1>2, <1>3, <1>4, FailPlaces DEF InPlace, Works

(* A use of a directory, in preflight or by a job.                         *)
LEMMA UsedPlaces ==
  ASSUME ActionAssumption, PlaceInv, NEW c \in Clients, Used(c), Works(c), step[c] # "pin",
         dest' \in [Shas -> Trees], dest'[sha[c]] # NoTree,
         mode' = mode, pinned' = pinned, frozen' = frozen, sha' = sha
  PROVE  /\ FailTypes(c) /\ why' = why
         /\ got' \in [Clients -> [RefNames -> Trees]] /\ ran' \in [Clients -> [RefNames -> Trees]]
         /\ \A d \in Clients \ {c} : got'[d] = got[d] /\ ran'[d] = ran[d]
         /\ \A ref \in RefNames \ {Ref(c)} : got'[c][ref] = got[c][ref] /\ ran'[c][ref] = ran[c][ref]
         /\ Ref(c) \in RefNames
         /\ stage[c] = "preflight" => got'[c][Ref(c)] = dest'[sha[c]] /\ ran'[c] = ran[c]
         /\ stage[c] = "execute" => ran'[c][Ref(c)] = dest'[sha[c]] /\ got'[c] = got[c]
         /\ step'[c] = "pin"
         /\ \/ pos[c] < Len(Refs) /\ pos'[c] = pos[c] + 1 /\ stage'[c] = stage[c]
            \/ /\ pos[c] = Len(Refs) /\ pos'[c] = 1
               /\ \/ mode[c] = "daemon" /\ stage'[c] = "done"
                  \/ mode[c] # "daemon" /\ stage[c] = "preflight" /\ stage'[c] = "freeze"
                  \/ mode[c] # "daemon" /\ stage[c] = "execute" /\ stage'[c] = "node"
<1>1. Len(Refs) \in Nat \ {0} /\ pos[c] \in 1..Len(Refs) /\ Ref(c) \in RefNames
  BY RefFacts DEF PlaceInv, ClientTypeOK, Ref
<1>2. sha[c] \in Shas
  BY DEF PlaceInv, InPlace, ClientTypeOK, MaybeShas
<1>3. stage \in [Clients -> ActionStages] /\ step \in [Clients -> ActionSteps] /\ pos \in [Clients -> 1..Len(Refs)]
      /\ why \in [Clients -> ActionReasons] /\ why' = why
  BY DEF PlaceInv, ClientTypeOK, Used
<1>4. got \in [Clients -> [RefNames -> Trees]] /\ ran \in [Clients -> [RefNames -> Trees]] /\ dest'[sha[c]] \in Trees
  BY <1>2 DEF PlaceInv, ClientTypeOK
<1>5. /\ got' \in [Clients -> [RefNames -> Trees]] /\ ran' \in [Clients -> [RefNames -> Trees]]
      /\ \A d \in Clients \ {c} : got'[d] = got[d] /\ ran'[d] = ran[d]
      /\ \A ref \in RefNames \ {Ref(c)} : got'[c][ref] = got[c][ref] /\ ran'[c][ref] = ran[c][ref]
      /\ stage[c] = "preflight" => got'[c][Ref(c)] = dest'[sha[c]] /\ ran'[c] = ran[c]
      /\ stage[c] = "execute" => ran'[c][Ref(c)] = dest'[sha[c]] /\ got'[c] = got[c]
  <2>1. CASE stage[c] = "preflight"
    <3>1. got' = [got EXCEPT ![c][Ref(c)] = dest'[sha[c]]] /\ ran' = ran
      BY <2>1 DEF Used
    <3>2. QED
      BY <1>1, <1>4, <2>1, <3>1
  <2>2. CASE stage[c] = "execute"
    <3>1. ran' = [ran EXCEPT ![c][Ref(c)] = dest'[sha[c]]] /\ got' = got
      BY <2>2 DEF Used
    <3>2. QED
      BY <1>1, <1>4, <2>2, <3>1
  <2>3. QED
    BY <2>1, <2>2 DEF Works
<1>6. CASE pos[c] < Len(Refs)
  <2>1. pos' = [pos EXCEPT ![c] = pos[c] + 1] /\ step' = [step EXCEPT ![c] = "pin"] /\ stage' = stage
    BY <1>6 DEF Used, Set, StepTo
  <2>2. pos[c] + 1 \in 1..Len(Refs)
    BY <1>1, <1>6
  <2>3. QED
    BY <1>1, <1>3, <1>5, <1>6, <2>1, <2>2 DEF FailTypes, ActionSteps
<1>7. CASE ~(pos[c] < Len(Refs))
  <2>1. PICK label \in ActionStages :
          /\ stage' = [stage EXCEPT ![c] = label] /\ pos' = [pos EXCEPT ![c] = 1] /\ step' = [step EXCEPT ![c] = "pin"]
          /\ \/ mode[c] = "daemon" /\ label = "done"
             \/ mode[c] # "daemon" /\ stage[c] = "preflight" /\ label = "freeze"
             \/ mode[c] # "daemon" /\ stage[c] = "execute" /\ label = "node"
    BY <1>7 DEF Used, Set, StepTo, Works, ActionStages
  <2>2. pos[c] = Len(Refs)
    BY <1>1, <1>7
  <2>3. 1 \in 1..Len(Refs)
    BY <1>1
  <2>4. QED
    BY <1>1, <1>3, <1>5, <2>1, <2>2, <2>3 DEF FailTypes, ActionSteps
<1>8. QED
  BY <1>6, <1>7

LEMMA UsedInPlace ==
  ASSUME ActionAssumption, PlaceInv, NEW c \in Clients, Used(c), Works(c), step[c] # "pin",
         dest' \in [Shas -> Trees], dest'[sha[c]] # NoTree,
         mode' = mode, pinned' = pinned, frozen' = frozen, sha' = sha
  PROVE  InPlace(c)'
<1>1. InPlace(c) /\ sha[c] = pinned[c][Ref(c)] /\ sha[c] # NoSha
  BY DEF PlaceInv, InPlace
<1>2. /\ stage[c] = "preflight" => got'[c][Ref(c)] # NoTree /\ ran'[c] = ran[c]
      /\ stage[c] = "execute" => ran'[c][Ref(c)] # NoTree /\ got'[c] = got[c]
      /\ \A ref \in RefNames \ {Ref(c)} : got'[c][ref] = got[c][ref] /\ ran'[c][ref] = ran[c][ref]
      /\ Ref(c) \in RefNames /\ step'[c] = "pin" /\ why' = why
  BY UsedPlaces
<1>3. \/ pos[c] < Len(Refs) /\ pos'[c] = pos[c] + 1 /\ stage'[c] = stage[c]
      \/ /\ pos[c] = Len(Refs) /\ pos'[c] = 1
         /\ \/ mode[c] = "daemon" /\ stage'[c] = "done"
            \/ mode[c] # "daemon" /\ stage[c] = "preflight" /\ stage'[c] = "freeze"
            \/ mode[c] # "daemon" /\ stage[c] = "execute" /\ stage'[c] = "node"
  BY UsedPlaces
<1>4. why[c] = "" /\ stage'[c] # "idle"
  BY <1>1, <1>3 DEF InPlace, Works
<1>5. \A ref \in RefNames : (ran'[c][ref] # NoTree => got'[c][ref] # NoTree) /\ (got'[c][ref] # NoTree => pinned[c][ref] # NoSha)
  <2>1. CASE stage[c] = "preflight"
    BY <1>1, <1>2, <2>1 DEF InPlace
  <2>2. CASE stage[c] = "execute"
    BY <1>1, <1>2, <2>2 DEF InPlace, Locked
  <2>3. QED
    BY <2>1, <2>2 DEF Works
<1>6. pinned[c][Ref(c)] # NoSha /\ got'[c][Ref(c)] # NoTree
  BY <1>1, <1>2 DEF InPlace, Locked, Works
<1>7. ASSUME NEW ref \in RefNames, Locked(c, ref) \/ ref = Ref(c) PROVE Locked(c, ref)'
  BY <1>2, <1>6, <1>7 DEF Locked, Works
<1>8. Len(Refs) \in Nat /\ pos[c] \in 1..Len(Refs) /\ Ref(c) = Refs[pos[c]] /\ \A j \in 1..Len(Refs) : Refs[j] \in RefNames
  BY RefFacts DEF PlaceInv, ClientTypeOK, Ref
<1>9. ASSUME stage[c] = "preflight", mode[c] # "daemon", NEW j \in 1..pos[c] PROVE Locked(c, Refs[j])'
  <2>1. j \in 1..Len(Refs)
    BY <1>8
  <2>2. j = pos[c] \/ j \in 1..(pos[c] - 1)
    BY <1>8
  <2>3. Locked(c, Refs[j]) \/ Refs[j] = Ref(c)
    BY <1>1, <1>8, <1>9, <2>2 DEF InPlace
  <2>4. QED
    BY <1>7, <1>8, <2>1, <2>3
<1>10. stage'[c] = "preflight" /\ mode'[c] # "daemon" => \A j \in 1..(pos'[c] - 1) : Locked(c, Refs[j])'
  BY <1>3, <1>8, <1>9
<1>11. stage'[c] \in {"freeze", "execute", "node", "rename"} => mode[c] # "daemon" /\ \A ref \in RefNames : Locked(c, ref)'
  <2>1. CASE stage'[c] = "freeze"
    BY <1>3, <1>9, <2>1, RefFacts DEF Works
  <2>2. CASE stage'[c] \in {"execute", "node", "rename"}
    <3>1. stage[c] = "execute"
      BY <1>3, <2>2 DEF Works
    <3>2. QED
      BY <1>1, <1>7, <3>1 DEF InPlace
  <2>3. QED
    BY <2>1, <2>2
<1>12. frozen'[c] => \A ref \in RefNames : pinned'[c][ref] # NoSha
  BY <1>1 DEF InPlace
<1>13. QED
  BY <1>2, <1>4, <1>5, <1>10, <1>11, <1>12 DEF InPlace

(* One lemma per step: it is typed, leaves the others alone, and leaves    *)
(* its client in place.                                                    *)
LEMMA BeginPlaces ==
  ASSUME ActionAssumption, PlaceInv, NEW c \in Clients, Begin(c) PROVE Placed(c)
<1>1. stage' = [stage EXCEPT ![c] = "preflight"] /\ began' = [began EXCEPT ![c] = Len(past)] /\ warm' \in SUBSET Clients
  BY DEF Begin, Set, PlaceInv, SharedTypeOK
<1>2. SharedTypeOK'
  <2>1. Len(past) \in Nat
    BY PastFacts DEF PlaceInv
  <2>2. QED
    BY <1>1, <2>1 DEF Begin, PlaceInv, SharedTypeOK, store
<1>3. ClientTypeOK' /\ Alone(c)
  BY <1>1 DEF Begin, PlaceInv, ClientTypeOK, ActionStages, Alone, Same
<1>4. stage'[c] = "preflight" /\ pos[c] = 1 /\ step[c] = "pin" /\ why[c] = "" /\ stage[c] = "idle" /\ InPlace(c)
  BY <1>1 DEF Begin, PlaceInv, ClientTypeOK, InPlace
<1>5. pos'[c] = 1 /\ \A j \in 1..(pos'[c] - 1) : FALSE
  <2>1. pos'[c] = 1
    BY <1>4 DEF Begin
  <2>2. QED
    BY <2>1
<1>6. InPlace(c)'
  BY <1>4, <1>5 DEF Begin, InPlace, Locked, Works
<1>7. QED
  BY <1>2, <1>3, <1>6 DEF Placed

LEMMA RefOf ==
  ASSUME ActionAssumption, PlaceInv, NEW c \in Clients
  PROVE  /\ Ref(c) \in RefNames /\ pos[c] \in 1..Len(Refs) /\ Len(Refs) \in Nat
         /\ Works(c) /\ step[c] # "pin" => sha[c] \in Shas
<1>1. pos[c] \in 1..Len(Refs) /\ Len(Refs) \in Nat /\ sha[c] \in MaybeShas
  BY RefFacts DEF PlaceInv, ClientTypeOK
<1>2. Refs[pos[c]] \in RefNames
  BY <1>1, RefFacts
<1>3. Works(c) /\ step[c] # "pin" => sha[c] # NoSha
  BY DEF PlaceInv, InPlace
<1>4. QED
  BY <1>1, <1>2, <1>3 DEF Ref, MaybeShas

LEMMA PinnedPlaces ==
  ASSUME ActionAssumption, PlaceInv, NEW c \in Clients, Pinned(c) PROVE Placed(c)
<1> DEFINE known == pinned[c][Ref(c)]
<1>0. InPlace(c) /\ Works(c) /\ step[c] = "pin" /\ Ref(c) \in RefNames
  BY RefOf DEF PlaceInv, Pinned, Working, Works
<1>1. UNCHANGED <<alias, objects, dest, node, tmp, prev, frozen, got, ran, mode, past, clean, kills, cleans, served, warm, began>>
  BY DEF Pinned
<1>2. known \in MaybeShas
  BY <1>0 DEF PlaceInv, ClientTypeOK
<1>3. CASE known # NoSha
  <2>1. sha' = [sha EXCEPT ![c] = known] /\ step' = [step EXCEPT ![c] = "dest"] /\ UNCHANGED <<stage, pos, why, textAlias, pinned>>
    BY <1>3 DEF Pinned, Set, StepTo
  <2>2. SharedTypeOK'
    BY <1>1, <2>1 DEF PlaceInv, SharedTypeOK
  <2>3. ClientTypeOK' /\ Alone(c) /\ step'[c] = "dest" /\ sha'[c] = known
    BY <1>1, <1>2, <2>1 DEF PlaceInv, ClientTypeOK, ActionSteps, Alone, Same
  <2>4. InPlace(c)'
    BY <1>0, <1>1, <1>3, <2>1, <2>3 DEF InPlace, Works, Locked, Ref
  <2>5. QED
    BY <2>2, <2>3, <2>4 DEF Placed
<1>4. CASE known = NoSha /\ frozen[c]
  BY <1>0, <1>4 DEF InPlace
<1>5. CASE known = NoSha /\ ~frozen[c]
  <2>1. PICK answer \in Answers(c, Ref(c)) :
          /\ Remember(c, Ref(c), answer)
          /\ IF answer \notin Shas THEN FailWith(c, answer) /\ UNCHANGED <<sha, pinned>>
             ELSE /\ sha' = Set(sha, c, answer) /\ pinned' = [pinned EXCEPT ![c][Ref(c)] = answer]
                  /\ StepTo(c, "dest") /\ UNCHANGED <<stage, pos, why>>
    BY <1>5 DEF Pinned
  <2>2. SharedTypeOK'
    <3>1. textAlias' \in [RefNames -> MaybeShas]
      BY <1>0, <2>1 DEF Remember, PlaceInv, SharedTypeOK, MaybeShas
    <3>2. QED
      BY <1>1, <3>1 DEF PlaceInv, SharedTypeOK
  <2>3. CASE answer \notin Shas
    <3>1. answer \in {"offline", "network", "unread", "cut"}
      BY <1>0, <2>3, AnswerFacts DEF PlaceInv
    <3>2. FailWith(c, answer) /\ sha' = sha /\ pinned' = pinned /\ stage[c] \in {"preflight", "execute", "freeze", "node"}
      BY <1>0, <2>1, <2>3 DEF Works
    <3>3. FailTypes(c)
      BY <3>1, <3>2, FailPlaces DEF ActionReasons
    <3>4. ClientTypeOK' /\ Alone(c)
      BY <1>1, <3>2, <3>3 DEF PlaceInv, ClientTypeOK, Alone, Same, FailTypes
    <3>5. InPlace(c)'
      BY <1>1, <3>1, <3>2, FailInPlace DEF ActionReasons
    <3>6. QED
      BY <2>2, <3>4, <3>5 DEF Placed
  <2>4. CASE answer \in Shas
    <3>1. /\ sha' = [sha EXCEPT ![c] = answer] /\ pinned' = [pinned EXCEPT ![c][Ref(c)] = answer]
          /\ step' = [step EXCEPT ![c] = "dest"] /\ UNCHANGED <<stage, pos, why>>
      BY <2>1, <2>4 DEF Set, StepTo
    <3>2. answer \in MaybeShas /\ answer # NoSha
      BY <2>4, RefFacts DEF MaybeShas
    <3>3. pinned \in [Clients -> [RefNames -> MaybeShas]]
      BY DEF PlaceInv, ClientTypeOK
    <3>4. /\ pinned' \in [Clients -> [RefNames -> MaybeShas]] /\ pinned'[c][Ref(c)] = answer
          /\ \A ref \in RefNames \ {Ref(c)} : pinned'[c][ref] = pinned[c][ref]
          /\ \A d \in Clients \ {c} : pinned'[d] = pinned[d]
      BY <1>0, <3>1, <3>2, <3>3
    <3>5. ClientTypeOK' /\ Alone(c) /\ step'[c] = "dest" /\ sha'[c] = answer
      BY <1>1, <3>1, <3>2, <3>4 DEF PlaceInv, ClientTypeOK, ActionSteps, Alone, Same
    <3>6. \A ref \in RefNames : pinned[c][ref] # NoSha => pinned'[c][ref] # NoSha
      BY <3>2, <3>4
    <3>7. \A j \in 1..Len(Refs) : Refs[j] \in RefNames
      BY RefFacts
    <3>8. \A j \in 1..(pos[c] - 1) : j \in 1..Len(Refs)
      BY RefOf
    <3>9. pinned'[c][Ref(c)'] = answer
      BY <3>1, <3>4 DEF Ref
    <3>10. InPlace(c)'
      BY <1>0, <1>1, <3>1, <3>2, <3>5, <3>6, <3>7, <3>8, <3>9, <1>5 DEF InPlace, Works, Locked
    <3>11. QED
      BY <2>2, <3>5, <3>10 DEF Placed
  <2>5. QED
    BY <2>3, <2>4
<1>6. QED
  BY <1>3, <1>4, <1>5

(* Steps that only move a client's label and its two trees.                *)
LEMMA RelabelPlaces ==
  ASSUME ActionAssumption, PlaceInv, NEW c \in Clients, Works(c), step[c] # "pin", NEW label \in ActionSteps \ {"pin"},
         step' = [step EXCEPT ![c] = label], UNCHANGED <<stage, pos, sha, pinned, frozen, got, ran, why, mode, past, clean, cleans, served, warm, began>>,
         tmp' \in [Clients -> Trees], prev' \in [Clients -> Trees], \A d \in Clients \ {c} : tmp'[d] = tmp[d] /\ prev'[d] = prev[d],
         label \in {"reinstall", "install"} => tmp'[c] # NoTree,
         textAlias' = textAlias, alias' \in [Shas -> Trees], dest' \in [Shas -> Trees], objects' \in SUBSET Trees, node' = node
  PROVE  Placed(c) /\ step'[c] = label
<1>1. SharedTypeOK'
  BY DEF PlaceInv, SharedTypeOK
<1>2. ClientTypeOK' /\ Alone(c) /\ step'[c] = label
  BY DEF PlaceInv, ClientTypeOK, Alone, Same
<1>3. InPlace(c)
  BY DEF PlaceInv
<1>4. InPlace(c)'
  BY <1>2, <1>3 DEF InPlace, Works, Locked, Ref
<1>5. QED
  BY <1>1, <1>2, <1>4 DEF Placed

LEMMA DestPlaces ==
  ASSUME ActionAssumption, PlaceInv, NEW c \in Clients, Dest(c) PROVE Placed(c)
<1>1. Works(c) /\ step[c] # "pin"
  BY DEF Dest, Working, Works
<1>2. PICK label \in {"look", "restore"} : step' = [step EXCEPT ![c] = label]
  BY DEF Dest, StepTo, Set
<1>3. tmp' \in [Clients -> Trees] /\ prev' \in [Clients -> Trees] /\ \A d \in Clients \ {c} : tmp'[d] = tmp[d] /\ prev'[d] = prev[d]
  BY TreeFacts DEF Dest, Set, PlaceInv, ClientTypeOK
<1>4. label \in ActionSteps \ {"pin"} /\ label \notin {"reinstall", "install"}
  BY DEF ActionSteps
<1>5. /\ UNCHANGED <<stage, pos, sha, pinned, frozen, got, ran, why, mode, past, clean, cleans, served, warm, began>>
      /\ textAlias' = textAlias /\ alias' \in [Shas -> Trees] /\ dest' \in [Shas -> Trees] /\ objects' \in SUBSET Trees /\ node' = node
  BY DEF Dest, store, world, PlaceInv, SharedTypeOK
<1>6. QED
  BY <1>1, <1>2, <1>3, <1>4, <1>5, RelabelPlaces

LEMMA LookUpPlaces ==
  ASSUME ActionAssumption, PlaceInv, NEW c \in Clients, LookUp(c) PROVE Placed(c)
<1>1. Works(c) /\ step[c] # "pin"
  BY DEF LookUp, Working, Works
<1>2. step' = [step EXCEPT ![c] = "verify"] /\ sha[c] \in Shas
  BY <1>1, RefOf DEF LookUp, StepTo, Set
<1>3. tmp' \in [Clients -> Trees] /\ prev' \in [Clients -> Trees] /\ \A d \in Clients \ {c} : tmp'[d] = tmp[d] /\ prev'[d] = prev[d]
  BY <1>2 DEF LookUp, Set, PlaceInv, ClientTypeOK, SharedTypeOK
<1>4. "verify" \in ActionSteps \ {"pin"} /\ "verify" \notin {"reinstall", "install"}
  BY DEF ActionSteps
<1>5. /\ UNCHANGED <<stage, pos, sha, pinned, frozen, got, ran, why, mode, past, clean, cleans, served, warm, began>>
      /\ textAlias' = textAlias /\ alias' \in [Shas -> Trees] /\ dest' \in [Shas -> Trees] /\ objects' \in SUBSET Trees /\ node' = node
  BY DEF LookUp, store, world, PlaceInv, SharedTypeOK
<1>6. QED
  BY <1>1, <1>2, <1>3, <1>4, <1>5, RelabelPlaces

(* A failing step that changes nothing else of its client.                 *)
LEMMA FailedPlaces ==
  ASSUME ActionAssumption, PlaceInv, NEW c \in Clients, NEW reason \in ActionReasons \ {""}, FailWith(c, reason),
         stage[c] \in {"preflight", "execute", "freeze", "node"},
         UNCHANGED <<sha, tmp, prev, pinned, frozen, got, ran, mode, past, clean, cleans, served, warm, began>>,
         UNCHANGED <<alias, objects, dest, node>>, textAlias' \in [RefNames -> MaybeShas]
  PROVE  Placed(c)
<1>1. SharedTypeOK'
  BY DEF PlaceInv, SharedTypeOK
<1>2. FailTypes(c)
  BY FailPlaces
<1>3. ClientTypeOK' /\ Alone(c)
  BY <1>2 DEF PlaceInv, ClientTypeOK, Alone, Same, FailTypes
<1>4. InPlace(c)'
  BY FailInPlace
<1>5. QED
  BY <1>1, <1>3, <1>4 DEF Placed

LEMMA RestorePlaces ==
  ASSUME ActionAssumption, PlaceInv, NEW c \in Clients, Restore(c) PROVE Placed(c)
<1>1. Works(c) /\ step[c] # "pin" /\ sha[c] \in Shas
  BY RefOf DEF Restore, Working, Works
<1>2. UNCHANGED <<store, sha, prev, pinned, frozen, got, ran, world>>
  BY DEF Restore
<1>3. /\ UNCHANGED <<sha, prev, pinned, frozen, got, ran, mode, past, clean, cleans, served, warm, began>>
      /\ UNCHANGED <<alias, objects, dest, node>> /\ textAlias' = textAlias
  BY <1>2 DEF store, world
<1>4. alias' \in [Shas -> Trees] /\ dest' \in [Shas -> Trees] /\ objects' \in SUBSET Trees /\ alias[sha[c]] \in Trees
  BY <1>1, <1>3 DEF PlaceInv, SharedTypeOK
<1>5. CASE alias[sha[c]] = NoTree
  <2>1. step' = [step EXCEPT ![c] = "fetch"] /\ UNCHANGED <<stage, pos, why, tmp>>
    BY <1>5 DEF Restore, StepTo, Set
  <2>2. tmp' \in [Clients -> Trees] /\ prev' \in [Clients -> Trees] /\ \A d \in Clients \ {c} : tmp'[d] = tmp[d] /\ prev'[d] = prev[d]
    BY <1>3, <2>1 DEF PlaceInv, ClientTypeOK
  <2>3. "fetch" \in ActionSteps \ {"pin"} /\ "fetch" \notin {"reinstall", "install"}
    BY DEF ActionSteps
  <2>4. QED
    BY <1>1, <1>3, <1>4, <2>1, <2>2, <2>3, RelabelPlaces
<1>6. CASE alias[sha[c]] # NoTree /\ alias[sha[c]] \in objects
  <2>1. step' = [step EXCEPT ![c] = "reinstall"] /\ tmp' = [tmp EXCEPT ![c] = alias[sha[c]]] /\ UNCHANGED <<stage, pos, why>>
    BY <1>6 DEF Restore, StepTo, Set
  <2>2. tmp' \in [Clients -> Trees] /\ prev' \in [Clients -> Trees] /\ (\A d \in Clients \ {c} : tmp'[d] = tmp[d] /\ prev'[d] = prev[d])
        /\ tmp'[c] # NoTree
    BY <1>3, <1>4, <1>6, <2>1 DEF PlaceInv, ClientTypeOK
  <2>3. "reinstall" \in ActionSteps \ {"pin"}
    BY DEF ActionSteps
  <2>4. QED
    BY <1>1, <1>3, <1>4, <2>1, <2>2, <2>3, RelabelPlaces
<1>7. CASE alias[sha[c]] # NoTree /\ alias[sha[c]] \notin objects
  <2>1. FailWith(c, "lost") /\ tmp' = tmp /\ "lost" \in ActionReasons \ {""} /\ stage[c] \in {"preflight", "execute", "freeze", "node"}
    BY <1>1, <1>7 DEF Restore, ActionReasons, Works
  <2>2. textAlias' \in [RefNames -> MaybeShas]
    BY <1>3 DEF PlaceInv, SharedTypeOK
  <2>3. QED
    BY <1>3, <2>1, <2>2, FailedPlaces
<1>8. QED
  BY <1>5, <1>6, <1>7

(* A use of a directory that is there, with the client's trees.            *)
LEMMA UsingPlaces ==
  ASSUME ActionAssumption, PlaceInv, NEW c \in Clients, Used(c), Works(c), step[c] # "pin",
         dest' \in [Shas -> Trees], dest'[sha[c]] # NoTree, alias' \in [Shas -> Trees], objects' \in SUBSET Trees,
         UNCHANGED <<sha, prev, pinned, frozen, mode, past, clean, cleans, served, warm, began, textAlias, node>>,
         tmp' \in [Clients -> Trees], \A d \in Clients \ {c} : tmp'[d] = tmp[d]
  PROVE  Placed(c)
<1>1. SharedTypeOK'
  BY DEF PlaceInv, SharedTypeOK
<1>2. /\ FailTypes(c) /\ why' = why
      /\ got' \in [Clients -> [RefNames -> Trees]] /\ ran' \in [Clients -> [RefNames -> Trees]]
      /\ \A d \in Clients \ {c} : got'[d] = got[d] /\ ran'[d] = ran[d]
  BY UsedPlaces
<1>3. ClientTypeOK' /\ Alone(c)
  BY <1>2 DEF PlaceInv, ClientTypeOK, Alone, Same, FailTypes
<1>4. InPlace(c)'
  BY UsedInPlace
<1>5. QED
  BY <1>1, <1>3, <1>4 DEF Placed

LEMMA ReinstallPlaces ==
  ASSUME ActionAssumption, PlaceInv, NEW c \in Clients, Reinstall(c) PROVE Placed(c)
<1>1. Works(c) /\ step[c] # "pin" /\ sha[c] \in Shas /\ step[c] = "reinstall"
  BY RefOf DEF Reinstall, Working, Works
<1>2. UNCHANGED <<textAlias, alias, objects, node, sha, prev, pinned, frozen, world>>
  BY DEF Reinstall
<1>3. UNCHANGED <<sha, prev, pinned, frozen, mode, past, clean, cleans, served, warm, began, textAlias, node, alias, objects>>
  BY <1>2 DEF world
<1>4. tmp \in [Clients -> Trees] /\ tmp[c] # NoTree /\ tmp[c] \in Trees /\ tmp' = [tmp EXCEPT ![c] = NoTree]
  BY <1>1 DEF Reinstall, Set, PlaceInv, ClientTypeOK, InPlace
<1>5. tmp' \in [Clients -> Trees] /\ prev' \in [Clients -> Trees] /\ \A d \in Clients \ {c} : tmp'[d] = tmp[d] /\ prev'[d] = prev[d]
  BY <1>3, <1>4, TreeFacts DEF PlaceInv, ClientTypeOK
<1>6. alias' \in [Shas -> Trees] /\ objects' \in SUBSET Trees /\ dest \in [Shas -> Trees]
  BY <1>3 DEF PlaceInv, SharedTypeOK
<1>7. CASE dest[sha[c]] = NoTree
  <2>1. dest' = [dest EXCEPT ![sha[c]] = tmp[c]] /\ Used(c)
    BY <1>7 DEF Reinstall
  <2>2. dest' \in [Shas -> Trees] /\ dest'[sha[c]] # NoTree
    BY <1>1, <1>4, <1>6, <2>1
  <2>3. QED
    BY <1>1, <1>3, <1>5, <1>6, <2>1, <2>2, UsingPlaces
<1>8. CASE dest[sha[c]] # NoTree
  <2>1. step' = [step EXCEPT ![c] = "look"] /\ UNCHANGED <<dest, stage, pos, why, got, ran>>
    BY <1>8 DEF Reinstall, StepTo, Set
  <2>2. "look" \in ActionSteps \ {"pin"} /\ "look" \notin {"reinstall", "install"}
    BY DEF ActionSteps
  <2>3. QED
    BY <1>1, <1>3, <1>5, <1>6, <2>1, <2>2, RelabelPlaces
<1>9. QED
  BY <1>7, <1>8

LEMMA FetchedTree ==
  ASSUME NEW a, NEW exit, NEW s
  PROVE  (IF FetchTarball(a, s) # NoTree THEN FetchTarball(a, s) ELSE CloneBlocking({exit}, s)) \in TreesOf(s) \cup {NoTree}
  BY TreeFacts DEF FetchTarball, CloneBlocking

LEMMA FetchPlaces ==
  ASSUME ActionAssumption, PlaceInv, NEW c \in Clients, Fetch(c) PROVE Placed(c)
<1>1. Works(c) /\ step[c] # "pin" /\ sha[c] \in Shas /\ stage[c] \in {"preflight", "execute", "freeze", "node"}
  BY RefOf DEF Fetch, Working, Works
<1>2. UNCHANGED <<store, sha, prev, pinned, frozen, got, ran, mode, past, clean, cleans, served, warm, began>>
  BY DEF Fetch
<1>3. UNCHANGED <<alias, objects, dest, node, textAlias>>
  BY <1>2 DEF store
<1>4. alias' \in [Shas -> Trees] /\ dest' \in [Shas -> Trees] /\ objects' \in SUBSET Trees /\ textAlias' \in [RefNames -> MaybeShas]
  BY <1>3 DEF PlaceInv, SharedTypeOK
<1>5. ASSUME NEW reason \in {"offline", "network"}, FailWith(c, reason), tmp' = tmp PROVE Placed(c)
  <2>1. reason \in ActionReasons \ {""}
    BY DEF ActionReasons
  <2>2. QED
    BY <1>1, <1>2, <1>3, <1>4, <1>5, <2>1, FailedPlaces
<1>6. ASSUME NEW tree \in TreesOf(sha[c]), tmp' = Set(tmp, c, tree), StepTo(c, "look"), UNCHANGED <<stage, pos, why>> PROVE Placed(c)
  <2>1. step' = [step EXCEPT ![c] = "look"] /\ tmp' = [tmp EXCEPT ![c] = tree] /\ tree \in Trees
    BY <1>1, <1>6, TreeFacts DEF StepTo, Set
  <2>2. tmp' \in [Clients -> Trees] /\ prev' \in [Clients -> Trees] /\ \A d \in Clients \ {c} : tmp'[d] = tmp[d] /\ prev'[d] = prev[d]
    BY <1>2, <2>1 DEF PlaceInv, ClientTypeOK
  <2>3. "look" \in ActionSteps \ {"pin"} /\ "look" \notin {"reinstall", "install"}
    BY DEF ActionSteps
  <2>4. QED
    BY <1>1, <1>2, <1>3, <1>4, <1>6, <2>1, <2>2, <2>3, RelabelPlaces
<1>7. \/ FailWith(c, "offline") /\ tmp' = tmp
      \/ \E a \in Archives, exit \in RunGit :
           LET tree == IF FetchTarball(a, sha[c]) # NoTree THEN FetchTarball(a, sha[c]) ELSE CloneBlocking({exit}, sha[c])
           IN IF tree = NoTree THEN FailWith(c, "network") /\ tmp' = tmp
              ELSE tmp' = Set(tmp, c, tree) /\ StepTo(c, "look") /\ UNCHANGED <<stage, pos, why>>
  BY DEF Fetch
<1>8. CASE FailWith(c, "offline") /\ tmp' = tmp
  BY <1>5, <1>8
<1>9. CASE \E a \in Archives, exit \in RunGit :
             LET tree == IF FetchTarball(a, sha[c]) # NoTree THEN FetchTarball(a, sha[c]) ELSE CloneBlocking({exit}, sha[c])
             IN IF tree = NoTree THEN FailWith(c, "network") /\ tmp' = tmp
                ELSE tmp' = Set(tmp, c, tree) /\ StepTo(c, "look") /\ UNCHANGED <<stage, pos, why>>
  <2>1. PICK tree \in TreesOf(sha[c]) \cup {NoTree} :
          IF tree = NoTree THEN FailWith(c, "network") /\ tmp' = tmp
          ELSE tmp' = Set(tmp, c, tree) /\ StepTo(c, "look") /\ UNCHANGED <<stage, pos, why>>
    BY <1>9, FetchedTree
  <2>2. QED
    BY <1>5, <1>6, <2>1
<1>10. QED
  BY <1>7, <1>8, <1>9

LEMMA VerifyPlaces ==
  ASSUME ActionAssumption, PlaceInv, NEW c \in Clients, Verify(c) PROVE Placed(c)
<1>1. Works(c) /\ step[c] # "pin" /\ sha[c] \in Shas /\ stage[c] \in {"preflight", "execute", "freeze", "node"}
  BY RefOf DEF Verify, Working, Works
<1>2. UNCHANGED <<textAlias, node, sha, tmp, prev, pinned, frozen, world>>
  BY DEF Verify
<1>3. UNCHANGED <<textAlias, node, sha, tmp, prev, pinned, frozen, mode, past, clean, cleans, served, warm, began>>
  BY <1>2 DEF world
<1>4. /\ alias \in [Shas -> Trees] /\ dest \in [Shas -> Trees] /\ objects \in SUBSET Trees
      /\ textAlias' \in [RefNames -> MaybeShas] /\ tmp \in [Clients -> Trees] /\ prev \in [Clients -> Trees]
  BY <1>3 DEF PlaceInv, SharedTypeOK, ClientTypeOK
<1>5. ASSUME NEW reason \in {"vanished", "identity"}, FailWith(c, reason), UNCHANGED <<alias, objects, dest, got, ran>> PROVE Placed(c)
  <2>1. reason \in ActionReasons \ {""}
    BY DEF ActionReasons
  <2>2. QED
    BY <1>1, <1>3, <1>4, <1>5, <2>1, FailedPlaces
<1>6. ASSUME Subject(c) # NoTree,
             alias' = [alias EXCEPT ![sha[c]] = Subject(c)],
             objects' = IF prev[c] = NoTree THEN objects \cup {Subject(c)} ELSE objects, dest' = dest,
             IF tmp[c] # NoTree THEN StepTo(c, "install") /\ UNCHANGED <<stage, pos, why, got, ran>> ELSE Used(c)
      PROVE  Placed(c)
  <2>1. Subject(c) \in Trees
    BY <1>1, <1>4 DEF Subject
  <2>2. alias' \in [Shas -> Trees] /\ objects' \in SUBSET Trees /\ dest' \in [Shas -> Trees]
    BY <1>1, <1>4, <1>6, <2>1
  <2>3. CASE tmp[c] # NoTree
    <3>1. step' = [step EXCEPT ![c] = "install"] /\ UNCHANGED <<stage, pos, why, got, ran>>
      BY <1>6, <2>3 DEF StepTo, Set
    <3>2. "install" \in ActionSteps \ {"pin"} /\ tmp'[c] # NoTree
      BY <1>3, <2>3 DEF ActionSteps
    <3>3. tmp' \in [Clients -> Trees] /\ prev' \in [Clients -> Trees] /\ \A d \in Clients \ {c} : tmp'[d] = tmp[d] /\ prev'[d] = prev[d]
      BY <1>3, <1>4
    <3>4. QED
      BY <1>1, <1>3, <2>2, <3>1, <3>2, <3>3, RelabelPlaces
  <2>4. CASE tmp[c] = NoTree
    <3>1. Used(c) /\ dest'[sha[c]] # NoTree
      BY <1>6, <2>4 DEF Subject
    <3>2. tmp' \in [Clients -> Trees] /\ \A d \in Clients \ {c} : tmp'[d] = tmp[d]
      BY <1>3, <1>4
    <3>3. QED
      BY <1>1, <1>3, <2>2, <3>1, <3>2, UsingPlaces
  <2>5. QED
    BY <2>3, <2>4
<1>7. QED
  BY <1>5, <1>6 DEF Verify

LEMMA InstallPlaces ==
  ASSUME ActionAssumption, PlaceInv, NEW c \in Clients, Install(c) PROVE Placed(c)
<1>1. Works(c) /\ step[c] # "pin" /\ sha[c] \in Shas /\ step[c] = "install" /\ Used(c)
  BY RefOf DEF Install, Working, Works
<1>2. UNCHANGED <<textAlias, alias, objects, node, sha, prev, pinned, frozen, world>>
  BY DEF Install
<1>3. UNCHANGED <<sha, prev, pinned, frozen, mode, past, clean, cleans, served, warm, began, textAlias, node, alias, objects>>
  BY <1>2 DEF world
<1>4. tmp \in [Clients -> Trees] /\ tmp[c] # NoTree /\ tmp[c] \in Trees /\ tmp' = [tmp EXCEPT ![c] = NoTree]
  BY <1>1 DEF Install, Set, PlaceInv, ClientTypeOK, InPlace
<1>5. tmp' \in [Clients -> Trees] /\ \A d \in Clients \ {c} : tmp'[d] = tmp[d]
  BY <1>4, TreeFacts
<1>6. alias' \in [Shas -> Trees] /\ objects' \in SUBSET Trees /\ dest \in [Shas -> Trees]
  BY <1>3 DEF PlaceInv, SharedTypeOK
<1>7. dest' \in [Shas -> Trees] /\ dest'[sha[c]] # NoTree
  BY <1>1, <1>4, <1>6 DEF Install
<1>8. QED
  BY <1>1, <1>3, <1>5, <1>6, <1>7, UsingPlaces

LEMMA FreezePlaces ==
  ASSUME ActionAssumption, PlaceInv, NEW c \in Clients, Freeze(c) PROVE Placed(c)
<1>1. stage[c] = "freeze" /\ Ref(c) \in RefNames /\ InPlace(c) /\ pos[c] \in 1..Len(Refs) /\ Len(Refs) \in Nat \ {0}
  BY RefOf, RefFacts DEF Freeze, PlaceInv
<1>2. UNCHANGED <<alias, objects, dest, node, sha, tmp, prev, pinned, got, ran, mode, past, clean, cleans, served, warm, began>>
  BY DEF Freeze
<1>3. PICK answer \in Answers(c, Ref(c)) :
       /\ Remember(c, Ref(c), answer)
       /\ IF answer \notin Shas THEN FailWith(c, answer) /\ UNCHANGED frozen
          ELSE IF answer # pinned[c][Ref(c)] THEN FailWith(c, "moved") /\ UNCHANGED frozen
          ELSE IF pos[c] < Len(Refs) THEN pos' = Set(pos, c, pos[c] + 1) /\ UNCHANGED <<stage, step, why, frozen>>
          ELSE /\ pos' = Set(pos, c, 1) /\ frozen' = Set(frozen, c, TRUE)
               /\ stage' = Set(stage, c, "execute") /\ UNCHANGED <<step, why>>
  BY DEF Freeze
<1>4. textAlias' \in [RefNames -> MaybeShas]
  BY <1>1, <1>3 DEF Remember, PlaceInv, SharedTypeOK, MaybeShas
<1>5. ASSUME NEW reason \in {"offline", "network", "unread", "cut", "moved"}, FailWith(c, reason), frozen' = frozen PROVE Placed(c)
  <2>1. reason \in ActionReasons \ {""} /\ stage[c] \in {"preflight", "execute", "freeze", "node"}
    BY <1>1 DEF ActionReasons
  <2>2. QED
    BY <1>2, <1>4, <1>5, <2>1, FailedPlaces
<1>6. CASE answer \notin Shas
  <2>1. answer \in {"offline", "network", "unread", "cut", "moved"}
    BY <1>1, <1>6, AnswerFacts DEF PlaceInv
  <2>2. QED
    BY <1>3, <1>5, <1>6, <2>1
<1>7. CASE answer \in Shas /\ answer # pinned[c][Ref(c)]
  BY <1>3, <1>5, <1>7
<1>8. SharedTypeOK'
  BY <1>2, <1>4 DEF PlaceInv, SharedTypeOK
<1>9. CASE answer \in Shas /\ answer = pinned[c][Ref(c)] /\ pos[c] < Len(Refs)
  <2>1. pos' = [pos EXCEPT ![c] = pos[c] + 1] /\ UNCHANGED <<stage, step, why, frozen>> /\ pos[c] + 1 \in 1..Len(Refs)
    BY <1>1, <1>3, <1>9, NextIndex DEF Set
  <2>2. ClientTypeOK' /\ Alone(c)
    BY <1>2, <2>1 DEF PlaceInv, ClientTypeOK, Alone, Same
  <2>3. InPlace(c)'
    BY <1>1, <1>2, <2>1 DEF InPlace, Works, Locked
  <2>4. QED
    BY <1>8, <2>2, <2>3 DEF Placed
<1>10. CASE answer \in Shas /\ answer = pinned[c][Ref(c)] /\ ~(pos[c] < Len(Refs))
  <2>1. /\ pos' = [pos EXCEPT ![c] = 1] /\ stage' = [stage EXCEPT ![c] = "execute"] /\ frozen' = [frozen EXCEPT ![c] = TRUE]
        /\ UNCHANGED <<step, why>> /\ 1 \in 1..Len(Refs)
    BY <1>1, <1>3, <1>10 DEF Set
  <2>2. ClientTypeOK' /\ Alone(c) /\ stage'[c] = "execute"
    BY <1>2, <2>1 DEF PlaceInv, ClientTypeOK, Alone, Same, ActionStages
  <2>3. why[c] = ""
    BY <1>1 DEF InPlace
  <2>4. step[c] = "pin"
    BY <1>1 DEF InPlace
  <2>5. InPlace(c)'
    BY <1>1, <1>2, <2>1, <2>2, <2>3, <2>4 DEF InPlace, Works, Locked
  <2>6. QED
    BY <1>8, <2>2, <2>5 DEF Placed
<1>11. QED
  BY <1>6, <1>7, <1>9, <1>10

(* The end of a client's work: nothing is required of its locals there.    *)
LEMMA EndPlaces ==
  ASSUME ActionAssumption, PlaceInv, NEW c \in Clients, stage[c] \notin {"idle", "failed"}, NEW label \in {"rename", "done", "dead"},
         stage' = [stage EXCEPT ![c] = label], label = "rename" => stage[c] = "node",
         UNCHANGED <<step, pos, why, sha, prev, pinned, frozen, got, ran, mode, past, clean, warm, began, textAlias, alias, dest>>,
         tmp' \in [Clients -> Trees], \A d \in Clients \ {c} : tmp'[d] = tmp[d],
         objects' \in SUBSET Trees, node' \in Trees, served' \in BOOLEAN, cleans' = cleans
  PROVE  Placed(c) /\ stage'[c] = label
<1>1. SharedTypeOK'
  BY DEF PlaceInv, SharedTypeOK
<1>2. ClientTypeOK' /\ Alone(c) /\ stage'[c] = label
  BY DEF PlaceInv, ClientTypeOK, Alone, Same, ActionStages
<1>3. InPlace(c)
  BY DEF PlaceInv
<1>4. InPlace(c)'
  BY <1>2, <1>3 DEF InPlace, Works, Locked
<1>5. QED
  BY <1>1, <1>2, <1>4 DEF Placed

LEMMA EnsureNodePlaces ==
  ASSUME ActionAssumption, PlaceInv, NEW c \in Clients, EnsureNode(c) PROVE Placed(c)
<1>1. UNCHANGED <<textAlias, alias, dest, node, sha, prev, pinned, frozen, got, ran, mode, past, clean, cleans, warm, began>> /\ stage[c] = "node"
  BY DEF EnsureNode
<1>2. /\ objects \in SUBSET Trees /\ node' \in Trees /\ served \in BOOLEAN /\ tmp \in [Clients -> Trees] /\ Bundle \in Trees
      /\ textAlias' \in [RefNames -> MaybeShas]
  BY <1>1, TreeFacts DEF PlaceInv, SharedTypeOK, ClientTypeOK
<1>3. CASE node # NoTree
  <2>1. stage' = [stage EXCEPT ![c] = "done"] /\ served' = TRUE /\ UNCHANGED <<objects, tmp, step, pos, why>>
    BY <1>3 DEF EnsureNode, Set
  <2>2. QED
    BY <1>1, <1>2, <2>1, EndPlaces
<1>4. CASE node = NoTree /\ (Bundle \in objects \/ c \notin OfflineClients)
  <2>1. /\ objects' = objects \cup {Bundle} /\ tmp' = [tmp EXCEPT ![c] = Bundle] /\ stage' = [stage EXCEPT ![c] = "rename"]
        /\ UNCHANGED <<step, pos, why, served>>
    BY <1>4 DEF EnsureNode, FetchBundle, Set
  <2>2. tmp' \in [Clients -> Trees] /\ (\A d \in Clients \ {c} : tmp'[d] = tmp[d]) /\ objects' \in SUBSET Trees
    BY <1>2, <2>1
  <2>3. QED
    BY <1>1, <1>2, <2>1, <2>2, EndPlaces
<1>5. CASE node = NoTree /\ ~(Bundle \in objects \/ c \notin OfflineClients)
  <2>1. FailWith(c, "offline") /\ UNCHANGED <<objects, tmp, served>> /\ "offline" \in ActionReasons \ {""}
    BY <1>5 DEF EnsureNode, FetchBundle, ActionReasons
  <2>2. QED
    BY <1>1, <1>2, <2>1, FailedPlaces
<1>6. QED
  BY <1>3, <1>4, <1>5

LEMMA InstallNodePlaces ==
  ASSUME ActionAssumption, PlaceInv, NEW c \in Clients, InstallNode(c) PROVE Placed(c)
<1>1. /\ UNCHANGED <<textAlias, alias, objects, dest, step, pos, sha, prev, pinned, frozen, got, ran, why, mode, past, clean, cleans, warm, began>>
      /\ stage[c] = "rename" /\ stage' = [stage EXCEPT ![c] = "done"] /\ served' = TRUE
  BY DEF InstallNode, Set
<1>2. tmp' \in [Clients -> Trees] /\ (\A d \in Clients \ {c} : tmp'[d] = tmp[d]) /\ objects' \in SUBSET Trees /\ node' \in Trees
  BY <1>1, TreeFacts DEF InstallNode, Set, PlaceInv, SharedTypeOK, ClientTypeOK
<1>3. QED
  BY <1>1, <1>2, EndPlaces

LEMMA KillPlaces ==
  ASSUME ActionAssumption, PlaceInv, NEW c \in Clients, KillClient(c) PROVE Placed(c)
<1>1. /\ UNCHANGED <<store, step, pos, sha, tmp, prev, pinned, frozen, got, ran, why, mode, past, clean, cleans, served, warm, began>>
      /\ stage[c] \notin {"idle", "failed"} /\ stage' = [stage EXCEPT ![c] = "dead"]
  BY DEF KillClient, Set
<1>2. UNCHANGED <<textAlias, alias, objects, dest, node>>
  BY <1>1 DEF store
<1>3. tmp' \in [Clients -> Trees] /\ (\A d \in Clients \ {c} : tmp'[d] = tmp[d]) /\ objects' \in SUBSET Trees /\ node' \in Trees /\ served' \in BOOLEAN
  BY <1>1, <1>2 DEF PlaceInv, SharedTypeOK, ClientTypeOK
<1>4. QED
  BY <1>1, <1>2, <1>3, EndPlaces

(* The steps of the environment leave every client alone.                  *)
EnvStep == (\E ref \in Range(Refs) : MoveRef(ref)) \/ Collect \/ RemoveActions \/ RemoveNode

LEMMA RemovingTrees ==
  ASSUME NEW d, NEW left \in Removing(d) PROVE left \in Trees
  BY TreeFacts DEF Removing

LEMMA MovedPast ==
  ASSUME ActionAssumption, SharedTypeOK, NEW ref \in RefNames, MoveRef(ref)
  PROVE  /\ past' \in Seq([RefNames -> Shas]) /\ Len(past') = Len(past) + 1
         /\ \A t \in 1..Len(past) : past'[t] = past[t]
<1>1. PICK s \in Shas : past' = Append(past, [remote EXCEPT ![ref] = s])
  BY DEF MoveRef
<1>2. past \in Seq([RefNames -> Shas]) /\ [remote EXCEPT ![ref] = s] \in [RefNames -> Shas]
  BY PastFacts DEF SharedTypeOK
<1>3. QED
  BY <1>1, <1>2

LEMMA EnvLeavesClients ==
  ASSUME EnvStep
  PROVE  /\ UNCHANGED <<stage, step, pos, sha, tmp, prev, pinned, frozen, got, ran, why>>
         /\ UNCHANGED <<mode, served, warm, began, textAlias, alias>>
<1>1. UNCHANGED <<locals, mode, served, warm, began, textAlias, alias>>
  BY DEF EnvStep, MoveRef, Collect, RemoveActions, RemoveNode, store
<1>2. QED
  BY <1>1 DEF locals

LEMMA EnvTypes ==
  ASSUME ActionAssumption, PlaceInv, EnvStep PROVE SharedTypeOK'
<1>1. UNCHANGED <<mode, served, warm, began, textAlias, alias>>
  BY EnvLeavesClients
<1>2. SharedTypeOK
  BY DEF PlaceInv
<1>3. ASSUME NEW ref \in Range(Refs), MoveRef(ref) PROVE SharedTypeOK'
  <2>1. /\ past' \in Seq([RefNames -> Shas]) /\ Len(past') = Len(past) + 1
        /\ \A t \in 1..Len(past) : past'[t] = past[t]
    BY <1>2, <1>3, MovedPast DEF RefNames
  <2>2. Len(past) \in Nat \ {0}
    BY <1>2, PastFacts
  <2>3. past' # <<>> /\ past'[1] = past[1]
    BY <2>1, <2>2
  <2>4. UNCHANGED <<objects, dest, node, cleans, clean>>
    BY <1>3 DEF MoveRef, store
  <2>5. QED
    BY <1>1, <1>2, <2>1, <2>3, <2>4 DEF SharedTypeOK
<1>4. CASE Collect
  BY <1>1, <1>2, <1>4 DEF Collect, SharedTypeOK
<1>5. CASE RemoveActions
  <2>1. dest' \in [Shas -> Trees]
    BY <1>2, <1>5, RemovingTrees DEF RemoveActions, SharedTypeOK
  <2>2. UNCHANGED <<past, objects, node, cleans>> /\ clean # "no"
    BY <1>5 DEF RemoveActions
  <2>3. QED
    BY <1>1, <1>2, <2>1, <2>2 DEF SharedTypeOK
<1>6. CASE RemoveNode
  <2>1. node' \in Trees
    BY <1>2, <1>6, RemovingTrees DEF RemoveNode, SharedTypeOK
  <2>2. UNCHANGED <<past, objects, dest, cleans>> /\ clean # "no"
    BY <1>6 DEF RemoveNode
  <2>3. QED
    BY <1>1, <1>2, <2>1, <2>2 DEF SharedTypeOK
<1>7. QED
  BY <1>3, <1>4, <1>5, <1>6 DEF EnvStep

LEMMA EnvKeepsPlaces ==
  ASSUME ActionAssumption, PlaceInv, EnvStep PROVE PlaceInv'
<1>1. /\ UNCHANGED <<stage, step, pos, sha, tmp, prev, pinned, frozen, got, ran, why>> /\ mode' = mode
  BY EnvLeavesClients
<1>2. ClientTypeOK'
  BY <1>1 DEF PlaceInv, ClientTypeOK
<1>3. \A d \in Clients : InPlace(d)'
  <2>1. TAKE d \in Clients
  <2>2. Same(d)
    BY <1>1 DEF Same
  <2>3. QED
    BY <1>1, <2>2, SameInPlace DEF PlaceInv
<1>4. QED
  BY <1>2, <1>3, EnvTypes DEF PlaceInv

LEMMA ClientPlaces ==
  ASSUME ActionAssumption, PlaceInv, NEW c \in Clients, ActionStep(c) \/ KillClient(c) PROVE Placed(c)
  BY BeginPlaces, PinnedPlaces, DestPlaces, RestorePlaces, ReinstallPlaces, FetchPlaces, LookUpPlaces, VerifyPlaces,
     InstallPlaces, FreezePlaces, EnsureNodePlaces, InstallNodePlaces, KillPlaces DEF ActionStep

LEMMA StutterLeaves ==
  ASSUME UNCHANGED actionVars
  PROVE  /\ UNCHANGED <<stage, step, pos, sha, tmp, prev, pinned, frozen, got, ran, why>>
         /\ UNCHANGED <<textAlias, alias, objects, dest, node>>
         /\ UNCHANGED <<mode, past, clean, kills, cleans, breaks, served, warm, began>>
  BY DEF actionVars, store, locals, world

LEMMA StutterKeepsPlaces ==
  ASSUME PlaceInv, UNCHANGED actionVars PROVE PlaceInv'
<1>1. SharedTypeOK' /\ ClientTypeOK'
  BY StutterLeaves DEF PlaceInv, SharedTypeOK, ClientTypeOK
<1>2. \A d \in Clients : Same(d) /\ mode' = mode
  BY StutterLeaves DEF Same
<1>3. QED
  BY <1>1, <1>2, SameInPlace DEF PlaceInv

LEMMA NextPlaces ==
  ASSUME ActionAssumption, PlaceInv, [ActionNext]_actionVars PROVE PlaceInv'
<1>1. CASE \E c \in Clients : ActionStep(c) \/ KillClient(c)
  BY <1>1, ClientPlaces, PlacedKeeps
<1>2. CASE EnvStep
  BY <1>2, EnvKeepsPlaces
<1>3. CASE UNCHANGED actionVars
  BY <1>3, StutterKeepsPlaces
<1>4. QED
  BY <1>1, <1>2, <1>3 DEF ActionNext, EnvStep

LEMMA InitPlaces ==
  ASSUME ActionAssumption, ActionInit PROVE PlaceInv
<1>1. NoTree \in Trees /\ NoSha \in MaybeShas /\ 1 \in 1..Len(Refs)
  BY TreeFacts, RefFacts DEF MaybeShas
<1>2. past \in Seq([RefNames -> Shas]) /\ past # <<>> /\ past[1] = Start
  <2>1. past = <<Start>>
    BY DEF ActionInit
  <2>2. Start \in [RefNames -> Shas]
    BY RefFacts
  <2>3. QED
    BY <2>1, <2>2
<1>3. mode \in [Clients -> {"run", "offline", "daemon"}]
  BY DEF ActionInit, ActionAssumption
<1>4. /\ textAlias \in [RefNames -> MaybeShas] /\ alias \in [Shas -> Trees] /\ dest \in [Shas -> Trees]
      /\ objects \in SUBSET Trees /\ node \in Trees
  BY <1>1 DEF ActionInit, RefNames
<1>5. SharedTypeOK
  BY <1>2, <1>3, <1>4 DEF SharedTypeOK, ActionInit
<1>6. stage \in [Clients -> ActionStages] /\ step \in [Clients -> ActionSteps] /\ pos \in [Clients -> 1..Len(Refs)] /\ why \in [Clients -> ActionReasons]
  BY <1>1 DEF ActionInit, ActionStages, ActionSteps, ActionReasons
<1>7. /\ sha \in [Clients -> MaybeShas] /\ tmp \in [Clients -> Trees] /\ prev \in [Clients -> Trees]
      /\ pinned \in [Clients -> [RefNames -> MaybeShas]] /\ frozen \in [Clients -> BOOLEAN]
      /\ got \in [Clients -> [RefNames -> Trees]] /\ ran \in [Clients -> [RefNames -> Trees]]
  BY <1>1 DEF ActionInit, RefNames
<1>8. ASSUME NEW c \in Clients PROVE InPlace(c)
  BY DEF ActionInit, InPlace, RefNames, Works
<1>9. QED
  BY <1>5, <1>6, <1>7, <1>8 DEF PlaceInv, ClientTypeOK

(* Steps that resolve nothing: when they enter the freeze, it is at its    *)
(* first reference.                                                        *)
Quiet(c) ==
  /\ past' = past /\ mode' = mode /\ began'[c] = began[c]
  /\ pinned'[c] = pinned[c] /\ frozen'[c] = frozen[c]
  /\ stage[c] # "idle" /\ (stage'[c] = "freeze" => pos'[c] = 1)

LEMMA FailStage ==
  ASSUME ClientTypeOK, NEW c \in Clients, NEW reason, FailWith(c, reason)
  PROVE  stage'[c] \in {"failed", "done", stage[c]} /\ (stage'[c] = "done" => mode[c] = "daemon")
  BY DEF ClientTypeOK, FailWith, Set

LEMMA UsedStage ==
  ASSUME ClientTypeOK, NEW c \in Clients, Used(c), Works(c)
  PROVE  stage'[c] = "freeze" => pos'[c] = 1
<1>1. stage \in [Clients -> ActionStages] /\ pos \in [Clients -> 1..Len(Refs)]
  BY DEF ClientTypeOK
<1>2. CASE pos[c] < Len(Refs)
  <2>1. stage' = stage
    BY <1>2 DEF Used
  <2>2. QED
    BY <2>1 DEF Works
<1>3. CASE ~(pos[c] < Len(Refs))
  <2>1. pos' = [pos EXCEPT ![c] = 1]
    BY <1>3 DEF Used, Set
  <2>2. QED
    BY <1>1, <2>1
<1>4. QED
  BY <1>2, <1>3

LEMMA QuietSteps ==
  ASSUME ClientTypeOK, NEW c \in Clients,
         \/ Dest(c) \/ Restore(c) \/ Reinstall(c) \/ Fetch(c) \/ LookUp(c) \/ Verify(c) \/ Install(c)
         \/ EnsureNode(c) \/ InstallNode(c) \/ KillClient(c)
  PROVE  Quiet(c)
<1>0. stage \in [Clients -> ActionStages]
  BY DEF ClientTypeOK
<1>1. CASE Dest(c) \/ LookUp(c)
  BY <1>1 DEF Dest, LookUp, Quiet, Working, world
<1>2. CASE Restore(c)
  <2>1. (\E reason : FailWith(c, reason)) \/ stage' = stage
    BY <1>2 DEF Restore
  <2>2. QED
    BY <1>2, <2>1, FailStage DEF Restore, Quiet, Working, world
<1>3. CASE Reinstall(c)
  <2>1. Works(c) /\ (Used(c) \/ stage' = stage)
    BY <1>3 DEF Reinstall, Working, Works
  <2>2. QED
    BY <1>3, <2>1, UsedStage DEF Reinstall, Quiet, Works, world
<1>4. CASE Fetch(c)
  <2>1. (\E reason : FailWith(c, reason)) \/ stage' = stage
    BY <1>4 DEF Fetch
  <2>2. QED
    BY <1>4, <2>1, FailStage DEF Fetch, Quiet, Working
<1>5. CASE Verify(c)
  <2>1. Works(c) /\ ((\E reason : FailWith(c, reason)) \/ Used(c) \/ stage' = stage)
    BY <1>5 DEF Verify, Working, Works
  <2>2. QED
    BY <1>5, <2>1, UsedStage, FailStage DEF Verify, Quiet, Works, world
<1>6. CASE Install(c)
  <2>1. Works(c) /\ Used(c)
    BY <1>6 DEF Install, Working, Works
  <2>2. QED
    BY <1>6, <2>1, UsedStage DEF Install, Quiet, Works, world
<1>7. CASE EnsureNode(c)
  <2>1. (\E reason : FailWith(c, reason)) \/ stage'[c] \in {"done", "rename"}
    BY <1>0, <1>7 DEF EnsureNode, FetchBundle, Set
  <2>2. QED
    BY <1>7, <2>1, FailStage DEF EnsureNode, Quiet
<1>8. CASE InstallNode(c) \/ KillClient(c)
  BY <1>0, <1>8 DEF InstallNode, KillClient, Set, Quiet
<1>9. QED
  BY <1>1, <1>2, <1>3, <1>4, <1>5, <1>6, <1>7, <1>8

LEMMA MomentsSame ==
  ASSUME past' = past, mode' = mode, NEW d \in Clients, Same(d), began'[d] = began[d], Moments(d) PROVE Moments(d)'
  BY DEF Same, Moments, Since, NeverBack, OfflineClients

LEMMA MomentsQuiet ==
  ASSUME ActionAssumption, PlaceInv, PlaceInv', NEW c \in Clients, Moments(c), Quiet(c) PROVE Moments(c)'
<1>1. /\ began'[c] \in 1..Len(past') /\ Len(past) \in Nat
  BY PastFacts DEF Quiet, Moments, PlaceInv
<1>2. c \in OfflineClients <=> (c \in OfflineClients)'
  BY DEF Quiet, OfflineClients
<1>3. NeverBack' => NeverBack
  BY DEF Quiet, NeverBack
<1>4. ASSUME c \notin OfflineClients, NEW ref \in RefNames, pinned'[c][ref] # NoSha PROVE Since(c, ref, Len(past))'
  <2>1. Since(c, ref, Len(past))
    BY <1>4 DEF Quiet, Moments
  <2>2. QED
    BY <2>1 DEF Quiet, Since
<1>5. ASSUME c \notin OfflineClients, stage'[c] = "freeze"
      PROVE  \E m \in began'[c]..Len(past') :
              /\ \A ref \in RefNames : Since(c, ref, m)'
              /\ \A j \in 1..(pos'[c] - 1) : past'[m][Refs[j]] = pinned'[c][Refs[j]]
  <2>1. \A ref \in RefNames : pinned'[c][ref] # NoSha
    BY <1>5 DEF PlaceInv, InPlace, Locked
  <2>0. PICK n \in Nat : n = Len(past')
    BY <1>1 DEF Quiet
  <2>2. \A ref \in RefNames : Since(c, ref, n)'
    BY <1>4, <1>5, <2>0, <2>1 DEF Since
  <2>3. n \in began'[c]..Len(past')
    BY <1>1, <2>0 DEF Quiet
  <2>4. pos'[c] = 1
    BY <1>5 DEF Quiet
  <2>5. \A j \in 1..(pos'[c] - 1) : FALSE
    BY <2>4
  <2>6. QED
    BY <2>2, <2>3, <2>5
<1>6. ASSUME c \notin OfflineClients, frozen'[c], NeverBack' PROVE \E t \in began'[c]..Len(past') : pinned'[c] = past'[t]
  BY <1>3, <1>6 DEF Quiet, Moments
<1>7. QED
  BY <1>1, <1>2, <1>4, <1>5, <1>6 DEF Moments

LEMMA BeginMoments ==
  ASSUME ActionAssumption, PlaceInv, NEW c \in Clients, Begin(c) PROVE Moments(c)'
<1>1. stage[c] = "idle" /\ past' = past /\ pinned' = pinned /\ frozen' = frozen
  BY DEF Begin
<1>2. began' = [began EXCEPT ![c] = Len(past)] /\ began \in [Clients -> Nat] /\ stage'[c] = "preflight"
  BY DEF Begin, Set, PlaceInv, SharedTypeOK, ClientTypeOK
<1>3. began'[c] \in 1..Len(past')
  BY <1>1, <1>2, PastFacts DEF PlaceInv
<1>4. ~frozen'[c] /\ \A ref \in RefNames : pinned'[c][ref] = NoSha
  BY <1>1 DEF PlaceInv, InPlace
<1>5. QED
  BY <1>2, <1>3, <1>4 DEF Moments

LEMMA PinnedMoments ==
  ASSUME ActionAssumption, PlaceInv, NEW c \in Clients, Pinned(c), Moments(c) PROVE Moments(c)'
<1>1. past' = past /\ mode' = mode /\ frozen' = frozen /\ began' = began /\ Works(c) /\ Ref(c) \in RefNames /\ stage[c] # "idle"
  BY RefOf DEF Pinned, Working, Works
<1>2. stage'[c] # "freeze"
  <2>1. stage' = stage \/ \E reason : FailWith(c, reason)
    BY DEF Pinned
  <2>2. QED
    BY <1>1, <2>1, FailStage DEF PlaceInv, Works
<1>3. (c \in OfflineClients <=> (c \in OfflineClients)') /\ (NeverBack' <=> NeverBack)
  BY <1>1 DEF OfflineClients, NeverBack
<1>4. began[c] \in 1..Len(past) /\ Len(past) \in Nat
  BY <1>1, PastFacts DEF Moments, PlaceInv
<1>5. CASE pinned' = pinned
  BY <1>1, <1>2, <1>3, <1>4, <1>5 DEF Moments, Since
<1>6. CASE pinned' # pinned
  <2>1. PICK answer \in Answers(c, Ref(c)) :
          answer \in Shas /\ pinned' = [pinned EXCEPT ![c][Ref(c)] = answer] /\ ~frozen[c]
    BY <1>6 DEF Pinned
  <2>2. pinned \in [Clients -> [RefNames -> MaybeShas]]
    BY DEF PlaceInv, ClientTypeOK
  <2>3. pinned'[c][Ref(c)] = answer /\ \A ref \in RefNames \ {Ref(c)} : pinned'[c][ref] = pinned[c][ref]
    BY <1>1, <2>1, <2>2
  <2>4. ASSUME c \notin OfflineClients, NEW ref \in RefNames, pinned'[c][ref] # NoSha
        PROVE  \E t \in began[c]..Len(past) : past[t][ref] = pinned'[c][ref]
    <3>1. CASE ref = Ref(c)
      <4>1. answer = past[Len(past)][ref]
        BY <1>1, <2>1, <2>4, <3>1, AnswerFacts, PastFacts DEF PlaceInv
      <4>2. Len(past) \in began[c]..Len(past)
        BY <1>4
      <4>3. QED
        BY <2>3, <3>1, <4>1, <4>2
    <3>2. CASE ref # Ref(c)
      BY <2>3, <2>4, <3>2 DEF Moments, Since
    <3>3. QED
      BY <3>1, <3>2
  <2>5. QED
    BY <1>1, <1>2, <1>3, <1>4, <2>1, <2>4 DEF Moments, Since
<1>7. QED
  BY <1>5, <1>6

(* The freeze keeps one moment: a commit that is confirmed now and was     *)
(* named before that moment was named in it, unless its reference came     *)
(* back.                                                                   *)
LEMMA ConfirmedThen ==
  ASSUME SharedTypeOK, NeverBack, NEW ref \in RefNames, NEW b \in Nat \ {0}, NEW m \in b..Len(past), NEW t \in b..m,
         past[t][ref] = past[Len(past)][ref]
  PROVE  past[m][ref] = past[t][ref]
<1>1. Len(past) \in Nat \ {0} /\ DOMAIN past = 1..Len(past)
  BY PastFacts
<1>2. t \in DOMAIN past /\ m \in DOMAIN past /\ Len(past) \in DOMAIN past /\ t <= m /\ m <= Len(past)
  BY <1>1
<1>3. QED
  BY <1>2 DEF NeverBack, RefNames

LEMMA FreezeMoments ==
  ASSUME ActionAssumption, PlaceInv, NEW c \in Clients, Freeze(c), Moments(c) PROVE Moments(c)'
<1>1. /\ past' = past /\ mode' = mode /\ began' = began /\ pinned' = pinned /\ stage[c] = "freeze" /\ Ref(c) \in RefNames
      /\ pos[c] \in 1..Len(Refs) /\ Len(Refs) \in Nat
  BY RefOf DEF Freeze
<1>2. began[c] \in 1..Len(past) /\ Len(past) \in Nat
  BY <1>1, PastFacts DEF Moments, PlaceInv
<1>3. (c \in OfflineClients <=> (c \in OfflineClients)') /\ (NeverBack' <=> NeverBack)
  BY <1>1 DEF OfflineClients, NeverBack
<1>4. \A ref \in RefNames : \A m : Since(c, ref, m)' <=> Since(c, ref, m)
  BY <1>1 DEF Since
<1>5. CASE frozen' = frozen /\ stage'[c] # "freeze"
  BY <1>1, <1>2, <1>3, <1>5 DEF Moments, Since
<1>6. CASE ~(frozen' = frozen /\ stage'[c] # "freeze")
  <2>1. PICK answer \in Answers(c, Ref(c)) :
          /\ answer \in Shas /\ answer = pinned[c][Ref(c)]
          /\ \/ pos[c] < Len(Refs) /\ pos' = [pos EXCEPT ![c] = pos[c] + 1] /\ UNCHANGED <<stage, frozen>>
             \/ ~(pos[c] < Len(Refs)) /\ frozen' = [frozen EXCEPT ![c] = TRUE] /\ stage' = [stage EXCEPT ![c] = "execute"]
    <3>1. ASSUME NEW reason, FailWith(c, reason), frozen' = frozen PROVE FALSE
      <4>1. stage'[c] = "failed"
        BY <1>1, <3>1 DEF FailWith, Set, PlaceInv, InPlace, ClientTypeOK
      <4>2. QED
        BY <1>6, <3>1, <4>1
    <3>2. QED
      BY <3>1 DEF Freeze, Set
  <2>2. ASSUME c \notin OfflineClients, NeverBack
        PROVE  \E m \in began[c]..Len(past) :
                 /\ \A ref \in RefNames : Since(c, ref, m)
                 /\ \A j \in 1..pos[c] : past[m][Refs[j]] = pinned[c][Refs[j]]
    <3>1. PICK m \in began[c]..Len(past) :
            /\ \A ref \in RefNames : Since(c, ref, m)
            /\ \A j \in 1..(pos[c] - 1) : past[m][Refs[j]] = pinned[c][Refs[j]]
      BY <1>1, <2>2 DEF Moments
    <3>2. answer = past[Len(past)][Ref(c)]
      BY <1>1, <2>1, <2>2, AnswerFacts, PastFacts DEF PlaceInv
    <3>3. PICK t \in began[c]..m : past[t][Ref(c)] = pinned[c][Ref(c)]
      BY <1>1, <3>1 DEF Since
    <3>4. past[m][Ref(c)] = pinned[c][Ref(c)]
      <4>1. began[c] \in Nat \ {0}
        BY <1>2
      <4>2. past[t][Ref(c)] = past[Len(past)][Ref(c)]
        BY <2>1, <3>2, <3>3
      <4>3. QED
        BY <1>1, <2>2, <3>3, <4>1, <4>2, ConfirmedThen DEF PlaceInv
    <3>5. \A j \in 1..pos[c] : j = pos[c] \/ j \in 1..(pos[c] - 1)
      BY <1>1
    <3>6. \A j \in 1..pos[c] : past[m][Refs[j]] = pinned[c][Refs[j]]
      BY <3>1, <3>4, <3>5 DEF Ref
    <3>7. QED
      BY <3>1, <3>6
  <2>3. CASE pos[c] < Len(Refs) /\ pos' = [pos EXCEPT ![c] = pos[c] + 1] /\ UNCHANGED <<stage, frozen>>
    <3>1. pos'[c] - 1 = pos[c]
      BY <1>1, <2>3 DEF PlaceInv, ClientTypeOK
    <3>2. ASSUME c \notin OfflineClients, NeverBack
          PROVE  \E m \in began'[c]..Len(past') :
                   /\ \A ref \in RefNames : Since(c, ref, m)'
                   /\ \A j \in 1..(pos'[c] - 1) : past'[m][Refs[j]] = pinned'[c][Refs[j]]
      BY <1>1, <1>4, <2>2, <3>1, <3>2
    <3>3. c \notin OfflineClients => \A ref \in RefNames : pinned'[c][ref] # NoSha => Since(c, ref, Len(past))'
      BY <1>1 DEF Moments, Since
    <3>4. c \notin OfflineClients /\ frozen'[c] /\ NeverBack => \E t \in began'[c]..Len(past') : pinned'[c] = past'[t]
      BY <1>1, <2>3 DEF Moments
    <3>5. began'[c] \in 1..Len(past')
      BY <1>1, <1>2
    <3>6. QED
      BY <1>3, <3>2, <3>3, <3>4, <3>5 DEF Moments
  <2>4. CASE ~(pos[c] < Len(Refs)) /\ frozen' = [frozen EXCEPT ![c] = TRUE] /\ stage' = [stage EXCEPT ![c] = "execute"]
    <3>1. pos[c] = Len(Refs)
      BY <1>1, <2>4
    <3>2. ASSUME c \notin OfflineClients, NeverBack
          PROVE  \E t \in began'[c]..Len(past') : pinned'[c] = past'[t]
      <4>1. PICK m \in began[c]..Len(past) : \A j \in 1..Len(Refs) : past[m][Refs[j]] = pinned[c][Refs[j]]
        BY <2>2, <3>1, <3>2
      <4>2. \A ref \in RefNames : past[m][ref] = pinned[c][ref]
        BY <4>1, RefFacts
      <4>3. m \in 1..Len(past)
        BY <1>2
      <4>4. past[m] \in [RefNames -> Shas] /\ pinned[c] \in [RefNames -> MaybeShas]
        BY <4>3, PastFacts DEF PlaceInv, ClientTypeOK
      <4>5. past[m] = pinned[c]
        BY <4>2, <4>4
      <4>6. QED
        BY <1>1, <4>1, <4>5
    <3>3. stage'[c] = "execute"
      BY <2>4 DEF PlaceInv, ClientTypeOK
    <3>4. c \notin OfflineClients => \A ref \in RefNames : pinned'[c][ref] # NoSha => Since(c, ref, Len(past))'
      BY <1>1 DEF Moments, Since
    <3>5. began'[c] \in 1..Len(past')
      BY <1>1, <1>2
    <3>6. QED
      BY <1>3, <3>2, <3>3, <3>4, <3>5 DEF Moments
  <2>5. QED
    BY <2>1, <2>3, <2>4
<1>7. QED
  BY <1>5, <1>6

LEMMA MoveMoments ==
  ASSUME ActionAssumption, PlaceInv, NEW ref \in RefNames, MoveRef(ref), NEW d \in Clients, Moments(d) PROVE Moments(d)'
<1>1. UNCHANGED <<stage, pos, pinned, frozen, mode, began>>
  BY DEF MoveRef, locals
<1>2. Len(past') = Len(past) + 1 /\ (\A t \in 1..Len(past) : past'[t] = past[t]) /\ past' \in Seq([RefNames -> Shas])
  BY MovedPast DEF PlaceInv
<1>3. Len(past) \in Nat \ {0} /\ DOMAIN past = 1..Len(past) /\ DOMAIN past' = 1..Len(past') /\ began[d] \in Nat
  BY <1>2, PastFacts DEF PlaceInv, SharedTypeOK
<1>4. 1..Len(past) \subseteq 1..Len(past') /\ \A m \in Int : m..Len(past) \subseteq m..Len(past')
  BY <1>2, <1>3
<1>5. NeverBack' => NeverBack
  <2>1. \A t \in DOMAIN past : t \in DOMAIN past' /\ past'[t] = past[t]
    BY <1>2, <1>3, <1>4
  <2>2. QED
    BY <2>1 DEF NeverBack
<1>6. d \in OfflineClients <=> (d \in OfflineClients)'
  BY <1>1 DEF OfflineClients
<1>7. CASE stage[d] = "idle"
  <2>1. ~frozen[d] /\ \A one \in RefNames : pinned[d][one] = NoSha
    BY <1>7 DEF PlaceInv, InPlace
  <2>2. QED
    BY <1>1, <1>7, <2>1 DEF Moments
<1>8. CASE stage[d] # "idle"
  <2>1. began[d] \in 1..Len(past)
    BY <1>8 DEF Moments
  <2>2. \A t \in began[d]..Len(past) : t \in began[d]..Len(past') /\ past'[t] = past[t]
    BY <1>2, <1>3, <1>4, <2>1
  <2>3. ASSUME NEW one \in RefNames, NEW m \in began[d]..Len(past), Since(d, one, m) PROVE Since(d, one, m)'
    <3>1. PICK t \in began[d]..m : past[t][one] = pinned[d][one]
      BY <2>3 DEF Since
    <3>2. past'[t] = past[t]
      BY <1>3, <2>1, <2>2
    <3>3. QED
      BY <1>1, <3>1, <3>2 DEF Since
  <2>4. ASSUME d \notin OfflineClients, NEW one \in RefNames, pinned[d][one] # NoSha PROVE Since(d, one, Len(past))'
    <3>1. PICK t \in began[d]..Len(past) : past[t][one] = pinned[d][one]
      BY <2>4 DEF Moments, Since
    <3>2. QED
      BY <1>1, <2>2, <3>1 DEF Since
  <2>5. ASSUME d \notin OfflineClients, stage[d] = "freeze", NeverBack'
        PROVE  \E m \in began'[d]..Len(past') :
                 /\ \A one \in RefNames : Since(d, one, m)'
                 /\ \A j \in 1..(pos'[d] - 1) : past'[m][Refs[j]] = pinned'[d][Refs[j]]
    <3>1. PICK m \in began[d]..Len(past) :
            /\ \A one \in RefNames : Since(d, one, m)
            /\ \A j \in 1..(pos[d] - 1) : past[m][Refs[j]] = pinned[d][Refs[j]]
      BY <1>5, <2>5 DEF Moments
    <3>2. m \in began'[d]..Len(past') /\ past'[m] = past[m]
      BY <1>1, <2>2
    <3>3. QED
      BY <1>1, <2>3, <3>1, <3>2
  <2>6. ASSUME d \notin OfflineClients, frozen[d], NeverBack' PROVE \E t \in began'[d]..Len(past') : pinned'[d] = past'[t]
    BY <1>1, <1>5, <2>2, <2>6 DEF Moments
  <2>7. began'[d] \in 1..Len(past')
    BY <1>1, <1>4, <2>1
  <2>8. QED
    BY <1>1, <1>6, <2>4, <2>5, <2>6, <2>7 DEF Moments
<1>9. QED
  BY <1>7, <1>8

LEMMA ClientMoments ==
  ASSUME ActionAssumption, PlaceInv, MomentInv, NEW c \in Clients, ActionStep(c) \/ KillClient(c) PROVE MomentInv'
<1>1. PlaceInv' /\ Alone(c) /\ PlaceInv
  BY ClientPlaces, PlacedKeeps DEF Placed
<1>2. past' = past /\ \A d \in Clients \ {c} : began'[d] = began[d]
  BY DEF ActionStep, Begin, Pinned, Dest, Restore, Reinstall, Fetch, LookUp, Verify, Install, Freeze, EnsureNode, InstallNode,
         KillClient, world, Set, PlaceInv, SharedTypeOK
<1>3. ASSUME NEW d \in Clients \ {c} PROVE Moments(d)'
  BY <1>1, <1>2, MomentsSame DEF Alone, MomentInv
<1>4. Moments(c)
  BY DEF MomentInv
<1>5. Moments(c)'
  <2>1. CASE Begin(c)
    BY <2>1, BeginMoments
  <2>2. CASE Pinned(c)
    BY <1>4, <2>2, PinnedMoments
  <2>3. CASE Freeze(c)
    BY <1>4, <2>3, FreezeMoments
  <2>4. CASE ~Begin(c) /\ ~Pinned(c) /\ ~Freeze(c)
    <3>1. Quiet(c)
      BY <2>4, QuietSteps DEF ActionStep, PlaceInv
    <3>2. QED
      BY <1>1, <1>4, <3>1, MomentsQuiet
  <2>5. QED
    BY <2>1, <2>2, <2>3, <2>4
<1>6. QED
  BY <1>3, <1>5 DEF MomentInv

LEMMA NextMoments ==
  ASSUME ActionAssumption, PlaceInv, MomentInv, [ActionNext]_actionVars PROVE MomentInv'
<1>1. CASE \E c \in Clients : ActionStep(c) \/ KillClient(c)
  BY <1>1, ClientMoments
<1>2. CASE \E ref \in Range(Refs) : MoveRef(ref)
  BY <1>2, MoveMoments DEF MomentInv, RefNames
<1>3. ASSUME UNCHANGED <<stage, step, pos, sha, tmp, prev, pinned, frozen, got, ran, why>>, UNCHANGED <<mode, past, began>>
      PROVE  MomentInv'
  <2>1. \A d \in Clients : Same(d) /\ began'[d] = began[d]
    BY <1>3 DEF Same
  <2>2. QED
    BY <1>3, <2>1, MomentsSame DEF MomentInv
<1>4. CASE Collect \/ RemoveActions \/ RemoveNode
  BY <1>3, <1>4 DEF Collect, RemoveActions, RemoveNode, locals
<1>5. CASE UNCHANGED actionVars
  BY <1>3, <1>5, StutterLeaves
<1>6. QED
  BY <1>1, <1>2, <1>4, <1>5 DEF ActionNext

LEMMA InitMoments ==
  ASSUME ActionAssumption, ActionInit PROVE MomentInv
  BY DEF ActionInit, MomentInv, Moments, RefNames

(* What a client's step may do to the store, and where it leaves it.       *)
DirsStay == (\A s \in Shas : dest[s] # NoTree => dest'[s] = dest[s]) /\ objects \subseteq objects'
Settled(c) == stage'[c] \notin {"preflight", "execute"} \/ step'[c] = "pin"
Stocked(c) == Sound' /\ DirsStay /\ Holds(c)'

LEMMA PinnedSha ==
  ASSUME PlaceInv, NEW d \in Clients, NEW ref \in RefNames, got[d][ref] # NoTree \/ ran[d][ref] # NoTree
  PROVE  pinned[d][ref] \in Shas
<1>1. pinned[d][ref] # NoSha
  BY DEF PlaceInv, InPlace
<1>2. pinned[d][ref] \in MaybeShas
  BY DEF PlaceInv, ClientTypeOK
<1>3. QED
  BY <1>1, <1>2 DEF MaybeShas

LEMMA TreesStay ==
  ASSUME PlaceInv, NEW d \in Clients, HoldsTrees(d), DirsStay, pinned'[d] = pinned[d], got'[d] = got[d], ran'[d] = ran[d]
  PROVE  HoldsTrees(d)'
  BY PinnedSha DEF HoldsTrees, DirsStay

LEMMA HoldsSame ==
  ASSUME ActionAssumption, PlaceInv, NEW d \in Clients, Holds(d), DirsStay, Same(d) PROVE Holds(d)'
<1>1. HoldsTrees(d)'
  BY TreesStay DEF Holds, Same
<1>2. Works(d) /\ step[d] # "pin" => sha[d] \in Shas
  BY RefOf
<1>3. HoldsStep(d)'
  BY <1>2 DEF Holds, HoldsStep, Same, DirsStay, Works
<1>4. QED
  BY <1>1, <1>3 DEF Holds

LEMMA FailSettles ==
  ASSUME ClientTypeOK, NEW c \in Clients, NEW reason, FailWith(c, reason) PROVE Settled(c)
  BY DEF ClientTypeOK, FailWith, Set, StepTo, Settled

LEMMA UsedSettles ==
  ASSUME ClientTypeOK, NEW c \in Clients, Used(c) PROVE Settled(c)
  BY DEF ClientTypeOK, Used, Set, StepTo, Settled

LEMMA SettledStep ==
  ASSUME NEW c \in Clients, Settled(c) PROVE HoldsStep(c)'
  BY DEF Settled, HoldsStep, Works

(* A settling step that changes neither the directories nor what its       *)
(* client has; and one that uses a directory.                              *)
LEMMA SettledStocks ==
  ASSUME PlaceInv, NEW c \in Clients, Holds(c), Sound', DirsStay, Settled(c),
         pinned' = pinned, got' = got, ran' = ran
  PROVE  Stocked(c)
  BY TreesStay, SettledStep DEF Stocked, Holds

LEMMA UsedStocks ==
  ASSUME ActionAssumption, PlaceInv, NEW c \in Clients, Holds(c), Sound', DirsStay, Used(c), Works(c), step[c] # "pin",
         dest' \in [Shas -> Trees], dest'[sha[c]] # NoTree,
         mode' = mode, pinned' = pinned, frozen' = frozen, sha' = sha
  PROVE  Stocked(c)
<1>1. HoldsStep(c)'
  BY UsedSettles, SettledStep DEF PlaceInv
<1>2. sha[c] = pinned[c][Ref(c)] /\ Ref(c) \in RefNames
  BY RefOf DEF PlaceInv, InPlace
<1>3. /\ \A ref \in RefNames \ {Ref(c)} : got'[c][ref] = got[c][ref] /\ ran'[c][ref] = ran[c][ref]
      /\ stage[c] = "preflight" => got'[c][Ref(c)] = dest'[sha[c]] /\ ran'[c] = ran[c]
      /\ stage[c] = "execute" => ran'[c][Ref(c)] = dest'[sha[c]] /\ got'[c] = got[c]
  BY UsedPlaces
<1>4. ASSUME NEW ref \in RefNames
      PROVE  /\ got[c][ref] # NoTree => got[c][ref] = dest'[pinned[c][ref]]
             /\ ran[c][ref] # NoTree => ran[c][ref] = dest'[pinned[c][ref]]
  BY PinnedSha DEF Holds, HoldsTrees, DirsStay
<1>5. HoldsTrees(c)'
  BY <1>2, <1>3, <1>4 DEF HoldsTrees, Works
<1>6. QED
  BY <1>1, <1>5 DEF Stocked, Holds

LEMMA StoreSame ==
  ASSUME Sound, UNCHANGED <<dest, alias, objects, node>> PROVE Sound' /\ DirsStay
  BY DEF Sound, DirsStay

LEMMA PinnedStocks ==
  ASSUME ActionAssumption, PlaceInv, Sound, NEW c \in Clients, Holds(c), Pinned(c) PROVE Stocked(c)
<1>1. UNCHANGED <<dest, alias, objects, node, got, ran, tmp, prev>> /\ Works(c) /\ step[c] = "pin" /\ Ref(c) \in RefNames
  BY RefOf DEF Pinned, Working, Works
<1>2. Sound' /\ DirsStay
  BY <1>1, StoreSame
<1>3. HoldsStep(c)'
  <2>1. (\E reason : FailWith(c, reason)) \/ StepTo(c, "dest")
    BY DEF Pinned
  <2>2. CASE \E reason : FailWith(c, reason)
    BY <2>2, FailSettles, SettledStep DEF PlaceInv
  <2>3. CASE StepTo(c, "dest")
    <3>1. step'[c] = "dest"
      BY <2>3 DEF StepTo, Set, PlaceInv, ClientTypeOK
    <3>2. QED
      BY <3>1 DEF HoldsStep
  <2>4. QED
    BY <2>1, <2>2, <2>3
<1>4. HoldsTrees(c)'
  <2>1. CASE pinned' = pinned
    BY <1>1, <1>2, <2>1, TreesStay DEF Holds
  <2>2. CASE pinned' # pinned
    <3>1. PICK answer : pinned' = [pinned EXCEPT ![c][Ref(c)] = answer] /\ pinned[c][Ref(c)] = NoSha
      BY <2>2 DEF Pinned
    <3>2. pinned \in [Clients -> [RefNames -> MaybeShas]]
      BY DEF PlaceInv, ClientTypeOK
    <3>3. \A ref \in RefNames \ {Ref(c)} : pinned'[c][ref] = pinned[c][ref]
      BY <1>1, <3>1, <3>2
    <3>4. got[c][Ref(c)] = NoTree /\ ran[c][Ref(c)] = NoTree
      BY <1>1, <3>1 DEF PlaceInv, InPlace
    <3>5. QED
      BY <1>1, <3>3, <3>4 DEF Holds, HoldsTrees
  <2>3. QED
    BY <2>1, <2>2
<1>5. QED
  BY <1>2, <1>3, <1>4 DEF Stocked, Holds

(* A step to a label at which something is required of the client's trees. *)
LEMMA HeldStocks ==
  ASSUME ActionAssumption, PlaceInv, NEW c \in Clients, Holds(c), Sound', DirsStay,
         UNCHANGED <<stage, pinned, got, ran, sha>>, HoldsStep(c)'
  PROVE  Stocked(c)
  BY TreesStay DEF Stocked, Holds

LEMMA DestStocks ==
  ASSUME ActionAssumption, PlaceInv, Sound, NEW c \in Clients, Holds(c), Dest(c) PROVE Stocked(c)
<1>1. UNCHANGED <<dest, alias, objects, node, stage, pinned, got, ran, sha>> /\ Works(c)
  BY DEF Dest, store, Working, Works
<1>2. tmp'[c] = NoTree /\ step'[c] = (IF dest[sha[c]] # NoTree THEN "look" ELSE "restore")
  BY DEF Dest, StepTo, Set, PlaceInv, ClientTypeOK
<1>3. HoldsStep(c)'
  BY <1>1, <1>2 DEF HoldsStep
<1>4. QED
  BY <1>1, <1>3, StoreSame, HeldStocks

LEMMA LookUpStocks ==
  ASSUME ActionAssumption, PlaceInv, Sound, NEW c \in Clients, Holds(c), LookUp(c) PROVE Stocked(c)
<1>1. UNCHANGED <<dest, alias, objects, node, stage, pinned, got, ran, sha, tmp>> /\ Works(c) /\ step[c] = "look"
  BY DEF LookUp, store, Working, Works
<1>2. prev'[c] = alias[sha[c]] /\ step'[c] = "verify" /\ sha[c] \in Shas
  BY <1>1, RefOf DEF LookUp, StepTo, Set, PlaceInv, ClientTypeOK
<1>3. HoldsStep(c)'
  BY <1>1, <1>2 DEF HoldsStep, Holds, Sound, Works
<1>4. QED
  BY <1>1, <1>3, StoreSame, HeldStocks

LEMMA RestoreStocks ==
  ASSUME ActionAssumption, PlaceInv, Sound, NEW c \in Clients, Holds(c), Restore(c) PROVE Stocked(c)
<1>1. UNCHANGED <<dest, alias, objects, node, pinned, got, ran, sha>> /\ Works(c) /\ sha[c] \in Shas
  BY RefOf DEF Restore, store, Working, Works
<1>2. Sound' /\ DirsStay
  BY <1>1, StoreSame
<1>3. CASE \E reason : FailWith(c, reason)
  BY <1>1, <1>2, <1>3, FailSettles, SettledStocks DEF PlaceInv
<1>4. CASE stage' = stage /\ StepTo(c, "fetch")
  <2>1. step'[c] = "fetch"
    BY <1>4 DEF StepTo, Set, PlaceInv, ClientTypeOK
  <2>2. HoldsStep(c)'
    BY <2>1 DEF HoldsStep
  <2>3. QED
    BY <1>1, <1>2, <1>4, <2>2, HeldStocks
<1>5. CASE stage' = stage /\ StepTo(c, "reinstall") /\ tmp' = Set(tmp, c, alias[sha[c]])
  <2>1. step'[c] = "reinstall" /\ tmp'[c] = alias[sha[c]]
    BY <1>5 DEF StepTo, Set, PlaceInv, ClientTypeOK
  <2>2. HoldsStep(c)'
    BY <1>1, <2>1 DEF HoldsStep, Sound
  <2>3. QED
    BY <1>1, <1>2, <1>5, <2>2, HeldStocks
<1>6. QED
  BY <1>3, <1>4, <1>5 DEF Restore

LEMMA FetchStocks ==
  ASSUME ActionAssumption, PlaceInv, Sound, NEW c \in Clients, Holds(c), Fetch(c) PROVE Stocked(c)
<1>1. UNCHANGED <<dest, alias, objects, node, pinned, got, ran, sha>> /\ Works(c) /\ sha[c] \in Shas
  BY RefOf DEF Fetch, store, Working, Works
<1>2. Sound' /\ DirsStay
  BY <1>1, StoreSame
<1>3. CASE \E reason : FailWith(c, reason)
  BY <1>1, <1>2, <1>3, FailSettles, SettledStocks DEF PlaceInv
<1>4. CASE ~\E reason : FailWith(c, reason)
  <2>1. PICK tree \in TreesOf(sha[c]) \cup {NoTree} : tree # NoTree /\ tmp' = Set(tmp, c, tree) /\ StepTo(c, "look") /\ stage' = stage
    BY <1>4, FetchedTree DEF Fetch
  <2>2. tmp'[c] = tree /\ step'[c] = "look"
    BY <2>1 DEF StepTo, Set, PlaceInv, ClientTypeOK
  <2>3. HoldsStep(c)'
    BY <1>1, <2>1, <2>2 DEF HoldsStep
  <2>4. QED
    BY <1>1, <1>2, <2>1, <2>3, HeldStocks
<1>5. QED
  BY <1>3, <1>4

(* A directory that appears under a commit's name is a tree of the commit. *)
LEMMA DirAppears ==
  ASSUME PlaceInv, Sound, NEW s \in Shas, NEW tree \in TreesOf(s), dest[s] = NoTree,
         dest' = [dest EXCEPT ![s] = tree], UNCHANGED <<alias, objects, node>>
  PROVE  Sound' /\ DirsStay /\ dest' \in [Shas -> Trees] /\ dest'[s] # NoTree
<1>1. dest \in [Shas -> Trees] /\ tree \in Trees /\ tree # NoTree
  BY TreeFacts DEF PlaceInv, SharedTypeOK
<1>2. dest' \in [Shas -> Trees] /\ dest'[s] = tree /\ \A other \in Shas \ {s} : dest'[other] = dest[other]
  BY <1>1
<1>3. QED
  BY <1>1, <1>2 DEF Sound, DirsStay

LEMMA ReinstallStocks ==
  ASSUME ActionAssumption, PlaceInv, Sound, NEW c \in Clients, Holds(c), Reinstall(c) PROVE Stocked(c)
<1>1. UNCHANGED <<alias, objects, node, pinned, frozen, sha, mode>> /\ Works(c) /\ sha[c] \in Shas /\ step[c] = "reinstall"
  BY RefOf DEF Reinstall, world, Working, Works
<1>2. tmp[c] # NoTree /\ tmp[c] \in TreesOf(sha[c])
  BY <1>1 DEF Holds, HoldsStep, PlaceInv, InPlace
<1>3. CASE dest[sha[c]] = NoTree
  <2>1. dest' = [dest EXCEPT ![sha[c]] = tmp[c]] /\ Used(c)
    BY <1>3 DEF Reinstall
  <2>2. Sound' /\ DirsStay /\ dest' \in [Shas -> Trees] /\ dest'[sha[c]] # NoTree
    BY <1>1, <1>2, <1>3, <2>1, DirAppears
  <2>3. QED
    BY <1>1, <2>1, <2>2, UsedStocks
<1>4. CASE dest[sha[c]] # NoTree
  <2>1. UNCHANGED <<dest, stage, got, ran>> /\ step'[c] = "look" /\ tmp'[c] = NoTree
    BY <1>4 DEF Reinstall, StepTo, Set, PlaceInv, ClientTypeOK
  <2>2. HoldsStep(c)'
    BY <1>1, <1>4, <2>1 DEF HoldsStep
  <2>3. QED
    BY <1>1, <2>1, <2>2, StoreSame, HeldStocks
<1>5. QED
  BY <1>3, <1>4

LEMMA InstallStocks ==
  ASSUME ActionAssumption, PlaceInv, Sound, NEW c \in Clients, Holds(c), Install(c) PROVE Stocked(c)
<1>1. UNCHANGED <<alias, objects, node, pinned, frozen, sha, mode>> /\ Works(c) /\ sha[c] \in Shas /\ step[c] = "install" /\ Used(c)
  BY RefOf DEF Install, world, Working, Works
<1>2. tmp[c] # NoTree /\ tmp[c] \in TreesOf(sha[c])
  BY <1>1 DEF Holds, HoldsStep, PlaceInv, InPlace
<1>3. Sound' /\ DirsStay /\ dest' \in [Shas -> Trees] /\ dest'[sha[c]] # NoTree
  <2>1. CASE dest[sha[c]] = NoTree
    <3>1. dest' = [dest EXCEPT ![sha[c]] = tmp[c]]
      BY <2>1 DEF Install
    <3>2. QED
      BY <1>1, <1>2, <2>1, <3>1, DirAppears
  <2>2. CASE dest[sha[c]] # NoTree
    <3>1. dest' = dest
      BY <2>2 DEF Install
    <3>2. QED
      BY <1>1, <2>2, <3>1, StoreSame DEF PlaceInv, SharedTypeOK
  <2>3. QED
    BY <2>1, <2>2
<1>4. QED
  BY <1>1, <1>3, UsedStocks

LEMMA VerifyStocks ==
  ASSUME ActionAssumption, PlaceInv, Sound, NEW c \in Clients, Holds(c), Verify(c) PROVE Stocked(c)
<1>1. UNCHANGED <<node, pinned, frozen, sha, mode, tmp, prev>> /\ Works(c) /\ sha[c] \in Shas /\ step[c] = "verify" /\ dest' = dest
  BY RefOf DEF Verify, world, Working, Works
<1>2. CASE \E reason : FailWith(c, reason) /\ UNCHANGED <<alias, objects, dest, got, ran>>
  <2>1. Sound' /\ DirsStay
    BY <1>1, <1>2, StoreSame
  <2>2. QED
    BY <1>1, <1>2, <2>1, FailSettles, SettledStocks DEF PlaceInv
<1>3. ASSUME Subject(c) # NoTree, prev[c] = NoTree \/ prev[c] = Subject(c),
             alias' = [alias EXCEPT ![sha[c]] = Subject(c)],
             objects' = IF prev[c] = NoTree THEN objects \cup {Subject(c)} ELSE objects,
             IF tmp[c] # NoTree THEN StepTo(c, "install") /\ UNCHANGED <<stage, pos, why, got, ran>> ELSE Used(c)
      PROVE  Stocked(c)
  <2>1. Subject(c) \in TreesOf(sha[c])
    BY <1>1, <1>3 DEF Subject, Holds, HoldsStep, Sound
  <2>2. Subject(c) \in objects' /\ objects \subseteq objects'
    BY <1>1, <1>3 DEF Holds, HoldsStep
  <2>3. alias'[sha[c]] = Subject(c) /\ \A s \in Shas \ {sha[c]} : alias'[s] = alias[s]
    BY <1>1, <1>3 DEF PlaceInv, SharedTypeOK
  <2>4. Sound' /\ DirsStay
    BY <1>1, <2>1, <2>2, <2>3 DEF Sound, DirsStay
  <2>5. CASE tmp[c] # NoTree
    <3>1. step'[c] = "install" /\ UNCHANGED <<stage, got, ran>>
      BY <1>3, <2>5 DEF StepTo, Set, PlaceInv, ClientTypeOK
    <3>2. HoldsStep(c)'
      BY <1>1, <3>1 DEF Holds, HoldsStep, Works
    <3>3. QED
      BY <1>1, <2>4, <3>1, <3>2, HeldStocks
  <2>6. CASE tmp[c] = NoTree
    <3>1. Used(c) /\ dest'[sha[c]] # NoTree /\ dest' \in [Shas -> Trees]
      BY <1>1, <1>3, <2>6 DEF Subject, PlaceInv, SharedTypeOK
    <3>2. QED
      BY <1>1, <2>4, <3>1, UsedStocks
  <2>7. QED
    BY <2>5, <2>6
<1>4. QED
  BY <1>2, <1>3 DEF Verify

LEMMA FreezeStocks ==
  ASSUME ActionAssumption, PlaceInv, Sound, NEW c \in Clients, Holds(c), Freeze(c) PROVE Stocked(c)
<1>1. UNCHANGED <<alias, objects, dest, node, pinned, got, ran>> /\ step[c] = "pin"
  BY DEF Freeze, PlaceInv, InPlace
<1>2. Settled(c)
  <2>1. (\E reason : FailWith(c, reason)) \/ step' = step
    BY DEF Freeze
  <2>2. QED
    BY <1>1, <2>1, FailSettles DEF Settled, PlaceInv
<1>3. QED
  BY <1>1, <1>2, StoreSame, SettledStocks

LEMMA EndStocks ==
  ASSUME ActionAssumption, PlaceInv, Sound, NEW c \in Clients, Holds(c),
         Begin(c) \/ EnsureNode(c) \/ InstallNode(c) \/ KillClient(c)
  PROVE  Stocked(c)
<1>1. UNCHANGED <<alias, dest, pinned, got, ran>>
  BY DEF Begin, EnsureNode, InstallNode, KillClient, store
<1>2. objects \subseteq objects' /\ node' \in {NoTree, Bundle}
  BY DEF Begin, EnsureNode, FetchBundle, InstallNode, KillClient, store, Sound
<1>3. Sound' /\ DirsStay
  BY <1>1, <1>2 DEF Sound, DirsStay
<1>4. Settled(c)
  <2>1. CASE Begin(c)
    BY <2>1 DEF Begin, Settled, PlaceInv, InPlace
  <2>2. CASE EnsureNode(c)
    <3>1. (\E reason : FailWith(c, reason)) \/ stage'[c] \in {"done", "rename"}
      BY <2>2 DEF EnsureNode, FetchBundle, Set, PlaceInv, ClientTypeOK
    <3>2. QED
      BY <3>1, FailSettles DEF Settled, PlaceInv
  <2>3. CASE InstallNode(c) \/ KillClient(c)
    BY <2>3 DEF InstallNode, KillClient, Set, Settled, PlaceInv, ClientTypeOK
  <2>4. QED
    BY <2>1, <2>2, <2>3
<1>5. QED
  BY <1>1, <1>3, <1>4, SettledStocks

LEMMA ClientStocks ==
  ASSUME ActionAssumption, PlaceInv, Sound, NEW c \in Clients, Holds(c), ActionStep(c) \/ KillClient(c) PROVE Stocked(c)
  BY PinnedStocks, DestStocks, RestoreStocks, ReinstallStocks, FetchStocks, LookUpStocks, VerifyStocks, InstallStocks,
     FreezeStocks, EndStocks DEF ActionStep

LEMMA ClientCleans ==
  ASSUME NEW c \in Clients, ActionStep(c) \/ KillClient(c) PROVE cleans' = cleans /\ past' = past /\ mode' = mode
  BY DEF ActionStep, Begin, Pinned, Dest, Restore, Reinstall, Fetch, LookUp, Verify, Install, Freeze, EnsureNode, InstallNode,
         KillClient, world

(* A step of the environment that cleans nothing leaves the store alone.   *)
LEMMA EnvStore ==
  ASSUME PlaceInv, EnvStep, cleans' = 0
  PROVE  (\E ref \in RefNames : MoveRef(ref)) /\ cleans = 0 /\ UNCHANGED <<textAlias, dest, alias, objects, node>>
<1>1. cleans \in Nat /\ (clean # "no" => cleans > 0)
  BY DEF PlaceInv, SharedTypeOK
<1>2. ~Collect /\ ~RemoveActions /\ ~RemoveNode
  BY <1>1 DEF Collect, RemoveActions, RemoveNode
<1>3. QED
  BY <1>2 DEF EnvStep, MoveRef, store, RefNames

LEMMA NextStore ==
  ASSUME ActionAssumption, PlaceInv, StoreInv, [ActionNext]_actionVars PROVE StoreInv'
<1> SUFFICES ASSUME cleans' = 0 PROVE Sound' /\ \A d \in Clients : Holds(d)'
  BY DEF StoreInv
<1>1. ASSUME NEW c \in Clients, ActionStep(c) \/ KillClient(c) PROVE Sound' /\ \A d \in Clients : Holds(d)'
  <2>1. Sound /\ \A d \in Clients : Holds(d)
    BY <1>1, ClientCleans DEF StoreInv
  <2>2. Stocked(c) /\ Alone(c)
    BY <1>1, <2>1, ClientStocks, ClientPlaces DEF Placed
  <2>3. QED
    BY <2>1, <2>2, HoldsSame DEF Stocked, Alone
<1>2. ASSUME UNCHANGED <<stage, step, pos, sha, tmp, prev, pinned, frozen, got, ran, why>>, UNCHANGED <<dest, alias, objects, node, cleans>>
      PROVE  Sound' /\ \A d \in Clients : Holds(d)'
  <2>1. Sound /\ \A d \in Clients : Holds(d) /\ Same(d)
    BY <1>2 DEF StoreInv, Same
  <2>2. Sound' /\ DirsStay
    BY <1>2, <2>1, StoreSame
  <2>3. QED
    BY <2>1, <2>2, HoldsSame
<1>3. CASE EnvStep
  <2>1. cleans = 0 /\ UNCHANGED <<dest, alias, objects, node>>
    BY <1>3, EnvStore
  <2>2. QED
    BY <1>2, <1>3, <2>1, EnvLeavesClients
<1>4. CASE UNCHANGED actionVars
  BY <1>2, <1>4, StutterLeaves
<1>5. QED
  BY <1>1, <1>3, <1>4 DEF ActionNext, EnvStep

LEMMA InitStore ==
  ASSUME ActionAssumption, ActionInit PROVE StoreInv
<1>1. Sound
  BY DEF ActionInit, Sound
<1>2. \A d \in Clients : Holds(d)
  BY DEF ActionInit, Holds, HoldsStep, HoldsTrees, Works, RefNames
<1>3. QED
  BY <1>1, <1>2 DEF StoreInv

(* While no reference has moved, every answer is the first commit, and     *)
(* what was remembered of a reference stays.                               *)
NamesStay == \A ref \in RefNames : textAlias[ref] # NoSha => textAlias'[ref] # NoSha
StillAliases == \A ref \in RefNames : textAlias[ref] \in {NoSha, Start[ref]}

LEMMA StillAnswer ==
  ASSUME ActionAssumption, SharedTypeOK, Still, StillAliases, NEW c \in Clients, NEW ref \in RefNames,
         NEW answer \in Answers(c, ref), Remember(c, ref, answer)
  PROVE  /\ StillAliases' /\ NamesStay
         /\ answer \in Shas => answer = Start[ref] /\ textAlias'[ref] # NoSha
<1>1. past[1] = Start /\ remote = past[Len(past)] /\ NoSha \notin Shas /\ textAlias \in [RefNames -> MaybeShas]
  BY PastFacts, RefFacts DEF SharedTypeOK
<1>2. remote[ref] = Start[ref]
  BY <1>1 DEF Still
<1>3. answer \in Shas => answer = Start[ref] /\ (c \in OfflineClients => answer = textAlias[ref])
  BY <1>1, <1>2, AnswerFacts DEF StillAliases
<1>4. CASE c \notin OfflineClients /\ answer \in Shas
  <2>1. textAlias' = [textAlias EXCEPT ![ref] = answer]
    BY <1>4 DEF Remember
  <2>2. textAlias'[ref] = answer /\ \A other \in RefNames \ {ref} : textAlias'[other] = textAlias[other]
    BY <1>1, <2>1
  <2>3. QED
    BY <1>1, <1>3, <1>4, <2>2 DEF StillAliases, NamesStay
<1>5. CASE ~(c \notin OfflineClients /\ answer \in Shas)
  <2>1. textAlias' = textAlias
    BY <1>5 DEF Remember
  <2>2. QED
    BY <1>1, <1>3, <1>5, <2>1 DEF StillAliases, NamesStay
<1>6. QED
  BY <1>4, <1>5

LEMMA NamesSame ==
  ASSUME StillAliases, textAlias' = textAlias PROVE StillAliases' /\ NamesStay
  BY DEF StillAliases, NamesStay

LEMMA NamesKept ==
  ASSUME NEW d \in Clients, StillNames(d), NamesStay, pinned'[d] = pinned[d] PROVE StillNames(d)'
  BY DEF StillNames, NamesStay

LEMMA ClientStill ==
  ASSUME ActionAssumption, PlaceInv, Still, StillInv, NEW c \in Clients, ActionStep(c) \/ KillClient(c)
  PROVE  StillAliases' /\ NamesStay /\ StillNames(c)'
<1>1. StillAliases /\ StillNames(c)
  BY DEF StillInv, StillAliases
<1>2. Ref(c) \in RefNames
  BY RefOf
<1>3. CASE Pinned(c)
  <2>1. CASE pinned' = pinned
    <3>1. textAlias' = textAlias \/ \E answer \in Answers(c, Ref(c)) : Remember(c, Ref(c), answer)
      BY <1>3 DEF Pinned
    <3>2. StillAliases' /\ NamesStay
      BY <1>1, <1>2, <3>1, NamesSame, StillAnswer DEF PlaceInv
    <3>3. QED
      BY <1>1, <2>1, <3>2, NamesKept
  <2>2. CASE pinned' # pinned
    <3>1. PICK answer \in Answers(c, Ref(c)) :
            answer \in Shas /\ pinned' = [pinned EXCEPT ![c][Ref(c)] = answer] /\ Remember(c, Ref(c), answer)
      BY <1>3, <2>2 DEF Pinned
    <3>2. StillAliases' /\ NamesStay /\ answer = Start[Ref(c)] /\ textAlias'[Ref(c)] # NoSha
      BY <1>1, <1>2, <3>1, StillAnswer DEF PlaceInv
    <3>3. pinned'[c][Ref(c)] = answer /\ \A ref \in RefNames \ {Ref(c)} : pinned'[c][ref] = pinned[c][ref]
      BY <1>2, <3>1 DEF PlaceInv, ClientTypeOK
    <3>4. QED
      BY <1>1, <3>2, <3>3 DEF StillNames, NamesStay
  <2>3. QED
    BY <2>1, <2>2
<1>4. CASE Freeze(c)
  <2>1. pinned' = pinned /\ \E answer \in Answers(c, Ref(c)) : Remember(c, Ref(c), answer)
    BY <1>4 DEF Freeze
  <2>2. StillAliases' /\ NamesStay
    BY <1>1, <1>2, <2>1, StillAnswer DEF PlaceInv
  <2>3. QED
    BY <1>1, <2>1, <2>2, NamesKept
<1>5. CASE ~Pinned(c) /\ ~Freeze(c)
  <2>1. textAlias' = textAlias /\ pinned' = pinned
    BY <1>5 DEF ActionStep, Begin, Dest, Restore, Reinstall, Fetch, LookUp, Verify, Install, EnsureNode, InstallNode, KillClient, store
  <2>2. QED
    BY <1>1, <2>1, NamesSame, NamesKept
<1>6. QED
  BY <1>3, <1>4, <1>5

LEMMA NextStill ==
  ASSUME ActionAssumption, PlaceInv, StillInv, [ActionNext]_actionVars PROVE StillInv'
<1> SUFFICES ASSUME Still' PROVE StillAliases' /\ \A d \in Clients : StillNames(d)'
  BY DEF StillInv, StillAliases
<1>1. ASSUME NEW c \in Clients, ActionStep(c) \/ KillClient(c) PROVE StillAliases' /\ \A d \in Clients : StillNames(d)'
  <2>1. Still
    BY <1>1, ClientCleans DEF Still
  <2>2. StillAliases' /\ NamesStay /\ StillNames(c)' /\ Alone(c)
    BY <1>1, <2>1, ClientStill, ClientPlaces DEF Placed
  <2>3. QED
    BY <2>1, <2>2, NamesKept DEF Alone, Same, StillInv
<1>2. ASSUME UNCHANGED <<past, pinned, textAlias>> PROVE StillAliases' /\ \A d \in Clients : StillNames(d)'
  <2>1. StillAliases /\ \A d \in Clients : StillNames(d)
    BY <1>2 DEF StillInv, StillAliases, Still
  <2>2. QED
    BY <1>2, <2>1, NamesSame, NamesKept
<1>3. CASE \E ref \in Range(Refs) : MoveRef(ref)
  <2>1. PICK ref \in RefNames : MoveRef(ref)
    BY <1>3 DEF RefNames
  <2>2. Len(past') = Len(past) + 1 /\ Len(past) \in Nat \ {0}
    BY <2>1, MovedPast, PastFacts DEF PlaceInv
  <2>3. QED
    BY <2>2 DEF Still
<1>4. CASE Collect \/ RemoveActions \/ RemoveNode
  BY <1>2, <1>4 DEF Collect, RemoveActions, RemoveNode, locals
<1>5. CASE UNCHANGED actionVars
  BY <1>2, <1>5, StutterLeaves
<1>6. QED
  BY <1>1, <1>3, <1>4, <1>5 DEF ActionNext

LEMMA InitStill ==
  ASSUME ActionAssumption, ActionInit PROVE StillInv
  BY DEF ActionInit, StillInv, StillNames, RefNames

(* Why a client ended: one lemma per step again.                           *)
LEMMA GoCauses ==
  ASSUME NEW c \in Clients, why'[c] = "", c \in warm' => served',
         c \in warm' /\ Still' /\ cleans' = 0 => step'[c] \notin {"restore", "reinstall", "fetch"}
  PROVE  Causes(c)'
  BY DEF Causes

LEMMA FailCauses ==
  ASSUME ActionAssumption, PlaceInv, NEW c \in Clients, Causes(c), NEW reason \in ActionReasons \ {""}, FailWith(c, reason),
         stage[c] \in {"preflight", "execute", "freeze", "node"},
         UNCHANGED <<past, cleans, warm, served, sha, mode>>,
         reason # "absent",
         reason = "moved" => Len(past) > 1,
         reason \in {"lost", "vanished"} => cleans > 0,
         reason = "identity" => cleans > 0 \/ sha[c] \in Exported,
         reason = "offline" => c \in OfflineClients /\ ~(c \in warm /\ Still /\ cleans = 0)
  PROVE  Causes(c)'
<1>1. why[c] = ""
  BY DEF PlaceInv, InPlace
<1>2. \/ stage'[c] = "failed" /\ why'[c] = reason
      \/ stage'[c] = "done" /\ why'[c] = ""
      \/ step'[c] = "pin" /\ why'[c] = ""
  BY <1>1, FailPlaces
<1>3. c \in warm' => served'
  BY DEF Causes
<1>4. QED
  BY <1>2, <1>3 DEF Causes, Still, OfflineClients, Works

(* What a client that started after a success can rely on.                 *)
LEMMA WarmIsServed ==
  ASSUME CauseInv, NEW c \in Clients, c \in warm, Still, cleans = 0 PROVE Provided
  BY DEF CauseInv, Causes

LEMMA AnswerCauses ==
  ASSUME ActionAssumption, PlaceInv, CauseInv, NEW c \in Clients, NEW answer \in Answers(c, Ref(c)), answer \notin Shas,
         FailWith(c, answer), stage[c] \in {"preflight", "execute", "freeze", "node"},
         UNCHANGED <<past, cleans, warm, served, sha, mode>>
  PROVE  Causes(c)'
<1>1. Ref(c) \in RefNames /\ Causes(c)
  BY RefOf DEF CauseInv
<1>2. \/ answer = "offline" /\ c \in OfflineClients /\ textAlias[Ref(c)] = NoSha
      \/ answer \in {"network", "unread", "cut"}
  BY <1>1, AnswerFacts DEF PlaceInv
<1>3. answer = "offline" => c \in OfflineClients /\ ~(c \in warm /\ Still /\ cleans = 0)
  BY <1>1, <1>2, WarmIsServed DEF Provided
<1>4. answer \in ActionReasons \ {""} /\ answer \notin {"absent", "moved", "lost", "vanished", "identity"}
  BY <1>2 DEF ActionReasons
<1>5. QED
  BY <1>1, <1>3, <1>4, FailCauses

LEMMA PinnedCauses ==
  ASSUME ActionAssumption, PlaceInv, CauseInv, NEW c \in Clients, Pinned(c) PROVE Causes(c)'
<1>1. UNCHANGED <<past, cleans, warm, served, mode>> /\ stage[c] \in {"preflight", "execute", "freeze", "node"} /\ Ref(c) \in RefNames
  BY RefOf DEF Pinned, Working
<1>2. why[c] = "" /\ Causes(c)
  BY <1>1 DEF PlaceInv, InPlace, CauseInv
<1>3. CASE StepTo(c, "dest") /\ why' = why
  <2>1. step'[c] = "dest"
    BY <1>3 DEF StepTo, Set, PlaceInv, ClientTypeOK
  <2>2. QED
    BY <1>1, <1>2, <1>3, <2>1, GoCauses DEF Causes
<1>4. CASE ~(StepTo(c, "dest") /\ why' = why)
  <2>1. ~(frozen[c] /\ pinned[c][Ref(c)] = NoSha)
    BY <1>1 DEF PlaceInv, InPlace
  <2>2. PICK answer \in Answers(c, Ref(c)) : answer \notin Shas /\ FailWith(c, answer) /\ sha' = sha
    BY <1>4, <2>1 DEF Pinned
  <2>3. QED
    BY <1>1, <2>2, AnswerCauses
<1>5. QED
  BY <1>3, <1>4

LEMMA FreezeCauses ==
  ASSUME ActionAssumption, PlaceInv, StillInv, CauseInv, NEW c \in Clients, Freeze(c) PROVE Causes(c)'
<1>1. UNCHANGED <<past, cleans, warm, served, mode, sha>> /\ stage[c] \in {"preflight", "execute", "freeze", "node"} /\ Ref(c) \in RefNames
      /\ step[c] = "pin"
  BY RefOf DEF Freeze, PlaceInv, InPlace
<1>2. why[c] = "" /\ Causes(c)
  BY <1>1 DEF PlaceInv, InPlace, CauseInv
<1>3. PICK answer \in Answers(c, Ref(c)) :
        /\ Remember(c, Ref(c), answer)
        /\ \/ answer \notin Shas /\ FailWith(c, answer)
           \/ answer \in Shas /\ answer # pinned[c][Ref(c)] /\ FailWith(c, "moved")
           \/ UNCHANGED <<step, why>>
  BY DEF Freeze
<1>4. CASE answer \notin Shas /\ FailWith(c, answer)
  BY <1>1, <1>4, AnswerCauses
<1>5. CASE answer \in Shas /\ answer # pinned[c][Ref(c)] /\ FailWith(c, "moved")
  <2>1. pinned[c][Ref(c)] # NoSha
    BY <1>1 DEF Freeze, PlaceInv, InPlace, Locked
  <2>2. ~Still
    <3>1. SUFFICES ASSUME Still PROVE FALSE
      OBVIOUS
    <3>2. StillAliases /\ StillNames(c)
      BY <3>1 DEF StillInv, StillAliases
    <3>3. answer = Start[Ref(c)]
      BY <1>1, <1>3, <1>5, <3>1, <3>2, StillAnswer DEF PlaceInv
    <3>4. QED
      BY <1>1, <1>5, <2>1, <3>2, <3>3 DEF StillNames
  <2>3. Len(past) > 1
    BY <2>2, PastFacts DEF Still, PlaceInv
  <2>4. "moved" \in ActionReasons \ {""}
    BY DEF ActionReasons
  <2>5. QED
    BY <1>1, <1>2, <1>5, <2>3, <2>4, FailCauses
<1>6. CASE UNCHANGED <<step, why>>
  BY <1>1, <1>2, <1>6, GoCauses DEF Causes
<1>7. QED
  BY <1>3, <1>4, <1>5, <1>6

LEMMA BeginCauses ==
  ASSUME ActionAssumption, PlaceInv, CauseInv, NEW c \in Clients, Begin(c) PROVE Causes(c)'
<1>1. why'[c] = "" /\ step'[c] = "pin" /\ (c \in warm' => served')
  BY DEF Begin, PlaceInv, InPlace, CauseInv, Causes
<1>2. QED
  BY <1>1, GoCauses

(* The steps of ensure_fetched, of a client at work.                       *)
LEMMA DestCauses ==
  ASSUME ActionAssumption, PlaceInv, StillInv, CauseInv, NEW c \in Clients, Dest(c) PROVE Causes(c)'
<1>1. UNCHANGED <<past, cleans, warm, served, why>> /\ Works(c) /\ step[c] # "pin" /\ Ref(c) \in RefNames
  BY RefOf DEF Dest, world, Working, Works
<1>2. why[c] = "" /\ Causes(c) /\ sha[c] = pinned[c][Ref(c)] /\ sha[c] # NoSha
  BY <1>1 DEF PlaceInv, InPlace, CauseInv, Works
<1>3. step'[c] = (IF dest[sha[c]] # NoTree THEN "look" ELSE "restore")
  BY DEF Dest, StepTo, Set, PlaceInv, ClientTypeOK
<1>4. ASSUME c \in warm, Still, cleans = 0 PROVE step'[c] = "look"
  <2>1. Provided
    BY <1>4, WarmIsServed
  <2>2. sha[c] = Start[Ref(c)]
    BY <1>1, <1>2, <1>4 DEF StillInv, StillNames
  <2>3. QED
    BY <1>1, <1>3, <2>1, <2>2 DEF Provided
<1>5. QED
  BY <1>1, <1>2, <1>4, GoCauses DEF Causes, Still

LEMMA RestoreCauses ==
  ASSUME ActionAssumption, PlaceInv, StoreInv, CauseInv, NEW c \in Clients, Restore(c) PROVE Causes(c)'
<1>1. UNCHANGED <<past, cleans, warm, served, sha, mode>> /\ Works(c) /\ step[c] = "restore" /\ sha[c] \in Shas
  BY RefOf DEF Restore, world, Working, Works
<1>2. why[c] = "" /\ Causes(c) /\ ~(c \in warm /\ Still /\ cleans = 0)
  BY <1>1 DEF PlaceInv, InPlace, CauseInv, Causes, Works
<1>3. CASE why' = why
  BY <1>1, <1>2, <1>3, GoCauses DEF Causes, Still
<1>4. CASE why' # why
  <2>1. FailWith(c, "lost") /\ alias[sha[c]] # NoTree /\ alias[sha[c]] \notin objects
    BY <1>4 DEF Restore
  <2>2. cleans > 0
    BY <1>1, <2>1 DEF StoreInv, Sound, PlaceInv, SharedTypeOK
  <2>3. "lost" \in ActionReasons \ {""} /\ stage[c] \in {"preflight", "execute", "freeze", "node"}
    BY <1>1 DEF ActionReasons, Works
  <2>4. QED
    BY <1>1, <1>2, <2>1, <2>2, <2>3, FailCauses
<1>5. QED
  BY <1>3, <1>4

LEMMA FetchCauses ==
  ASSUME ActionAssumption, PlaceInv, CauseInv, NEW c \in Clients, Fetch(c) PROVE Causes(c)'
<1>1. UNCHANGED <<past, cleans, warm, served, sha, mode>> /\ Works(c) /\ step[c] = "fetch"
  BY DEF Fetch, Working, Works
<1>2. why[c] = "" /\ Causes(c) /\ ~(c \in warm /\ Still /\ cleans = 0)
  BY <1>1 DEF PlaceInv, InPlace, CauseInv, Causes, Works
<1>3. CASE why' = why
  BY <1>1, <1>2, <1>3, GoCauses DEF Causes, Still
<1>4. CASE why' # why
  <2>1. (c \in OfflineClients /\ FailWith(c, "offline")) \/ FailWith(c, "network")
    BY <1>4 DEF Fetch
  <2>2. {"offline", "network"} \subseteq ActionReasons \ {""} /\ stage[c] \in {"preflight", "execute", "freeze", "node"}
    BY <1>1 DEF ActionReasons, Works
  <2>3. QED
    BY <1>1, <1>2, <2>1, <2>2, FailCauses
<1>5. QED
  BY <1>3, <1>4

LEMMA VerifyCauses ==
  ASSUME ActionAssumption, PlaceInv, StoreInv, CauseInv, NEW c \in Clients, Verify(c) PROVE Causes(c)'
<1>1. UNCHANGED <<past, cleans, warm, served, sha, mode>> /\ Works(c) /\ step[c] = "verify" /\ sha[c] \in Shas /\ cleans \in Nat
  BY RefOf DEF Verify, world, Working, Works, PlaceInv, SharedTypeOK
<1>2. why[c] = "" /\ Causes(c)
  BY <1>1 DEF PlaceInv, InPlace, CauseInv, Works
<1>3. stage[c] \in {"preflight", "execute", "freeze", "node"} /\ {"vanished", "identity"} \subseteq ActionReasons \ {""}
  BY <1>1 DEF Works, ActionReasons
<1>4. cleans = 0 => /\ Subject(c) \in TreesOf(sha[c])
                    /\ prev[c] \in TreesOf(sha[c]) \cup {NoTree}
  BY <1>1, TreeFacts DEF StoreInv, Sound, Holds, HoldsStep, Subject
<1>5. CASE FailWith(c, "vanished") /\ Subject(c) = NoTree
  <2>1. cleans > 0
    BY <1>1, <1>4, <1>5, TreeFacts
  <2>2. QED
    BY <1>1, <1>2, <1>3, <1>5, <2>1, FailCauses
<1>6. CASE FailWith(c, "identity") /\ prev[c] # NoTree /\ prev[c] # Subject(c)
  <2>1. cleans > 0 \/ sha[c] \in Exported
    BY <1>1, <1>4, <1>6, TreeFacts
  <2>2. QED
    BY <1>1, <1>2, <1>3, <1>6, <2>1, FailCauses
<1>7. CASE why' = why /\ step'[c] \in {"pin", "install"}
  BY <1>1, <1>2, <1>7, GoCauses DEF Causes
<1>8. QED
  <2>1. step \in [Clients -> ActionSteps]
    BY DEF PlaceInv, ClientTypeOK
  <2>2. Used(c) => why' = why /\ step'[c] = "pin"
    BY <2>1 DEF Used, StepTo, Set
  <2>3. StepTo(c, "install") => step'[c] = "install"
    BY <2>1 DEF StepTo, Set
  <2>4. QED
    BY <1>5, <1>6, <1>7, <2>2, <2>3 DEF Verify

LEMMA OtherCauses ==
  ASSUME ActionAssumption, PlaceInv, CauseInv, NEW c \in Clients,
         Reinstall(c) \/ LookUp(c) \/ Install(c) \/ InstallNode(c) \/ KillClient(c)
  PROVE  Causes(c)'
<1>1. UNCHANGED <<past, cleans, warm, why>> /\ (served => served')
  BY DEF Reinstall, LookUp, Install, InstallNode, KillClient, Used, world
<1>2. why[c] = "" /\ Causes(c)
  BY DEF PlaceInv, InPlace, CauseInv, Reinstall, LookUp, Install, InstallNode, KillClient, Working
<1>3. CASE KillClient(c) \/ InstallNode(c)
  <2>1. stage'[c] \notin {"preflight", "execute"}
    BY <1>3 DEF KillClient, InstallNode, Set, PlaceInv, ClientTypeOK
  <2>2. QED
    BY <1>1, <1>2, <2>1 DEF Causes, Works
<1>4. CASE Reinstall(c) \/ LookUp(c) \/ Install(c)
  <2>1. step \in [Clients -> ActionSteps]
    BY DEF PlaceInv, ClientTypeOK
  <2>2. (Used(c) => step'[c] = "pin") /\ (StepTo(c, "look") => step'[c] = "look") /\ (StepTo(c, "verify") => step'[c] = "verify")
    BY <2>1 DEF Used, StepTo, Set
  <2>3. step'[c] \in {"pin", "look", "verify"}
    BY <1>4, <2>2 DEF Reinstall, LookUp, Install
  <2>4. QED
    BY <1>1, <1>2, <2>3, GoCauses DEF Causes
<1>5. QED
  BY <1>3, <1>4

LEMMA EnsureNodeCauses ==
  ASSUME ActionAssumption, PlaceInv, CauseInv, NEW c \in Clients, EnsureNode(c) PROVE Causes(c)'
<1>1. UNCHANGED <<past, cleans, warm, sha, mode>> /\ (served => served') /\ stage[c] = "node"
  BY DEF EnsureNode
<1>2. why[c] = "" /\ Causes(c)
  BY <1>1 DEF PlaceInv, InPlace, CauseInv
<1>3. CASE why' = why
  <2>1. stage'[c] \notin {"preflight", "execute"}
    BY <1>3, <1>1, <1>2 DEF EnsureNode, FetchBundle, FailWith, Set, PlaceInv, ClientTypeOK, InPlace
  <2>2. QED
    BY <1>1, <1>2, <1>3, <2>1 DEF Causes, Works
<1>4. CASE why' # why
  <2>1. node = NoTree /\ c \in OfflineClients /\ FailWith(c, "offline") /\ served' = served
    BY <1>4 DEF EnsureNode, FetchBundle
  <2>2. ~(c \in warm /\ Still /\ cleans = 0)
    BY <2>1, WarmIsServed DEF Provided
  <2>3. "offline" \in ActionReasons \ {""}
    BY DEF ActionReasons
  <2>4. QED
    BY <1>1, <1>2, <2>1, <2>2, <2>3, FailCauses
<1>5. QED
  BY <1>3, <1>4

LEMMA ClientCauses ==
  ASSUME ActionAssumption, PlaceInv, StoreInv, StillInv, CauseInv, NEW c \in Clients, ActionStep(c) \/ KillClient(c)
  PROVE  Causes(c)'
  BY BeginCauses, PinnedCauses, FreezeCauses, DestCauses, RestoreCauses, FetchCauses, VerifyCauses, OtherCauses,
     EnsureNodeCauses DEF ActionStep

(* A success leaves everything behind that it used.                        *)
LEMMA SuccessProvides ==
  ASSUME ActionAssumption, PlaceInv, StoreInv, StillInv, Still, cleans = 0, NEW c \in Clients, stage[c] \in {"node", "rename"}
  PROVE  \A ref \in RefNames : textAlias[ref] # NoSha /\ dest[Start[ref]] # NoTree
<1>1. TAKE ref \in RefNames
<1>2. pinned[c][ref] # NoSha /\ got[c][ref] # NoTree
  BY DEF PlaceInv, InPlace, Locked
<1>3. pinned[c][ref] = Start[ref] /\ textAlias[ref] # NoSha
  BY <1>2 DEF StillInv, StillNames
<1>4. got[c][ref] = dest[pinned[c][ref]]
  BY <1>2 DEF StoreInv, Holds, HoldsTrees
<1>5. QED
  BY <1>2, <1>3, <1>4

LEMMA ClientProvides ==
  ASSUME ActionAssumption, PlaceInv, StoreInv, StillInv, CauseInv, NEW c \in Clients, ActionStep(c) \/ KillClient(c),
         served', Still', cleans' = 0
  PROVE  Provided'
<1>1. Still /\ cleans = 0
  BY ClientCleans DEF Still
<1>2. NamesStay
  BY <1>1, ClientStill
<1>3. DirsStay
  BY <1>1, ClientStocks DEF Stocked, StoreInv
<1>4. \A ref \in RefNames : Start[ref] \in Shas
  BY RefFacts
<1>5. CASE served
  <2>1. Provided
    BY <1>1, <1>5 DEF CauseInv
  <2>2. node # NoTree => node' # NoTree
    BY DEF ActionStep, Begin, Pinned, Dest, Restore, Reinstall, Fetch, LookUp, Verify, Install, Freeze, EnsureNode, InstallNode,
           KillClient, store
  <2>3. QED
    BY <1>2, <1>3, <1>4, <2>1, <2>2 DEF Provided, NamesStay, DirsStay
<1>6. CASE ~served
  <2>1. EnsureNode(c) \/ InstallNode(c)
    BY <1>6 DEF ActionStep, Begin, Pinned, Dest, Restore, Reinstall, Fetch, LookUp, Verify, Install, Freeze, KillClient, world
  <2>2. stage[c] \in {"node", "rename"} /\ node' # NoTree
    BY <1>6, <2>1, TreeFacts DEF EnsureNode, InstallNode
  <2>3. \A ref \in RefNames : textAlias[ref] # NoSha /\ dest[Start[ref]] # NoTree
    BY <1>1, <2>2, SuccessProvides
  <2>4. QED
    BY <1>2, <1>3, <1>4, <2>2, <2>3 DEF Provided, NamesStay, DirsStay
<1>7. QED
  BY <1>5, <1>6

LEMMA CausesSame ==
  ASSUME PlaceInv, NEW d \in Clients, Same(d), Causes(d), mode' = mode, Still' => Still, cleans' = 0 => cleans = 0, cleans \in Nat, cleans' \in Nat,
         Len(past) > 1 => Len(past') > 1, d \in warm' => d \in warm, served => served'
  PROVE  Causes(d)'
  BY DEF Same, Causes, OfflineClients, Works

LEMMA NextCauses ==
  ASSUME ActionAssumption, PlaceInv, StoreInv, StillInv, CauseInv, [ActionNext]_actionVars PROVE CauseInv'
<1>0. PlaceInv' /\ cleans \in Nat /\ cleans' \in Nat
  BY NextPlaces DEF PlaceInv, SharedTypeOK
<1>1. ASSUME NEW c \in Clients, ActionStep(c) \/ KillClient(c) PROVE CauseInv'
  <2>1. Alone(c) /\ past' = past /\ cleans' = cleans
    BY <1>1, ClientPlaces, ClientCleans DEF Placed
  <2>2. (served => served') /\ \A d \in Clients \ {c} : d \in warm' => d \in warm
    <3>1. CASE Begin(c)
      BY <3>1 DEF Begin
    <3>2. CASE EnsureNode(c) \/ InstallNode(c)
      BY <3>2 DEF EnsureNode, InstallNode
    <3>3. CASE ~Begin(c) /\ ~EnsureNode(c) /\ ~InstallNode(c)
      <4>1. UNCHANGED <<served, warm>>
        BY <1>1, <3>3 DEF ActionStep, Pinned, Dest, Restore, Reinstall, Fetch, LookUp, Verify, Install, Freeze, KillClient, world
      <4>2. QED
        BY <4>1
    <3>4. QED
      BY <3>1, <3>2, <3>3
  <2>3. ASSUME NEW d \in Clients \ {c} PROVE Causes(d)'
    BY <1>0, <2>1, <2>2, CausesSame DEF Alone, CauseInv, Still
  <2>4. Causes(c)'
    BY <1>1, ClientCauses
  <2>5. served' /\ Still' /\ cleans' = 0 => Provided'
    BY <1>1, ClientProvides
  <2>6. QED
    BY <2>3, <2>4, <2>5 DEF CauseInv
<1>2. CASE EnvStep
  <2>1. UNCHANGED <<mode, served, warm>> /\ \A d \in Clients : Same(d)
    BY <1>2, EnvLeavesClients DEF Same
  <2>2. (cleans' = 0 => cleans = 0) /\ (cleans' = 0 => UNCHANGED <<textAlias, dest, node>>)
    BY <1>2, EnvStore
  <2>3. (Still' => Still) /\ (Len(past) > 1 => Len(past') > 1)
    <3>1. past' = past \/ \E ref \in RefNames : MoveRef(ref)
      BY <1>2 DEF EnvStep, Collect, RemoveActions, RemoveNode, RefNames
    <3>2. Len(past) \in Nat \ {0}
      BY PastFacts DEF PlaceInv
    <3>3. past' = past \/ Len(past') = Len(past) + 1
      BY <3>1, MovedPast DEF PlaceInv
    <3>4. Len(past') = 1 => Len(past) = 1
      BY <3>2, <3>3
    <3>5. Len(past) > 1 => Len(past') > 1
      BY <3>2, <3>3
    <3>6. QED
      BY <3>4, <3>5 DEF Still
  <2>4. \A d \in Clients : Causes(d)'
    BY <1>0, <2>1, <2>2, <2>3, CausesSame DEF CauseInv
  <2>5. served' /\ Still' /\ cleans' = 0 => Provided'
    BY <2>1, <2>2, <2>3 DEF CauseInv, Provided
  <2>6. QED
    BY <2>4, <2>5 DEF CauseInv
<1>3. CASE UNCHANGED actionVars
  <2>1. /\ UNCHANGED <<textAlias, dest, node>> /\ UNCHANGED <<mode, past, cleans, served, warm>>
        /\ \A d \in Clients : Same(d)
    BY <1>3, StutterLeaves DEF Same
  <2>2. \A d \in Clients : Causes(d)'
    BY <1>0, <2>1, CausesSame DEF CauseInv, Still
  <2>3. served' /\ Still' /\ cleans' = 0 => Provided'
    BY <2>1 DEF CauseInv, Provided, Still
  <2>4. QED
    BY <2>2, <2>3 DEF CauseInv
<1>4. QED
  BY <1>1, <1>2, <1>3 DEF ActionNext, EnvStep

LEMMA InitCauses ==
  ASSUME ActionAssumption, ActionInit PROVE CauseInv
  BY DEF ActionInit, CauseInv, Causes, Works

ActionInv == PlaceInv /\ MomentInv /\ StoreInv /\ StillInv /\ CauseInv

LEMMA ActionInvHolds ==
  ASSUME ActionAssumption PROVE ActionSpec => []ActionInv
<1>1. ActionInit => ActionInv
  BY InitPlaces, InitMoments, InitStore, InitStill, InitCauses DEF ActionInv
<1>2. ActionInv /\ [ActionNext]_actionVars => ActionInv'
  BY NextPlaces, NextMoments, NextStore, NextStill, NextCauses DEF ActionInv
<1>3. QED
  BY <1>1, <1>2, PTL DEF ActionSpec

LEMMA InvLocksTrees ==
  ASSUME ActionAssumption, ActionInv PROVE LockedTreesRun
<1>1. ASSUME NEW c \in Clients, NEW ref \in Range(Refs), ran[c][ref] # NoTree, cleans = 0
      PROVE  ran[c][ref] = got[c][ref] /\ ran[c][ref] \in TreesOf(pinned[c][ref])
  <2>1. got[c][ref] # NoTree
    BY <1>1 DEF ActionInv, PlaceInv, InPlace, RefNames
  <2>2. ran[c][ref] = dest[pinned[c][ref]] /\ got[c][ref] = dest[pinned[c][ref]]
    BY <1>1, <2>1 DEF ActionInv, StoreInv, Holds, HoldsTrees, RefNames
  <2>3. pinned[c][ref] \in Shas
    BY <2>1, PinnedSha DEF ActionInv, RefNames
  <2>4. QED
    BY <1>1, <2>2, <2>3 DEF ActionInv, StoreInv, Sound
<1>2. ASSUME NEW c \in Clients, NEW ref \in Range(Refs), frozen[c], c \notin OfflineClients
      PROVE  /\ \E t \in began[c]..Len(past) : pinned[c][ref] = past[t][ref]
             /\ NeverBack => \E t \in began[c]..Len(past) : pinned[c] = past[t]
  <2>1. pinned[c][ref] # NoSha
    BY <1>2 DEF ActionInv, PlaceInv, InPlace, RefNames
  <2>2. QED
    BY <1>2, <2>1 DEF ActionInv, MomentInv, Moments, Since, RefNames
<1>3. LockedTrees
  BY <1>1, <1>2 DEF LockedTrees
<1>4. DirsAreWhole
  BY TreeFacts DEF DirsAreWhole, ActionInv, StoreInv, Sound
<1>5. QED
  BY <1>3, <1>4 DEF LockedTreesRun

LEMMA InvHasCauses ==
  ASSUME ActionAssumption, ActionInv PROVE FailuresHaveCauses
<1>1. Len(past) \in Nat /\ moves = Len(past) - 1
  BY PastFacts DEF ActionInv, PlaceInv
<1>2. (moves > 0 <=> Len(past) > 1) /\ (moves = 0 <=> Still)
  BY <1>1 DEF Still
<1>3. QED
  BY <1>2 DEF FailuresHaveCauses, ActionInv, CauseInv, Causes

(* For every number of processes, references and commits: the jobs of a    *)
(* run work on the trees its preflight inspected, of the commits it locked *)
(* at one moment, and a directory under a commit's name is a whole tree.   *)
THEOREM ActionsAreLocked ==
  ASSUME ActionAssumption PROVE ActionSpec => []LockedTreesRun
<1>1. ActionInv => LockedTreesRun
  BY InvLocksTrees
<1>2. QED
  BY <1>1, ActionInvHolds, PTL

(* For every number of processes, references and commits: a preparation    *)
(* fails only for a reason outside the program, and an offline run         *)
(* succeeds once a run has, unless something moved or was cleaned.         *)
THEOREM PreparationsFailForCause ==
  ASSUME ActionAssumption PROVE ActionSpec => []FailuresHaveCauses
<1>1. ActionInv => FailuresHaveCauses
  BY InvHasCauses
<1>2. QED
  BY <1>1, ActionInvHolds, PTL
=============================================================================
