---------------------------- MODULE MCCacheStore ----------------------------
(***************************************************************************)
(* Three saves for TLC: two of the same key and version, one of a longer   *)
(* key with the same prefix; a lookup with a restore key, and one of a     *)
(* version nobody saved.                                                   *)
(***************************************************************************)
EXTENDS CacheStore

MCSavers == {"s1", "s2", "s3"}
MCKeyOf == [c \in MCSavers |-> IF c = "s3" THEN "npm-b" ELSE "npm-a"]
MCVersionOf == [c \in MCSavers |-> "v1"]
MCStartsWith == [k \in {"npm-"} |-> {"npm-a", "npm-b"}]
MCRank == [k \in {"npm-a", "npm-b"} |-> IF k = "npm-a" THEN 1 ELSE 2]
MCQueries == { [keys |-> <<"npm-a", "npm-">>, version |-> "v1"],
               [keys |-> <<"npm-b", "npm-">>, version |-> "v2"] }
=============================================================================
