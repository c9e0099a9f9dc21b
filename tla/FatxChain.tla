------------------------------- MODULE FatxChain -------------------------------
(***************************************************************************)
(* The chains of a FATX chain map, as OpenChainAsync reads them            *)
(* (Xbox360.Fatx/Reading/FatxClusterChainReader.cs), for every module that *)
(* follows one.  A chain map f holds one entry for each cluster of its     *)
(* domain; an entry that is no cluster ends the chain.                     *)
(***************************************************************************)
EXTENDS Naturals, FiniteSets

(* The clusters X, and those they lead to.  Only clusters in R are read.   *)
Onward(f, R, X) == X \cup ({f[c] : c \in X \cap R} \cap DOMAIN f)

(* The clusters met from "first" on.  The reader stops at a cluster it has *)
(* met before, so it takes one step per cluster at most.  (The union is of *)
(* one set, bound to a name so that it is computed once.)                  *)
Reach(f, first, R) ==
  LET met[n \in 0 .. Cardinality(DOMAIN f)] ==
        IF n = 0 THEN {first} \cap DOMAIN f
        ELSE UNION {Onward(f, R, X) : X \in {met[n - 1]}}
  IN met[Cardinality(DOMAIN f)]
=============================================================================
