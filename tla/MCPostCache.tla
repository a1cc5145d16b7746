---------------------------- MODULE MCPostCache ----------------------------
(* Instances of PostCache: the urls are model values, symmetric where no
   liveness property is checked. *)
EXTENDS PostCache, TLC

UrlSymmetry == Permutations(Url)
=============================================================================
