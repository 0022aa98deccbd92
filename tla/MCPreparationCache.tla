------------------------ MODULE MCPreparationCache ------------------------
(* TLC instances of PreparationCache.                                       *)
EXTENDS PreparationCache, TLC

CONSTANTS k1, k2, w1, w2

\* Two callers of one key, or one caller that asks for either of two keys.
OneKeyOrTwo == {w1 :> {k1} @@ w2 :> {k1}, w1 :> {k1, k2} @@ w2 :> {}}
=============================================================================
