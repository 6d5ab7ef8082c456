------------------------ MODULE MCPromotionTransaction ------------------------
(***************************************************************************)
(* Instances of PromotionTransaction.                                      *)
(***************************************************************************)
EXTENDS PromotionTransaction, TLC

CONSTANTS w1, w2

Symmetric == Permutations({w1, w2})
===============================================================================
