--------------------------- MODULE MCSharedCheckout ---------------------------
(* Instances of SharedCheckout for TLC.                                       *)
EXTENDS SharedCheckoutProofs, TLC

CONSTANTS l1, l2, l3, d1, d2

(* One lease; and a dispatch that is retried, which draws a new token for the *)
(* same marker file, beside another one.                                      *)
OneDispatch == l1 :> d1
RetriedDispatch == (l1 :> d1) @@ (l2 :> d1) @@ (l3 :> d2)

CallSymmetry == Permutations(Call)
================================================================================
