----------------------------- MODULE MCPayments -----------------------------
(* Two merchants that sell to each other, one of them collecting the fee,    *)
(* and two order ids.                                                        *)
EXTENDS Payments, TLC

Symmetric == Permutations(Orders) \cup Permutations(Merchants)
=============================================================================
