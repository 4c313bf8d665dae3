------------------------------ MODULE MCOrders ------------------------------
(* A buyer and a shop, two order ids; signers who differ, or who do not.     *)
EXTENDS Orders, TLC

CONSTANTS buyer, shop

Lists == {<<buyer, shop>>}

Duplicates == {<<shop, shop>>}

Symmetric == Permutations(Orders)
=============================================================================
