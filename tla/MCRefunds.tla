----------------------------- MODULE MCRefunds ------------------------------
(* A buyer and a shop, with few orders, refunds and disputes.                *)
EXTENDS Refunds, TLC

Symmetric == Permutations(Orders) \cup Permutations(RefundIds) \cup Permutations(DisputeIds)
=============================================================================
