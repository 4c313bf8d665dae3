----------------------------- MODULE MCRollout -----------------------------
(* The scripts' administrator and another one, a cycle of two ledgers.       *)
EXTENDS Rollout, TLC

Symmetric == Permutations(Contracts)
=============================================================================
