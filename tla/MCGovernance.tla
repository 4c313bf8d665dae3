---------------------------- MODULE MCGovernance -----------------------------
(* Three people who may be administrator, guardian or both; two of three     *)
(* votes lift a timelock of two ticks; the log keeps two entries.            *)
EXTENDS Governance, TLC

Symmetric == Permutations(People)
=============================================================================
