----------------------------- MODULE MCRegistry -----------------------------
(* Three addresses, one of which may also commit before it registers.        *)
EXTENDS Registry, TLC

Symmetric == Permutations(Addresses \ Committers)
=============================================================================
