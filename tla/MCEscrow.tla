------------------------------ MODULE MCEscrow ------------------------------
(* A small instance of Escrow: a buyer, a shop that also acts as arbiter of  *)
(* its own holds or lets the buyer do it, one token.                         *)
EXTENDS Escrow
=============================================================================
