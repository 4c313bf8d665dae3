-------------------------- MODULE MCSubscriptions ---------------------------
(* Two subscriptions of a buyer or of the shop itself, over one or two plans *)
(* in one token, with an allowance that outlives neither.                    *)
EXTENDS Subscriptions, TLC

Symmetric == Permutations(PlanIds)
=============================================================================
