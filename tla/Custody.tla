------------------------------ MODULE Custody -------------------------------
(***************************************************************************)
(* What an escrow service promises, whatever its records look like: money  *)
(* deposited under a claim comes out of the depositor's purse, leaves the  *)
(* pot once and in full, and goes either back into the depositor's purse,  *)
(* before the claim's deadline, or into the beneficiary's, from the        *)
(* deadline on; a claim with a referee may reach the beneficiary earlier.  *)
(* Module Escrow implements it.                                            *)
(***************************************************************************)
EXTENDS Integers

CONSTANTS Claims, Parties, Currencies, NoClaim

VARIABLES
    clock,       \* the time deadlines are measured against
    claim,       \* the claims that were ever made
    pot,         \* pot[u]: what the service holds of currency u
    purse        \* purse[u][p]: what party p itself holds of currency u

custodyVars == <<clock, claim, pot, purse>>

Terms ==
    [depositor : Parties, beneficiary : Parties, currency : Currencies,
     amount : Nat \ {0}, deadline : Nat, refereed : BOOLEAN]

Init ==
    /\ clock = 0
    /\ claim = [c \in Claims |-> NoClaim]
    /\ pot = [u \in Currencies |-> 0]
    /\ purse \in [Currencies -> [Parties -> Nat]]

IsOpen(c) == claim[c] # NoClaim /\ claim[c].paid = "no"

Open(c, terms) ==
    /\ claim[c] = NoClaim
    /\ terms \in Terms
    /\ terms.deadline > clock
    /\ claim' = [claim EXCEPT ![c] = [terms |-> terms, paid |-> "no"]]
    /\ purse[terms.currency][terms.depositor] >= terms.amount
    /\ pot' = [pot EXCEPT ![terms.currency] = @ + terms.amount]
    /\ purse' = [purse EXCEPT ![terms.currency][terms.depositor] = @ - terms.amount]
    /\ UNCHANGED clock

\* The whole amount moves from the pot into the purse of one party.
Pay(c, whom, party) ==
    /\ IsOpen(c)
    /\ claim' = [claim EXCEPT ![c].paid = whom]
    /\ pot' = [pot EXCEPT ![claim[c].terms.currency] = @ - claim[c].terms.amount]
    /\ purse' = [purse EXCEPT ![claim[c].terms.currency][party] = @ + claim[c].terms.amount]
    /\ UNCHANGED clock

Release(c) ==
    /\ Pay(c, "beneficiary", claim[c].terms.beneficiary)
    /\ claim[c].terms.refereed \/ clock >= claim[c].terms.deadline

Return(c) ==
    /\ Pay(c, "depositor", claim[c].terms.depositor)
    /\ clock < claim[c].terms.deadline

\* What a party does with its own money; nothing but a payout adds to a purse.
Spend(u, p, rest) ==
    /\ rest \in 0..purse[u][p]
    /\ purse' = [purse EXCEPT ![u][p] = rest]
    /\ UNCHANGED <<clock, claim, pot>>

Tick ==
    /\ clock' = clock + 1
    /\ UNCHANGED <<claim, pot, purse>>

\* The terms of a new claim, and the rest of a purse that was spent from, are
\* the ones the step itself leaves in claim' and purse'.
Next ==
    \/ \E c \in Claims : claim'[c] # NoClaim /\ Open(c, claim'[c].terms)
    \/ \E c \in Claims : Release(c)
    \/ \E c \in Claims : Return(c)
    \/ \E u \in Currencies, p \in Parties : Spend(u, p, purse'[u][p])
    \/ Tick

Spec == Init /\ [][Next]_custodyVars

=============================================================================
