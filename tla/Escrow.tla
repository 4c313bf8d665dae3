------------------------------- MODULE Escrow -------------------------------
(***************************************************************************)
(* Time-locked escrows (create_escrow, release_escrow,                     *)
(* cancel_escrow_before_lock) and conditional holds (escrow_hold,          *)
(* escrow_release, escrow_cancel).  Both keep the money of their open      *)
(* records in ONE place, the contract's own token balance, and neither     *)
(* looks at the other's records: that the pot always covers both is what   *)
(* this module is about.                                                   *)
(***************************************************************************)
EXTENDS ContractEnv, Sums

CONSTANTS
    NumEscrows,  \* order ids of time-locked escrows are 1..NumEscrows
    NumHolds,    \* escrow ids of conditional holds are 1..NumHolds
    Amounts,     \* amounts a caller may ask for
    NoEntry      \* a storage key with no entry

VARIABLES
    escrow,      \* DataKey::Escrow(order_id)
    hold,        \* DataKey::EscrowHold(escrow_id)
    donated      \* history: tokens sent to the contract's address by others

vars == <<envVars, escrow, hold, donated>>

EscrowIds == 1..NumEscrows
HoldIds == 1..NumHolds

EscrowRecord ==
    [payer : Accounts, merchant : Merchants, token : Tokens, amount : Nat \ {0},
     unlock_at : Nat, status : {"Locked", "Released", "Cancelled"}]

HoldRecord ==
    [payer : Accounts, merchant : Merchants, token : Tokens, amount : Nat \ {0},
     arbiter : Accounts, timeout_at : Nat, status : {"Held", "Released", "Cancelled"}]

ASSUME EscrowAssumption ==
    /\ NumEscrows \in Nat
    /\ NumHolds \in Nat
    /\ Amounts \subseteq Nat
    /\ NoEntry \notin EscrowRecord
    /\ NoEntry \notin HoldRecord

\* The records, amounts and balances are what storage can hold.
TypeOK ==
    /\ EnvTypeOK
    /\ escrow \in [EscrowIds -> EscrowRecord \cup {NoEntry}]
    /\ hold \in [HoldIds -> HoldRecord \cup {NoEntry}]
    /\ donated \in [Tokens -> Nat]

Init ==
    /\ EnvInit
    /\ escrow = [i \in EscrowIds |-> NoEntry]
    /\ hold = [i \in HoldIds |-> NoEntry]
    /\ donated = [t \in Tokens |-> 0]

-----------------------------------------------------------------------------
(* Time-locked escrow *)

\* A slip the runs must notice: the amount is not checked.
create_escrow_unchecked(payer, merchant, amount, t, unlock_at, i) ==
    /\ require_not_paused
    /\ unlock_at > now
    /\ is_token_allowed(t)
    /\ escrow[i] = NoEntry
    /\ is_active(merchant)
    /\ Transfer(t, payer, Contract, amount)
    /\ escrow' = [escrow EXCEPT ![i] =
            [payer |-> payer, merchant |-> merchant, token |-> t, amount |-> amount,
             unlock_at |-> unlock_at, status |-> "Locked"]]
    /\ UNCHANGED <<now, paused, active, allowed, hold, donated>>

create_escrow(payer, merchant, amount, t, unlock_at, i) ==
    /\ require_not_paused
    /\ require_positive(amount)
    /\ unlock_at > now
    /\ is_token_allowed(t)
    /\ escrow[i] = NoEntry
    /\ is_active(merchant)
    /\ Transfer(t, payer, Contract, amount)
    /\ escrow' = [escrow EXCEPT ![i] =
            [payer |-> payer, merchant |-> merchant, token |-> t, amount |-> amount,
             unlock_at |-> unlock_at, status |-> "Locked"]]
    /\ UNCHANGED <<now, paused, active, allowed, hold, donated>>

IsLocked(i) == escrow[i] # NoEntry /\ escrow[i].status = "Locked"

\* The status is written before the tokens move; the host makes the two one step.
FinaliseEscrow(i, status, to) ==
    /\ escrow' = [escrow EXCEPT ![i].status = status]
    /\ Transfer(escrow[i].token, Contract, to, escrow[i].amount)
    /\ UNCHANGED <<now, paused, active, allowed, hold, donated>>

\* A slip: a merchant deactivated meanwhile is not paid.
release_escrow_active(i) ==
    /\ require_not_paused
    /\ IsLocked(i)
    /\ now >= escrow[i].unlock_at
    /\ is_active(escrow[i].merchant)
    /\ FinaliseEscrow(i, "Released", escrow[i].merchant)

\* A slip: the money of a released escrow goes back to the payer.
release_escrow_payer(i) ==
    /\ require_not_paused
    /\ IsLocked(i)
    /\ now >= escrow[i].unlock_at
    /\ FinaliseEscrow(i, "Released", escrow[i].payer)

\* Anyone may call it, and neither the merchant's state nor the allow-list matters.
release_escrow(i) ==
    /\ require_not_paused
    /\ IsLocked(i)
    /\ now >= escrow[i].unlock_at
    /\ FinaliseEscrow(i, "Released", escrow[i].merchant)

cancel_escrow_before_lock(payer, i) ==
    /\ require_not_paused
    /\ IsLocked(i)
    /\ escrow[i].payer = payer
    /\ now < escrow[i].unlock_at
    /\ FinaliseEscrow(i, "Cancelled", escrow[i].payer)

-----------------------------------------------------------------------------
(* Conditional hold *)

escrow_hold(payer, i, merchant, t, amount, arbiter, timeout_at) ==
    /\ require_not_paused
    /\ require_positive(amount)
    /\ timeout_at > now
    /\ is_token_allowed(t)
    /\ hold[i] = NoEntry
    /\ is_active(merchant)
    /\ Transfer(t, payer, Contract, amount)
    /\ hold' = [hold EXCEPT ![i] =
            [payer |-> payer, merchant |-> merchant, token |-> t, amount |-> amount,
             arbiter |-> arbiter, timeout_at |-> timeout_at, status |-> "Held"]]
    /\ UNCHANGED <<now, paused, active, allowed, escrow, donated>>

IsHeld(i) == hold[i] # NoEntry /\ hold[i].status = "Held"

\* A slip: the money leaves and the record stays open.
FinaliseHold_open(i, status, to) ==
    /\ UNCHANGED hold
    /\ Transfer(hold[i].token, Contract, to, hold[i].amount)
    /\ UNCHANGED <<now, paused, active, allowed, escrow, donated>>

FinaliseHold(i, status, to) ==
    /\ hold' = [hold EXCEPT ![i].status = status]
    /\ Transfer(hold[i].token, Contract, to, hold[i].amount)
    /\ UNCHANGED <<now, paused, active, allowed, escrow, donated>>

escrow_release(caller, i) ==
    /\ require_not_paused
    /\ IsHeld(i)
    /\ caller = hold[i].arbiter \/ now >= hold[i].timeout_at
    /\ FinaliseHold(i, "Released", hold[i].merchant)

escrow_cancel(caller, i) ==
    /\ require_not_paused
    /\ IsHeld(i)
    /\ hold[i].payer = caller
    /\ now < hold[i].timeout_at
    /\ FinaliseHold(i, "Cancelled", hold[i].payer)

-----------------------------------------------------------------------------

\* Nothing stops an account from sending tokens to the contract's address.
Donate(from, t, amount) ==
    /\ Transfer(t, from, Contract, amount)
    /\ donated' = [donated EXCEPT ![t] = @ + amount]
    /\ UNCHANGED <<now, paused, active, allowed, escrow, hold>>

Environment ==
    /\ EnvNext
    /\ UNCHANGED <<escrow, hold, donated>>

Next ==
    \/ \E p \in Accounts, m \in Merchants, a \in Amounts, t \in Tokens,
          u \in 0..MaxTime, i \in EscrowIds : create_escrow(p, m, a, t, u, i)
    \/ \E i \in EscrowIds : release_escrow(i)
    \/ \E p \in Accounts, i \in EscrowIds : cancel_escrow_before_lock(p, i)
    \/ \E p \in Accounts, i \in HoldIds, m \in Merchants, t \in Tokens, a \in Amounts,
          ar \in Accounts, u \in 0..MaxTime : escrow_hold(p, i, m, t, a, ar, u)
    \/ \E c \in Accounts, i \in HoldIds : escrow_release(c, i)
    \/ \E c \in Accounts, i \in HoldIds : escrow_cancel(c, i)
    \/ \E p \in Accounts, t \in Tokens, a \in Amounts : Donate(p, t, a)
    \/ Environment

Spec == Init /\ [][Next]_vars

\* The ledger closes for ever, and whoever is owed the money asks for it again
\* and again: a release that is possible infinitely often is made.
FairSpec ==
    /\ Spec
    /\ WF_vars(AdvanceTime /\ UNCHANGED <<escrow, hold, donated>>)
    /\ \A i \in EscrowIds : SF_vars(release_escrow(i))
    /\ \A i \in HoldIds : SF_vars(\E c \in Accounts : escrow_release(c, i))

-----------------------------------------------------------------------------
(* Properties *)

LockedIn(t) ==
    [i \in EscrowIds |-> IF IsLocked(i) /\ escrow[i].token = t THEN escrow[i].amount ELSE 0]
HeldIn(t) ==
    [i \in HoldIds |-> IF IsHeld(i) /\ hold[i].token = t THEN hold[i].amount ELSE 0]

\* Of every token the contract holds exactly what its open escrows and open
\* holds add up to, plus what outsiders sent it: no interleaving of the six
\* handlers pays one record out of another's money, pays one twice or strands
\* a payment (the pot both kinds share, create_escrow .. escrow_cancel).
Solvency ==
    \A t \in Tokens :
        balance[t][Contract] =
            Total(LockedIn(t), NumEscrows) + Total(HeldIn(t), NumHolds) + donated[t]

\* No open record can ever fail to pay out because the pot is short: the
\* transfer in release_escrow, cancel_escrow_before_lock, escrow_release and
\* escrow_cancel never traps.
PayoutsCovered ==
    /\ \A i \in EscrowIds : IsLocked(i) => balance[escrow[i].token][Contract] >= escrow[i].amount
    /\ \A i \in HoldIds : IsHeld(i) => balance[hold[i].token][Contract] >= hold[i].amount

\* Whatever happens to the merchant's profile and to the allow-list after the
\* money went in, it comes out again: if the contract is unpaused again and
\* again, every open record is finalised (release_escrow and escrow_release
\* depend on neither).
EventuallySettled ==
    []<>(~paused) =>
        /\ \A i \in EscrowIds : IsLocked(i) ~> (escrow[i] # NoEntry /\ ~IsLocked(i))
        /\ \A i \in HoldIds : IsHeld(i) ~> (hold[i] # NoEntry /\ ~IsHeld(i))

-----------------------------------------------------------------------------
(* Both kinds of record are claims on one custody service *)

ClaimIds == ({"escrow"} \X EscrowIds) \cup ({"hold"} \X HoldIds)

PaidTo(status) ==
    CASE status = "Released" -> "beneficiary"
      [] status = "Cancelled" -> "depositor"
      [] OTHER -> "no"

EscrowClaim(e) ==
    IF e = NoEntry THEN NoEntry
    ELSE [terms |-> [depositor |-> e.payer, beneficiary |-> e.merchant, currency |-> e.token,
                     amount |-> e.amount, deadline |-> e.unlock_at, refereed |-> FALSE],
          paid |-> PaidTo(e.status)]

HoldClaim(h) ==
    IF h = NoEntry THEN NoEntry
    ELSE [terms |-> [depositor |-> h.payer, beneficiary |-> h.merchant, currency |-> h.token,
                     amount |-> h.amount, deadline |-> h.timeout_at, refereed |-> TRUE],
          paid |-> PaidTo(h.status)]

AllClaims ==
    [c \in ClaimIds |-> IF c[1] = "escrow" THEN EscrowClaim(escrow[c[2]]) ELSE HoldClaim(hold[c[2]])]

Pot == [t \in Tokens |-> balance[t][Contract] - donated[t]]

\* What the accounts themselves hold: who was paid, and not only which status
\* the record got, is part of what the service promises.
Purse == [t \in Tokens |-> [a \in Accounts |-> balance[t][a]]]

Service == INSTANCE Custody WITH
    Claims <- ClaimIds, Parties <- Accounts, Currencies <- Tokens, NoClaim <- NoEntry,
    clock <- now, claim <- AllClaims, pot <- Pot, purse <- Purse

\* A key with no entry is no claim.
ASSUME ClaimAssumption ==
    NoEntry \notin [terms : Service!Terms, paid : {"no", "beneficiary", "depositor"}]

\* The six handlers together are one custody service: each record takes its
\* amount from its payer's own balance and pays out at most once and in full,
\* into the payer's balance only before its deadline, into the merchant's only
\* from the deadline on unless an arbiter releases it; no other account gains
\* anything, and the terms a record was created with never change
\* (create_escrow .. escrow_cancel against module Custody).
ImplementsCustody == Service!Spec

=============================================================================
