------------------------------ MODULE Refunds -------------------------------
(***************************************************************************)
(* What may happen to a payment once it is made: refunds requested,        *)
(* approved, rejected and executed, disputes raised and resolved, the      *)
(* manual status override, and the administrator's archive and clean-ups.  *)
(* Refund and dispute records point to each other and to payments by id    *)
(* only, and every record may disappear, and its id be used again, while   *)
(* others still point to it.                                               *)
(***************************************************************************)
EXTENDS Ledger

CONSTANTS
    RefundIds, DisputeIds,
    RefundAmounts,   \* amounts a refund may ask for, or an override may set
    MinRefund,       \* DataKey::MRA
    RefundWindow,    \* DataKey::RW
    CleanupPeriod,   \* DataKey::CP
    RetentionPeriod, \* DataKey::RefundRetentionPeriod
    MaxRefunds,      \* MAX_REFUNDS_PER_PAYMENT
    MaxVersion       \* bound of the model: overrides stop at this version

ASSUME RefundsAssumption ==
    /\ RefundAmounts \subseteq Int
    /\ {MinRefund, RefundWindow, CleanupPeriod, RetentionPeriod, MaxRefunds, MaxVersion} \subseteq Nat
    /\ NoEntry \notin RefundIds

VARIABLES
    refund,        \* DataKey::Refund(refund_id)
    order_refunds, \* DataKey::OR(order_id): the refund ids ever requested for it
    dispute,       \* DataKey::Dispute(dispute_id)
    repaid,        \* history: the refunds paid, in order
    overridden,    \* history: orders whose refunded amount was set by hand
    irregular      \* history: orders whose refunds did not go one after the other

recordVars == <<refund, order_refunds, dispute>>
historyVars == <<repaid, overridden, irregular>>
refundsVars == <<envVars, configVars, ledgerVars, recordVars, historyVars>>

RefundRecord ==
    [order : Orders, initiator : Accounts, amount : Nat \ {0},
     status : {"Pending", "Approved", "Rejected", "Completed"}, created_at : 0..MaxTime]

\* The refund of a dispute opened on the payment itself is the empty id.
DisputeRecord ==
    [order : Orders, refund : RefundIds \cup {NoEntry}, initiator : Accounts,
     status : {"Open", "UnderReview", "Resolved", "Escalated"},
     outcome : {"None", "PayerFavor", "MerchantFavor"}]

\* The records, the lists and the totals are what storage can hold.
RefundsTypeOK ==
    /\ LedgerTypeOK
    /\ refund \in [RefundIds -> RefundRecord \cup {NoEntry}]
    /\ order_refunds \in [Orders -> Seq(RefundIds)]
    /\ dispute \in [DisputeIds -> DisputeRecord \cup {NoEntry}]
    /\ repaid \in Seq([refund : RefundIds, payment : 1..MaxPayments, amount : Nat \ {0}])
    /\ overridden \subseteq Orders
    /\ irregular \subseteq Orders

RefundsInit ==
    /\ LedgerInit
    /\ refund = [r \in RefundIds |-> NoEntry]
    /\ order_refunds = [o \in Orders |-> <<>>]
    /\ dispute = [d \in DisputeIds |-> NoEntry]
    /\ repaid = <<>>
    /\ overridden = {}
    /\ irregular = {}

-----------------------------------------------------------------------------
(* Helpers *)

IsPaid(o) == payment[o] # NoEntry

HasStatus(r, statuses) == refund[r] # NoEntry /\ refund[r].status \in statuses

SetStatus(r, status) == refund' = [refund EXCEPT ![r].status = status]

require_admin_or(caller, merchant) == caller \in {Admin, merchant}

\* The receipt of the payment now stored under order id o.
CurrentReceipt(o) ==
    CHOOSE i \in 1..Len(receipts) :
        receipts[i].order = o /\ \A j \in i + 1..Len(receipts) : receipts[j].order # o

\* A slip the runs must notice: a payment refunded to the last unit stays partial.
StatusFor_strict(refunded, amount) ==
    IF refunded > amount THEN "FullyRefunded" ELSE "PartiallyRefunded"

StatusFor(refunded, amount) ==
    IF refunded >= amount THEN "FullyRefunded" ELSE "PartiallyRefunded"

\* A slip: only the platform's totals are updated.
AddToRefundStats_global(m, amount) ==
    /\ global_stats' = [global_stats EXCEPT
            !.total_refunds = @ + 1,
            !.total_refund_volume = saturating_add(@, amount)]
    /\ UNCHANGED merchant_stats

AddToRefundStats(m, amount) ==
    /\ merchant_stats' = [merchant_stats EXCEPT
            ![m].total_refunds = @ + 1,
            ![m].total_refund_volume = saturating_add(@, amount)]
    /\ global_stats' = [global_stats EXCEPT
            !.total_refunds = @ + 1,
            !.total_refund_volume = saturating_add(@, amount)]

\* A slip: the whole payment is sent back, whatever the refund asks for.
PayBack_whole(r, bump) ==
    LET o == refund[r].order
        p == payment[o]
        refunded == p.refunded_amount + refund[r].amount
    IN  /\ IsPaid(o)
        /\ payment' = [payment EXCEPT
                ![o].refunded_amount = refunded,
                ![o].status = StatusFor(refunded, p.amount),
                ![o].version = @ + bump]
        /\ SetStatus(r, "Completed")
        /\ AddToRefundStats(p.merchant, refund[r].amount)
        /\ Transfer(p.token, p.merchant, p.payer, p.amount)
        /\ repaid' = Append(repaid, [refund |-> r, payment |-> CurrentReceipt(o),
                                     amount |-> refund[r].amount])

\* A slip: the refunded amount is replaced where it should grow.
PayBack_replacing(r, bump) ==
    LET o == refund[r].order
        p == payment[o]
    IN  /\ IsPaid(o)
        /\ payment' = [payment EXCEPT
                ![o].refunded_amount = refund[r].amount,
                ![o].status = StatusFor(refund[r].amount, p.amount),
                ![o].version = @ + bump]
        /\ SetStatus(r, "Completed")
        /\ AddToRefundStats(p.merchant, refund[r].amount)
        /\ Transfer(p.token, p.merchant, p.payer, refund[r].amount)
        /\ repaid' = Append(repaid, [refund |-> r, payment |-> CurrentReceipt(o),
                                     amount |-> refund[r].amount])

\* What execute_refund and a forced resolution have in common; only the former
\* moves the payment to its next version.
PayBack(r, bump) ==
    LET o == refund[r].order
        p == payment[o]
        refunded == p.refunded_amount + refund[r].amount
    IN  /\ IsPaid(o)
        /\ payment' = [payment EXCEPT
                ![o].refunded_amount = refunded,
                ![o].status = StatusFor(refunded, p.amount),
                ![o].version = @ + bump]
        /\ SetStatus(r, "Completed")
        /\ AddToRefundStats(p.merchant, refund[r].amount)
        /\ Transfer(p.token, p.merchant, p.payer, refund[r].amount)
        /\ repaid' = Append(repaid, [refund |-> r, payment |-> CurrentReceipt(o),
                                     amount |-> refund[r].amount])

\* Ledger variables no handler of this module touches.
Untouched == <<now, paused, active, allowed, configVars, merchant_ids, payer_ids, nonce,
               merchant_nonce, rate, total_received, receipts>>

\* A refund that may still be paid: undecided, or rejected and in dispute.
InDispute(r) == \E d \in DisputeIds :
    dispute[d] # NoEntry /\ dispute[d].refund = r /\ dispute[d].status # "Resolved"

MayBePaid(r) ==
    HasStatus(r, {"Pending", "Approved"}) \/ (HasStatus(r, {"Rejected"}) /\ InDispute(r))

OtherMayBePaid(r, o) ==
    \E s \in RefundIds \ {r} : MayBePaid(s) /\ refund[s].order = o

-----------------------------------------------------------------------------
(* Refunds *)

\* A slip: the amount is not checked.
initiate_refund_unchecked(caller, r, o, amount) ==
    /\ require_not_paused
    /\ refund[r] = NoEntry
    /\ IsPaid(o)
    /\ Len(order_refunds[o]) < MaxRefunds
    /\ caller \in {payment[o].payer, payment[o].merchant}
    /\ now <= payment[o].paid_at + RefundWindow
    /\ payment[o].refunded_amount + amount <= payment[o].amount
    /\ refund' = [refund EXCEPT ![r] =
            [order |-> o, initiator |-> caller, amount |-> amount, status |-> "Pending",
             created_at |-> now]]
    /\ order_refunds' = [order_refunds EXCEPT ![o] = Append(@, r)]
    /\ irregular' = IF OtherMayBePaid(r, o) \/ InDispute(r) THEN irregular \cup {o} ELSE irregular
    /\ UNCHANGED <<Untouched, balance, payment, merchant_stats, global_stats, dispute, repaid,
                   overridden>>

\* A slip: what was refunded before is forgotten.
initiate_refund_alone(caller, r, o, amount) ==
    /\ require_not_paused
    /\ require_positive(amount)
    /\ amount >= MinRefund
    /\ refund[r] = NoEntry
    /\ IsPaid(o)
    /\ Len(order_refunds[o]) < MaxRefunds
    /\ caller \in {payment[o].payer, payment[o].merchant}
    /\ now <= payment[o].paid_at + RefundWindow
    /\ amount <= payment[o].amount
    /\ refund' = [refund EXCEPT ![r] =
            [order |-> o, initiator |-> caller, amount |-> amount, status |-> "Pending",
             created_at |-> now]]
    /\ order_refunds' = [order_refunds EXCEPT ![o] = Append(@, r)]
    /\ irregular' = IF OtherMayBePaid(r, o) \/ InDispute(r) THEN irregular \cup {o} ELSE irregular
    /\ UNCHANGED <<Untouched, balance, payment, merchant_stats, global_stats, dispute, repaid,
                   overridden>>

initiate_refund(caller, r, o, amount) ==
    /\ require_not_paused
    /\ require_positive(amount)
    /\ amount >= MinRefund
    /\ refund[r] = NoEntry
    /\ IsPaid(o)
    /\ Len(order_refunds[o]) < MaxRefunds
    /\ caller \in {payment[o].payer, payment[o].merchant}
    /\ now <= payment[o].paid_at + RefundWindow
    /\ payment[o].refunded_amount + amount <= payment[o].amount
    /\ refund' = [refund EXCEPT ![r] =
            [order |-> o, initiator |-> caller, amount |-> amount, status |-> "Pending",
             created_at |-> now]]
    /\ order_refunds' = [order_refunds EXCEPT ![o] = Append(@, r)]
    /\ irregular' = IF OtherMayBePaid(r, o) \/ InDispute(r) THEN irregular \cup {o} ELSE irregular
    /\ UNCHANGED <<Untouched, balance, payment, merchant_stats, global_stats, dispute, repaid,
                   overridden>>

\* approve_refund and reject_refund
DecideRefund(caller, r, status) ==
    /\ require_not_paused
    /\ HasStatus(r, {"Pending"})
    /\ IsPaid(refund[r].order)
    /\ require_admin_or(caller, payment[refund[r].order].merchant)
    /\ SetStatus(r, status)
    /\ UNCHANGED <<Untouched, balance, payment, merchant_stats, global_stats, order_refunds, dispute,
                   historyVars>>

approve_refund(caller, r) == DecideRefund(caller, r, "Approved")

reject_refund(caller, r) == DecideRefund(caller, r, "Rejected")

\* The remaining amount is not looked at again.
execute_refund(r) ==
    /\ require_not_paused
    /\ HasStatus(r, {"Approved"})
    /\ PayBack(r, 1)
    /\ UNCHANGED <<Untouched, order_refunds, dispute, overridden, irregular>>

-----------------------------------------------------------------------------
(* Disputes *)

NewDispute(d, caller, r, o) ==
    /\ dispute[d] = NoEntry
    /\ dispute' = [dispute EXCEPT ![d] =
            [order |-> o, refund |-> r, initiator |-> caller, status |-> "Open",
             outcome |-> "None"]]

raise_dispute(caller, d, r) ==
    LET o == refund[r].order IN
    /\ require_not_paused
    /\ HasStatus(r, {"Rejected"})
    /\ IsPaid(o)
    /\ caller = payment[o].payer
    /\ NewDispute(d, caller, r, o)
    /\ irregular' = IF \/ OtherMayBePaid(r, o)
                       \/ InDispute(r)
                       \/ payment[o].refunded_amount + refund[r].amount > payment[o].amount
                    THEN irregular \cup {o} ELSE irregular
    /\ UNCHANGED <<Untouched, balance, payment, merchant_stats, global_stats, refund, order_refunds,
                   repaid, overridden>>

initiate_dispute(caller, d, o) ==
    /\ require_not_paused
    /\ IsPaid(o)
    /\ caller \in {payment[o].payer, payment[o].merchant}
    /\ NewDispute(d, caller, NoEntry, o)
    /\ UNCHANGED <<Untouched, balance, payment, merchant_stats, global_stats, refund, order_refunds,
                   historyVars>>

MoveDispute(d, from, to) ==
    /\ require_not_paused
    /\ dispute[d] # NoEntry
    /\ dispute[d].status \in from
    /\ dispute' = [dispute EXCEPT ![d].status = to]
    /\ UNCHANGED <<Untouched, balance, payment, merchant_stats, global_stats, refund, order_refunds,
                   historyVars>>

mark_dispute_under_review(d) == MoveDispute(d, {"Open"}, "UnderReview")

escalate_dispute(d) == MoveDispute(d, {"Open", "UnderReview"}, "Escalated")

\* A forced refund is paid whatever the refund's status; a dispute without a
\* refund can only be resolved for the merchant.
resolve_dispute(d, force_refund) ==
    /\ require_not_paused
    /\ dispute[d] # NoEntry
    /\ dispute[d].status # "Resolved"
    /\ dispute' = [dispute EXCEPT
            ![d].status = "Resolved",
            ![d].outcome = IF force_refund THEN "PayerFavor" ELSE "MerchantFavor"]
    /\ IF force_refund
       THEN /\ dispute[d].refund # NoEntry
            /\ refund[dispute[d].refund] # NoEntry
            /\ PayBack(dispute[d].refund, 0)
       ELSE UNCHANGED <<balance, payment, merchant_stats, global_stats, refund, repaid>>
    /\ UNCHANGED <<Untouched, order_refunds, overridden, irregular>>

-----------------------------------------------------------------------------
(* Overrides and clean-ups *)

update_payment_status(caller, o, refunded_amount, expected_version) ==
    /\ require_not_paused
    /\ IsPaid(o)
    /\ payment[o].version < MaxVersion
    /\ require_admin_or(caller, payment[o].merchant)
    /\ expected_version \in {NoEntry, payment[o].version}
    /\ payment' = [payment EXCEPT
            ![o].refunded_amount = refunded_amount,
            ![o].version = @ + 1,
            ![o].status = StatusFor(refunded_amount, payment[o].amount)]
    /\ overridden' = overridden \cup {o}
    /\ irregular' = irregular \cup {o}
    /\ UNCHANGED <<Untouched, balance, merchant_stats, global_stats, recordVars, repaid>>

Listed == UNION {Entries(merchant_ids[m]) : m \in Merchants}

\* A slip: the undecided refunds of a payment that goes stay behind.
cleanup_expired_payments_completed ==
    LET expired == {o \in Listed : IsPaid(o) /\ payment[o].paid_at < now - CleanupPeriod}
        doomed == UNION {Entries(order_refunds[o]) : o \in expired}
    IN  /\ require_not_paused
        /\ payment' = [o \in Orders |-> IF o \in expired THEN NoEntry ELSE payment[o]]
        /\ refund' = [r \in RefundIds |-> IF r \in doomed /\ HasStatus(r, {"Completed"}) THEN NoEntry ELSE refund[r]]
        /\ order_refunds' = [o \in Orders |-> IF o \in expired THEN <<>> ELSE order_refunds[o]]
        /\ UNCHANGED <<Untouched, balance, merchant_stats, global_stats, dispute, historyVars>>

\* Every payment of some merchant's history that is old enough goes, with the
\* refunds its list names, whatever their status and whoever they belong to now.
cleanup_expired_payments ==
    LET expired == {o \in Listed : IsPaid(o) /\ payment[o].paid_at < now - CleanupPeriod}
        doomed == UNION {Entries(order_refunds[o]) : o \in expired}
    IN  /\ require_not_paused
        /\ payment' = [o \in Orders |-> IF o \in expired THEN NoEntry ELSE payment[o]]
        /\ refund' = [r \in RefundIds |-> IF r \in doomed THEN NoEntry ELSE refund[r]]
        /\ order_refunds' = [o \in Orders |-> IF o \in expired THEN <<>> ELSE order_refunds[o]]
        /\ UNCHANGED <<Untouched, balance, merchant_stats, global_stats, dispute, historyVars>>

\* The order's list keeps the ids of the refunds that go.
cleanup_expired_refunds ==
    /\ refund' = [r \in RefundIds |->
            IF /\ \E o \in Listed : r \in Entries(order_refunds[o])
               /\ HasStatus(r, {"Completed", "Rejected"})
               /\ refund[r].created_at < now - RetentionPeriod
            THEN NoEntry ELSE refund[r]]
    /\ UNCHANGED <<Untouched, balance, payment, merchant_stats, global_stats, order_refunds, dispute,
                   historyVars>>

-----------------------------------------------------------------------------

\* An order id paid for the second time is irregular: refunds, lists and
\* disputes of the first payment may still be there.
Pay(payer, it, n) ==
    /\ process_payment_with_nonce(payer, it, n)
    /\ irregular' = IF \E i \in 1..Len(receipts) : receipts[i].order = it.order
                    THEN irregular \cup {it.order} ELSE irregular
    /\ overridden' = overridden \ {it.order}
    /\ UNCHANGED <<recordVars, repaid>>

Callers == Accounts \cup {Admin}

RefundsNext ==
    \/ \E p \in Accounts, it \in Items, n \in 0..MaxPayments : Pay(p, it, n)
    \/ \E c \in Callers, r \in RefundIds, o \in Orders, a \in RefundAmounts :
          initiate_refund(c, r, o, a)
    \/ \E c \in Callers, r \in RefundIds : approve_refund(c, r)
    \/ \E c \in Callers, r \in RefundIds : reject_refund(c, r)
    \/ \E r \in RefundIds : execute_refund(r)
    \/ \E c \in Callers, d \in DisputeIds, r \in RefundIds : raise_dispute(c, d, r)
    \/ \E c \in Callers, d \in DisputeIds, o \in Orders : initiate_dispute(c, d, o)
    \/ \E d \in DisputeIds : mark_dispute_under_review(d)
    \/ \E d \in DisputeIds : escalate_dispute(d)
    \/ \E d \in DisputeIds, f \in BOOLEAN : resolve_dispute(d, f)
    \/ \E c \in Callers, o \in Orders, a \in RefundAmounts, v \in {NoEntry} \cup 0..MaxVersion :
          update_payment_status(c, o, a, v)
    \/ \E o \in Orders : archive_payment_record(o) /\ UNCHANGED <<recordVars, historyVars>>
    \/ cleanup_expired_payments
    \/ cleanup_expired_refunds
    \/ EnvNext /\ UNCHANGED <<configVars, ledgerVars, recordVars, historyVars>>

RefundsSpec == RefundsInit /\ [][RefundsNext]_refundsVars

-----------------------------------------------------------------------------
(* Properties *)

SumOfRepaid(f(_)) == Total([i \in 1..Len(repaid) |-> f(repaid[i])], Len(repaid))

\* Every account holds what the payments made and the refunds paid say,
\* whichever of the two ways each refund was paid and whatever was archived,
\* cleaned up or overridden since (execute_refund and resolve_dispute against
\* the records and totals they write).
RefundsReconciled ==
    \A a \in Accounts :
        LET sent(r) == (IF r.merchant = a THEN r.amount ELSE 0) - (IF r.payer = a THEN r.amount ELSE 0)
            back(b) == (IF receipts[b.payment].payer = a THEN b.amount ELSE 0)
                       - (IF receipts[b.payment].merchant = a THEN b.amount ELSE 0)
        IN  \A t \in Tokens :
              LET sentIn(r) == IF r.token = t THEN sent(r) ELSE 0
                  backIn(b) == IF receipts[b.payment].token = t THEN back(b) ELSE 0
              IN  balance[t][a] = Funds + SumOfReceipts(sentIn) + SumOfRepaid(backIn)

\* Merchant and global refund totals count each refund paid exactly once,
\* whichever of the two paths paid it; a volume that no longer fits stays at
\* the most it can hold and fails no refund (ADR-001).
StatsMatchRepaid ==
    LET volume(b) == b.amount IN
    /\ \A m \in Merchants :
          LET own(b) == IF receipts[b.payment].merchant = m THEN b.amount ELSE 0
              one(b) == IF receipts[b.payment].merchant = m THEN 1 ELSE 0
          IN  /\ merchant_stats[m].total_refund_volume = Clamped(SumOfRepaid(own))
              /\ merchant_stats[m].total_refunds = SumOfRepaid(one)
    /\ global_stats.total_refund_volume = Clamped(SumOfRepaid(volume))
    /\ global_stats.total_refunds = Len(repaid)

\* The refunded amount of a payment nobody overrode is what was paid back for
\* that payment, not for an earlier one with the same order id.
RefundedMatchesRepaid ==
    \A o \in Orders : IsPaid(o) /\ o \notin overridden =>
        LET own(b) == IF b.payment = CurrentReceipt(o) THEN b.amount ELSE 0
        IN  payment[o].refunded_amount = SumOfRepaid(own)

\* The status of a payment agrees with its refunded amount on every path that
\* writes either (execute_refund, resolve_dispute, update_payment_status).
StatusMatchesAmount ==
    \A o \in Orders : IsPaid(o) =>
        /\ payment[o].status = "Completed" => payment[o].refunded_amount = 0
        /\ payment[o].status = "FullyRefunded" <=> payment[o].refunded_amount >= payment[o].amount

\* A refund never pays back more than the payment as long as the refunds of the
\* order go one after the other: no second one requested while one may still be
\* paid, no rejected one disputed when it no longer fits, no override and no id
\* used again.  Only then does the check initiate_refund makes still hold when
\* execute_refund or resolve_dispute, which do not repeat it, pays.
RefundsCapped ==
    \A o \in Orders : IsPaid(o) /\ o \notin irregular =>
        payment[o].refunded_amount <= payment[o].amount

\* Every stored refund is in the list of its order, also after lists were
\* dropped by a clean-up and ids were used again: no refund escapes the limit
\* per payment or the clean-up of its payment.
RefundIndexed ==
    \A r \in RefundIds : refund[r] # NoEntry => r \in Entries(order_refunds[refund[r].order])

-----------------------------------------------------------------------------
(* What the documentation says and the code does not do *)

\* docs/testing-guide.md: the sum of all executed refunds never exceeds the
\* original payment amount.
CumulativeRefundsBounded ==
    \A i \in 1..Len(receipts) :
        LET own(b) == IF b.payment = i THEN b.amount ELSE 0
        IN  SumOfRepaid(own) <= receipts[i].amount

\* docs/refund-lifecycle.md: the refunded amount cannot be decremented.
RefundedNeverDecreases ==
    [][\A o \in Orders : (IsPaid(o) /\ IsPaid(o)') =>
          payment'[o].refunded_amount >= payment[o].refunded_amount]_refundsVars

\* docs/refund-lifecycle.md: going from Pending to Completed is rejected.
ApprovalNotSkipped ==
    [][\A r \in RefundIds : HasStatus(r, {"Pending"}) => ~HasStatus(r, {"Completed"})']_refundsVars

\* docs/refund-lifecycle.md: once a dispute is resolved without a forced
\* refund, Rejected is permanent.
RejectionPermanent ==
    [][\A r \in RefundIds, d \in DisputeIds :
          (/\ HasStatus(r, {"Rejected"})
           /\ dispute[d] # NoEntry
           /\ dispute[d].refund = r
           /\ dispute[d].outcome = "MerchantFavor")
          => ~HasStatus(r, {"Completed"})']_refundsVars

\* docs/refund-lifecycle.md: a Completed refund is fully terminal.
CompletedPaidOnce ==
    [][\A r \in RefundIds : HasStatus(r, {"Completed"}) =>
          (repaid' # repaid => repaid'[Len(repaid')].refund # r)]_refundsVars

\* cleanup_expired_payments' comment: the refunds it removes are those linked to
\* the payment it removes.  A list may name a refund that is now another order's.
CleanupSparesOthers ==
    [][\A r \in RefundIds :
          (HasStatus(r, {"Pending", "Approved"}) /\ IsPaid(refund[r].order) /\ refund'[r] = NoEntry)
          => payment'[refund[r].order] = NoEntry]_refundsVars

=============================================================================
