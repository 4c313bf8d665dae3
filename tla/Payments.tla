------------------------------ MODULE Payments ------------------------------
(***************************************************************************)
(* The payment paths of module Ledger, run against each other, the         *)
(* administrator's fee, limit and archive, and the rest of the system.     *)
(***************************************************************************)
EXTENDS Ledger

paymentsVars == <<envVars, configVars, ledgerVars>>

Batches == UNION {[1..n -> Items] : n \in 1..MaxBatchSize + 1}

PaymentsNext ==
    \/ \E p \in Accounts, it \in Items, n \in 0..MaxPayments : process_payment_with_nonce(p, it, n)
    \/ \E p \in Accounts, it \in Items, n \in 0..MaxPayments, ts \in 0..MaxTime :
          process_payment_with_signature(p, it, n, ts)
    \/ \E p \in Accounts, items \in Batches : batch_payment(p, items)
    \/ \E bps \in FeeRates, r \in Accounts : set_platform_fee(bps, r)
    \/ \E limit \in RateLimits : set_rate_limit(limit)
    \/ \E o \in Orders : archive_payment_record(o)
    \/ EnvNext /\ UNCHANGED <<configVars, ledgerVars>>

PaymentsSpec == LedgerInit /\ [][PaymentsNext]_paymentsVars

-----------------------------------------------------------------------------
(* Properties *)

\* What a receipt does to the holdings of account a in token t.
Effect(r, a, t) ==
    IF r.token # t THEN 0
    ELSE   (IF r.merchant = a THEN r.amount - r.fee ELSE 0)
         + (IF r.recipient = a THEN r.fee ELSE 0)
         - (IF r.payer = a THEN r.amount ELSE 0)

\* Every account holds, in every token, what the recorded payments say: the
\* payer of an order is charged exactly its amount, split without loss between
\* merchant and fee recipient, by one transfer, by two, or by the grouped
\* transfers of a batch, even when the payer pays itself or is the recipient
\* (PayWithFee and PayGroups against the records).
Reconciled ==
    \A a \in Accounts, t \in Tokens :
        LET effect(r) == Effect(r, a, t)
        IN  balance[t][a] = Funds + SumOfReceipts(effect)

\* The totals of a merchant and of the platform count each payment once, on
\* whichever path it came and whether or not it is archived since; a volume
\* that no longer fits stays at the most it can hold and fails no payment
\* (saturating_add in every payment path, ADR-001).
StatsMatchReceipts ==
    /\ \A m \in Merchants :
          /\ merchant_stats[m].total_payments = CountOf(receipts, m)
          /\ merchant_stats[m].total_volume = Clamped(Volume(receipts, m))
    /\ global_stats.total_payments = Len(receipts)
    /\ global_stats.total_volume = Clamped(AmountSum(receipts))

\* A live payment is in the history of its merchant and of its payer, also
\* after its order id was archived and used again by others: nothing is ever
\* paid that the history queries cannot find.
PaymentIndexed ==
    \A o \in Orders : payment[o] # NoEntry =>
        /\ \E i \in 1..Len(merchant_ids[payment[o].merchant]) :
              merchant_ids[payment[o].merchant][i] = o
        /\ \E i \in 1..Len(payer_ids[payment[o].payer]) :
              payer_ids[payment[o].payer][i] = o

\* A payer's nonces, and a merchant's, are used once each and without a gap,
\* whatever is archived in between: no signed order can be replayed.
NoncesUsedOnce ==
    /\ \A a \in Accounts :
          LET used == {i \in 1..Len(receipts) : receipts[i].kind = "nonce" /\ receipts[i].payer = a}
          IN  /\ {receipts[i].nonce : i \in used} = 0..nonce[a] - 1
              /\ Cardinality(used) = nonce[a]
    /\ \A m \in Merchants :
          LET used == {i \in 1..Len(receipts) : receipts[i].kind = "signed" /\ receipts[i].merchant = m}
          IN  /\ {receipts[i].nonce : i \in used} = 1..merchant_nonce[m]
              /\ Cardinality(used) = merchant_nonce[m]

Received(m, w, kinds) ==
    Cardinality({i \in 1..Len(receipts) : /\ receipts[i].merchant = m
                                          /\ receipts[i].window = w
                                          /\ receipts[i].kind \in kinds})

\* A step that adds signed or batched payments of a merchant to a window leaves
\* at most the limit in force of them in it, counting every item of a batch,
\* also after the limit was lowered (the check and the increment in phase 1).
RateLimitKept ==
    [][\A m \in Merchants, w \in WindowStarts :
          LET before == Received(m, w, {"signed", "batch"})
              after == Received(m, w, {"signed", "batch"})'
          IN  after > before => after <= rate_limit]_paymentsVars

-----------------------------------------------------------------------------
(* What the documentation says and the code does not do *)

\* docs/order-id-semantics.md: once a payment is recorded its order id can
\* never be used again.  archive_payment_record frees it.
OrderIdNeverReused ==
    \A i, j \in 1..Len(receipts) : receipts[i].order = receipts[j].order => i = j

\* archive_payment_record's comment: the payment is removed from the merchant
\* and payer index lists.
ArchivedLeavesHistory ==
    \A m \in Merchants : \A i \in 1..Len(merchant_ids[m]) : payment[merchant_ids[m][i]] # NoEntry

\* process_payment_with_signature's comment: the merchant total is kept net of
\* the fee.  process_payment_with_nonce adds the gross amount.
TotalReceivedIsNet ==
    \A m \in Merchants :
        LET net(r) == r.amount - r.fee IN total_received[m] = SumFor(receipts, m, net)

\* set_payment_rate_limit's comment: the limit is the number of payments a
\* merchant may receive within one window.  The nonce path does not count.
MerchantReceivesAtMostLimit ==
    [][\A m \in Merchants, w \in WindowStarts :
          LET before == Received(m, w, {"nonce", "signed", "batch"})
              after == Received(m, w, {"nonce", "signed", "batch"})'
          IN  after > before => after <= rate_limit]_paymentsVars

=============================================================================
