------------------------------- MODULE Ledger -------------------------------
(***************************************************************************)
(* The three ways to pay a merchant (process_payment_with_nonce,           *)
(* process_payment_with_signature, batch_payment), what they leave in      *)
(* storage (the payment record, the two history indexes, the nonces, the   *)
(* rate-limit counters, the totals) and the administrator's archive.       *)
(*                                                                         *)
(* One tick of the clock is one ledger.  The signature itself constrains   *)
(* nothing here: the caller chooses the public key it is checked against.  *)
(* Payments runs these handlers; Refunds adds what may happen to a payment *)
(* afterwards.                                                             *)
(***************************************************************************)
EXTENDS ContractEnv, Sums, Sequences, FiniteSets

CONSTANTS
    Orders,        \* order ids
    Amounts,       \* amounts a caller may ask for
    FeeRates,      \* platform fees the administrator may set, in basis points
    RateLimits,    \* per-window limits the administrator may set
    WindowLedgers, \* RATE_LIMIT_WINDOW_LEDGERS
    ExpiryWindow,  \* the signature expiry window
    MaxBatchSize,  \* MAX_BATCH_SIZE
    MaxIds,        \* MAX_PAYMENT_IDS_PER_ACCOUNT
    MaxTotal,      \* i128::MAX, the most a running total of money can hold
    MaxPayments,   \* bound of the model: payments ever made
    Admin,         \* the administrator's address
    NoEntry        \* a storage key with no entry

MAX_PLATFORM_FEE_BPS == 10000

ASSUME LedgerAssumption ==
    /\ Amounts \subseteq Int
    /\ FeeRates \subseteq Nat
    /\ RateLimits \subseteq Nat
    /\ WindowLedgers \in Nat \ {0}
    /\ ExpiryWindow \in Nat
    /\ MaxBatchSize \in Nat
    /\ MaxIds \in Nat
    /\ MaxTotal \in Nat
    /\ MaxPayments \in Nat
    /\ NoEntry \notin Accounts

VARIABLES
    payment,        \* DataKey::Payment(order_id)
    merchant_ids,   \* DataKey::MP(merchant): the merchant's payment history
    payer_ids,      \* DataKey::PP(payer): the payer's payment history
    nonce,          \* DataKey::Nonce(payer): the next one expected
    merchant_nonce, \* DataKey::MerchantNonce(merchant): the last one used
    rate,           \* DataKey::RateLimitCounter(merchant, window_start)
    rate_limit,     \* DataKey::RateLimitPerWindow
    fee,            \* DataKey::PFB and DataKey::FR
    total_received, \* Merchant.total_received
    merchant_stats, \* DataKey::MS(merchant)
    global_stats,   \* DataKey::GlobalStats
    receipts        \* history: the payments ever made, in order

configVars == <<rate_limit, fee>>
ledgerVars == <<payment, merchant_ids, payer_ids, nonce, merchant_nonce, rate, total_received,
                merchant_stats, global_stats, receipts>>

PaymentStatus == {"Completed", "PartiallyRefunded", "FullyRefunded"}

PaymentOrder ==
    [merchant : Accounts, payer : Accounts, token : Tokens, amount : Nat \ {0},
     version : Nat, status : PaymentStatus, paid_at : 0..MaxTime, refunded_amount : Int,
     platform_fee : Nat]

Stats == [total_payments : Nat, total_volume : Nat, total_refunds : Nat,
          total_refund_volume : Nat]

NoStats == [total_payments |-> 0, total_volume |-> 0, total_refunds |-> 0,
            total_refund_volume |-> 0]

Receipt ==
    [kind : {"nonce", "signed", "batch", "request", "multisig"}, order : Orders,
     payer : Accounts, merchant : Accounts,
     token : Tokens, amount : Nat \ {0}, fee : Nat, recipient : Accounts \cup {NoEntry},
     nonce : Nat, window : 0..MaxTime]

WindowStarts == {w \in 0..MaxTime : w % WindowLedgers = 0}

\* The records, the totals and the counters are what storage can hold.
LedgerTypeOK ==
    /\ EnvTypeOK
    /\ payment \in [Orders -> PaymentOrder \cup {NoEntry}]
    /\ merchant_ids \in [Accounts -> Seq(Orders)]
    /\ payer_ids \in [Accounts -> Seq(Orders)]
    /\ nonce \in [Accounts -> Nat]
    /\ merchant_nonce \in [Merchants -> Nat]
    /\ rate \in [Merchants -> [WindowStarts -> Nat]]
    /\ rate_limit \in RateLimits \ {0}
    /\ fee \in [bps : 0..MAX_PLATFORM_FEE_BPS, recipient : Accounts \cup {NoEntry}]
    /\ total_received \in [Merchants -> Nat]
    /\ merchant_stats \in [Merchants -> Stats]
    /\ global_stats \in Stats
    /\ receipts \in Seq(Receipt)

LedgerInit ==
    /\ EnvInit
    /\ payment = [o \in Orders |-> NoEntry]
    /\ merchant_ids = [a \in Accounts |-> <<>>]
    /\ payer_ids = [a \in Accounts |-> <<>>]
    /\ nonce = [a \in Accounts |-> 0]
    /\ merchant_nonce = [m \in Merchants |-> 0]
    /\ rate = [m \in Merchants |-> [w \in WindowStarts |-> 0]]
    /\ rate_limit \in RateLimits \ {0}
    /\ fee = [bps |-> 0, recipient |-> NoEntry]
    /\ total_received = [m \in Merchants |-> 0]
    /\ merchant_stats = [m \in Merchants |-> NoStats]
    /\ global_stats = NoStats
    /\ receipts = <<>>

\* What a caller may ask to pay.
Items == [order : Orders, merchant : Merchants, token : Tokens, amount : Amounts]

-----------------------------------------------------------------------------
(* Helpers *)

Entries(s) == {s[i] : i \in 1..Len(s)}

SumOfReceipts(f(_)) == Total([i \in 1..Len(receipts) |-> f(receipts[i])], Len(receipts))

platform_fee(amount) == (amount * fee.bps) \div 10000

\* What is left of a total once it is held in an i128.
Clamped(x) == IF x > MaxTotal THEN MaxTotal ELSE x

\* i128::saturating_add, for amounts that are not negative.
saturating_add(x, y) == Clamped(x + y)

current_window_start == (now \div WindowLedgers) * WindowLedgers

\* The part of f that belongs to merchant m, summed over the items.
SumFor(items, m, f(_)) ==
    Total([i \in 1..Len(items) |-> IF items[i].merchant = m THEN f(items[i]) ELSE 0], Len(items))

Volume(items, m) == LET amount(it) == it.amount IN SumFor(items, m, amount)

CountOf(items, m) == LET one(it) == 1 IN SumFor(items, m, one)

OrdersOf(items) == [i \in 1..Len(items) |-> items[i].order]

OrdersFor(items, m) ==
    LET upTo[i \in 0..Len(items)] ==
            IF i = 0 THEN <<>>
            ELSE IF items[i].merchant = m THEN Append(upTo[i - 1], items[i].order)
                 ELSE upTo[i - 1]
    IN  upTo[Len(items)]

\* A slip the runs must notice: the amount is not checked.
Payable_unchecked(it) ==
    /\ is_token_allowed(it.token)
    /\ payment[it.order] = NoEntry
    /\ is_active(it.merchant)

\* What every path checks of an order before it moves money.
Payable(it) ==
    /\ require_positive(it.amount)
    /\ is_token_allowed(it.token)
    /\ payment[it.order] = NoEntry
    /\ is_active(it.merchant)

\* execute_multisig_payment drops both errors: an id that finds an index full
\* is left out of it and the call goes on.
AddToIndexesIfRoom(payer, items) ==
    /\ merchant_ids' = [m \in Accounts |->
            IF Len(merchant_ids[m] \o OrdersFor(items, m)) <= MaxIds
            THEN merchant_ids[m] \o OrdersFor(items, m) ELSE merchant_ids[m]]
    /\ payer_ids' = [payer_ids EXCEPT ![payer] =
            IF Len(@ \o OrdersOf(items)) <= MaxIds THEN @ \o OrdersOf(items) ELSE @]

\* A slip: the payer's history gets one id per call, not one per item.
AddToIndexes_per_call(payer, items) ==
    /\ merchant_ids' = [m \in Accounts |-> merchant_ids[m] \o OrdersFor(items, m)]
    /\ payer_ids' = [payer_ids EXCEPT ![payer] = Append(@, items[1].order)]
    /\ \A m \in Accounts : OrdersFor(items, m) # <<>> => Len(merchant_ids'[m]) <= MaxIds
    /\ Len(payer_ids'[payer]) <= MaxIds

\* add_merchant_payment_id and add_payer_payment_id for every item; an index
\* that is full fails the whole call.
AddToIndexes(payer, items) ==
    /\ merchant_ids' = [m \in Accounts |-> merchant_ids[m] \o OrdersFor(items, m)]
    /\ payer_ids' = [payer_ids EXCEPT ![payer] = @ \o OrdersOf(items)]
    /\ \A m \in Accounts : OrdersFor(items, m) # <<>> => Len(merchant_ids'[m]) <= MaxIds
    /\ items # <<>> => Len(payer_ids'[payer]) <= MaxIds

AmountSum(items) == Total([i \in 1..Len(items) |-> items[i].amount], Len(items))

\* A slip: a call counts as one payment, whatever it carries.
AddToStats_per_call(items) ==
    /\ merchant_stats' = [m \in Merchants |->
            IF CountOf(items, m) = 0 THEN merchant_stats[m]
            ELSE [merchant_stats[m] EXCEPT
                     !.total_payments = @ + 1,
                     !.total_volume = saturating_add(@, Volume(items, m))]]
    /\ global_stats' =
            [global_stats EXCEPT !.total_payments = @ + 1,
                                 !.total_volume = saturating_add(@, AmountSum(items))]

\* The counters are exact and the volumes stop at MaxTotal (ADR-001).  Items
\* are added one after the other; their amounts are positive, so that the last
\* of the saturating additions leaves what one addition of their sum would.
AddToStats(items) ==
    /\ merchant_stats' = [m \in Merchants |->
            [merchant_stats[m] EXCEPT !.total_payments = @ + CountOf(items, m),
                                      !.total_volume = saturating_add(@, Volume(items, m))]]
    /\ global_stats' =
            [global_stats EXCEPT !.total_payments = @ + Len(items),
                                 !.total_volume = saturating_add(@, AmountSum(items))]

\* Merchant.total_received, unlike the volumes, is a checked addition: the
\* call traps when the total does not fit.
Receive(m, credit) ==
    /\ total_received[m] + credit <= MaxTotal
    /\ total_received' = [total_received EXCEPT ![m] = @ + credit]

ReceiveAll(items) ==
    /\ \A m \in Merchants : total_received[m] + Volume(items, m) <= MaxTotal
    /\ total_received' = [m \in Merchants |-> total_received[m] + Volume(items, m)]

\* The payment records of a call, each with its share of the platform fee.
StorePayments(payer, items, charged) ==
    payment' = [o \in Orders |->
        IF \E i \in 1..Len(items) : items[i].order = o
        THEN LET it == items[CHOOSE i \in 1..Len(items) : items[i].order = o]
             IN  [merchant |-> it.merchant, payer |-> payer, token |-> it.token,
                  amount |-> it.amount, version |-> 0, status |-> "Completed", paid_at |-> now,
                  refunded_amount |-> 0, platform_fee |-> charged]
        ELSE payment[o]]

Remember(kind, payer, items, charged, n) ==
    /\ Len(receipts) + Len(items) <= MaxPayments
    /\ receipts' = receipts \o [i \in 1..Len(items) |->
            [kind |-> kind, order |-> items[i].order, payer |-> payer,
             merchant |-> items[i].merchant, token |-> items[i].token, amount |-> items[i].amount,
             fee |-> charged, recipient |-> IF charged > 0 THEN fee.recipient ELSE NoEntry,
             nonce |-> n, window |-> current_window_start]]

RecordPayments(kind, payer, items, charged, n) ==
    /\ StorePayments(payer, items, charged)
    /\ AddToIndexes(payer, items)
    /\ AddToStats(items)
    /\ Remember(kind, payer, items, charged, n)

\* A slip: the fee comes on top of the amount.
PayWithFee_on_top(payer, it, charged) ==
    LET paid == Moved(balance[it.token], payer, it.merchant, it.amount)
        feePaid == charged > 0 /\ fee.recipient # NoEntry
    IN  /\ balance[it.token][payer] >= it.amount
        /\ feePaid => paid[payer] >= charged
        /\ balance' = [balance EXCEPT ![it.token] =
                IF feePaid THEN Moved(paid, payer, fee.recipient, charged) ELSE paid]

\* One order: the merchant gets the amount less the fee, then the recipient,
\* when one is set, gets the fee.
PayWithFee(payer, it, charged) ==
    LET net == it.amount - charged
        paid == Moved(balance[it.token], payer, it.merchant, net)
        feePaid == charged > 0 /\ fee.recipient # NoEntry
    IN  /\ balance[it.token][payer] >= net
        /\ feePaid => paid[payer] >= charged
        /\ balance' = [balance EXCEPT ![it.token] =
                IF feePaid THEN Moved(paid, payer, fee.recipient, charged) ELSE paid]

-----------------------------------------------------------------------------
(* The handlers *)

\* A slip: a nonce may be skipped.
process_payment_with_later_nonce(payer, it, n) ==
    /\ require_not_paused
    /\ n >= nonce[payer]
    /\ Payable(it)
    /\ nonce' = [nonce EXCEPT ![payer] = n + 1]
    /\ PayWithFee(payer, it, platform_fee(it.amount))
    /\ RecordPayments("nonce", payer, <<it>>, platform_fee(it.amount), n)
    /\ Receive(it.merchant, it.amount)
    /\ UNCHANGED <<now, paused, active, allowed, merchant_nonce, rate, configVars>>

process_payment_with_nonce(payer, it, n) ==
    /\ require_not_paused
    /\ n = nonce[payer]
    /\ Payable(it)
    /\ nonce' = [nonce EXCEPT ![payer] = @ + 1]
    /\ PayWithFee(payer, it, platform_fee(it.amount))
    /\ RecordPayments("nonce", payer, <<it>>, platform_fee(it.amount), n)
    /\ Receive(it.merchant, it.amount)
    /\ UNCHANGED <<now, paused, active, allowed, merchant_nonce, rate, configVars>>

\* A slip: the items of a batch are checked before any of them is counted.
CountAgainstLimit_stale(items) ==
    /\ rate' = [m \in Merchants |->
            [rate[m] EXCEPT ![current_window_start] = @ + CountOf(items, m)]]
    /\ \A i \in 1..Len(items) : rate[items[i].merchant][current_window_start] < rate_limit

CountAgainstLimit(items) ==
    /\ rate' = [m \in Merchants |->
            [rate[m] EXCEPT ![current_window_start] = @ + CountOf(items, m)]]
    /\ \A i \in 1..Len(items) : rate'[items[i].merchant][current_window_start] <= rate_limit

process_payment_with_signature(payer, it, n, timestamp) ==
    /\ require_not_paused
    /\ Payable(it)
    /\ n = merchant_nonce[it.merchant] + 1
    /\ timestamp >= now - ExpiryWindow
    /\ merchant_nonce' = [merchant_nonce EXCEPT ![it.merchant] = @ + 1]
    /\ CountAgainstLimit(<<it>>)
    /\ PayWithFee(payer, it, platform_fee(it.amount))
    /\ RecordPayments("signed", payer, <<it>>, platform_fee(it.amount), n)
    /\ Receive(it.merchant, it.amount - platform_fee(it.amount))
    /\ UNCHANGED <<now, paused, active, allowed, nonce, configVars>>

\* Phase 2 of batch_payment: the (token, merchant) pairs in the order they are
\* first seen, and what each is owed.
FirstOfGroup(items, i) ==
    \A j \in 1..i - 1 : <<items[j].token, items[j].merchant>> # <<items[i].token, items[i].merchant>>

GroupTotal(items, i) ==
    Total([j \in 1..Len(items) |->
              IF <<items[j].token, items[j].merchant>> = <<items[i].token, items[i].merchant>>
              THEN items[j].amount ELSE 0], Len(items))

\* Phase 3: one transfer for each pair; after[i] is what they leave once the
\* pairs first seen among the first i items are served.
PayGroups(payer, items) ==
    LET after[i \in 0..Len(items)] ==
            IF i = 0 THEN balance
            ELSE IF FirstOfGroup(items, i)
                 THEN [after[i - 1] EXCEPT ![items[i].token] =
                         Moved(@, payer, items[i].merchant, GroupTotal(items, i))]
                 ELSE after[i - 1]
    IN  /\ \A i \in 1..Len(items) :
              FirstOfGroup(items, i) => after[i - 1][items[i].token][payer] >= GroupTotal(items, i)
        /\ balance' = after[Len(items)]

\* No fee is taken and no nonce is used.
batch_payment(payer, items) ==
    /\ require_not_paused
    /\ Len(items) <= MaxBatchSize
    /\ \A i \in 1..Len(items) : Payable(items[i])
    /\ \A i, j \in 1..Len(items) : i # j => items[i].order # items[j].order
    /\ CountAgainstLimit(items)
    /\ PayGroups(payer, items)
    /\ RecordPayments("batch", payer, items, 0, 0)
    /\ ReceiveAll(items)
    /\ UNCHANGED <<now, paused, active, allowed, nonce, merchant_nonce, configVars>>

set_platform_fee(bps, recipient) ==
    /\ bps <= MAX_PLATFORM_FEE_BPS
    /\ fee' = [bps |-> bps, recipient |-> recipient]
    /\ UNCHANGED <<envVars, rate_limit, ledgerVars>>

set_rate_limit(limit) ==
    /\ limit # 0
    /\ rate_limit' = limit
    /\ UNCHANGED <<envVars, fee, ledgerVars>>

\* Neither history index is touched.
archive_payment_record(o) ==
    /\ require_not_paused
    /\ payment[o] # NoEntry
    /\ payment' = [payment EXCEPT ![o] = NoEntry]
    /\ UNCHANGED <<envVars, configVars, merchant_ids, payer_ids, nonce, merchant_nonce, rate,
                   total_received, merchant_stats, global_stats, receipts>>

=============================================================================
