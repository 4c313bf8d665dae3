--------------------------- MODULE PaymentsProofs ---------------------------
(***************************************************************************)
(* The payment paths keep the books, for any number of accounts, merchants *)
(* and orders, batches of any size, any limits and any fee: every balance, *)
(* total, counter, nonce and history agrees with the payments made.        *)
(*                                                                         *)
(* Each of the three paths is one instance of Pays, what they all leave in *)
(* storage; the invariants are proved from that.                           *)
(***************************************************************************)
EXTENDS Payments, MoneyProofs, SequenceTheorems

USE EnvAssumption, LedgerAssumption DEF MAX_PLATFORM_FEE_BPS

\* An item of a positive amount, as every path takes it.
Paid == [order : Orders, merchant : Accounts, token : Tokens, amount : Nat \ {0}]

\* The records and receipts a path writes.
Settles(kind, payer, items, charged, n) ==
    /\ kind \in {"nonce", "signed", "batch", "request", "multisig"}
    /\ payer \in Accounts /\ items \in Seq(Paid) /\ charged \in Nat /\ n \in Nat
    /\ StorePayments(payer, items, charged)
    /\ Remember(kind, payer, items, charged, n)
    /\ UNCHANGED <<now, paused, active, allowed, configVars>>

\* What each of the three direct paths leaves in storage.
Pays(kind, payer, items, charged, n) ==
    /\ kind \in {"nonce", "signed", "batch"}
    /\ Settles(kind, payer, items, charged, n)
    /\ AddToIndexes(payer, items)
    /\ AddToStats(items)

-----------------------------------------------------------------------------
(* Fees, windows and sums over items *)

\* A fee is part of the amount, and there is none at a rate of zero.
LEMMA FeeBounds ==
    ASSUME fee \in [bps : 0..MAX_PLATFORM_FEE_BPS, recipient : Accounts \cup {NoEntry}],
           NEW a \in Nat
    PROVE  platform_fee(a) \in 0..a /\ (platform_fee(a) > 0 => fee.bps > 0)
<1> DEFINE b == fee.bps
<1>1. b \in 0..10000
  BY SMTT(30)
<1> HIDE DEF b
<1>2. a * b \in Nat /\ a * b <= a * 10000
  BY <1>1
<1>3. (a * b) \div 10000 \in 0..a
  BY <1>2
<1>4. b = 0 => (a * b) \div 10000 = 0
  BY <1>1, SMTT(30)
<1>5. (a * b) \div 10000 > 0 => b > 0
  BY <1>1, <1>4
<1> QED BY <1>3, <1>5, SMTT(30) DEF platform_fee, b

\* A saturating addition gives a natural, and adding to a total that has been
\* clamped leaves what clamping the whole sum would.
LEMMA SaturatingSum ==
    \A v, x \in Nat : /\ Clamped(v) \in Nat
                      /\ saturating_add(v, x) \in Nat
                      /\ saturating_add(Clamped(v), x) = Clamped(v + x)
BY DEF Clamped, saturating_add

\* Totals stay natural when naturals are added.
LEMMA StatsAdd ==
    \A s \in Stats, c, v \in Nat :
        [s EXCEPT !.total_payments = @ + c, !.total_volume = saturating_add(@, v)] \in Stats
<1> SUFFICES ASSUME NEW s \in Stats, NEW c \in Nat, NEW v \in Nat
             PROVE  [s EXCEPT !.total_payments = @ + c,
                              !.total_volume = saturating_add(@, v)] \in Stats
  OBVIOUS
<1> DEFINE p == s.total_payments + c
           w == saturating_add(s.total_volume, v)
<1>0. s.total_payments \in Nat /\ s.total_volume \in Nat
  BY DEF Stats
<1>1. p \in Nat
  BY <1>0
<1>2. w \in Nat
  BY <1>0, SaturatingSum
<1>3. [s EXCEPT !.total_payments = @ + c, !.total_volume = saturating_add(@, v)]
        = [s EXCEPT !.total_payments = p, !.total_volume = w]
  OBVIOUS
<1> HIDE DEF p, w
<1> QED BY <1>1, <1>2, <1>3 DEF Stats

\* The window of a time is one of the clock's.
LEMMA WindowBounds ==
    ASSUME now \in 0..MaxTime
    PROVE  current_window_start \in 0..MaxTime
<1>1. now \div WindowLedgers \in Nat /\ (now \div WindowLedgers) * WindowLedgers <= now
  OBVIOUS
<1>2. (now \div WindowLedgers) * WindowLedgers \in Nat
  BY <1>1
<1> QED BY <1>1, <1>2 DEF current_window_start

\* What an item past Payable is.
LEMMA ItemFacts ==
    ASSUME NEW items \in Seq(Paid)
    PROVE  /\ Len(items) \in Nat /\ items = [i \in 1..Len(items) |-> items[i]]
           /\ \A i \in 1..Len(items) :
                 /\ items[i] \in Paid /\ items[i].order \in Orders /\ items[i].token \in Tokens
                 /\ items[i].merchant \in Accounts
                 /\ items[i].amount \in Nat \ {0}
<1>1. Len(items) \in Nat /\ items \in [1..Len(items) -> Paid]
  BY LenProperties
<1>2. \A it \in Paid : /\ it.order \in Orders /\ it.token \in Tokens
                       /\ it.merchant \in Accounts /\ it.amount \in Nat \ {0}
  BY DEF Paid
<1> QED BY <1>1, <1>2

\* Counts and volumes, written out as the sums they are.
LEMMA SumShapes ==
    \A items, m :
        /\ CountOf(items, m) =
             Total([i \in 1..Len(items) |-> IF items[i].merchant = m THEN 1 ELSE 0], Len(items))
        /\ Volume(items, m) =
             Total([i \in 1..Len(items) |->
                       IF items[i].merchant = m THEN items[i].amount ELSE 0], Len(items))
BY DEF CountOf, Volume, SumFor

\* Counts, volumes and sums of natural amounts are naturals.
LEMMA AmountTypes ==
    ASSUME NEW s, Len(s) \in Nat, \A i \in 1..Len(s) : s[i].amount \in Nat, NEW m
    PROVE  CountOf(s, m) \in Nat /\ Volume(s, m) \in Nat /\ AmountSum(s) \in Nat
<1> DEFINE ones == [i \in 1..Len(s) |-> IF s[i].merchant = m THEN 1 ELSE 0]
           shares == [i \in 1..Len(s) |->
                         IF s[i].merchant = m THEN s[i].amount ELSE 0]
           amounts == [i \in 1..Len(s) |-> s[i].amount]
<1>1. /\ ones \in [1..Len(s) -> Nat] /\ shares \in [1..Len(s) -> Nat]
      /\ amounts \in [1..Len(s) -> Nat]
  OBVIOUS
<1>2. /\ CountOf(s, m) = Total(ones, Len(s))
      /\ Volume(s, m) = Total(shares, Len(s))
      /\ AmountSum(s) = Total(amounts, Len(s))
  BY SumShapes DEF AmountSum
<1> HIDE DEF ones, shares, amounts
<1>3. /\ Total(ones, Len(s)) \in Nat /\ Total(shares, Len(s)) \in Nat
      /\ Total(amounts, Len(s)) \in Nat
  BY <1>1, TotalNatural
<1> QED BY <1>2, <1>3

\* So are those of the items of a path.
LEMMA SumTypes ==
    ASSUME NEW items \in Seq(Paid), NEW m
    PROVE  CountOf(items, m) \in Nat /\ Volume(items, m) \in Nat /\ AmountSum(items) \in Nat
<1>1. Len(items) \in Nat /\ \A i \in 1..Len(items) : items[i].amount \in Nat
  BY ItemFacts
<1> QED BY <1>1, AmountTypes

\* A merchant's order ids among the items: ids of orders, and all of them.
LEMMA OrdersForFacts ==
    ASSUME NEW items \in Seq(Paid), NEW m
    PROVE  /\ OrdersFor(items, m) \in Seq(Orders)
           /\ \A i \in 1..Len(items) : items[i].merchant = m =>
                 \E j \in 1..Len(OrdersFor(items, m)) : OrdersFor(items, m)[j] = items[i].order
<1> DEFINE N == Len(items)
           IsUpTo(s) == s = [i \in 0..N |-> IF i = 0 THEN <<>>
                                            ELSE IF items[i].merchant = m
                                                 THEN Append(s[i - 1], items[i].order)
                                                 ELSE s[i - 1]]
           F == [i \in 1..N |-> [x \in Seq(Orders) |->
                    IF items[i].merchant = m THEN Append(x, items[i].order) ELSE x]]
           upTo == CHOOSE s : IsUpTo(s)
<1>1. N \in Nat /\ \A i \in 1..N : items[i].order \in Orders
  BY ItemFacts
<1>2. F \in [1..N -> [Seq(Orders) -> Seq(Orders)]]
  BY <1>1
<1>3. \E s : IsUpTo(s)
  <2> HIDE DEF F
  <2>1. \E s : Iterates(s, N, Seq(Orders), F, <<>>)
    <3>1. <<>> \in Seq(Orders)
      OBVIOUS
    <3> HIDE DEF N
    <3> QED BY <1>1, <1>2, <3>1, IterationExists
  <2>2. PICK s \in [0..N -> Seq(Orders)] : s[0] = <<>> /\ \A i \in 1..N : s[i] = F[i][s[i - 1]]
    BY <2>1 DEF Iterates
  <2>3. ASSUME NEW i \in 0..N
        PROVE  s[i] = IF i = 0 THEN <<>>
                      ELSE IF items[i].merchant = m THEN Append(s[i - 1], items[i].order)
                           ELSE s[i - 1]
    <3>1. CASE i = 0
      BY <2>2, <3>1
    <3>2. CASE i # 0
      <4>1. i \in 1..N /\ s[i - 1] \in Seq(Orders)
        BY <3>2
      <4> QED BY <2>2, <3>2, <4>1 DEF F
    <3> QED BY <3>1, <3>2
  <2>4. IsUpTo(s)
    BY <2>3
  <2> QED BY <2>4
<1>4. IsUpTo(upTo)
  <2> HIDE DEF IsUpTo
  <2> QED BY <1>3
<1>5. OrdersFor(items, m) = upTo[N]
  BY DEF OrdersFor
<1>6. /\ upTo[0] = <<>>
      /\ \A i \in 1..N : upTo[i] = IF items[i].merchant = m
                                   THEN Append(upTo[i - 1], items[i].order) ELSE upTo[i - 1]
  <2>1. N \in Nat /\ upTo = [i \in 0..N |-> IF i = 0 THEN <<>>
                                            ELSE IF items[i].merchant = m
                                                 THEN Append(upTo[i - 1], items[i].order)
                                                 ELSE upTo[i - 1]]
    BY <1>1, <1>4
  <2> HIDE DEF upTo, N
  <2>2. upTo[0] = <<>>
    BY <2>1
  <2>3. ASSUME NEW i \in 1..N
        PROVE  upTo[i] = IF items[i].merchant = m
                         THEN Append(upTo[i - 1], items[i].order) ELSE upTo[i - 1]
    <3>1. i \in 0..N /\ i # 0
      BY <2>1
    <3> QED BY <2>1, <3>1
  <2> QED BY <2>2, <2>3, SMTT(30)
<1> HIDE DEF upTo, F, IsUpTo
<1> DEFINE Has(k) == \A i \in 1..k : items[i].merchant = m =>
                        \E j \in 1..Len(upTo[k]) : upTo[k][j] = items[i].order
           A == {k \in 0..N : upTo[k] \in Seq(Orders) /\ Has(k)}
<1>7. 0 \in A
  <2>1. upTo[0] \in Seq(Orders) /\ 0 \in 0..N
    BY <1>1, <1>6
  <2>2. Has(0)
    OBVIOUS
  <2> HIDE DEF Has
  <2> QED BY <2>1, <2>2
<1>8. ASSUME NEW k \in 1..N, k - 1 \in A PROVE k \in A
  <2>1. upTo[k - 1] \in Seq(Orders) /\ Has(k - 1) /\ items[k].order \in Orders
    BY <1>1, <1>8
  <2>2. CASE items[k].merchant = m
    <3>1. upTo[k] = Append(upTo[k - 1], items[k].order)
      BY <1>6, <2>2
    <3>2. /\ upTo[k] \in Seq(Orders) /\ Len(upTo[k]) = Len(upTo[k - 1]) + 1
          /\ upTo[k][Len(upTo[k])] = items[k].order
          /\ \A j \in 1..Len(upTo[k - 1]) : upTo[k][j] = upTo[k - 1][j]
      BY <2>1, <3>1
    <3>3. Len(upTo[k - 1]) \in Nat
      BY <2>1
    <3>4. ASSUME NEW i \in 1..k, items[i].merchant = m
          PROVE  \E j \in 1..Len(upTo[k]) : upTo[k][j] = items[i].order
      <4>1. CASE i = k
        BY <3>2, <3>3, <4>1, SMTT(30)
      <4>2. CASE i # k
        <5>1. i \in 1..k - 1
          BY <4>2
        <5>2. PICK j \in 1..Len(upTo[k - 1]) : upTo[k - 1][j] = items[i].order
          BY <2>1, <3>4, <5>1
        <5>3. j \in 1..Len(upTo[k]) /\ upTo[k][j] = items[i].order
          BY <3>2, <3>3, <5>2
        <5> QED BY <5>3
      <4> QED BY <4>1, <4>2
    <3> QED BY <3>2, <3>4
  <2>3. CASE items[k].merchant # m
    <3>1. upTo[k] = upTo[k - 1]
      BY <1>6, <2>3
    <3>2. \A i \in 1..k : items[i].merchant = m => i \in 1..k - 1
      BY <2>3
    <3>3. Has(k)
      BY <2>1, <3>1, <3>2
    <3> QED BY <2>1, <3>1, <3>3, SMTT(30)
  <2> QED BY <2>2, <2>3
<1>9. N \in A
  <2> HIDE DEF A
  <2>1. 0..N \subseteq A
    BY <1>1, <1>7, <1>8, UpTo
  <2> QED BY <1>1, <2>1
<1> QED BY <1>5, <1>9

-----------------------------------------------------------------------------
(* What every path leaves in storage *)

NewReceipt(kind, payer, it, charged, n) ==
    [kind |-> kind, order |-> it.order, payer |-> payer, merchant |-> it.merchant,
     token |-> it.token, amount |-> it.amount, fee |-> charged,
     recipient |-> IF charged > 0 THEN fee.recipient ELSE NoEntry,
     nonce |-> n, window |-> current_window_start]

NewRecord(payer, it, charged) ==
    [merchant |-> it.merchant, payer |-> payer, token |-> it.token, amount |-> it.amount,
     version |-> 0, status |-> "Completed", paid_at |-> now, refunded_amount |-> 0,
     platform_fee |-> charged]

\* The entries of two sequences, one after the other.
LEMMA Concatenated ==
    ASSUME NEW S, NEW s \in Seq(S), NEW u \in Seq(S)
    PROVE  /\ s \o u \in Seq(S)
           /\ Len(s \o u) = Len(s) + Len(u)
           /\ \A i \in 1..Len(s) : (s \o u)[i] = s[i]
           /\ \A i \in 1..Len(u) : (s \o u)[Len(s) + i] = u[i]
<1>1. Len(s) \in Nat /\ Len(u) \in Nat
  OBVIOUS
<1>2. s \o u \in Seq(S) /\ Len(s \o u) = Len(s) + Len(u)
  BY ConcatProperties, Zenon
<1>3. \A i \in 1..Len(s) + Len(u) : (s \o u)[i] = IF i <= Len(s) THEN s[i] ELSE u[i - Len(s)]
  BY ConcatProperties, Zenon
<1>4. \A i \in 1..Len(s) : (s \o u)[i] = s[i]
  BY ONLY <1>1, <1>3
<1>5. \A i \in 1..Len(u) : (s \o u)[Len(s) + i] = u[i]
  BY ONLY <1>1, <1>3
<1> QED BY <1>2, <1>4, <1>5

\* The receipts of a call follow the earlier ones, one for each item.
LEMMA ReceiptsGrow ==
    ASSUME LedgerTypeOK, NEW kind, NEW payer, NEW items, NEW charged, NEW n,
           Settles(kind, payer, items, charged, n)
    PROVE  /\ receipts' \in Seq(Receipt)
           /\ Len(receipts) \in Nat /\ Len(items) \in Nat
           /\ Len(receipts') = Len(receipts) + Len(items)
           /\ \A i \in 1..Len(receipts) : receipts'[i] = receipts[i]
           /\ \A i \in 1..Len(items) :
                 /\ receipts'[Len(receipts) + i] = NewReceipt(kind, payer, items[i], charged, n)
                 /\ NewReceipt(kind, payer, items[i], charged, n) \in Receipt
<1> DEFINE new == [i \in 1..Len(items) |-> NewReceipt(kind, payer, items[i], charged, n)]
<1>1. items \in Seq(Paid) /\ Len(items) \in Nat
  BY DEF Settles
<1>2. receipts' = receipts \o new
  BY DEF Settles, Remember, NewReceipt
<1>3. ASSUME NEW i \in 1..Len(items) PROVE NewReceipt(kind, payer, items[i], charged, n) \in Receipt
  <2>1. /\ items[i].order \in Orders /\ items[i].token \in Tokens
        /\ items[i].merchant \in Accounts /\ items[i].amount \in Nat \ {0}
    BY <1>1, ItemFacts
  <2>2. current_window_start \in 0..MaxTime
    BY WindowBounds, SMTT(30) DEF LedgerTypeOK, EnvTypeOK
  <2>3. /\ kind \in {"nonce", "signed", "batch", "request", "multisig"} /\ payer \in Accounts /\ charged \in Nat /\ n \in Nat
        /\ fee.recipient \in Accounts \cup {NoEntry}
    BY DEF Settles, LedgerTypeOK
  <2> QED BY <2>1, <2>2, <2>3 DEF NewReceipt, Receipt
<1>4. new \in Seq(Receipt) /\ Len(new) = Len(items)
  BY <1>1, <1>3
<1>5. receipts \in Seq(Receipt)
  BY DEF LedgerTypeOK
<1>6. \A i \in 1..Len(items) : new[i] = NewReceipt(kind, payer, items[i], charged, n)
  OBVIOUS
<1> HIDE DEF new
<1>7. /\ receipts' \in Seq(Receipt) /\ Len(receipts') = Len(receipts) + Len(new)
      /\ \A i \in 1..Len(receipts) : receipts'[i] = receipts[i]
      /\ \A i \in 1..Len(new) : receipts'[Len(receipts) + i] = new[i]
  <2>1. /\ receipts \o new \in Seq(Receipt)
        /\ Len(receipts \o new) = Len(receipts) + Len(new)
        /\ \A i \in 1..Len(receipts) : (receipts \o new)[i] = receipts[i]
        /\ \A i \in 1..Len(new) : (receipts \o new)[Len(receipts) + i] = new[i]
    <3>1. receipts \in Seq(Receipt) /\ new \in Seq(Receipt)
      BY <1>4, <1>5
    <3> QED BY ONLY <3>1, Concatenated
  <2> QED BY <1>2, <2>1
<1> QED BY <1>1, <1>3, <1>4, <1>5, <1>6, <1>7

\* The record of an order of the call, and of every other order.
LEMMA OrdersStored ==
    ASSUME NEW kind, NEW payer, NEW items, NEW charged, NEW n,
           Settles(kind, payer, items, charged, n), NEW o \in Orders
    PROVE  \/ /\ payment'[o] = payment[o]
              /\ \A i \in 1..Len(items) : items[i].order # o
           \/ \E i \in 1..Len(items) :
                 /\ items[i].order = o
                 /\ payment'[o] = NewRecord(payer, items[i], charged)
<1>1. StorePayments(payer, items, charged)
  BY DEF Settles
<1>2. CASE \E i \in 1..Len(items) : items[i].order = o
  <2> DEFINE c == CHOOSE i \in 1..Len(items) : items[i].order = o
  <2>1. c \in 1..Len(items) /\ items[c].order = o
    BY <1>2
  <2>2. payment'[o] = NewRecord(payer, items[c], charged)
    BY <1>1, <1>2 DEF StorePayments, NewRecord
  <2> HIDE DEF c
  <2> QED BY <2>1, <2>2
<1>3. CASE ~ \E i \in 1..Len(items) : items[i].order = o
  BY <1>1, <1>3 DEF StorePayments
<1> QED BY <1>2, <1>3

\* Records stay what storage can hold.
LEMMA SettlesTypes ==
    ASSUME LedgerTypeOK, NEW kind, NEW payer, NEW items, NEW charged, NEW n,
           Settles(kind, payer, items, charged, n)
    PROVE  payment' \in [Orders -> PaymentOrder \cup {NoEntry}]
<1>1. items \in Seq(Paid) /\ payer \in Accounts /\ charged \in Nat
  BY DEF Settles
<1>2. payment' = [o \in Orders |-> payment'[o]]
  BY DEF Settles, StorePayments
<1>3. ASSUME NEW o \in Orders PROVE payment'[o] \in PaymentOrder \cup {NoEntry}
  <2>1. payment[o] \in PaymentOrder \cup {NoEntry} /\ now \in 0..MaxTime
    BY DEF LedgerTypeOK, EnvTypeOK
  <2>2. ASSUME NEW i \in 1..Len(items)
        PROVE  NewRecord(payer, items[i], charged) \in PaymentOrder
    <3>1. /\ items[i].token \in Tokens /\ items[i].merchant \in Accounts
          /\ items[i].amount \in Nat \ {0}
      BY <1>1, ItemFacts
    <3> QED BY <1>1, <2>1, <3>1 DEF NewRecord, PaymentOrder, PaymentStatus
  <2>3. \/ payment'[o] = payment[o]
        \/ \E i \in 1..Len(items) :
              payment'[o] = NewRecord(payer, items[i], charged)
    BY OrdersStored
  <2> QED BY <2>1, <2>2, <2>3
<1> QED BY <1>2, <1>3

\* Histories stay sequences of orders, whether a full one fails the call or not.
LEMMA IndexTypes ==
    ASSUME LedgerTypeOK, NEW payer \in Accounts, NEW items \in Seq(Paid),
           AddToIndexes(payer, items) \/ AddToIndexesIfRoom(payer, items)
    PROVE  /\ merchant_ids' \in [Accounts -> Seq(Orders)]
           /\ payer_ids' \in [Accounts -> Seq(Orders)]
<1>1. merchant_ids' \in [Accounts -> Seq(Orders)]
  <2>1. ASSUME NEW m \in Accounts
        PROVE  /\ merchant_ids[m] \in Seq(Orders)
               /\ merchant_ids[m] \o OrdersFor(items, m) \in Seq(Orders)
    <3>1. merchant_ids[m] \in Seq(Orders) /\ OrdersFor(items, m) \in Seq(Orders)
      BY OrdersForFacts, SMTT(30) DEF LedgerTypeOK
    <3> QED BY <3>1, SMTT(30)
  <2> QED BY <2>1 DEF AddToIndexes, AddToIndexesIfRoom
<1>2. payer_ids' \in [Accounts -> Seq(Orders)]
  <2> DEFINE longer == payer_ids[payer] \o OrdersOf(items)
  <2>1. OrdersOf(items) \in Seq(Orders) /\ payer_ids[payer] \in Seq(Orders)
    BY ItemFacts, SMTT(30) DEF OrdersOf, LedgerTypeOK
  <2>2. longer \in Seq(Orders)
    BY <2>1
  <2>3. \/ payer_ids' = [payer_ids EXCEPT ![payer] = longer]
        \/ payer_ids' = [payer_ids EXCEPT ![payer] = payer_ids[payer]]
    BY DEF AddToIndexes, AddToIndexesIfRoom
  <2>4. payer_ids \in [Accounts -> Seq(Orders)]
    BY DEF LedgerTypeOK
  <2> HIDE DEF longer
  <2> QED BY <2>1, <2>2, <2>3, <2>4
<1> QED BY <1>1, <1>2

\* Records, histories and totals stay what storage can hold.
LEMMA PaysTypes ==
    ASSUME LedgerTypeOK, NEW kind, NEW payer, NEW items, NEW charged, NEW n,
           Pays(kind, payer, items, charged, n)
    PROVE  /\ payment' \in [Orders -> PaymentOrder \cup {NoEntry}]
           /\ merchant_ids' \in [Accounts -> Seq(Orders)]
           /\ payer_ids' \in [Accounts -> Seq(Orders)]
           /\ merchant_stats' \in [Merchants -> Stats]
           /\ global_stats' \in Stats
<1>1. /\ items \in Seq(Paid) /\ payer \in Accounts /\ charged \in Nat
      /\ AddToIndexes(payer, items) /\ AddToStats(items)
  BY DEF Pays, Settles
<1>2. payment' \in [Orders -> PaymentOrder \cup {NoEntry}]
  BY SettlesTypes DEF Pays
<1>3. merchant_ids' \in [Accounts -> Seq(Orders)] /\ payer_ids' \in [Accounts -> Seq(Orders)]
  BY <1>1, IndexTypes
<1>4. merchant_stats' \in [Merchants -> Stats]
  <2>1. ASSUME NEW m \in Merchants
        PROVE  [merchant_stats[m] EXCEPT !.total_payments = @ + CountOf(items, m),
                                         !.total_volume = saturating_add(@, Volume(items, m))]
                 \in Stats
    <3> DEFINE count == CountOf(items, m)
               volume == Volume(items, m)
    <3>1. count \in Nat /\ volume \in Nat
      BY <1>1, SumTypes
    <3>2. merchant_stats[m] \in Stats
      BY DEF LedgerTypeOK
    <3> HIDE DEF count, volume
    <3>3. [merchant_stats[m] EXCEPT !.total_payments = @ + count,
                                    !.total_volume = saturating_add(@, volume)] \in Stats
      BY <3>1, <3>2, StatsAdd
    <3> QED BY <3>3 DEF count, volume
  <2> QED BY <1>1, <2>1 DEF AddToStats
<1>5. global_stats' \in Stats
  <2> DEFINE sum == AmountSum(items)
  <2>1. sum \in Nat
    BY <1>1, SumTypes
  <2>2. global_stats \in Stats /\ Len(items) \in Nat
    BY <1>1 DEF LedgerTypeOK
  <2>3. global_stats' = [global_stats EXCEPT !.total_payments = @ + Len(items),
                                             !.total_volume = saturating_add(@, sum)]
    BY <1>1 DEF AddToStats
  <2> HIDE DEF sum
  <2> QED BY <2>1, <2>2, <2>3, StatsAdd
<1> QED BY <1>2, <1>3, <1>4, <1>5

-----------------------------------------------------------------------------
(* The paths *)

\* An item of a positive amount is one that Payable lets through.
LEMMA ItemPaid ==
    \A it \in Items : it.amount > 0 => it \in Paid
<1> SUFFICES ASSUME NEW it \in Items, it.amount > 0 PROVE it \in Paid
  OBVIOUS
<1>1. it.amount \in Int
  BY DEF Items
<1>2. it.amount \in Nat \ {0}
  BY <1>1
<1> QED BY <1>2 DEF Items, Paid

\* What the type invariant says of balances and of the fee.
LEMMA MoneyTypes ==
    ASSUME LedgerTypeOK
    PROVE  /\ now \in 0..MaxTime
           /\ balance \in [Tokens -> [Holders -> Nat]]
           /\ fee \in [bps : 0..10000, recipient : Accounts \cup {NoEntry}]
           /\ fee.recipient \in Accounts \cup {NoEntry}
BY DEF LedgerTypeOK, EnvTypeOK

\* The nonce path is one of them.
LEMMA NoncePays ==
    ASSUME LedgerTypeOK, NEW p \in Accounts, NEW it \in Items, NEW n \in 0..MaxPayments,
           process_payment_with_nonce(p, it, n)
    PROVE  /\ it \in Paid /\ <<it>> \in Seq(Paid)
           /\ platform_fee(it.amount) \in 0..it.amount
           /\ Pays("nonce", p, <<it>>, platform_fee(it.amount), n)
<1>1. it.amount > 0
  BY DEF process_payment_with_nonce, Payable, require_positive
<1>2. it \in Paid
  BY <1>1, ItemPaid
<1>3. it.amount \in Nat
  BY <1>2, SMTT(30) DEF Paid
<1>4. platform_fee(it.amount) \in 0..it.amount
  BY <1>3, FeeBounds, MoneyTypes
<1>5. <<it>> \in Seq(Paid)
  BY <1>2
<1> QED BY <1>2, <1>3, <1>4, <1>5 DEF process_payment_with_nonce, Pays, Settles, RecordPayments

\* The signed path is one of them.
LEMMA SignedPays ==
    ASSUME LedgerTypeOK, NEW p \in Accounts, NEW it \in Items, NEW n \in 0..MaxPayments, NEW ts,
           process_payment_with_signature(p, it, n, ts)
    PROVE  /\ it \in Paid /\ <<it>> \in Seq(Paid)
           /\ platform_fee(it.amount) \in 0..it.amount
           /\ Pays("signed", p, <<it>>, platform_fee(it.amount), n)
<1>1. it.amount > 0
  BY DEF process_payment_with_signature, Payable, require_positive
<1>2. it \in Paid
  BY <1>1, ItemPaid
<1>3. it.amount \in Nat
  BY <1>2, SMTT(30) DEF Paid
<1>4. platform_fee(it.amount) \in 0..it.amount
  BY <1>3, FeeBounds, MoneyTypes
<1>5. <<it>> \in Seq(Paid)
  BY <1>2
<1> QED BY <1>2, <1>3, <1>4, <1>5 DEF process_payment_with_signature, Pays, Settles, RecordPayments

\* The batch path is one of them.
LEMMA BatchPays ==
    ASSUME LedgerTypeOK, NEW p \in Accounts, NEW items \in Batches, batch_payment(p, items)
    PROVE  /\ items \in Seq(Paid)
           /\ Pays("batch", p, items, 0, 0)
<1>1. PICK k \in 1..MaxBatchSize + 1 : items \in [1..k -> Items]
  BY DEF Batches
<1>2. k \in Nat /\ items \in Seq(Items) /\ Len(items) = k
  BY <1>1
<1>3. ASSUME NEW i \in 1..k PROVE items[i] \in Paid
  <2>1. items[i].amount > 0
    BY <1>2 DEF batch_payment, Payable, require_positive
  <2>2. items[i] \in Items
    BY <1>1
  <2> QED BY <2>1, <2>2, ItemPaid
<1>4. items \in Seq(Paid)
  <2>1. items \in [1..k -> Paid]
    BY <1>1, <1>3
  <2> QED BY <1>2, <2>1
<1> QED BY <1>4 DEF batch_payment, Pays, Settles, RecordPayments

\* A single order moves what its receipt says and leaves balances natural.
LEMMA FeePaid ==
    ASSUME LedgerTypeOK, NEW p \in Accounts, NEW it \in Paid, NEW c \in 0..it.amount,
           PayWithFee(p, it, c), NEW kind, NEW n
    PROVE  /\ balance' \in [Tokens -> [Holders -> Nat]]
           /\ (c > 0 => fee.recipient # NoEntry) =>
                 \A a \in Accounts, t \in Tokens :
                    balance'[t][a] = balance[t][a] + Effect(NewReceipt(kind, p, it, c, n), a, t)
<1> DEFINE tok == it.token
           net == it.amount - c
           paid == Moved(balance[tok], p, it.merchant, net)
           feePaid == c > 0 /\ fee.recipient # NoEntry
           after == IF feePaid THEN Moved(paid, p, fee.recipient, c) ELSE paid
<1>1. /\ it.amount \in Nat /\ c \in Nat /\ net \in Nat /\ tok \in Tokens
      /\ it.merchant \in Accounts /\ Accounts \subseteq Holders
  BY DEF Paid, Holders
<1>2. /\ balance \in [Tokens -> [Holders -> Nat]] /\ balance[tok] \in [Holders -> Nat]
      /\ fee.recipient \in Accounts \cup {NoEntry}
  BY <1>1, MoneyTypes
<1>3. /\ balance[tok][p] >= net
      /\ feePaid => paid[p] >= c
      /\ balance' = [balance EXCEPT ![tok] = after]
  BY DEF PayWithFee
<1>4. paid \in [Holders -> Nat]
  <2>1. ASSUME NEW h \in Holders PROVE paid[h] \in Nat
    <3>1. balance[tok][h] \in Nat /\ balance[tok][p] >= net
      BY <1>2, <1>3
    <3>2. paid[h] = balance[tok][h] - (IF h = p THEN net ELSE 0)
                                    + (IF h = it.merchant THEN net ELSE 0)
      BY DEF Moved
    <3> HIDE DEF paid, net, tok
    <3> QED BY <1>1, <3>1, <3>2
  <2> QED BY <2>1 DEF Moved
<1>5. after \in [Holders -> Nat]
  <2> HIDE DEF paid
  <2>1. CASE feePaid
    <3>1. ASSUME NEW h \in Holders PROVE Moved(paid, p, fee.recipient, c)[h] \in Nat
      <4>1. paid[h] \in Nat /\ paid[p] >= c /\ p \in Holders
        BY <1>1, <1>3, <1>4, <2>1
      <4>2. Moved(paid, p, fee.recipient, c)[h]
              = paid[h] - (IF h = p THEN c ELSE 0) + (IF h = fee.recipient THEN c ELSE 0)
        BY DEF Moved
      <4> QED BY <1>1, <4>1, <4>2
    <3> QED BY <2>1, <3>1 DEF Moved
  <2>2. CASE ~feePaid
    BY <1>4, <2>2
  <2> QED BY <2>1, <2>2
<1>6. balance' \in [Tokens -> [Holders -> Nat]]
  <2> HIDE DEF after
  <2> QED BY <1>1, <1>2, <1>3, <1>5
<1>7. ASSUME c > 0 => fee.recipient # NoEntry, NEW a \in Accounts, NEW t \in Tokens
      PROVE  balance'[t][a] = balance[t][a] + Effect(NewReceipt(kind, p, it, c, n), a, t)
  <2> DEFINE r == NewReceipt(kind, p, it, c, n)
  <2>1. /\ r.token = tok /\ r.merchant = it.merchant /\ r.amount = it.amount /\ r.fee = c
        /\ r.payer = p /\ r.recipient = IF c > 0 THEN fee.recipient ELSE NoEntry
    BY DEF NewReceipt
  <2>2. balance[t][a] \in Nat
    BY <1>1, <1>2
  <2> HIDE DEF r
  <2>3. CASE t # tok
    <3>1. balance'[t] = balance[t]
      BY <1>2, <1>3, <2>3
    <3>2. Effect(r, a, t) = 0
      BY <2>1, <2>3 DEF Effect
    <3> QED BY <2>2, <3>1, <3>2 DEF r
  <2>4. CASE t = tok
    <3>1. balance'[t][a] = after[a]
      BY <1>1, <1>2, <1>3, <2>4
    <3>2. paid[a] = balance[t][a] - (IF a = p THEN net ELSE 0) + (IF a = it.merchant THEN net ELSE 0)
      BY <1>1, <2>4 DEF Moved
    <3>3. after[a] = paid[a] - (IF a = p THEN c ELSE 0) + (IF c > 0 /\ fee.recipient = a THEN c ELSE 0)
      <4> HIDE DEF paid
      <4>1. CASE c > 0
        <5>1. after = Moved(paid, p, fee.recipient, c)
          BY <1>7, <4>1
        <5> QED BY <1>1, <4>1, <5>1 DEF Moved
      <4>2. CASE c = 0
        <5>1. after[a] = paid[a] /\ paid[a] \in Nat
          BY <1>1, <1>4, <4>2
        <5> QED BY <4>2, <5>1
      <4> QED BY <1>1, <4>1, <4>2
    <3>4. Effect(r, a, t) = (IF it.merchant = a THEN net ELSE 0)
                              + (IF c > 0 /\ fee.recipient = a THEN c ELSE 0)
                              - (IF p = a THEN it.amount ELSE 0)
      BY <1>1, <2>1, <2>4 DEF Effect
    <3> HIDE DEF after, paid
    <3>5. balance'[t][a] = balance[t][a] + Effect(r, a, t)
      <4> DEFINE spent == IF a = p THEN net ELSE 0
                 got == IF a = it.merchant THEN net ELSE 0
                 levied == IF a = p THEN c ELSE 0
                 earned == IF c > 0 /\ fee.recipient = a THEN c ELSE 0
                 given == IF p = a THEN it.amount ELSE 0
      <4>1. /\ spent \in Int /\ got \in Int /\ levied \in Int /\ earned \in Int /\ given \in Int
            /\ given = spent + levied
        BY <1>1
      <4>2. /\ paid[a] = balance[t][a] - spent + got
            /\ after[a] = paid[a] - levied + earned
        BY <3>2, <3>3
      <4>3. Effect(r, a, t) = got + earned - given
        BY <3>4
      <4> HIDE DEF spent, got, levied, earned, given, net
      <4> QED BY <2>2, <3>1, <4>1, <4>2, <4>3
    <3> QED BY <3>5 DEF r
  <2> QED BY <2>3, <2>4
<1> QED BY <1>6, <1>7

-----------------------------------------------------------------------------
(* The grouped transfers of a batch *)

\* A transfer that the sender can pay leaves one token's accounts natural.
LEMMA MovedNatural ==
    \A b \in [Holders -> Nat] : \A from, to \in Holders : \A v \in Nat :
        b[from] >= v => Moved(b, from, to, v) \in [Holders -> Nat]
<1> SUFFICES ASSUME NEW b \in [Holders -> Nat], NEW from \in Holders, NEW to \in Holders,
                    NEW v \in Nat, b[from] >= v
             PROVE  Moved(b, from, to, v) \in [Holders -> Nat]
  OBVIOUS
<1>1. ASSUME NEW h \in Holders PROVE Moved(b, from, to, v)[h] \in Nat
  <2>1. Moved(b, from, to, v)[h] = b[h] - (IF h = from THEN v ELSE 0) + (IF h = to THEN v ELSE 0)
    BY DEF Moved
  <2> QED BY <2>1
<1> QED BY <1>1 DEF Moved

SameGroup(items, i, j) ==
    <<items[i].token, items[i].merchant>> = <<items[j].token, items[j].merchant>>

\* What serving the pair of item k moves on behalf of item j.
Share(items, payer, j, t, a) ==
    IF items[j].token = t
    THEN (IF items[j].merchant = a THEN items[j].amount ELSE 0)
         - (IF payer = a THEN items[j].amount ELSE 0)
    ELSE 0

\* A pair is owed the amounts of its items, a natural.
LEMMA GroupTotalType ==
    ASSUME NEW items \in Seq(Paid), NEW k \in 1..Len(items)
    PROVE  GroupTotal(items, k) \in Nat
<1> DEFINE g == [j \in 1..Len(items) |->
                   IF <<items[j].token, items[j].merchant>> = <<items[k].token, items[k].merchant>>
                   THEN items[j].amount ELSE 0]
<1>1. Len(items) \in Nat /\ \A j \in 1..Len(items) : items[j].amount \in Nat
  BY ItemFacts
<1>2. g \in [1..Len(items) -> Nat]
  BY <1>1
<1>3. Total(g, Len(items)) \in Nat
  <2> HIDE DEF g
  <2> QED BY <1>1, <1>2, TotalNatural
<1> QED BY <1>3 DEF GroupTotal

\* The transfer for a pair moves the shares of the pair's items.
LEMMA GroupMoves ==
    ASSUME NEW items \in Seq(Paid), NEW k \in 1..Len(items), NEW payer \in Accounts,
           NEW a \in Accounts, NEW t \in Tokens
    PROVE  LET d == [j \in 1..Len(items) |->
                       IF SameGroup(items, j, k) THEN Share(items, payer, j, t, a) ELSE 0]
           IN  /\ d \in [1..Len(items) -> Int]
               /\ Total(d, Len(items)) =
                    IF items[k].token = t
                    THEN (IF items[k].merchant = a THEN GroupTotal(items, k) ELSE 0)
                         - (IF payer = a THEN GroupTotal(items, k) ELSE 0)
                    ELSE 0
<1> DEFINE N == Len(items)
           d == [j \in 1..N |-> IF SameGroup(items, j, k) THEN Share(items, payer, j, t, a) ELSE 0]
           g == [j \in 1..N |-> IF SameGroup(items, j, k) THEN items[j].amount ELSE 0]
           zero == [j \in 1..N |-> 0]
<1>1. N \in Nat /\ \A j \in 1..N : items[j].amount \in Nat
  BY ItemFacts
<1>2. d \in [1..N -> Int] /\ g \in [1..N -> Int] /\ zero \in [1..N -> Int]
  BY <1>1 DEF Share
<1>3. GroupTotal(items, k) = Total(g, N)
  BY DEF GroupTotal, SameGroup
<1>4. Total(zero, N) = 0
  <2>1. \A j \in 1..N : zero[j] = 0
    OBVIOUS
  <2> HIDE DEF zero, N
  <2> QED BY <1>1, <1>2, <2>1, TotalZero
<1>5. Total(g, N) \in Int /\ Total(d, N) \in Int
  <2> HIDE DEF d, g, N
  <2> QED BY <1>1, <1>2, TotalType
<1>6. ASSUME items[k].token # t \/ (items[k].merchant = a <=> payer = a)
      PROVE  Total(d, N) = 0
  <2>1. ASSUME NEW j \in 1..N PROVE d[j] = 0
    BY <1>1, <1>6 DEF SameGroup, Share
  <2> HIDE DEF d, N
  <2> QED BY <1>1, <1>2, <2>1, TotalZero
<1>7. CASE items[k].token = t /\ items[k].merchant = a /\ payer # a
  <2>1. \A j \in 1..N : d[j] = g[j]
    BY <1>1, <1>7 DEF SameGroup, Share
  <2>2. d = g
    <3>1. d = [j \in 1..N |-> d[j]] /\ g = [j \in 1..N |-> g[j]]
      OBVIOUS
    <3> HIDE DEF d, g
    <3> QED BY <2>1, <3>1
  <2> HIDE DEF d, g
  <2> QED BY <1>3, <1>2, <1>5, <1>7, <2>2, SMTT(30) DEF d
<1>8. CASE items[k].token = t /\ items[k].merchant # a /\ payer = a
  <2>1. \A j \in 1..N : zero[j] = d[j] + g[j]
    BY <1>1, <1>8 DEF SameGroup, Share
  <2>2. Total(zero, N) = Total(d, N) + Total(g, N)
    <3> HIDE DEF d, g, zero, N
    <3> QED BY <1>1, <1>2, <2>1, TotalPointwise
  <2>3. Total(d, N) = 0 - Total(g, N)
    BY <1>4, <1>5, <2>2
  <2> HIDE DEF d, g
  <2> QED BY <1>2, <1>3, <1>5, <1>8, <2>3 DEF d
<1> HIDE DEF g, N, zero
<1>9. Total(d, N) = IF items[k].token = t
                    THEN (IF items[k].merchant = a THEN GroupTotal(items, k) ELSE 0)
                         - (IF payer = a THEN GroupTotal(items, k) ELSE 0)
                    ELSE 0
  <2> HIDE DEF d
  <2>1. GroupTotal(items, k) \in Int
    BY <1>3, <1>5
  <2> QED BY <1>5, <1>6, <1>7, <1>8, <2>1 DEF d, N
<1> QED BY <1>2, <1>9 DEF N

\* The accounts after each item of a batch, as phase 3 serves the pairs.
ServesGroups(payer, items, after) ==
    /\ after \in [0..Len(items) -> [Tokens -> [Holders -> Int]]]
    /\ after[0] = balance
    /\ \A i \in 1..Len(items) :
          /\ FirstOfGroup(items, i) =>
                /\ after[i - 1][items[i].token][payer] >= GroupTotal(items, i)
                /\ after[i] = [after[i - 1] EXCEPT ![items[i].token] =
                       Moved(after[i - 1][items[i].token], payer, items[i].merchant,
                             GroupTotal(items, i))]
          /\ ~FirstOfGroup(items, i) => after[i] = after[i - 1]
    /\ balance' = after[Len(items)]

\* PayGroups is such a run.
LEMMA PayGroupsServes ==
    ASSUME LedgerTypeOK, NEW payer \in Accounts, NEW items \in Seq(Paid), PayGroups(payer, items)
    PROVE  \E after : ServesGroups(payer, items, after)
<1> DEFINE N == Len(items)
           S == [Tokens -> [Holders -> Int]]
           Served(x, i) == [x EXCEPT ![items[i].token] =
                              Moved(@, payer, items[i].merchant, GroupTotal(items, i))]
           F == [i \in 1..N |-> [x \in S |-> IF FirstOfGroup(items, i) THEN Served(x, i) ELSE x]]
           Is(s) == s = [i \in 0..N |-> IF i = 0 THEN balance
                                        ELSE IF FirstOfGroup(items, i)
                                             THEN Served(s[i - 1], i) ELSE s[i - 1]]
           after == CHOOSE s : Is(s)
<1>1. N \in Nat /\ balance \in S
  <2>1. balance \in [Tokens -> [Holders -> Nat]]
    BY MoneyTypes
  <2>2. balance \in S
    BY <2>1
  <2> QED BY <2>2, ItemFacts
<1>2. ASSUME NEW i \in 1..N, NEW x \in S PROVE Served(x, i) \in S
  <2> DEFINE v == GroupTotal(items, i)
             tok == items[i].token
             b == Moved(x[tok], payer, items[i].merchant, v)
  <2>1. v \in Int /\ tok \in Tokens
    BY GroupTotalType, ItemFacts
  <2>2. b \in [Holders -> Int]
    <3> HIDE DEF v, tok
    <3>1. x[tok] \in [Holders -> Int]
      BY <2>1
    <3> QED BY <2>1, <3>1 DEF Moved
  <2>3. Served(x, i) = [x EXCEPT ![tok] = b]
    OBVIOUS
  <2> HIDE DEF b, tok, Served
  <2> QED BY <2>1, <2>2, <2>3
<1>3. F \in [1..N -> [S -> S]]
  <2> HIDE DEF Served, S
  <2> QED BY <1>2
<1>4. PICK s \in [0..N -> S] : s[0] = balance /\ \A i \in 1..N : s[i] = F[i][s[i - 1]]
  <2>1. \E s : Iterates(s, N, S, F, balance)
    <3> HIDE DEF N, S, F
    <3> QED BY <1>1, <1>3, IterationExists
  <2> HIDE DEF N, S, F
  <2> QED BY <2>1 DEF Iterates
<1>5. Is(s)
  <2>1. ASSUME NEW i \in 0..N
        PROVE  s[i] = IF i = 0 THEN balance
                      ELSE IF FirstOfGroup(items, i) THEN Served(s[i - 1], i) ELSE s[i - 1]
    <3> HIDE DEF S, Served, N
    <3>1. CASE i = 0
      BY <1>4, <3>1
    <3>2. CASE i # 0
      <4>1. i \in 1..N /\ s[i - 1] \in S
        BY <1>1, <1>4, <3>2
      <4> QED BY <1>4, <3>2, <4>1
    <3> QED BY <3>1, <3>2
  <2>2. s = [i \in 0..N |-> s[i]]
    BY <1>4
  <2> HIDE DEF S, Served, F, N
  <2> QED BY <2>1, <2>2
<1>6. Is(after)
  <2> HIDE DEF Is
  <2> QED BY <1>5
<1>7. /\ \A i \in 1..N : FirstOfGroup(items, i) =>
            after[i - 1][items[i].token][payer] >= GroupTotal(items, i)
      /\ balance' = after[N]
  BY DEF PayGroups
<1>8. after[0] = balance /\ \A i \in 1..N : after[i] = IF FirstOfGroup(items, i)
                                                      THEN Served(after[i - 1], i)
                                                      ELSE after[i - 1]
  <2>1. after = [i \in 0..N |-> IF i = 0 THEN balance
                                ELSE IF FirstOfGroup(items, i)
                                     THEN Served(after[i - 1], i) ELSE after[i - 1]]
    BY <1>6
  <2> HIDE DEF after, Served, N
  <2>2. after[0] = balance
    BY <1>1, <2>1
  <2>3. ASSUME NEW i \in 1..N
        PROVE  after[i] = IF FirstOfGroup(items, i) THEN Served(after[i - 1], i) ELSE after[i - 1]
    <3>1. i \in 0..N /\ i # 0
      BY <1>1
    <3> QED BY <2>1, <3>1
  <2> QED BY <2>2, <2>3, SMTT(30)
<1>9. after \in [0..N -> S]
  <2> DEFINE A == {i \in 0..N : after[i] \in S}
  <2> HIDE DEF after, Served, S, N
  <2>1. 0 \in A
    BY <1>1, <1>8
  <2>2. ASSUME NEW i \in 1..N, i - 1 \in A PROVE i \in A
    BY <1>2, <1>8, <2>2
  <2>3. 0..N \subseteq A
    <3> HIDE DEF A
    <3> QED BY <1>1, <2>1, <2>2, UpTo
  <2>4. after = [i \in 0..N |-> after[i]]
    <3> USE DEF Is
    <3> QED BY <1>6
  <2> QED BY <2>3, <2>4
<1>10. ServesGroups(payer, items, after)
  <2> HIDE DEF after
  <2> QED BY <1>7, <1>8, <1>9 DEF ServesGroups
<1> QED BY <1>10

\* The pair of item j is one of the pairs of the first k items.
ServedBy(items, k, j) == \E i \in 1..k : SameGroup(items, i, j)

ServedShare(items, payer, k, j, t, a) ==
    IF ServedBy(items, k, j) THEN Share(items, payer, j, t, a) ELSE 0

\* Item k adds its pair when it is the first of it, and nothing when it is not.
LEMMA ServedStep ==
    ASSUME NEW items \in Seq(Paid), NEW k \in 1..Len(items), NEW j \in 1..Len(items)
    PROVE  /\ FirstOfGroup(items, k) =>
                 /\ SameGroup(items, j, k) => ServedBy(items, k, j) /\ ~ServedBy(items, k - 1, j)
                 /\ ~SameGroup(items, j, k) => (ServedBy(items, k, j) <=> ServedBy(items, k - 1, j))
           /\ ~FirstOfGroup(items, k) => (ServedBy(items, k, j) <=> ServedBy(items, k - 1, j))
<1>1. Len(items) \in Nat /\ k - 1 \in Nat
  BY ItemFacts
<1>2. ServedBy(items, k, j) <=> ServedBy(items, k - 1, j) \/ SameGroup(items, k, j)
  BY <1>1 DEF ServedBy
<1>3. SameGroup(items, j, k) <=> SameGroup(items, k, j)
  BY DEF SameGroup
<1>4. SameGroup(items, j, k) => (ServedBy(items, k - 1, j) <=> ~FirstOfGroup(items, k))
  BY <1>1 DEF ServedBy, FirstOfGroup, SameGroup
<1> QED BY <1>2, <1>3, <1>4

\* A batch moves, in sum, what its receipts say, and leaves balances natural.
LEMMA BatchMoves ==
    ASSUME LedgerTypeOK, NEW payer \in Accounts, NEW items \in Seq(Paid), PayGroups(payer, items)
    PROVE  /\ balance' \in [Tokens -> [Holders -> Nat]]
           /\ \A a \in Accounts, t \in Tokens :
                 balance'[t][a] = balance[t][a]
                     + Total([j \in 1..Len(items) |-> Share(items, payer, j, t, a)], Len(items))
<1> DEFINE N == Len(items)
<1>1. /\ N \in Nat /\ Accounts \subseteq Holders
      /\ \A i \in 1..N : items[i].merchant \in Holders /\ items[i].token \in Tokens
  BY ItemFacts DEF Holders
<1>2. PICK after : ServesGroups(payer, items, after)
  BY PayGroupsServes
<1>3. balance \in [Tokens -> [Holders -> Nat]]
  BY MoneyTypes
<1>4. balance' \in [Tokens -> [Holders -> Nat]]
  <2> DEFINE A == {k \in 0..N : after[k] \in [Tokens -> [Holders -> Nat]]}
  <2>1. 0 \in A
    BY <1>1, <1>2, <1>3 DEF ServesGroups
  <2>2. ASSUME NEW k \in 1..N, k - 1 \in A PROVE k \in A
    <3> DEFINE tok == items[k].token
               v == GroupTotal(items, k)
               b == Moved(after[k - 1][tok], payer, items[k].merchant, v)
    <3>1. tok \in Tokens /\ v \in Nat /\ after[k - 1] \in [Tokens -> [Holders -> Nat]]
      BY <1>1, <2>2, GroupTotalType
    <3>2. CASE FirstOfGroup(items, k)
      <4>1. after[k - 1][tok][payer] >= v /\ after[k] = [after[k - 1] EXCEPT ![tok] = b]
        BY <1>2, <3>2 DEF ServesGroups
      <4>2. b \in [Holders -> Nat]
        <5> HIDE DEF tok, v
        <5> QED BY <1>1, <3>1, <4>1, MovedNatural
      <4>3. after[k] \in [Tokens -> [Holders -> Nat]]
        <5> HIDE DEF b, tok
        <5> QED BY <3>1, <4>1, <4>2
      <4> QED BY <1>1, <4>3
    <3>3. CASE ~FirstOfGroup(items, k)
      <4>1. after[k] = after[k - 1]
        BY <1>2, <3>3 DEF ServesGroups
      <4> QED BY <1>1, <3>1, <4>1
    <3> QED BY <3>2, <3>3
  <2>3. N \in A
    <3> HIDE DEF A
    <3>1. 0..N \subseteq A
      BY <1>1, <2>1, <2>2, UpTo
    <3> QED BY <1>1, <3>1
  <2> QED BY <1>2, <2>3 DEF ServesGroups
<1>5. ASSUME NEW a \in Accounts, NEW t \in Tokens
      PROVE  balance'[t][a] = balance[t][a]
                 + Total([j \in 1..N |-> Share(items, payer, j, t, a)], N)
  <2> DEFINE served(k) == [j \in 1..N |-> ServedShare(items, payer, k, j, t, a)]
             A == {k \in 0..N : after[k][t][a] = balance[t][a] + Total(served(k), N)}
  <2>1. ASSUME NEW k PROVE served(k) \in [1..N -> Int] /\ Total(served(k), N) \in Int
    <3>1. \A j \in 1..N : items[j].amount \in Nat
      BY ItemFacts
    <3>2. served(k) \in [1..N -> Int]
      BY <3>1 DEF ServedShare, Share
    <3> HIDE DEF served
    <3> QED BY <1>1, <3>2, TotalType
  <2>2. 0 \in A
    <3>1. \A j \in 1..N : served(0)[j] = 0
      BY DEF ServedShare, ServedBy
    <3>2. Total(served(0), N) = 0
      <4> HIDE DEF served
      <4> QED BY <1>1, <2>1, <3>1, TotalZero
    <3>3. after[0][t][a] = balance[t][a] /\ balance[t][a] \in Nat /\ 0 \in 0..N
      BY <1>1, <1>2, <1>3 DEF ServesGroups
    <3> HIDE DEF served
    <3> QED BY <3>2, <3>3
  <2>3. ASSUME NEW k \in 1..N, k - 1 \in A PROVE k \in A
    <3>1. /\ after[k - 1][t][a] = balance[t][a] + Total(served(k - 1), N)
          /\ after[k - 1] \in [Tokens -> [Holders -> Int]] /\ k \in 0..N
      BY <1>1, <1>2, <2>3 DEF ServesGroups
    <3>2. CASE FirstOfGroup(items, k)
      <4> DEFINE d == [j \in 1..N |-> IF SameGroup(items, j, k)
                                      THEN Share(items, payer, j, t, a) ELSE 0]
                 tok == items[k].token
                 v == GroupTotal(items, k)
      <4>1. /\ d \in [1..N -> Int]
            /\ Total(d, N) = IF tok = t
                             THEN (IF items[k].merchant = a THEN v ELSE 0) - (IF payer = a THEN v ELSE 0)
                             ELSE 0
        BY GroupMoves
      <4>2. ASSUME NEW j \in 1..N PROVE served(k)[j] = served(k - 1)[j] + d[j]
        <5>1. Share(items, payer, j, t, a) \in Int
          BY ItemFacts DEF Share
        <5>2. /\ SameGroup(items, j, k) => ServedBy(items, k, j) /\ ~ServedBy(items, k - 1, j)
              /\ ~SameGroup(items, j, k) => (ServedBy(items, k, j) <=> ServedBy(items, k - 1, j))
          BY <3>2, ServedStep
        <5> QED BY <5>1, <5>2 DEF ServedShare
      <4>3. Total(served(k), N) = Total(served(k - 1), N) + Total(d, N)
        <5> HIDE DEF served, d
        <5> QED BY <1>1, <2>1, <4>1, <4>2, TotalPointwise
      <4>4. after[k] = [after[k - 1] EXCEPT ![tok] =
                          Moved(after[k - 1][tok], payer, items[k].merchant, v)]
        BY <1>2, <3>2 DEF ServesGroups
      <4>5. tok \in Tokens /\ v \in Nat /\ a \in Holders
        BY <1>1, GroupTotalType
      <4>6. after[k][t][a] = after[k - 1][t][a] + Total(d, N)
        <5> HIDE DEF d, tok, v
        <5>1. after[k - 1][t][a] \in Int
          BY <3>1, <4>5
        <5>2. CASE tok = t
          <6>1. after[k][t][a] = Moved(after[k - 1][t], payer, items[k].merchant, v)[a]
            BY <3>1, <4>4, <4>5, <5>2
          <6>2. after[k][t][a] = after[k - 1][t][a] - (IF a = payer THEN v ELSE 0)
                                  + (IF a = items[k].merchant THEN v ELSE 0)
            BY <4>5, <6>1 DEF Moved
          <6>3. Total(d, N) = (IF items[k].merchant = a THEN v ELSE 0)
                                - (IF payer = a THEN v ELSE 0)
            BY <4>1, <5>2
          <6> QED BY ONLY <4>5, <5>1, <6>2, <6>3
        <5>3. CASE tok # t
          <6>1. after[k][t] = after[k - 1][t]
            BY <3>1, <4>4, <4>5, <5>3
          <6> QED BY <4>1, <5>1, <5>3, <6>1
        <5> QED BY <5>2, <5>3
      <4>7. after[k][t][a] = balance[t][a] + Total(served(k), N)
        <5>1. balance[t][a] \in Int /\ Total(served(k - 1), N) \in Int /\ Total(d, N) \in Int
          <6>1. balance[t][a] \in Int
            BY <1>1, <1>3
          <6> HIDE DEF served, d
          <6> QED BY <1>1, <2>1, <4>1, <6>1, TotalType
        <5> HIDE DEF served, d
        <5> QED BY <3>1, <4>3, <4>6, <5>1
      <4> HIDE DEF served
      <4> QED BY <3>1, <4>7
    <3>3. CASE ~FirstOfGroup(items, k)
      <4>1. after[k] = after[k - 1]
        BY <1>2, <3>3 DEF ServesGroups
      <4>2. ASSUME NEW j \in 1..N PROVE served(k)[j] = served(k - 1)[j]
        <5>1. ServedBy(items, k, j) <=> ServedBy(items, k - 1, j)
          BY <3>3, ServedStep
        <5> QED BY <5>1 DEF ServedShare
      <4>3. served(k) = served(k - 1)
        <5>1. \A i : served(i) = [j \in 1..N |-> served(i)[j]]
          OBVIOUS
        <5> HIDE DEF served
        <5> QED BY <4>2, <5>1
      <4> HIDE DEF served
      <4> QED BY <3>1, <4>1, <4>3
    <3> QED BY <3>2, <3>3
  <2>4. N \in A
    <3> HIDE DEF A
    <3>1. 0..N \subseteq A
      BY <1>1, <2>2, <2>3, UpTo
    <3> QED BY <1>1, <3>1
  <2>5. served(N) = [j \in 1..N |-> Share(items, payer, j, t, a)]
    <3>1. \A j \in 1..N : ServedBy(items, N, j)
      BY <1>1 DEF ServedBy, SameGroup
    <3> QED BY <3>1 DEF ServedShare
  <2> QED BY <1>2, <2>4, <2>5 DEF ServesGroups
<1> QED BY <1>4, <1>5

-----------------------------------------------------------------------------
(* Types *)

\* There is no fee before a recipient is set (set_platform_fee sets both).
FeeHasRecipient == fee.bps > 0 => fee.recipient # NoEntry

\* Adding a natural at one argument keeps a function natural.
LEMMA AddAt ==
    \A S : \A f \in [S -> Nat] : \A x : \A v \in Nat : [f EXCEPT ![x] = @ + v] \in [S -> Nat]
<1> SUFFICES ASSUME NEW S, NEW f \in [S -> Nat], NEW x, NEW v \in Nat
             PROVE  [f EXCEPT ![x] = f[x] + v] \in [S -> Nat]
  OBVIOUS
<1>1. CASE x \in S
  <2>1. f[x] + v \in Nat
    BY <1>1
  <2> QED BY <2>1
<1>2. CASE x \notin S
  BY <1>2
<1> QED BY <1>1, <1>2

\* What the type invariant says of the counters.
LEMMA CounterTypes ==
    ASSUME LedgerTypeOK
    PROVE  /\ nonce \in [Accounts -> Nat] /\ merchant_nonce \in [Merchants -> Nat]
           /\ rate \in [Merchants -> [WindowStarts -> Nat]]
           /\ total_received \in [Merchants -> Nat]
           /\ EnvTypeOK
<1>1. nonce \in [Accounts -> Nat]
  BY SMTT(30) DEF LedgerTypeOK
<1>2. merchant_nonce \in [Merchants -> Nat]
  BY SMTT(30) DEF LedgerTypeOK
<1>3. rate \in [Merchants -> [WindowStarts -> Nat]]
  BY DEF LedgerTypeOK
<1>4. total_received \in [Merchants -> Nat]
  BY DEF LedgerTypeOK
<1>5. EnvTypeOK
  BY SMTT(30) DEF LedgerTypeOK
<1> QED BY <1>1, <1>2, <1>3, <1>4, <1>5

\* The type invariant of the next state, conjunct by conjunct.
LEMMA TypeMeans ==
    LedgerTypeOK' <=>
         /\ EnvTypeOK'
         /\ payment' \in [Orders -> PaymentOrder \cup {NoEntry}]
         /\ merchant_ids' \in [Accounts -> Seq(Orders)]
         /\ payer_ids' \in [Accounts -> Seq(Orders)]
         /\ nonce' \in [Accounts -> Nat]
         /\ merchant_nonce' \in [Merchants -> Nat]
         /\ rate' \in [Merchants -> [WindowStarts -> Nat]]
         /\ rate_limit' \in RateLimits \ {0}
         /\ fee' \in [bps : 0..MAX_PLATFORM_FEE_BPS, recipient : Accounts \cup {NoEntry}]
         /\ total_received' \in [Merchants -> Nat]
         /\ merchant_stats' \in [Merchants -> Stats]
         /\ global_stats' \in Stats
         /\ receipts' \in Seq(Receipt)
BY ONLY TRUE, SMTT(30) DEF LedgerTypeOK, MAX_PLATFORM_FEE_BPS

\* A step that leaves the counters, the histories and the totals alone keeps
\* the types when it keeps those of the rest.
LEMMA TypeKept ==
    ASSUME LedgerTypeOK, EnvTypeOK', payment' \in [Orders -> PaymentOrder \cup {NoEntry}],
           rate_limit' \in RateLimits \ {0},
           fee' \in [bps : 0..MAX_PLATFORM_FEE_BPS, recipient : Accounts \cup {NoEntry}],
           UNCHANGED <<merchant_ids, payer_ids, nonce, merchant_nonce, rate, total_received,
                       merchant_stats, global_stats, receipts>>
    PROVE  LedgerTypeOK'
<1>1. /\ nonce' \in [Accounts -> Nat] /\ merchant_nonce' \in [Merchants -> Nat]
      /\ rate' \in [Merchants -> [WindowStarts -> Nat]]
      /\ total_received' \in [Merchants -> Nat]
  BY CounterTypes, SMTT(30)
<1>2. merchant_ids' \in [Accounts -> Seq(Orders)]
  BY SMTT(30) DEF LedgerTypeOK
<1>3. payer_ids' \in [Accounts -> Seq(Orders)]
  BY SMTT(30) DEF LedgerTypeOK
<1>4. merchant_stats' \in [Merchants -> Stats]
  BY SMTT(30) DEF LedgerTypeOK
<1>5. global_stats' \in Stats
  BY SMTT(30) DEF LedgerTypeOK
<1>6. receipts' \in Seq(Receipt)
  BY SMTT(30) DEF LedgerTypeOK
<1>7. payment' \in [Orders -> PaymentOrder \cup {NoEntry}]
  OBVIOUS
<1>8. EnvTypeOK'
  BY SMTT(30)
<1>9. /\ rate_limit' \in RateLimits \ {0}
      /\ fee' \in [bps : 0..MAX_PLATFORM_FEE_BPS, recipient : Accounts \cup {NoEntry}]
  BY SMTT(30)
<1> QED BY ONLY <1>1, <1>2, <1>3, <1>4, <1>5, <1>6, <1>7, <1>8, <1>9, TypeMeans, SMTT(60)
       DEF MAX_PLATFORM_FEE_BPS

\* What a path leaves is well typed when what it writes besides the records
\* and the receipts is.
LEMMA SettledTypes ==
    ASSUME LedgerTypeOK, NEW kind, NEW payer, NEW items, NEW charged, NEW n,
           Settles(kind, payer, items, charged, n),
           balance' \in [Tokens -> [Holders -> Nat]],
           merchant_ids' \in [Accounts -> Seq(Orders)],
           payer_ids' \in [Accounts -> Seq(Orders)],
           nonce' \in [Accounts -> Nat],
           merchant_nonce' \in [Merchants -> Nat],
           rate' \in [Merchants -> [WindowStarts -> Nat]],
           total_received' \in [Merchants -> Nat],
           merchant_stats' \in [Merchants -> Stats],
           global_stats' \in Stats
    PROVE  LedgerTypeOK' /\ fee' = fee
<1>1. EnvTypeOK'
  <2>1. EnvTypeOK /\ UNCHANGED <<now, paused, active, allowed>>
    BY CounterTypes DEF Settles
  <2> QED BY <2>1 DEF EnvTypeOK
<1>2. payment' \in [Orders -> PaymentOrder \cup {NoEntry}]
  BY SettlesTypes
<1>3. receipts' \in Seq(Receipt)
  BY ReceiptsGrow
<1>4. /\ rate_limit' \in RateLimits \ {0} /\ fee' = fee
      /\ fee' \in [bps : 0..MAX_PLATFORM_FEE_BPS, recipient : Accounts \cup {NoEntry}]
  <2>1. rate_limit' = rate_limit /\ fee' = fee
    BY DEF Settles, configVars
  <2>2. /\ rate_limit \in RateLimits \ {0}
        /\ fee \in [bps : 0..MAX_PLATFORM_FEE_BPS, recipient : Accounts \cup {NoEntry}]
    BY ONLY LedgerTypeOK DEF LedgerTypeOK
  <2> QED BY ONLY <2>1, <2>2
<1>5. /\ merchant_ids' \in [Accounts -> Seq(Orders)]
      /\ payer_ids' \in [Accounts -> Seq(Orders)]
      /\ merchant_stats' \in [Merchants -> Stats]
      /\ global_stats' \in Stats
      /\ nonce' \in [Accounts -> Nat]
      /\ merchant_nonce' \in [Merchants -> Nat]
      /\ rate' \in [Merchants -> [WindowStarts -> Nat]]
      /\ total_received' \in [Merchants -> Nat]
  OBVIOUS
<1> QED BY ONLY <1>1, <1>2, <1>3, <1>4, <1>5 DEF LedgerTypeOK, MAX_PLATFORM_FEE_BPS

\* The same for the three direct paths.
LEMMA PathTypes ==
    ASSUME LedgerTypeOK, NEW kind, NEW payer, NEW items, NEW charged, NEW n,
           Pays(kind, payer, items, charged, n),
           balance' \in [Tokens -> [Holders -> Nat]],
           nonce' \in [Accounts -> Nat],
           merchant_nonce' \in [Merchants -> Nat],
           rate' \in [Merchants -> [WindowStarts -> Nat]],
           total_received' \in [Merchants -> Nat]
    PROVE  LedgerTypeOK' /\ fee' = fee
<1>1. Settles(kind, payer, items, charged, n)
  BY DEF Pays
<1> QED BY <1>1, PaysTypes, SettledTypes

\* Counting items against the limit leaves natural counters.
LEMMA RateTypes ==
    ASSUME LedgerTypeOK, NEW items \in Seq(Paid), CountAgainstLimit(items)
    PROVE  rate' \in [Merchants -> [WindowStarts -> Nat]]
<1>1. ASSUME NEW m \in Merchants
      PROVE  [rate[m] EXCEPT ![current_window_start] = @ + CountOf(items, m)] \in [WindowStarts -> Nat]
  <2> DEFINE w == current_window_start
             c == CountOf(items, m)
  <2>1. c \in Nat
    BY SumTypes
  <2>a. rate[m] \in [WindowStarts -> Nat]
    BY CounterTypes, SMTT(30)
  <2> HIDE DEF w, c
  <2>2. [rate[m] EXCEPT ![w] = @ + c] \in [WindowStarts -> Nat]
    BY <2>1, <2>a, AddAt
  <2> QED BY <2>2, SMTT(30) DEF w, c
<1> QED BY <1>1 DEF CountAgainstLimit

\* The nonce path keeps the types.
LEMMA NonceTypes ==
    ASSUME LedgerTypeOK, NEW p \in Accounts, NEW it \in Items, NEW n \in 0..MaxPayments,
           process_payment_with_nonce(p, it, n)
    PROVE  LedgerTypeOK' /\ fee' = fee
<1> DEFINE c == platform_fee(it.amount)
<1>1. /\ nonce \in [Accounts -> Nat] /\ merchant_nonce \in [Merchants -> Nat]
      /\ rate \in [Merchants -> [WindowStarts -> Nat]] /\ total_received \in [Merchants -> Nat]
  BY CounterTypes
<1>2. it \in Paid /\ c \in 0..it.amount /\ Pays("nonce", p, <<it>>, c, n)
  BY NoncePays
<1>3. /\ PayWithFee(p, it, c)
      /\ nonce' = [nonce EXCEPT ![p] = @ + 1]
      /\ merchant_nonce' = merchant_nonce /\ rate' = rate
      /\ total_received' = [total_received EXCEPT ![it.merchant] = @ + it.amount]
  BY DEF process_payment_with_nonce, Receive
<1> HIDE DEF c
<1>4. balance' \in [Tokens -> [Holders -> Nat]]
  BY <1>2, <1>3, FeePaid
<1>5. it.amount \in Nat
  BY <1>2 DEF Paid
<1>6. nonce' \in [Accounts -> Nat] /\ total_received' \in [Merchants -> Nat]
  BY <1>1, <1>3, <1>5, AddAt
<1>7. /\ merchant_nonce' \in [Merchants -> Nat]
      /\ rate' \in [Merchants -> [WindowStarts -> Nat]]
  BY <1>1, <1>3
<1> QED BY <1>2, <1>4, <1>6, <1>7, PathTypes

\* So do the archive, and every step of the system that leaves the ledger alone.
LEMMA ArchiveTypes ==
    ASSUME LedgerTypeOK, NEW o \in Orders, archive_payment_record(o)
    PROVE  LedgerTypeOK' /\ fee' = fee
<1>1. /\ EnvTypeOK /\ payment \in [Orders -> PaymentOrder \cup {NoEntry}]
      /\ rate_limit \in RateLimits \ {0}
      /\ fee \in [bps : 0..MAX_PLATFORM_FEE_BPS, recipient : Accounts \cup {NoEntry}]
  BY DEF LedgerTypeOK
<1>2. payment' = [payment EXCEPT ![o] = NoEntry]
  BY DEF archive_payment_record
<1>3. payment' \in [Orders -> PaymentOrder \cup {NoEntry}]
  BY <1>1, <1>2, SMTT(30)
<1>4. /\ UNCHANGED envVars /\ UNCHANGED configVars
      /\ UNCHANGED <<merchant_ids, payer_ids, nonce, merchant_nonce, rate,
                     total_received, merchant_stats, global_stats, receipts>>
  BY DEF archive_payment_record
<1>5. EnvTypeOK'
  BY <1>1, <1>4, SMTT(30) DEF envVars, EnvTypeOK
<1> QED BY <1>1, <1>3, <1>4, <1>5, TypeKept, SMTT(30) DEF configVars

LEMMA IdleTypes ==
    ASSUME LedgerTypeOK, EnvNext \/ UNCHANGED envVars, UNCHANGED <<configVars, ledgerVars>>
    PROVE  LedgerTypeOK' /\ fee' = fee
<1>1. /\ EnvTypeOK /\ payment \in [Orders -> PaymentOrder \cup {NoEntry}]
      /\ rate_limit \in RateLimits \ {0}
      /\ fee \in [bps : 0..MAX_PLATFORM_FEE_BPS, recipient : Accounts \cup {NoEntry}]
  BY DEF LedgerTypeOK
<1>2. EnvTypeOK'
  <2>1. CASE EnvNext
    BY <1>1, <2>1, EnvNextFacts, SMTT(30)
  <2>2. CASE UNCHANGED envVars
    BY <1>1, <2>2 DEF envVars, EnvTypeOK
  <2> QED BY <2>1, <2>2
<1> QED BY <1>1, <1>2, TypeKept, SMTT(30) DEF configVars, ledgerVars

\* Every path keeps the types; so do the administrator and the environment.
LEMMA TypeStep ==
    ASSUME LedgerTypeOK, FeeHasRecipient, [PaymentsNext]_paymentsVars
    PROVE  LedgerTypeOK' /\ FeeHasRecipient'
<1>1. /\ nonce \in [Accounts -> Nat] /\ merchant_nonce \in [Merchants -> Nat]
      /\ rate \in [Merchants -> [WindowStarts -> Nat]] /\ total_received \in [Merchants -> Nat]
  BY CounterTypes
<1>2. ASSUME NEW p \in Accounts, NEW it \in Items, NEW n \in 0..MaxPayments,
             process_payment_with_nonce(p, it, n)
      PROVE  LedgerTypeOK' /\ fee' = fee
  BY <1>2, NonceTypes
<1>3. ASSUME NEW p \in Accounts, NEW it \in Items, NEW n \in 0..MaxPayments, NEW ts \in 0..MaxTime,
             process_payment_with_signature(p, it, n, ts)
      PROVE  LedgerTypeOK' /\ fee' = fee
  <2> DEFINE c == platform_fee(it.amount)
  <2>1. /\ it \in Paid /\ <<it>> \in Seq(Paid) /\ c \in 0..it.amount
        /\ Pays("signed", p, <<it>>, c, n)
    BY <1>3, SignedPays
  <2>2. /\ PayWithFee(p, it, c) /\ CountAgainstLimit(<<it>>)
        /\ merchant_nonce' = [merchant_nonce EXCEPT ![it.merchant] = @ + 1]
        /\ nonce' = nonce
        /\ total_received' = [total_received EXCEPT ![it.merchant] = @ + (it.amount - c)]
    BY <1>3 DEF process_payment_with_signature, Receive
  <2> HIDE DEF c
  <2>3. balance' \in [Tokens -> [Holders -> Nat]]
    BY <2>1, <2>2, FeePaid
  <2>4. it.amount \in Nat
    BY <2>1 DEF Paid
  <2>5. merchant_nonce' \in [Merchants -> Nat] /\ total_received' \in [Merchants -> Nat]
    <3>1. it.merchant \in Merchants
      BY DEF Items
    <3>2. total_received[it.merchant] \in Nat /\ it.amount - c \in Nat
      BY <1>1, <2>1, <2>4, <3>1
    <3> QED BY <1>1, <2>2, <3>1, <3>2, AddAt
  <2>6. rate' \in [Merchants -> [WindowStarts -> Nat]]
    BY <2>1, <2>2, RateTypes
  <2> QED BY <1>1, <2>1, <2>2, <2>3, <2>5, <2>6, PathTypes
<1>4. ASSUME NEW p \in Accounts, NEW items \in Batches, batch_payment(p, items)
      PROVE  LedgerTypeOK' /\ fee' = fee
  <2>1. items \in Seq(Paid) /\ Pays("batch", p, items, 0, 0)
    BY <1>4, BatchPays
  <2>2. /\ PayGroups(p, items) /\ CountAgainstLimit(items)
        /\ nonce' = nonce /\ merchant_nonce' = merchant_nonce
        /\ total_received' = [m \in Merchants |-> total_received[m] + Volume(items, m)]
    BY <1>4 DEF batch_payment, ReceiveAll
  <2>3. balance' \in [Tokens -> [Holders -> Nat]]
    BY <2>1, <2>2, BatchMoves
  <2>4. \A m \in Merchants : total_received[m] + Volume(items, m) \in Nat
    <3>1. \A m \in Merchants : Volume(items, m) \in Nat
      BY <2>1, SumTypes
    <3> QED BY <1>1, <3>1
  <2>5. rate' \in [Merchants -> [WindowStarts -> Nat]]
    BY <2>1, <2>2, RateTypes
  <2> QED BY <1>1, <2>1, <2>2, <2>3, <2>4, <2>5, PathTypes
<1>5. /\ EnvTypeOK /\ payment \in [Orders -> PaymentOrder \cup {NoEntry}]
      /\ rate_limit \in RateLimits \ {0}
      /\ fee \in [bps : 0..MAX_PLATFORM_FEE_BPS, recipient : Accounts \cup {NoEntry}]
  BY DEF LedgerTypeOK
<1>6. ASSUME UNCHANGED envVars PROVE EnvTypeOK'
  BY <1>5, <1>6 DEF envVars, EnvTypeOK
<1>7. ASSUME NEW bps \in FeeRates, NEW r \in Accounts, set_platform_fee(bps, r)
      PROVE  LedgerTypeOK' /\ FeeHasRecipient'
  <2>1. fee' = [bps |-> bps, recipient |-> r] /\ bps \in 0..10000 /\ r # NoEntry
    BY <1>7, SMTT(30) DEF set_platform_fee
  <2>2. UNCHANGED envVars /\ rate_limit' = rate_limit /\ UNCHANGED ledgerVars
    BY <1>7 DEF set_platform_fee
  <2>3. LedgerTypeOK'
    BY <1>5, <1>6, <2>1, <2>2, TypeKept, SMTT(30) DEF ledgerVars
  <2> QED BY <2>1, <2>3 DEF FeeHasRecipient
<1>8. ASSUME NEW limit \in RateLimits, set_rate_limit(limit)
      PROVE  LedgerTypeOK' /\ fee' = fee
  <2>1. UNCHANGED envVars /\ fee' = fee /\ UNCHANGED ledgerVars /\ rate_limit' \in RateLimits \ {0}
    BY <1>8 DEF set_rate_limit
  <2> QED BY <1>5, <1>6, <2>1, TypeKept, SMTT(30) DEF ledgerVars
<1>9. ASSUME NEW o \in Orders, archive_payment_record(o)
      PROVE  LedgerTypeOK' /\ fee' = fee
  BY <1>9, ArchiveTypes
<1>10. CASE EnvNext /\ UNCHANGED <<configVars, ledgerVars>>
  BY <1>10, IdleTypes DEF FeeHasRecipient
<1>11. CASE UNCHANGED paymentsVars
  BY <1>11, IdleTypes DEF paymentsVars, FeeHasRecipient
<1> QED BY <1>2, <1>3, <1>4, <1>7, <1>8, <1>9, <1>10, <1>11 DEF PaymentsNext, FeeHasRecipient

\* The first state is well typed.
LEMMA InitTypes ==
    ASSUME LedgerInit
    PROVE  LedgerTypeOK /\ FeeHasRecipient
<1>1. EnvTypeOK
  <2>1. EnvInit
    BY DEF LedgerInit
  <2>2. \A h \in Holders : (IF h = Contract THEN 0 ELSE Funds) \in Nat
    OBVIOUS
  <2>3. balance \in [Tokens -> [Holders -> Nat]]
    BY <2>1, <2>2 DEF EnvInit
  <2>4. now \in 0..MaxTime
    BY <2>1 DEF EnvInit
  <2>5. paused \in BOOLEAN
    BY <2>1 DEF EnvInit
  <2>6. active \subseteq Merchants /\ allowed \subseteq Tokens
    BY <2>1 DEF EnvInit
  <2> QED BY <2>3, <2>4, <2>5, <2>6 DEF EnvTypeOK
<1>2. NoStats \in Stats /\ <<>> \in Seq(Receipt) /\ <<>> \in Seq(Orders)
  BY DEF NoStats, Stats
<1> QED BY <1>1, <1>2 DEF LedgerInit, LedgerTypeOK, FeeHasRecipient

\* The records, totals and counters of the payment paths hold only values of
\* their types: amounts are positive, balances, fees and counters are natural,
\* and a fee that is charged has somewhere to go.
THEOREM PaymentsTypeCorrect == PaymentsSpec => []LedgerTypeOK
<1>1. PaymentsSpec => [](LedgerTypeOK /\ FeeHasRecipient)
  BY InitTypes, TypeStep, PTL DEF PaymentsSpec
<1> QED BY <1>1, PTL

-----------------------------------------------------------------------------
(* The histories *)

Has(ids, o) == \E i \in 1..Len(ids) : ids[i] = o

\* A concatenation has what its parts have.
LEMMA ConcatHas ==
    \A s, t \in Seq(Orders) : \A o : Has(s, o) \/ Has(t, o) => Has(s \o t, o)
<1> SUFFICES ASSUME NEW s \in Seq(Orders), NEW t \in Seq(Orders), NEW o, Has(s, o) \/ Has(t, o)
             PROVE  Has(s \o t, o)
  OBVIOUS
<1>1. Len(s) \in Nat /\ Len(t) \in Nat /\ Len(s \o t) = Len(s) + Len(t)
  OBVIOUS
<1>2. CASE Has(s, o)
  <2>1. PICK i \in 1..Len(s) : s[i] = o
    BY <1>2 DEF Has
  <2>2. (s \o t)[i] = o /\ i \in 1..Len(s \o t)
    BY <1>1, <2>1
  <2> QED BY <2>2 DEF Has
<1>3. CASE Has(t, o)
  <2>1. PICK i \in 1..Len(t) : t[i] = o
    BY <1>3 DEF Has
  <2>2. (s \o t)[Len(s) + i] = o /\ Len(s) + i \in 1..Len(s \o t)
    BY <1>1, <2>1
  <2> QED BY <2>2 DEF Has
<1> QED BY <1>2, <1>3

\* The histories a payment must be in.
LEMMA IndexedMeans ==
    PaymentIndexed <=> \A o \in Orders : payment[o] # NoEntry =>
                          /\ Has(merchant_ids[payment[o].merchant], o)
                          /\ Has(payer_ids[payment[o].payer], o)
BY DEF PaymentIndexed, Has

\* What the type invariant says of the records and the histories.
LEMMA HistoryTypes ==
    ASSUME LedgerTypeOK
    PROVE  /\ payment \in [Orders -> PaymentOrder \cup {NoEntry}]
           /\ merchant_ids \in [Accounts -> Seq(Orders)]
           /\ payer_ids \in [Accounts -> Seq(Orders)]
           /\ \A o \in Orders : payment[o] # NoEntry =>
                 payment[o].merchant \in Accounts /\ payment[o].payer \in Accounts
<1>1. payment \in [Orders -> PaymentOrder \cup {NoEntry}]
  BY DEF LedgerTypeOK
<1>2. merchant_ids \in [Accounts -> Seq(Orders)]
  BY DEF LedgerTypeOK
<1>3. payer_ids \in [Accounts -> Seq(Orders)]
  BY DEF LedgerTypeOK
<1>4. ASSUME NEW o \in Orders, payment[o] # NoEntry
      PROVE  payment[o].merchant \in Accounts /\ payment[o].payer \in Accounts
  <2>1. payment[o] \in PaymentOrder
    BY <1>1, <1>4
  <2> QED BY <2>1 DEF PaymentOrder
<1> QED BY <1>1, <1>2, <1>3, <1>4

\* No id leaves a history, whether a full one fails the call or not.
LEMMA IndexesKeep ==
    ASSUME LedgerTypeOK, NEW payer \in Accounts, NEW items \in Seq(Paid),
           AddToIndexes(payer, items) \/ AddToIndexesIfRoom(payer, items)
    PROVE  \A a \in Accounts : \A o :
              /\ Has(merchant_ids[a], o) => Has(merchant_ids'[a], o)
              /\ Has(payer_ids[a], o) => Has(payer_ids'[a], o)
<1>1. /\ \A m \in Accounts : OrdersFor(items, m) \in Seq(Orders)
      /\ OrdersOf(items) \in Seq(Orders)
  BY OrdersForFacts, ItemFacts DEF OrdersOf
<1>2. ASSUME NEW m \in Accounts, NEW o, Has(merchant_ids[m], o)
      PROVE  Has(merchant_ids'[m], o)
  <2>1. \/ merchant_ids'[m] = merchant_ids[m] \o OrdersFor(items, m)
        \/ merchant_ids'[m] = merchant_ids[m]
    BY DEF AddToIndexes, AddToIndexesIfRoom
  <2>2. merchant_ids[m] \in Seq(Orders)
    BY HistoryTypes
  <2> QED BY <1>1, <1>2, <2>1, <2>2, ConcatHas
<1>3. ASSUME NEW a \in Accounts, NEW o, Has(payer_ids[a], o)
      PROVE  Has(payer_ids'[a], o)
  <2>1. \/ payer_ids'[a] = payer_ids[a] \o OrdersOf(items)
        \/ payer_ids'[a] = payer_ids[a]
    <3>1. \/ payer_ids' = [payer_ids EXCEPT ![payer] = payer_ids[payer] \o OrdersOf(items)]
          \/ payer_ids' = [payer_ids EXCEPT ![payer] = payer_ids[payer]]
      BY DEF AddToIndexes, AddToIndexesIfRoom
    <3> QED BY <3>1, HistoryTypes
  <2>2. payer_ids[a] \in Seq(Orders)
    BY HistoryTypes
  <2> QED BY <1>1, <1>3, <2>1, <2>2, ConcatHas
<1> QED BY <1>2, <1>3

\* Where a full history fails the call, every id of the call is in both.
LEMMA IndexesHold ==
    ASSUME LedgerTypeOK, NEW payer \in Accounts, NEW items \in Seq(Paid),
           AddToIndexes(payer, items), NEW i \in 1..Len(items)
    PROVE  /\ Has(merchant_ids'[items[i].merchant], items[i].order)
           /\ Has(payer_ids'[payer], items[i].order)
<1> DEFINE m == items[i].merchant
<1>1. m \in Accounts /\ Len(items) \in Nat /\ \A j \in 1..Len(items) : items[j].order \in Orders
  BY ItemFacts
<1>2. Has(OrdersFor(items, m), items[i].order) /\ OrdersFor(items, m) \in Seq(Orders)
  BY OrdersForFacts DEF Has
<1>3. Has(OrdersOf(items), items[i].order) /\ OrdersOf(items) \in Seq(Orders)
  BY <1>1 DEF Has, OrdersOf
<1>4. /\ merchant_ids'[m] = merchant_ids[m] \o OrdersFor(items, m)
      /\ merchant_ids[m] \in Seq(Orders)
  BY <1>1, HistoryTypes DEF AddToIndexes
<1>5. payer_ids'[payer] = payer_ids[payer] \o OrdersOf(items) /\ payer_ids[payer] \in Seq(Orders)
  BY HistoryTypes DEF AddToIndexes
<1> HIDE DEF m
<1>6. Has(merchant_ids'[m], items[i].order)
  BY <1>2, <1>4, ConcatHas
<1>7. Has(payer_ids'[payer], items[i].order)
  BY <1>3, <1>5, ConcatHas
<1> QED BY <1>6, <1>7 DEF m

\* Every path writes the ids of its orders to both histories.
LEMMA PaysIndexed ==
    ASSUME LedgerTypeOK, PaymentIndexed, NEW kind, NEW payer, NEW items, NEW charged, NEW n,
           Pays(kind, payer, items, charged, n)
    PROVE  PaymentIndexed'
<1>1. items \in Seq(Paid) /\ payer \in Accounts /\ AddToIndexes(payer, items)
  BY DEF Pays, Settles
<1>2. ASSUME NEW o \in Orders, payment'[o] # NoEntry
      PROVE  Has(merchant_ids'[payment'[o].merchant], o) /\ Has(payer_ids'[payment'[o].payer], o)
  <2>1. CASE payment'[o] = payment[o]
    <3>1. /\ Has(merchant_ids[payment[o].merchant], o) /\ Has(payer_ids[payment[o].payer], o)
          /\ payment[o].merchant \in Accounts /\ payment[o].payer \in Accounts
      BY <1>2, <2>1, IndexedMeans, HistoryTypes
    <3> QED BY <1>1, <2>1, <3>1, IndexesKeep
  <2>2. ASSUME NEW i \in 1..Len(items), items[i].order = o,
               payment'[o] = NewRecord(payer, items[i], charged)
        PROVE  Has(merchant_ids'[payment'[o].merchant], o) /\ Has(payer_ids'[payment'[o].payer], o)
    <3>1. payment'[o].merchant = items[i].merchant /\ payment'[o].payer = payer
      BY <2>2 DEF NewRecord
    <3> QED BY <1>1, <2>2, <3>1, IndexesHold
  <2>3. \/ payment'[o] = payment[o]
        \/ \E i \in 1..Len(items) :
              /\ items[i].order = o
              /\ payment'[o] = NewRecord(payer, items[i], charged)
    BY OrdersStored DEF Pays
  <2> QED BY <2>1, <2>2, <2>3
<1>3. PaymentIndexed' <=> \A o \in Orders : payment'[o] # NoEntry =>
                             /\ Has(merchant_ids'[payment'[o].merchant], o)
                             /\ Has(payer_ids'[payment'[o].payer], o)
  BY DEF PaymentIndexed, Has
<1> QED BY <1>2, <1>3

\* Nothing else writes a record, except the archive, which drops one.
LEMMA IndexedStep ==
    ASSUME LedgerTypeOK, PaymentIndexed, [PaymentsNext]_paymentsVars
    PROVE  PaymentIndexed'
<1>1. ASSUME NEW p \in Accounts, NEW it \in Items, NEW n \in 0..MaxPayments,
             process_payment_with_nonce(p, it, n)
      PROVE  PaymentIndexed'
  BY <1>1, NoncePays, PaysIndexed
<1>2. ASSUME NEW p \in Accounts, NEW it \in Items, NEW n \in 0..MaxPayments, NEW ts \in 0..MaxTime,
             process_payment_with_signature(p, it, n, ts)
      PROVE  PaymentIndexed'
  BY <1>2, SignedPays, PaysIndexed
<1>3. ASSUME NEW p \in Accounts, NEW items \in Batches, batch_payment(p, items)
      PROVE  PaymentIndexed'
  BY <1>3, BatchPays, PaysIndexed
<1>4. ASSUME UNCHANGED ledgerVars PROVE PaymentIndexed'
  BY <1>4 DEF ledgerVars, PaymentIndexed
<1>5. ASSUME NEW bps \in FeeRates, NEW r \in Accounts, set_platform_fee(bps, r)
      PROVE  PaymentIndexed'
  BY <1>4, <1>5 DEF set_platform_fee
<1>6. ASSUME NEW limit \in RateLimits, set_rate_limit(limit) PROVE PaymentIndexed'
  BY <1>4, <1>6 DEF set_rate_limit
<1>7. ASSUME NEW o \in Orders, archive_payment_record(o) PROVE PaymentIndexed'
  <2>1. /\ payment' = [payment EXCEPT ![o] = NoEntry]
        /\ merchant_ids' = merchant_ids /\ payer_ids' = payer_ids
    BY <1>7 DEF archive_payment_record
  <2>2. \A q \in Orders : payment'[q] # NoEntry => payment'[q] = payment[q]
    BY <2>1, HistoryTypes
  <2> QED BY <2>1, <2>2 DEF PaymentIndexed
<1>8. CASE EnvNext /\ UNCHANGED <<configVars, ledgerVars>>
  BY <1>4, <1>8
<1>9. CASE UNCHANGED paymentsVars
  BY <1>4, <1>9 DEF paymentsVars
<1> QED BY <1>1, <1>2, <1>3, <1>5, <1>6, <1>7, <1>8, <1>9 DEF PaymentsNext

\* A live payment is always in the history of its merchant and of its payer,
\* whichever path recorded it and however often its order id was archived and
\* used again (add_merchant_payment_id and add_payer_payment_id).
THEOREM PaymentsAlwaysIndexed == PaymentsSpec => []PaymentIndexed
<1>1. LedgerInit => PaymentIndexed
  BY DEF LedgerInit, PaymentIndexed
<1>2. LedgerTypeOK /\ PaymentIndexed /\ [PaymentsNext]_paymentsVars => PaymentIndexed'
  BY IndexedStep
<1> QED BY <1>1, <1>2, PaymentsTypeCorrect, PTL DEF PaymentsSpec

-----------------------------------------------------------------------------
(* The nonces *)

PayerUsed(a) == {i \in 1..Len(receipts) : receipts[i].kind = "nonce" /\ receipts[i].payer = a}

MerchantUsed(m) ==
    {i \in 1..Len(receipts) : receipts[i].kind = "signed" /\ receipts[i].merchant = m}

\* The receipts a path adds to those that used a nonce: its own, if it uses one.
LEMMA UsedAfter ==
    ASSUME LedgerTypeOK, NEW kind, NEW payer, NEW items, NEW charged, NEW n,
           Pays(kind, payer, items, charged, n), kind # "batch" => Len(items) = 1
    PROVE  LET k == Len(receipts) + 1
           IN  /\ k \notin 1..Len(receipts)
               /\ \A i \in 1..Len(receipts) : receipts'[i] = receipts[i]
               /\ kind # "batch" => receipts'[k].nonce = n
               /\ \A a : PayerUsed(a)' = IF kind = "nonce" /\ payer = a
                                         THEN PayerUsed(a) \cup {k} ELSE PayerUsed(a)
               /\ \A m : MerchantUsed(m)' = IF kind = "signed" /\ items[1].merchant = m
                                            THEN MerchantUsed(m) \cup {k} ELSE MerchantUsed(m)
<1> DEFINE k == Len(receipts) + 1
           L == Len(receipts)
<1>1. /\ L \in Nat /\ Len(items) \in Nat /\ Len(receipts') = L + Len(items)
      /\ \A i \in 1..L : receipts'[i] = receipts[i]
      /\ \A i \in 1..Len(items) : receipts'[L + i] = NewReceipt(kind, payer, items[i], charged, n)
  BY ReceiptsGrow DEF Pays
<1>2. \A i \in 1..Len(items) :
         /\ receipts'[L + i].kind = kind /\ receipts'[L + i].payer = payer
         /\ receipts'[L + i].merchant = items[i].merchant /\ receipts'[L + i].nonce = n
  <2>1. ASSUME NEW i \in 1..Len(items)
        PROVE  LET r == NewReceipt(kind, payer, items[i], charged, n)
               IN  r.kind = kind /\ r.payer = payer /\ r.merchant = items[i].merchant /\ r.nonce = n
    BY DEF NewReceipt
  <2> QED BY <1>1, <2>1
<1>3. k \notin 1..L
  BY <1>1
<1>4. ASSUME NEW i \in 1..Len(receipts')
      PROVE  i \in 1..L \/ \E j \in 1..Len(items) : i = L + j
  <2>1. CASE i <= L
    BY <1>1, <2>1
  <2>2. CASE i > L
    <3>1. i - L \in 1..Len(items) /\ i = L + (i - L)
      BY <1>1, <2>2
    <3> QED BY <3>1
  <2> QED BY <1>1, <2>1, <2>2
<1>5. 1..L \subseteq 1..Len(receipts')
  BY <1>1
<1> HIDE DEF L
<1>6. ASSUME NEW a
      PROVE  PayerUsed(a)' = IF kind = "nonce" /\ payer = a
                             THEN PayerUsed(a) \cup {k} ELSE PayerUsed(a)
  <2>1. PayerUsed(a) = {i \in 1..L : receipts'[i].kind = "nonce" /\ receipts'[i].payer = a}
    BY <1>1 DEF PayerUsed, L
  <2>2. PayerUsed(a)' = {i \in 1..Len(receipts') :
                            receipts'[i].kind = "nonce" /\ receipts'[i].payer = a}
    BY DEF PayerUsed
  <2>3. CASE kind = "nonce" /\ payer = a
    <3>1. Len(items) = 1 /\ k = L + 1 /\ k \in 1..Len(receipts')
      BY <1>1, <2>3 DEF L
    <3>2. receipts'[k].kind = "nonce" /\ receipts'[k].payer = a
      BY <1>2, <2>3, <3>1
    <3>3. \A i \in 1..Len(receipts') : i \in 1..L \/ i = k
      BY <1>4, <3>1
    <3> QED BY <1>5, <2>1, <2>2, <2>3, <3>1, <3>2, <3>3
  <2>4. CASE ~(kind = "nonce" /\ payer = a)
    <3>1. \A j \in 1..Len(items) :
             ~(receipts'[L + j].kind = "nonce" /\ receipts'[L + j].payer = a)
      BY <1>2, <2>4
    <3> QED BY <1>4, <1>5, <2>1, <2>2, <2>4, <3>1
  <2> QED BY <2>3, <2>4
<1>7. ASSUME NEW m
      PROVE  MerchantUsed(m)' = IF kind = "signed" /\ items[1].merchant = m
                                THEN MerchantUsed(m) \cup {k} ELSE MerchantUsed(m)
  <2>1. MerchantUsed(m) = {i \in 1..L : receipts'[i].kind = "signed" /\ receipts'[i].merchant = m}
    BY <1>1 DEF MerchantUsed, L
  <2>2. MerchantUsed(m)' = {i \in 1..Len(receipts') :
                               receipts'[i].kind = "signed" /\ receipts'[i].merchant = m}
    BY DEF MerchantUsed
  <2>3. CASE kind = "signed" /\ items[1].merchant = m
    <3>1. Len(items) = 1 /\ k = L + 1 /\ k \in 1..Len(receipts')
      BY <1>1, <2>3 DEF L
    <3>2. receipts'[k].kind = "signed" /\ receipts'[k].merchant = m
      BY <1>2, <2>3, <3>1
    <3>3. \A i \in 1..Len(receipts') : i \in 1..L \/ i = k
      BY <1>4, <3>1
    <3> QED BY <1>5, <2>1, <2>2, <2>3, <3>1, <3>2, <3>3
  <2>4. CASE ~(kind = "signed" /\ items[1].merchant = m)
    <3>1. \A j \in 1..Len(items) :
             ~(receipts'[L + j].kind = "signed" /\ receipts'[L + j].merchant = m)
      <4>1. CASE kind = "signed"
        <5>1. Len(items) = 1
          BY <4>1
        <5>2. \A j \in 1..Len(items) : j = 1
          BY <5>1
        <5> QED BY <1>2, <2>4, <4>1, <5>2
      <4>2. CASE kind # "signed"
        BY <1>2, <4>2
      <4> QED BY <4>1, <4>2
    <3> QED BY <1>4, <1>5, <2>1, <2>2, <2>4, <3>1
  <2> QED BY <2>3, <2>4
<1>8. kind # "batch" => receipts'[k].nonce = n
  <2>1. CASE kind # "batch"
    BY <1>2, <2>1 DEF L
  <2> QED BY <2>1
<1> QED BY <1>1, <1>3, <1>6, <1>7, <1>8 DEF L

\* A set of uses numbered first..last, with one more use of the next number.
Numbered(used, number, first, last) ==
    /\ IsFiniteSet(used)
    /\ {number[i] : i \in used} = first..last
    /\ Cardinality(used) = last - first + 1

\* The next number continues the numbering.
LEMMA NumberNext ==
    \A used, number, k : \A first, last \in Int :
        /\ Numbered(used, number, first, last)
        /\ last >= first - 1
        /\ k \notin used
        /\ number[k] = last + 1
        => Numbered(used \cup {k}, number, first, last + 1)
<1> SUFFICES ASSUME NEW used, NEW number, NEW k, NEW first \in Int, NEW last \in Int,
                    Numbered(used, number, first, last), last >= first - 1,
                    k \notin used, number[k] = last + 1
             PROVE  Numbered(used \cup {k}, number, first, last + 1)
  OBVIOUS
<1>1. IsFiniteSet(used \cup {k}) /\ Cardinality(used \cup {k}) = Cardinality(used) + 1
  BY FS_AddElement DEF Numbered
<1>2. {number[i] : i \in used \cup {k}} = (first..last) \cup {last + 1}
  BY DEF Numbered
<1>3. (first..last) \cup {last + 1} = first..last + 1
  OBVIOUS
<1>4. Cardinality(used \cup {k}) = last + 1 - first + 1
  BY <1>1 DEF Numbered
<1> QED BY <1>1, <1>2, <1>3, <1>4 DEF Numbered

NonceOf == [i \in 1..Len(receipts) |-> receipts[i].nonce]

\* The nonces of a payer run from 0, those of a merchant from 1, each used once.
NoncesNumbered ==
    /\ \A a \in Accounts : Numbered(PayerUsed(a), NonceOf, 0, nonce[a] - 1)
    /\ \A m \in Merchants : Numbered(MerchantUsed(m), NonceOf, 1, merchant_nonce[m])

\* That is what the property says.
LEMMA NumberedMeans ==
    ASSUME LedgerTypeOK, NoncesNumbered
    PROVE  NoncesUsedOnce
<1>1. \A i \in 1..Len(receipts) : NonceOf[i] = receipts[i].nonce
  BY DEF NonceOf
<1>2. ASSUME NEW a \in Accounts
      PROVE  /\ {receipts[i].nonce : i \in PayerUsed(a)} = 0..nonce[a] - 1
             /\ Cardinality(PayerUsed(a)) = nonce[a]
  <2>1. nonce[a] \in Nat
    BY CounterTypes
  <2>2. Numbered(PayerUsed(a), NonceOf, 0, nonce[a] - 1) /\ PayerUsed(a) \subseteq 1..Len(receipts)
    BY DEF NoncesNumbered, PayerUsed
  <2>3. {receipts[i].nonce : i \in PayerUsed(a)} = {NonceOf[i] : i \in PayerUsed(a)}
    BY <1>1, <2>2
  <2>4. Cardinality(PayerUsed(a)) = nonce[a] - 1 - 0 + 1
    BY <2>2 DEF Numbered
  <2>5. Cardinality(PayerUsed(a)) = nonce[a]
    BY <2>1, <2>4
  <2>6. {receipts[i].nonce : i \in PayerUsed(a)} = 0..nonce[a] - 1
    BY <2>2, <2>3 DEF Numbered
  <2> QED BY <2>5, <2>6
<1>3. ASSUME NEW m \in Merchants
      PROVE  /\ {receipts[i].nonce : i \in MerchantUsed(m)} = 1..merchant_nonce[m]
             /\ Cardinality(MerchantUsed(m)) = merchant_nonce[m]
  <2>1. merchant_nonce[m] \in Nat
    BY CounterTypes
  <2>2. /\ Numbered(MerchantUsed(m), NonceOf, 1, merchant_nonce[m])
        /\ MerchantUsed(m) \subseteq 1..Len(receipts)
    BY DEF NoncesNumbered, MerchantUsed
  <2>3. {receipts[i].nonce : i \in MerchantUsed(m)} = {NonceOf[i] : i \in MerchantUsed(m)}
    BY <1>1, <2>2
  <2>4. Cardinality(MerchantUsed(m)) = merchant_nonce[m] - 1 + 1
    BY <2>2 DEF Numbered
  <2>5. Cardinality(MerchantUsed(m)) = merchant_nonce[m]
    BY <2>1, <2>4
  <2>6. {receipts[i].nonce : i \in MerchantUsed(m)} = 1..merchant_nonce[m]
    BY <2>2, <2>3 DEF Numbered
  <2> QED BY <2>5, <2>6
<1> QED BY <1>2, <1>3 DEF NoncesUsedOnce, PayerUsed, MerchantUsed

\* The numbers of the earlier receipts stay.
LEMMA NumbersStay ==
    ASSUME LedgerTypeOK, NEW kind, NEW payer, NEW items, NEW charged, NEW n,
           Pays(kind, payer, items, charged, n),
           NEW used, used \subseteq 1..Len(receipts), NEW first, NEW last,
           Numbered(used, NonceOf, first, last)
    PROVE  Numbered(used, NonceOf', first, last)
<1>1. /\ Len(receipts) \in Nat /\ Len(items) \in Nat /\ Len(receipts') = Len(receipts) + Len(items)
      /\ \A i \in 1..Len(receipts) : receipts'[i] = receipts[i]
  BY ReceiptsGrow DEF Pays
<1>2. NonceOf' = [i \in 1..Len(receipts') |-> receipts'[i].nonce]
  BY DEF NonceOf
<1>3. ASSUME NEW i \in used PROVE NonceOf'[i] = NonceOf[i]
  <2>1. i \in 1..Len(receipts) /\ i \in 1..Len(receipts')
    BY <1>1
  <2> QED BY <1>1, <1>2, <2>1 DEF NonceOf
<1> HIDE DEF NonceOf
<1>4. {NonceOf'[i] : i \in used} = {NonceOf[i] : i \in used}
  BY <1>3
<1> QED BY <1>4 DEF Numbered

\* A path that uses the next nonce of its payer or of its merchant, or none.
LEMMA PaysNumbered ==
    ASSUME LedgerTypeOK, NoncesNumbered, NEW kind, NEW payer, NEW items, NEW charged, NEW n,
           Pays(kind, payer, items, charged, n), kind # "batch" => Len(items) = 1,
           kind = "nonce" => /\ n = nonce[payer]
                             /\ nonce' = [nonce EXCEPT ![payer] = @ + 1]
                             /\ merchant_nonce' = merchant_nonce,
           kind = "signed" => /\ n = merchant_nonce[items[1].merchant] + 1
                              /\ merchant_nonce' =
                                    [merchant_nonce EXCEPT ![items[1].merchant] = @ + 1]
                              /\ nonce' = nonce,
           kind = "batch" => nonce' = nonce /\ merchant_nonce' = merchant_nonce
    PROVE  NoncesNumbered'
<1> DEFINE k == Len(receipts) + 1
<1>1. /\ k \notin 1..Len(receipts)
      /\ kind # "batch" => receipts'[k].nonce = n
      /\ \A a : PayerUsed(a)' = IF kind = "nonce" /\ payer = a
                                THEN PayerUsed(a) \cup {k} ELSE PayerUsed(a)
      /\ \A m : MerchantUsed(m)' = IF kind = "signed" /\ items[1].merchant = m
                                   THEN MerchantUsed(m) \cup {k} ELSE MerchantUsed(m)
  BY UsedAfter
<1>2. kind # "batch" => NonceOf'[k] = n
  <2>1. ASSUME kind # "batch" PROVE NonceOf'[k] = n
    <3>1. Len(receipts') = Len(receipts) + Len(items) /\ Len(receipts) \in Nat /\ Len(items) = 1
      BY <2>1, ReceiptsGrow DEF Pays
    <3>2. k \in 1..Len(receipts')
      BY <3>1
    <3>3. NonceOf' = [i \in 1..Len(receipts') |-> receipts'[i].nonce]
      BY DEF NonceOf
    <3> HIDE DEF k
    <3> QED BY <1>1, <2>1, <3>2, <3>3
  <2> QED BY <2>1
<1>3. \A a \in Accounts : PayerUsed(a) \subseteq 1..Len(receipts)
  BY DEF PayerUsed
<1>4. \A m \in Merchants : MerchantUsed(m) \subseteq 1..Len(receipts)
  BY DEF MerchantUsed
<1>5. kind \in {"nonce", "signed", "batch"}
  BY DEF Pays, Settles
<1>6. ASSUME NEW a \in Accounts PROVE Numbered(PayerUsed(a)', NonceOf', 0, nonce'[a] - 1)
  <2>1. nonce \in [Accounts -> Nat] /\ nonce[a] \in Nat
    BY CounterTypes
  <2>2. Numbered(PayerUsed(a), NonceOf, 0, nonce[a] - 1)
    BY DEF NoncesNumbered
  <2>3. Numbered(PayerUsed(a), NonceOf', 0, nonce[a] - 1)
    BY <1>3, <2>2, NumbersStay
  <2>4. CASE kind = "nonce" /\ payer = a
    <3>1. /\ PayerUsed(a)' = PayerUsed(a) \cup {k} /\ k \notin PayerUsed(a)
          /\ NonceOf'[k] = nonce[a] - 1 + 1 /\ nonce'[a] - 1 = nonce[a] - 1 + 1
      BY <1>1, <1>2, <1>3, <2>1, <2>4
    <3>2. 0 \in Int /\ nonce[a] - 1 \in Int /\ nonce[a] - 1 >= 0 - 1
      BY <2>1
    <3>3. Numbered(PayerUsed(a) \cup {k}, NonceOf', 0, nonce[a] - 1 + 1)
      BY ONLY <2>3, <3>1, <3>2, NumberNext
    <3> QED BY <3>1, <3>3
  <2>5. CASE ~(kind = "nonce" /\ payer = a)
    <3>1. PayerUsed(a)' = PayerUsed(a)
      BY <1>1, <2>5
    <3>2. nonce'[a] = nonce[a]
      BY <1>5, <2>1, <2>5
    <3> QED BY <2>3, <3>1, <3>2
  <2> QED BY <2>4, <2>5
<1>7. ASSUME NEW m \in Merchants PROVE Numbered(MerchantUsed(m)', NonceOf', 1, merchant_nonce'[m])
  <2>1. merchant_nonce \in [Merchants -> Nat] /\ merchant_nonce[m] \in Nat
    BY CounterTypes
  <2>2. Numbered(MerchantUsed(m), NonceOf, 1, merchant_nonce[m])
    BY DEF NoncesNumbered
  <2>3. Numbered(MerchantUsed(m), NonceOf', 1, merchant_nonce[m])
    BY <1>4, <2>2, NumbersStay
  <2>4. CASE kind = "signed" /\ items[1].merchant = m
    <3>1. /\ MerchantUsed(m)' = MerchantUsed(m) \cup {k} /\ k \notin MerchantUsed(m)
          /\ NonceOf'[k] = merchant_nonce[m] + 1 /\ merchant_nonce'[m] = merchant_nonce[m] + 1
      BY <1>1, <1>2, <1>4, <2>1, <2>4
    <3>2. 1 \in Int /\ merchant_nonce[m] \in Int /\ merchant_nonce[m] >= 1 - 1
      BY <2>1
    <3>3. Numbered(MerchantUsed(m) \cup {k}, NonceOf', 1, merchant_nonce[m] + 1)
      BY ONLY <2>3, <3>1, <3>2, NumberNext
    <3> QED BY <3>1, <3>3
  <2>5. CASE ~(kind = "signed" /\ items[1].merchant = m)
    <3>1. MerchantUsed(m)' = MerchantUsed(m)
      BY <1>1, <2>5
    <3>2. merchant_nonce'[m] = merchant_nonce[m]
      BY <1>5, <2>1, <2>5
    <3> QED BY <2>3, <3>1, <3>2
  <2> QED BY <2>4, <2>5
<1> QED BY <1>6, <1>7 DEF NoncesNumbered

\* Nothing else uses a nonce.
LEMMA NumberedStep ==
    ASSUME LedgerTypeOK, NoncesNumbered, [PaymentsNext]_paymentsVars
    PROVE  NoncesNumbered'
<1>1. ASSUME NEW p \in Accounts, NEW it \in Items, NEW n \in 0..MaxPayments,
             process_payment_with_nonce(p, it, n)
      PROVE  NoncesNumbered'
  <2>1. Pays("nonce", p, <<it>>, platform_fee(it.amount), n) /\ Len(<<it>>) = 1
    BY <1>1, NoncePays
  <2>2. /\ n = nonce[p] /\ nonce' = [nonce EXCEPT ![p] = @ + 1]
        /\ merchant_nonce' = merchant_nonce
    BY <1>1 DEF process_payment_with_nonce
  <2>3. "nonce" # "signed" /\ "nonce" # "batch"
    OBVIOUS
  <2> QED BY <2>1, <2>2, <2>3, PaysNumbered
<1>2. ASSUME NEW p \in Accounts, NEW it \in Items, NEW n \in 0..MaxPayments, NEW ts \in 0..MaxTime,
             process_payment_with_signature(p, it, n, ts)
      PROVE  NoncesNumbered'
  <2>1. /\ Pays("signed", p, <<it>>, platform_fee(it.amount), n)
        /\ Len(<<it>>) = 1 /\ <<it>>[1] = it
    BY <1>2, SignedPays
  <2>2. /\ n = merchant_nonce[it.merchant] + 1
        /\ merchant_nonce' = [merchant_nonce EXCEPT ![it.merchant] = @ + 1]
        /\ nonce' = nonce
    BY <1>2 DEF process_payment_with_signature
  <2>3. "signed" # "nonce" /\ "signed" # "batch"
    OBVIOUS
  <2> QED BY <2>1, <2>2, <2>3, PaysNumbered
<1>3. ASSUME NEW p \in Accounts, NEW items \in Batches, batch_payment(p, items)
      PROVE  NoncesNumbered'
  <2>1. Pays("batch", p, items, 0, 0)
    BY <1>3, BatchPays
  <2>2. nonce' = nonce /\ merchant_nonce' = merchant_nonce
    BY <1>3 DEF batch_payment
  <2>3. "batch" # "nonce" /\ "batch" # "signed"
    OBVIOUS
  <2> QED BY <2>1, <2>2, <2>3, PaysNumbered
<1>4. ASSUME UNCHANGED <<nonce, merchant_nonce, receipts>> PROVE NoncesNumbered'
  BY <1>4, ZenonT(30) DEF NoncesNumbered, PayerUsed, MerchantUsed, NonceOf, Numbered
<1>5. ASSUME NEW bps \in FeeRates, NEW r \in Accounts, set_platform_fee(bps, r)
      PROVE  NoncesNumbered'
  BY <1>4, <1>5 DEF set_platform_fee, ledgerVars
<1>6. ASSUME NEW limit \in RateLimits, set_rate_limit(limit) PROVE NoncesNumbered'
  BY <1>4, <1>6 DEF set_rate_limit, ledgerVars
<1>7. ASSUME NEW o \in Orders, archive_payment_record(o) PROVE NoncesNumbered'
  BY <1>4, <1>7 DEF archive_payment_record
<1>8. CASE EnvNext /\ UNCHANGED <<configVars, ledgerVars>>
  BY <1>4, <1>8 DEF ledgerVars
<1>9. CASE UNCHANGED paymentsVars
  BY <1>4, <1>9 DEF paymentsVars, ledgerVars
<1> QED BY <1>1, <1>2, <1>3, <1>5, <1>6, <1>7, <1>8, <1>9 DEF PaymentsNext

\* No nonce is used at first.
LEMMA InitNumbered ==
    ASSUME LedgerInit
    PROVE  NoncesNumbered
<1>1. receipts = <<>> /\ Len(receipts) = 0
  BY DEF LedgerInit
<1>2. (\A a : PayerUsed(a) = {}) /\ (\A m : MerchantUsed(m) = {})
  BY <1>1 DEF PayerUsed, MerchantUsed
<1>3. /\ \A a \in Accounts : nonce[a] = 0
      /\ \A m \in Merchants : merchant_nonce[m] = 0
  BY DEF LedgerInit
<1>4. \A number : Numbered({}, number, 0, 0 - 1) /\ Numbered({}, number, 1, 0)
  BY FS_EmptySet DEF Numbered
<1> QED BY <1>2, <1>3, <1>4 DEF NoncesNumbered

\* Every nonce of a payer and of a merchant is used exactly once and without a
\* gap, whatever is archived in between: no signed order is ever replayed (the
\* checks of process_payment_with_nonce and process_payment_with_signature).
THEOREM NoncesAlwaysUsedOnce == PaymentsSpec => []NoncesUsedOnce
<1>1. LedgerInit => NoncesNumbered
  BY InitNumbered
<1>2. LedgerTypeOK /\ NoncesNumbered /\ [PaymentsNext]_paymentsVars => NoncesNumbered'
  BY NumberedStep
<1>3. LedgerTypeOK /\ NoncesNumbered => NoncesUsedOnce
  BY NumberedMeans
<1> QED BY <1>1, <1>2, <1>3, PaymentsTypeCorrect, PTL DEF PaymentsSpec

-----------------------------------------------------------------------------
(* The totals *)

\* What the type invariant says of the receipts.
LEMMA ReceiptTypes ==
    ASSUME NEW s \in Seq(Receipt)
    PROVE  /\ Len(s) \in Nat
           /\ \A i \in 1..Len(s) : s[i].amount \in Nat /\ s[i].fee \in Nat
<1>1. Len(s) \in Nat /\ \A i \in 1..Len(s) : s[i] \in Receipt
  BY ElementOfSeq, LenProperties
<1>2. \A r \in Receipt : r.amount \in Nat /\ r.fee \in Nat
  BY DEF Receipt
<1> QED BY <1>1, <1>2

\* A sum over the receipts grows by the sum over the items.
LEMMA SumGrows ==
    ASSUME LedgerTypeOK, NEW kind, NEW payer, NEW items, NEW charged, NEW n,
           Pays(kind, payer, items, charged, n)
    PROVE  \A old \in [1..Len(receipts) -> Int], new \in [1..Len(items) -> Int],
              all \in [1..Len(receipts') -> Int] :
              /\ \A i \in 1..Len(receipts) : old[i] = all[i]
              /\ \A i \in 1..Len(items) : new[i] = all[Len(receipts) + i]
              => Total(all, Len(receipts')) = Total(old, Len(receipts)) + Total(new, Len(items))
<1> DEFINE N == Len(receipts)
           M == Len(items)
<1>1. N \in Nat /\ M \in Nat /\ Len(receipts') = N + M
  BY ReceiptsGrow DEF Pays
<1> HIDE DEF N, M
<1>2. \A old \in [1..N -> Int], new \in [1..M -> Int], all \in [1..N + M -> Int] :
         (\A i \in 1..N : old[i] = all[i]) /\ (\A i \in 1..M : new[i] = all[N + i])
            => Total(all, N + M) = Total(old, N) + Total(new, M)
  BY ONLY <1>1, TotalSplit
<1> QED BY <1>1, <1>2 DEF N, M

\* Counts, volumes and amounts over the receipts grow by those of the items.
LEMMA TotalsGrow ==
    ASSUME LedgerTypeOK, NEW kind, NEW payer, NEW items, NEW charged, NEW n,
           Pays(kind, payer, items, charged, n)
    PROVE  /\ \A m : /\ CountOf(receipts', m) = CountOf(receipts, m) + CountOf(items, m)
                     /\ Volume(receipts', m) = Volume(receipts, m) + Volume(items, m)
           /\ AmountSum(receipts') = AmountSum(receipts) + AmountSum(items)
<1>1. /\ Len(receipts) \in Nat /\ Len(items) \in Nat
      /\ Len(receipts') = Len(receipts) + Len(items)
      /\ \A i \in 1..Len(receipts) : receipts'[i] = receipts[i]
  BY ReceiptsGrow DEF Pays
<1>2. \A i \in 1..Len(items) : /\ receipts'[Len(receipts) + i].merchant = items[i].merchant
                               /\ receipts'[Len(receipts) + i].amount = items[i].amount
  <2>1. ASSUME NEW i \in 1..Len(items)
        PROVE  LET r == NewReceipt(kind, payer, items[i], charged, n)
               IN  r.merchant = items[i].merchant /\ r.amount = items[i].amount
    BY DEF NewReceipt
  <2> QED BY <2>1, ReceiptsGrow DEF Pays
<1>3. /\ \A i \in 1..Len(receipts) : receipts[i].amount \in Nat
      /\ \A i \in 1..Len(receipts') : receipts'[i].amount \in Nat
      /\ \A i \in 1..Len(items) : items[i].amount \in Nat
  <2>1. receipts \in Seq(Receipt)
    BY DEF LedgerTypeOK
  <2>2. receipts' \in Seq(Receipt)
    BY ReceiptsGrow DEF Pays
  <2>3. items \in Seq(Paid)
    BY DEF Pays, Settles
  <2> QED BY <2>1, <2>2, <2>3, ReceiptTypes, ItemFacts
<1>4. \A i \in 1..Len(receipts) : i \in 1..Len(receipts')
  BY <1>1
<1>5. \A i \in 1..Len(items) : Len(receipts) + i \in 1..Len(receipts')
  BY <1>1
<1> DEFINE C(s, m) == [i \in 1..Len(s) |-> IF s[i].merchant = m THEN 1 ELSE 0]
           V(s, m) == [i \in 1..Len(s) |-> IF s[i].merchant = m THEN s[i].amount ELSE 0]
           A(s) == [i \in 1..Len(s) |-> s[i].amount]
<1>6. ASSUME NEW m
      PROVE  CountOf(receipts', m) = CountOf(receipts, m) + CountOf(items, m)
  <2>1. /\ C(receipts, m) \in [1..Len(receipts) -> Int]
        /\ C(receipts', m) \in [1..Len(receipts') -> Int]
        /\ C(items, m) \in [1..Len(items) -> Int]
    OBVIOUS
  <2>2. \A i \in 1..Len(receipts) : C(receipts, m)[i] = C(receipts', m)[i]
    BY <1>1, <1>4
  <2>3. \A i \in 1..Len(items) : C(items, m)[i] = C(receipts', m)[Len(receipts) + i]
    BY <1>2, <1>5
  <2>4. \A s : CountOf(s, m) = Total(C(s, m), Len(s))
    BY SumShapes
  <2>5. Total(C(receipts', m), Len(receipts'))
          = Total(C(receipts, m), Len(receipts)) + Total(C(items, m), Len(items))
    <3> DEFINE all == C(receipts', m)
               old == C(receipts, m)
               new == C(items, m)
    <3>1. /\ old \in [1..Len(receipts) -> Int] /\ new \in [1..Len(items) -> Int]
          /\ all \in [1..Len(receipts') -> Int]
          /\ \A i \in 1..Len(receipts) : old[i] = all[i]
          /\ \A i \in 1..Len(items) : new[i] = all[Len(receipts) + i]
      BY <2>1, <2>2, <2>3
    <3> HIDE DEF all, old, new
    <3>2. Total(all, Len(receipts')) = Total(old, Len(receipts)) + Total(new, Len(items))
      BY <3>1, SumGrows
    <3> QED BY <3>2 DEF all, old, new
  <2> HIDE DEF C
  <2> QED BY <2>4, <2>5
<1>7. ASSUME NEW m
      PROVE  Volume(receipts', m) = Volume(receipts, m) + Volume(items, m)
  <2>1. /\ V(receipts, m) \in [1..Len(receipts) -> Int]
        /\ V(receipts', m) \in [1..Len(receipts') -> Int]
        /\ V(items, m) \in [1..Len(items) -> Int]
    BY <1>3
  <2>2. \A i \in 1..Len(receipts) : V(receipts, m)[i] = V(receipts', m)[i]
    BY <1>1, <1>4
  <2>3. \A i \in 1..Len(items) : V(items, m)[i] = V(receipts', m)[Len(receipts) + i]
    BY <1>2, <1>5
  <2>4. \A s : Volume(s, m) = Total(V(s, m), Len(s))
    BY SumShapes
  <2>5. Total(V(receipts', m), Len(receipts'))
          = Total(V(receipts, m), Len(receipts)) + Total(V(items, m), Len(items))
    <3> DEFINE all == V(receipts', m)
               old == V(receipts, m)
               new == V(items, m)
    <3>1. /\ old \in [1..Len(receipts) -> Int] /\ new \in [1..Len(items) -> Int]
          /\ all \in [1..Len(receipts') -> Int]
          /\ \A i \in 1..Len(receipts) : old[i] = all[i]
          /\ \A i \in 1..Len(items) : new[i] = all[Len(receipts) + i]
      BY <2>1, <2>2, <2>3
    <3> HIDE DEF all, old, new
    <3>2. Total(all, Len(receipts')) = Total(old, Len(receipts)) + Total(new, Len(items))
      BY <3>1, SumGrows
    <3> QED BY <3>2 DEF all, old, new
  <2> HIDE DEF V
  <2> QED BY <2>4, <2>5
<1>8. AmountSum(receipts') = AmountSum(receipts) + AmountSum(items)
  <2>1. /\ A(receipts) \in [1..Len(receipts) -> Int]
        /\ A(receipts') \in [1..Len(receipts') -> Int]
        /\ A(items) \in [1..Len(items) -> Int]
    BY <1>3
  <2>2. \A i \in 1..Len(receipts) : A(receipts)[i] = A(receipts')[i]
    BY <1>1, <1>4
  <2>3. \A i \in 1..Len(items) : A(items)[i] = A(receipts')[Len(receipts) + i]
    BY <1>2, <1>5
  <2>4. \A s : AmountSum(s) = Total(A(s), Len(s))
    BY DEF AmountSum
  <2> HIDE DEF A
  <2> QED BY <2>1, <2>2, <2>3, <2>4, SumGrows
<1> QED BY <1>6, <1>7, <1>8

\* The property, with its sums named.
StatsMatch(s, stats, all) ==
    /\ \A m \in Merchants : /\ stats[m].total_payments = CountOf(s, m)
                            /\ stats[m].total_volume = Clamped(Volume(s, m))
    /\ all.total_payments = Len(s)
    /\ all.total_volume = Clamped(AmountSum(s))

\* It is the property, before and after a step.
LEMMA StatsMean ==
    /\ StatsMatchReceipts <=> StatsMatch(receipts, merchant_stats, global_stats)
    /\ StatsMatchReceipts' <=> StatsMatch(receipts', merchant_stats', global_stats')
BY DEF StatsMatchReceipts, StatsMatch

\* Every path adds its items to the totals.
LEMMA PaysStats ==
    ASSUME LedgerTypeOK, StatsMatchReceipts, NEW kind, NEW payer, NEW items, NEW charged, NEW n,
           Pays(kind, payer, items, charged, n)
    PROVE  StatsMatchReceipts'
<1>1. /\ merchant_stats' = [m \in Merchants |->
            [merchant_stats[m] EXCEPT !.total_payments = @ + CountOf(items, m),
                                      !.total_volume = saturating_add(@, Volume(items, m))]]
      /\ global_stats' =
            [global_stats EXCEPT !.total_payments = @ + Len(items),
                                 !.total_volume = saturating_add(@, AmountSum(items))]
      /\ items \in Seq(Paid)
  BY DEF Pays, Settles, AddToStats
<1>2. StatsMatch(receipts, merchant_stats, global_stats)
  BY StatsMean
<1>3. Len(receipts') = Len(receipts) + Len(items)
  BY ReceiptsGrow DEF Pays
<1>a. Len(receipts) \in Nat /\ \A i \in 1..Len(receipts) : receipts[i].amount \in Nat
  <2>1. receipts \in Seq(Receipt)
    BY DEF LedgerTypeOK
  <2> QED BY <2>1, ReceiptTypes
<1>4. ASSUME NEW m \in Merchants
      PROVE  /\ merchant_stats'[m].total_payments = CountOf(receipts', m)
             /\ merchant_stats'[m].total_volume = Clamped(Volume(receipts', m))
  <2>1. merchant_stats[m] \in Stats
    BY DEF LedgerTypeOK
  <2>2. /\ merchant_stats'[m].total_payments = merchant_stats[m].total_payments + CountOf(items, m)
        /\ merchant_stats'[m].total_volume
             = saturating_add(merchant_stats[m].total_volume, Volume(items, m))
    BY <1>1, <2>1 DEF Stats
  <2>3. /\ merchant_stats[m].total_payments = CountOf(receipts, m)
        /\ merchant_stats[m].total_volume = Clamped(Volume(receipts, m))
    BY <1>2 DEF StatsMatch
  <2>4. Volume(receipts, m) \in Nat /\ Volume(items, m) \in Nat
    BY <1>1, <1>a, AmountTypes, SumTypes
  <2>5. merchant_stats'[m].total_volume = Clamped(Volume(receipts, m) + Volume(items, m))
    BY <2>2, <2>3, <2>4, SaturatingSum
  <2> QED BY <2>2, <2>3, <2>5, TotalsGrow
<1>5. /\ global_stats'.total_payments = Len(receipts')
      /\ global_stats'.total_volume = Clamped(AmountSum(receipts'))
  <2>1. global_stats \in Stats
    BY DEF LedgerTypeOK
  <2>2. /\ global_stats'.total_payments = global_stats.total_payments + Len(items)
        /\ global_stats'.total_volume
             = saturating_add(global_stats.total_volume, AmountSum(items))
    BY <1>1, <2>1 DEF Stats
  <2>3. /\ global_stats.total_payments = Len(receipts)
        /\ global_stats.total_volume = Clamped(AmountSum(receipts))
    BY <1>2 DEF StatsMatch
  <2>4. AmountSum(receipts) \in Nat /\ AmountSum(items) \in Nat
    BY <1>1, <1>a, AmountTypes, SumTypes
  <2>5. global_stats'.total_volume = Clamped(AmountSum(receipts) + AmountSum(items))
    BY <2>2, <2>3, <2>4, SaturatingSum
  <2> QED BY <1>3, <2>2, <2>3, <2>5, TotalsGrow
<1>6. StatsMatch(receipts', merchant_stats', global_stats')
  BY <1>4, <1>5 DEF StatsMatch
<1> QED BY <1>6, StatsMean

\* Nothing else counts a payment.
LEMMA StatsStep ==
    ASSUME LedgerTypeOK, StatsMatchReceipts, [PaymentsNext]_paymentsVars
    PROVE  StatsMatchReceipts'
<1>1. ASSUME NEW p \in Accounts, NEW it \in Items, NEW n \in 0..MaxPayments,
             process_payment_with_nonce(p, it, n)
      PROVE  StatsMatchReceipts'
  BY <1>1, NoncePays, PaysStats
<1>2. ASSUME NEW p \in Accounts, NEW it \in Items, NEW n \in 0..MaxPayments, NEW ts \in 0..MaxTime,
             process_payment_with_signature(p, it, n, ts)
      PROVE  StatsMatchReceipts'
  BY <1>2, SignedPays, PaysStats
<1>3. ASSUME NEW p \in Accounts, NEW items \in Batches, batch_payment(p, items)
      PROVE  StatsMatchReceipts'
  BY <1>3, BatchPays, PaysStats
<1>4. ASSUME UNCHANGED <<receipts, merchant_stats, global_stats>> PROVE StatsMatchReceipts'
  BY <1>4, StatsMean
<1>5. ASSUME NEW bps \in FeeRates, NEW r \in Accounts, set_platform_fee(bps, r)
      PROVE  StatsMatchReceipts'
  BY <1>4, <1>5 DEF set_platform_fee, ledgerVars
<1>6. ASSUME NEW limit \in RateLimits, set_rate_limit(limit) PROVE StatsMatchReceipts'
  BY <1>4, <1>6 DEF set_rate_limit, ledgerVars
<1>7. ASSUME NEW o \in Orders, archive_payment_record(o) PROVE StatsMatchReceipts'
  BY <1>4, <1>7 DEF archive_payment_record
<1>8. CASE EnvNext /\ UNCHANGED <<configVars, ledgerVars>>
  BY <1>4, <1>8 DEF ledgerVars
<1>9. CASE UNCHANGED paymentsVars
  BY <1>4, <1>9 DEF paymentsVars, ledgerVars
<1> QED BY <1>1, <1>2, <1>3, <1>5, <1>6, <1>7, <1>8, <1>9 DEF PaymentsNext

\* There is nothing to count at first.
LEMMA InitStats ==
    ASSUME LedgerInit
    PROVE  StatsMatchReceipts
<1>1. receipts = <<>> /\ Len(receipts) = 0 /\ \A i \in 1..0 : FALSE
  BY DEF LedgerInit
<1>2. ASSUME NEW f, f \in [1..0 -> Int] PROVE Total(f, 0) = 0
  <2>1. 0 \in Nat /\ \A i \in 1..0 : f[i] = 0
    OBVIOUS
  <2> QED BY ONLY <1>2, <2>1, TotalZero
<1>3. AmountSum(receipts) = 0
  <2> DEFINE f == [i \in 1..Len(receipts) |-> receipts[i].amount]
  <2>1. f \in [1..0 -> Int]
    BY <1>1
  <2> HIDE DEF f
  <2>2. Total(f, 0) = 0
    BY <1>2, <2>1
  <2> QED BY <1>1, <2>2 DEF AmountSum, f
<1>4. ASSUME NEW m PROVE CountOf(receipts, m) = 0 /\ Volume(receipts, m) = 0
  <2> DEFINE f == [i \in 1..Len(receipts) |-> IF receipts[i].merchant = m THEN 1 ELSE 0]
             g == [i \in 1..Len(receipts) |->
                      IF receipts[i].merchant = m THEN receipts[i].amount ELSE 0]
  <2>1. f \in [1..0 -> Int] /\ g \in [1..0 -> Int]
    BY <1>1
  <2>2. CountOf(receipts, m) = Total(f, 0) /\ Volume(receipts, m) = Total(g, 0)
    BY <1>1, SumShapes
  <2> HIDE DEF f, g
  <2> QED BY <1>2, <2>1, <2>2
<1>5. /\ \A m \in Merchants : merchant_stats[m] = NoStats
      /\ global_stats = NoStats /\ NoStats.total_payments = 0 /\ NoStats.total_volume = 0
  BY DEF LedgerInit, NoStats
<1>6. Clamped(0) = 0
  BY DEF Clamped
<1> QED BY <1>1, <1>3, <1>4, <1>5, <1>6, StatsMean DEF StatsMatch

\* The counters of every merchant and of the platform count each payment once,
\* on whichever path it came and whatever is archived since, and their volumes
\* are the sum of its amounts, or i128::MAX from the moment the sum passes it:
\* a clamped volume is neither exceeded nor left again, and the counters beside
\* it stay exact (saturating_add in each of the three paths, ADR-001).
THEOREM StatsAlwaysMatchReceipts == PaymentsSpec => []StatsMatchReceipts
<1>1. LedgerInit => StatsMatchReceipts
  BY InitStats
<1>2. LedgerTypeOK /\ StatsMatchReceipts /\ [PaymentsNext]_paymentsVars => StatsMatchReceipts'
  BY StatsStep
<1> QED BY <1>1, <1>2, PaymentsTypeCorrect, PTL DEF PaymentsSpec

-----------------------------------------------------------------------------
(* The payment limit *)

Limited == {"signed", "batch"}

Counts(r, m, w) == r.merchant = m /\ r.window = w /\ r.kind \in Limited

\* The counted payments of s, as a sum of ones.
CountedIn(s, m, w) == Total([i \in 1..Len(s) |-> IF Counts(s[i], m, w) THEN 1 ELSE 0], Len(s))

\* It is the number of them.
LEMMA CountedIsCardinality ==
    ASSUME NEW s \in Seq(Receipt), NEW m, NEW w
    PROVE  CountedIn(s, m, w) = Cardinality({i \in 1..Len(s) : Counts(s[i], m, w)})
<1> DEFINE f == [i \in 1..Len(s) |-> IF Counts(s[i], m, w) THEN 1 ELSE 0]
<1>1. Len(s) \in Nat /\ f \in [1..Len(s) -> {0, 1}]
  OBVIOUS
<1>2. {i \in 1..Len(s) : f[i] = 1} = {i \in 1..Len(s) : Counts(s[i], m, w)}
  OBVIOUS
<1>3. CountedIn(s, m, w) = Total(f, Len(s))
  BY DEF CountedIn
<1> HIDE DEF f
<1>4. Total(f, Len(s)) = Cardinality({i \in 1..Len(s) : f[i] = 1})
  BY <1>1, TotalCounts
<1> QED BY <1>2, <1>3, <1>4

\* What the limit is about, before and after a step.
LEMMA ReceivedMeans ==
    ASSUME LedgerTypeOK, LedgerTypeOK'
    PROVE  \A m, w : /\ Received(m, w, {"signed", "batch"}) = CountedIn(receipts, m, w)
                     /\ Received(m, w, {"signed", "batch"})' = CountedIn(receipts', m, w)
<1>1. receipts \in Seq(Receipt) /\ receipts' \in Seq(Receipt)
  BY DEF LedgerTypeOK
<1>2. \A m, w : CountedIn(receipts, m, w)
                  = Cardinality({i \in 1..Len(receipts) : Counts(receipts[i], m, w)})
  BY <1>1, CountedIsCardinality
<1>3. \A m, w : CountedIn(receipts', m, w)
                  = Cardinality({i \in 1..Len(receipts') : Counts(receipts'[i], m, w)})
  BY <1>1, CountedIsCardinality
<1>4. ASSUME NEW m, NEW w
      PROVE  Received(m, w, {"signed", "batch"}) = CountedIn(receipts, m, w)
  BY <1>2 DEF Received, Counts, Limited
<1>5. ASSUME NEW m, NEW w
      PROVE  Received(m, w, {"signed", "batch"})' = CountedIn(receipts', m, w)
  BY <1>3 DEF Received, Counts, Limited
<1> QED BY <1>4, <1>5

\* A call adds its items to the window it falls in, when its path is limited.
LEMMA CountedGrows ==
    ASSUME LedgerTypeOK, NEW kind, NEW payer, NEW items, NEW charged, NEW n,
           Pays(kind, payer, items, charged, n), NEW m, NEW w
    PROVE  CountedIn(receipts', m, w) = CountedIn(receipts, m, w)
              + (IF kind \in Limited /\ w = current_window_start THEN CountOf(items, m) ELSE 0)
<1> DEFINE f(s) == [i \in 1..Len(s) |-> IF Counts(s[i], m, w) THEN 1 ELSE 0]
           now_counted == kind \in Limited /\ w = current_window_start
           g == [i \in 1..Len(items) |->
                    IF now_counted /\ items[i].merchant = m THEN 1 ELSE 0]
           all == f(receipts')
           old == f(receipts)
<1>1. /\ Len(receipts) \in Nat /\ Len(items) \in Nat
      /\ Len(receipts') = Len(receipts) + Len(items)
      /\ \A i \in 1..Len(receipts) : receipts'[i] = receipts[i] /\ i \in 1..Len(receipts')
      /\ \A i \in 1..Len(items) : Len(receipts) + i \in 1..Len(receipts')
  BY ReceiptsGrow DEF Pays
<1>2. ASSUME NEW i \in 1..Len(items)
      PROVE  Counts(receipts'[Len(receipts) + i], m, w) <=> now_counted /\ items[i].merchant = m
  <2>1. LET r == NewReceipt(kind, payer, items[i], charged, n)
        IN  r.merchant = items[i].merchant /\ r.window = current_window_start /\ r.kind = kind
    BY DEF NewReceipt
  <2>2. receipts'[Len(receipts) + i] = NewReceipt(kind, payer, items[i], charged, n)
    BY ReceiptsGrow DEF Pays
  <2> QED BY <2>1, <2>2 DEF Counts
<1>3. /\ old \in [1..Len(receipts) -> Int] /\ g \in [1..Len(items) -> Int]
      /\ all \in [1..Len(receipts') -> Int]
  OBVIOUS
<1>4. \A i \in 1..Len(receipts) : old[i] = all[i]
  BY <1>1
<1>5. \A i \in 1..Len(items) : g[i] = all[Len(receipts) + i]
  BY <1>1, <1>2
<1>6. CountedIn(receipts', m, w) = Total(all, Len(receipts'))
      /\ CountedIn(receipts, m, w) = Total(old, Len(receipts))
  BY DEF CountedIn
<1>7. Total(g, Len(items)) = IF now_counted THEN CountOf(items, m) ELSE 0
  <2>1. CASE now_counted
    <3>1. g = [i \in 1..Len(items) |-> IF items[i].merchant = m THEN 1 ELSE 0]
      BY <2>1
    <3> HIDE DEF g, now_counted
    <3> QED BY <2>1, <3>1, SumShapes
  <2>2. CASE ~now_counted
    <3>1. \A i \in 1..Len(items) : g[i] = 0
      BY <2>2
    <3> HIDE DEF g, now_counted
    <3>2. Total(g, Len(items)) = 0
      BY <1>1, <1>3, <3>1, TotalZero
    <3> QED BY <2>2, <3>2
  <2> QED BY <2>1, <2>2
<1> HIDE DEF all, old, g
<1>8. Total(all, Len(receipts')) = Total(old, Len(receipts)) + Total(g, Len(items))
  BY <1>3, <1>4, <1>5, SumGrows
<1> QED BY <1>6, <1>7, <1>8

\* The counters hold what was counted.
RateCounts ==
    \A m \in Merchants, w \in WindowStarts : rate[m][w] = CountedIn(receipts, m, w)

\* A limited path keeps the counters right and stays within the limit.
LEMMA CountedAgainstLimit ==
    ASSUME LedgerTypeOK, RateCounts, NEW kind, NEW payer, NEW items, NEW charged, NEW n,
           Pays(kind, payer, items, charged, n), kind \in Limited, CountAgainstLimit(items)
    PROVE  /\ RateCounts'
           /\ \A m \in Merchants, w \in WindowStarts :
                 CountedIn(receipts', m, w) > CountedIn(receipts, m, w)
                    => CountedIn(receipts', m, w) <= rate_limit
<1>1. items \in Seq(Paid) /\ Len(items) \in Nat
  BY ItemFacts DEF Pays, Settles
<1>2. rate \in [Merchants -> [WindowStarts -> Nat]]
  BY CounterTypes
<1>3. ASSUME NEW m \in Merchants, NEW w \in WindowStarts
      PROVE  rate'[m][w] = rate[m][w]
                             + (IF w = current_window_start THEN CountOf(items, m) ELSE 0)
  <2>1. rate'[m] = [rate[m] EXCEPT ![current_window_start] = @ + CountOf(items, m)]
    BY DEF CountAgainstLimit
  <2>2. rate[m] \in [WindowStarts -> Nat] /\ rate[m][w] \in Nat
    BY <1>2
  <2> QED BY <2>1, <2>2
<1>4. ASSUME NEW m \in Merchants, NEW w \in WindowStarts
      PROVE  rate'[m][w] = CountedIn(receipts', m, w)
  BY <1>3, CountedGrows DEF RateCounts
<1>5. ASSUME NEW m \in Merchants, NEW w \in WindowStarts,
             CountedIn(receipts', m, w) > CountedIn(receipts, m, w)
      PROVE  CountedIn(receipts', m, w) <= rate_limit
  <2>1. CountedIn(receipts, m, w) \in Nat
    BY <1>2 DEF RateCounts
  <2>2. w = current_window_start /\ CountOf(items, m) # 0
    <3>1. CountedIn(receipts', m, w) = CountedIn(receipts, m, w)
             + (IF w = current_window_start THEN CountOf(items, m) ELSE 0)
      BY CountedGrows
    <3> QED BY <1>5, <2>1, <3>1
  <2>3. \E i \in 1..Len(items) : items[i].merchant = m
    <3> DEFINE f == [i \in 1..Len(items) |-> IF items[i].merchant = m THEN 1 ELSE 0]
    <3>1. SUFFICES ASSUME \A i \in 1..Len(items) : items[i].merchant # m PROVE FALSE
      OBVIOUS
    <3>2. f \in [1..Len(items) -> Int] /\ \A i \in 1..Len(items) : f[i] = 0
      BY <3>1
    <3>3. CountOf(items, m) = Total(f, Len(items))
      BY SumShapes
    <3> HIDE DEF f
    <3>4. Total(f, Len(items)) = 0
      BY <1>1, <3>2, TotalZero
    <3> QED BY <2>2, <3>3, <3>4
  <2>4. rate'[m][w] <= rate_limit
    BY <2>2, <2>3 DEF CountAgainstLimit
  <2> QED BY <1>4, <2>4
<1> QED BY <1>4, <1>5 DEF RateCounts

\* Every step keeps the counters right, and none goes past the limit.
LEMMA RateStep ==
    ASSUME LedgerTypeOK, LedgerTypeOK', RateCounts, [PaymentsNext]_paymentsVars
    PROVE  /\ RateCounts'
           /\ \A m \in Merchants, w \in WindowStarts :
                 CountedIn(receipts', m, w) > CountedIn(receipts, m, w)
                    => CountedIn(receipts', m, w) <= rate_limit
<1> DEFINE Kept == \A m \in Merchants, w \in WindowStarts :
                      CountedIn(receipts', m, w) > CountedIn(receipts, m, w)
                         => CountedIn(receipts', m, w) <= rate_limit
<1>1. ASSUME NEW p \in Accounts, NEW it \in Items, NEW n \in 0..MaxPayments,
             process_payment_with_nonce(p, it, n)
      PROVE  RateCounts' /\ Kept
  <2>1. Pays("nonce", p, <<it>>, platform_fee(it.amount), n) /\ rate' = rate
    BY <1>1, NoncePays DEF process_payment_with_nonce
  <2>2. "nonce" \notin Limited
    BY DEF Limited
  <2>3. ASSUME NEW m \in Merchants, NEW w \in WindowStarts
        PROVE  CountedIn(receipts', m, w) = CountedIn(receipts, m, w)
    <3>1. CountedIn(receipts, m, w) \in Nat
      BY CounterTypes DEF RateCounts
    <3>2. CountedIn(receipts', m, w) = CountedIn(receipts, m, w) + 0
      BY <2>1, <2>2, CountedGrows
    <3> QED BY <3>1, <3>2
  <2>4. \A m \in Merchants, w \in WindowStarts : CountedIn(receipts, m, w) \in Nat
    BY CounterTypes DEF RateCounts
  <2> QED BY <2>1, <2>3, <2>4 DEF RateCounts
<1>2. ASSUME NEW p \in Accounts, NEW it \in Items, NEW n \in 0..MaxPayments, NEW ts \in 0..MaxTime,
             process_payment_with_signature(p, it, n, ts)
      PROVE  RateCounts' /\ Kept
  <2>1. Pays("signed", p, <<it>>, platform_fee(it.amount), n) /\ CountAgainstLimit(<<it>>)
    BY <1>2, SignedPays DEF process_payment_with_signature
  <2>2. "signed" \in Limited
    BY DEF Limited
  <2> QED BY <2>1, <2>2, CountedAgainstLimit
<1>3. ASSUME NEW p \in Accounts, NEW items \in Batches, batch_payment(p, items)
      PROVE  RateCounts' /\ Kept
  <2>1. Pays("batch", p, items, 0, 0) /\ CountAgainstLimit(items)
    BY <1>3, BatchPays DEF batch_payment
  <2>2. "batch" \in Limited
    BY DEF Limited
  <2> QED BY <2>1, <2>2, CountedAgainstLimit
<1>4. ASSUME UNCHANGED <<rate, receipts>> PROVE RateCounts' /\ Kept
  <2>1. \A m \in Merchants, w \in WindowStarts : CountedIn(receipts, m, w) \in Nat
    BY CounterTypes DEF RateCounts
  <2> QED BY <1>4, <2>1 DEF RateCounts
<1>5. ASSUME NEW bps \in FeeRates, NEW r \in Accounts, set_platform_fee(bps, r)
      PROVE  RateCounts' /\ Kept
  BY <1>4, <1>5 DEF set_platform_fee, ledgerVars
<1>6. ASSUME NEW limit \in RateLimits, set_rate_limit(limit) PROVE RateCounts' /\ Kept
  BY <1>4, <1>6 DEF set_rate_limit, ledgerVars
<1>7. ASSUME NEW o \in Orders, archive_payment_record(o) PROVE RateCounts' /\ Kept
  BY <1>4, <1>7 DEF archive_payment_record
<1>8. CASE EnvNext /\ UNCHANGED <<configVars, ledgerVars>>
  BY <1>4, <1>8 DEF ledgerVars
<1>9. CASE UNCHANGED paymentsVars
  BY <1>4, <1>9 DEF paymentsVars, ledgerVars
<1> QED BY <1>1, <1>2, <1>3, <1>5, <1>6, <1>7, <1>8, <1>9 DEF PaymentsNext

\* Nothing is counted at first.
LEMMA InitRates ==
    ASSUME LedgerInit
    PROVE  RateCounts
<1>1. receipts = <<>> /\ rate = [m \in Merchants |-> [w \in WindowStarts |-> 0]]
  BY DEF LedgerInit
<1>2. receipts \in Seq(Receipt) /\ Len(receipts) = 0
  BY <1>1
<1>3. \A m, w : CountedIn(receipts, m, w)
                  = Cardinality({i \in 1..Len(receipts) : Counts(receipts[i], m, w)})
  BY <1>2, CountedIsCardinality
<1>4. \A m, w : {i \in 1..Len(receipts) : Counts(receipts[i], m, w)} = {}
  BY <1>2
<1>5. \A m, w : CountedIn(receipts, m, w) = 0
  BY <1>3, <1>4, FS_EmptySet
<1> QED BY <1>1, <1>5 DEF RateCounts

\* No step ever adds signed or batched payments of a merchant to a window so
\* that it holds more than the limit in force, however large the batch and also
\* after the limit was lowered (the check in process_payment_with_signature and
\* in phase 1 of batch_payment).
THEOREM RateLimitAlwaysKept == PaymentsSpec => RateLimitKept
<1> DEFINE Kept == \A m \in Merchants, w \in WindowStarts :
                      LET before == Received(m, w, {"signed", "batch"})
                          after == Received(m, w, {"signed", "batch"})'
                      IN  after > before => after <= rate_limit
<1>1. LedgerInit => RateCounts
  BY InitRates
<1>2. LedgerTypeOK /\ LedgerTypeOK' /\ RateCounts /\ [PaymentsNext]_paymentsVars => RateCounts' /\ Kept
  <2> SUFFICES ASSUME LedgerTypeOK, LedgerTypeOK', RateCounts, [PaymentsNext]_paymentsVars PROVE RateCounts' /\ Kept
    OBVIOUS
  <2> QED BY RateStep, ReceivedMeans
<1>3. PaymentsSpec => [][Kept]_paymentsVars
  BY <1>1, <1>2, PaymentsTypeCorrect, PTL DEF PaymentsSpec
<1> QED BY <1>3 DEF RateLimitKept

-----------------------------------------------------------------------------
(* The balances *)

EffectSum(s, a, t) == Total([i \in 1..Len(s) |-> Effect(s[i], a, t)], Len(s))

\* What every account holds, before and after a step.
LEMMA ReconciledMeans ==
    /\ Reconciled <=> \A a \in Accounts, t \in Tokens :
                         balance[t][a] = Funds + EffectSum(receipts, a, t)
    /\ Reconciled' <=> \A a \in Accounts, t \in Tokens :
                          balance'[t][a] = Funds + EffectSum(receipts', a, t)
BY DEF Reconciled, SumOfReceipts, EffectSum

\* A sum of one summand.
LEMMA TotalOne ==
    ASSUME NEW f \in [1..1 -> Int]
    PROVE  Total(f, 1) = f[1]
<1> DEFINE s == PartialSums(f, 1)
<1>1. s[0] = 0 /\ (\A n \in 1..1 : s[n] = s[n - 1] + f[n]) /\ Total(f, 1) = s[1]
  <2>1. 1 \in Nat /\ f \in [1..1 -> Int]
    OBVIOUS
  <2> QED BY ONLY <2>1, PartialSumsStep
<1> HIDE DEF s
<1>2. s[1] = s[1 - 1] + f[1]
  BY <1>1
<1> QED BY <1>1, <1>2

\* What a receipt moves is an integer.
LEMMA EffectType ==
    \A r \in Receipt : \A a, t : Effect(r, a, t) \in Int
<1> SUFFICES ASSUME NEW r \in Receipt, NEW a, NEW t PROVE Effect(r, a, t) \in Int
  OBVIOUS
<1>1. r.amount \in Int /\ r.fee \in Int
  BY DEF Receipt
<1> QED BY <1>1 DEF Effect

\* A call that moves what its receipts say keeps the books.
LEMMA PaysReconciled ==
    ASSUME LedgerTypeOK, Reconciled, NEW kind, NEW payer, NEW items, NEW charged, NEW n,
           Pays(kind, payer, items, charged, n),
           \A a \in Accounts, t \in Tokens :
              balance'[t][a] = balance[t][a]
                 + Total([i \in 1..Len(items) |->
                             Effect(NewReceipt(kind, payer, items[i], charged, n), a, t)],
                         Len(items))
    PROVE  Reconciled'
<1>1. /\ Len(receipts) \in Nat /\ Len(items) \in Nat
      /\ Len(receipts') = Len(receipts) + Len(items)
      /\ \A i \in 1..Len(receipts) : receipts'[i] = receipts[i] /\ i \in 1..Len(receipts')
      /\ \A i \in 1..Len(items) :
            /\ Len(receipts) + i \in 1..Len(receipts')
            /\ receipts'[Len(receipts) + i] = NewReceipt(kind, payer, items[i], charged, n)
            /\ NewReceipt(kind, payer, items[i], charged, n) \in Receipt
  BY ReceiptsGrow, SMTT(30) DEF Pays
<1>2. /\ \A i \in 1..Len(receipts) : receipts[i] \in Receipt
      /\ \A i \in 1..Len(receipts') : receipts'[i] \in Receipt
  <2>1. receipts \in Seq(Receipt)
    BY DEF LedgerTypeOK
  <2>2. receipts' \in Seq(Receipt)
    BY ReceiptsGrow DEF Pays
  <2> QED BY <2>1, <2>2, ElementOfSeq, SMTT(30)
<1>3. ASSUME NEW a \in Accounts, NEW t \in Tokens
      PROVE  balance'[t][a] = Funds + EffectSum(receipts', a, t)
  <2> DEFINE all == [i \in 1..Len(receipts') |-> Effect(receipts'[i], a, t)]
             old == [i \in 1..Len(receipts) |-> Effect(receipts[i], a, t)]
             new == [i \in 1..Len(items) |->
                        Effect(NewReceipt(kind, payer, items[i], charged, n), a, t)]
  <2>1. /\ all \in [1..Len(receipts') -> Int] /\ old \in [1..Len(receipts) -> Int]
        /\ new \in [1..Len(items) -> Int]
    BY <1>1, <1>2, EffectType
  <2>2. \A i \in 1..Len(receipts) : old[i] = all[i]
    BY <1>1
  <2>3. \A i \in 1..Len(items) : new[i] = all[Len(receipts) + i]
    BY <1>1
  <2>4. /\ balance[t][a] = Funds + Total(old, Len(receipts))
        /\ balance'[t][a] = balance[t][a] + Total(new, Len(items))
    BY ReconciledMeans DEF EffectSum
  <2>5. EffectSum(receipts', a, t) = Total(all, Len(receipts'))
    BY DEF EffectSum
  <2> HIDE DEF all, old, new
  <2>6. Total(all, Len(receipts')) = Total(old, Len(receipts)) + Total(new, Len(items))
    BY <2>1, <2>2, <2>3, SumGrows
  <2>7. Total(old, Len(receipts)) \in Int /\ Total(new, Len(items)) \in Int
    BY <1>1, <2>1, TotalType
  <2> QED BY <2>4, <2>5, <2>6, <2>7
<1> QED BY <1>3, ReconciledMeans

\* A single order moves what its receipt says.
LEMMA SingleReconciled ==
    ASSUME LedgerTypeOK, FeeHasRecipient, Reconciled, NEW kind, NEW p \in Accounts, NEW it \in Paid,
           NEW items, items = <<it>>, NEW n, Pays(kind, p, items, platform_fee(it.amount), n),
           PayWithFee(p, it, platform_fee(it.amount)),
           platform_fee(it.amount) \in 0..it.amount
    PROVE  Reconciled'
<1> DEFINE c == platform_fee(it.amount)
<1>1. c > 0 => fee.recipient # NoEntry
  <2>1. it.amount \in Nat
    BY SMTT(30) DEF Paid
  <2>2. c > 0 => fee.bps > 0
    BY <2>1, FeeBounds, MoneyTypes
  <2> HIDE DEF c
  <2> QED BY <2>2 DEF FeeHasRecipient
<1>2. Len(items) = 1 /\ items[1] = it
  OBVIOUS
<1>3. /\ Pays(kind, p, items, c, n) /\ PayWithFee(p, it, c) /\ c \in 0..it.amount
  OBVIOUS
<1> HIDE DEF c
<1>4. ASSUME NEW a \in Accounts, NEW t \in Tokens
      PROVE  balance'[t][a] = balance[t][a]
                + Total([i \in 1..Len(items) |->
                            Effect(NewReceipt(kind, p, items[i], c, n), a, t)], Len(items))
  <2> DEFINE f == [i \in 1..Len(items) |-> Effect(NewReceipt(kind, p, items[i], c, n), a, t)]
  <2>1. NewReceipt(kind, p, it, c, n) \in Receipt
    <3>1. 1 \in 1..Len(items)
      BY <1>2
    <3>2. NewReceipt(kind, p, items[1], c, n) \in Receipt
      BY <1>3, <3>1, ReceiptsGrow DEF Pays
    <3> QED BY <1>2, <3>2
  <2>2. f \in [1..1 -> Int] /\ f[1] = Effect(NewReceipt(kind, p, it, c, n), a, t)
    BY <1>2, <2>1, EffectType
  <2>3. balance'[t][a] = balance[t][a] + Effect(NewReceipt(kind, p, it, c, n), a, t)
    BY <1>1, <1>3, FeePaid
  <2> HIDE DEF f
  <2>4. Total(f, 1) = f[1]
    BY <2>2, TotalOne
  <2>5. Total(f, Len(items)) = Effect(NewReceipt(kind, p, it, c, n), a, t)
    BY <1>2, <2>2, <2>4
  <2> QED BY <2>3, <2>5 DEF f
<1> QED BY <1>3, <1>4, PaysReconciled

\* A batch moves what its receipts say.
LEMMA BatchReconciled ==
    ASSUME LedgerTypeOK, Reconciled, NEW p \in Accounts, NEW items \in Seq(Paid),
           Pays("batch", p, items, 0, 0), PayGroups(p, items)
    PROVE  Reconciled'
<1>1. ASSUME NEW a \in Accounts, NEW t \in Tokens
      PROVE  balance'[t][a] = balance[t][a]
                + Total([i \in 1..Len(items) |->
                            Effect(NewReceipt("batch", p, items[i], 0, 0), a, t)], Len(items))
  <2>1. ASSUME NEW i \in 1..Len(items)
        PROVE  Effect(NewReceipt("batch", p, items[i], 0, 0), a, t) = Share(items, p, i, t, a)
    <3> DEFINE r == NewReceipt("batch", p, items[i], 0, 0)
    <3>1. /\ r.token = items[i].token /\ r.merchant = items[i].merchant
          /\ r.amount = items[i].amount /\ r.fee = 0 /\ r.payer = p /\ r.recipient = NoEntry
      BY DEF NewReceipt
    <3>2. a # NoEntry /\ items[i].amount \in Nat
      BY ItemFacts
    <3> HIDE DEF r
    <3>3. Effect(r, a, t) = Share(items, p, i, t, a)
      BY <3>1, <3>2 DEF Effect, Share
    <3> QED BY <3>3 DEF r
  <2> DEFINE f == [i \in 1..Len(items) |-> Effect(NewReceipt("batch", p, items[i], 0, 0), a, t)]
             g == [i \in 1..Len(items) |-> Share(items, p, i, t, a)]
  <2>2. f = g
    BY <2>1
  <2>3. balance'[t][a] = balance[t][a] + Total(g, Len(items))
    BY BatchMoves
  <2> HIDE DEF f, g
  <2>4. balance'[t][a] = balance[t][a] + Total(f, Len(items))
    BY <2>2, <2>3
  <2> QED BY <2>4 DEF f
<1> QED BY <1>1, PaysReconciled

\* Nothing else moves tokens.
LEMMA ReconciledStep ==
    ASSUME LedgerTypeOK, FeeHasRecipient, Reconciled, [PaymentsNext]_paymentsVars
    PROVE  Reconciled'
<1>1. ASSUME NEW p \in Accounts, NEW it \in Items, NEW n \in 0..MaxPayments,
             process_payment_with_nonce(p, it, n)
      PROVE  Reconciled'
  <2>1. PayWithFee(p, it, platform_fee(it.amount))
    BY <1>1 DEF process_payment_with_nonce
  <2> QED BY <1>1, <2>1, NoncePays, SingleReconciled
<1>2. ASSUME NEW p \in Accounts, NEW it \in Items, NEW n \in 0..MaxPayments, NEW ts \in 0..MaxTime,
             process_payment_with_signature(p, it, n, ts)
      PROVE  Reconciled'
  <2>1. PayWithFee(p, it, platform_fee(it.amount))
    BY <1>2 DEF process_payment_with_signature
  <2> QED BY <1>2, <2>1, SignedPays, SingleReconciled
<1>3. ASSUME NEW p \in Accounts, NEW items \in Batches, batch_payment(p, items)
      PROVE  Reconciled'
  <2>1. PayGroups(p, items)
    BY <1>3 DEF batch_payment
  <2> QED BY <1>3, <2>1, BatchPays, BatchReconciled
<1>4. ASSUME UNCHANGED <<balance, receipts>> PROVE Reconciled'
  BY <1>4, ReconciledMeans
<1>5. ASSUME NEW bps \in FeeRates, NEW r \in Accounts, set_platform_fee(bps, r)
      PROVE  Reconciled'
  BY <1>4, <1>5 DEF set_platform_fee, envVars, ledgerVars
<1>6. ASSUME NEW limit \in RateLimits, set_rate_limit(limit) PROVE Reconciled'
  BY <1>4, <1>6 DEF set_rate_limit, envVars, ledgerVars
<1>7. ASSUME NEW o \in Orders, archive_payment_record(o) PROVE Reconciled'
  BY <1>4, <1>7 DEF archive_payment_record, envVars
<1>8. CASE EnvNext /\ UNCHANGED <<configVars, ledgerVars>>
  <2>1. balance' = balance
    BY <1>8, CounterTypes, EnvNextFacts
  <2> QED BY <1>4, <1>8, <2>1 DEF ledgerVars
<1>9. CASE UNCHANGED paymentsVars
  BY <1>4, <1>9 DEF paymentsVars, envVars, ledgerVars
<1> QED BY <1>1, <1>2, <1>3, <1>5, <1>6, <1>7, <1>8, <1>9 DEF PaymentsNext

\* Before the first payment every account holds its funds.
LEMMA InitReconciled ==
    ASSUME LedgerInit
    PROVE  Reconciled
<1>1. receipts = <<>> /\ Len(receipts) = 0
  BY DEF LedgerInit
<1>2. ASSUME NEW a \in Accounts, NEW t \in Tokens
      PROVE  balance[t][a] = Funds + EffectSum(receipts, a, t)
  <2> DEFINE f == [i \in 1..Len(receipts) |-> Effect(receipts[i], a, t)]
  <2>1. f \in [1..0 -> Int] /\ \A i \in 1..0 : f[i] = 0
    BY <1>1
  <2>2. EffectSum(receipts, a, t) = Total(f, 0)
    BY <1>1 DEF EffectSum
  <2> HIDE DEF f
  <2>3. Total(f, 0) = 0
    BY <2>1, TotalZero
  <2>4. a # Contract /\ a \in Holders
    BY DEF Holders
  <2>5. balance[t][a] = Funds
    BY <2>4 DEF LedgerInit, EnvInit
  <2> QED BY <2>2, <2>3, <2>5
<1> QED BY <1>2, ReconciledMeans

\* Every account always holds, in every token, what the recorded payments say:
\* no path loses, doubles or misdirects a token, whoever pays whom, whatever the
\* fee, by one transfer, by two, or by the grouped transfers of a batch.
THEOREM PaymentsAlwaysReconciled == PaymentsSpec => []Reconciled
<1>1. LedgerInit => LedgerTypeOK /\ FeeHasRecipient /\ Reconciled
  BY InitTypes, InitReconciled
<1>2. LedgerTypeOK /\ FeeHasRecipient /\ Reconciled /\ [PaymentsNext]_paymentsVars
        => LedgerTypeOK' /\ FeeHasRecipient' /\ Reconciled'
  BY TypeStep, ReconciledStep
<1>3. PaymentsSpec => [](LedgerTypeOK /\ FeeHasRecipient /\ Reconciled)
  BY <1>1, <1>2, PTL DEF PaymentsSpec
<1> QED BY <1>3, PTL

=============================================================================
