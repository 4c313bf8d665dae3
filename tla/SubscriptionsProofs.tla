------------------------ MODULE SubscriptionsProofs -------------------------
(***************************************************************************)
(* The reserve of every subscriber is exact and the allowance accounts for *)
(* it, for any number of subscriptions, plans, subscribers and tokens.     *)
(*                                                                         *)
(* Neither holds by itself: that a reserve or an allowance never becomes   *)
(* negative (TypeOK) rests on the reserve being exact, and that rests on   *)
(* the records being those TypeOK describes.  IInv is their conjunction    *)
(* with what the records say of each other.                                *)
(***************************************************************************)
EXTENDS Subscriptions, MoneyProofs

USE EnvAssumption, SubscriptionsAssumption DEF SubIds

\* Every subscription is to a plan that exists and has cycles left exactly as
\* long as it is not completed.
RecordsAgree ==
    \A s \in SubIds : sub[s] # NoEntry =>
        /\ PlanOf(s) # NoEntry
        /\ sub[s].cycles_charged <= PlanOf(s).max_cycles
        /\ sub[s].status = "Completed" <=> sub[s].cycles_charged = PlanOf(s).max_cycles

IInv == TypeOK /\ RecordsAgree /\ ReserveExact /\ AllowanceAccounted

\* Writing one entry of a table indexed by account and token.
LEMMA EntryWritten ==
    ASSUME NEW S, NEW f \in [Accounts -> [Tokens -> S]],
           NEW a \in Accounts, NEW t \in Tokens, NEW v \in S
    PROVE  /\ [f EXCEPT ![a][t] = v] \in [Accounts -> [Tokens -> S]]
           /\ [f EXCEPT ![a][t] = v][a][t] = v
           /\ \A b \in Accounts, u \in Tokens :
                 b # a \/ u # t => [f EXCEPT ![a][t] = v][b][u] = f[b][u]
<1> DEFINE g == [f[a] EXCEPT ![t] = v]
<1>1. f[a] \in [Tokens -> S]
  OBVIOUS
<1>2. g \in [Tokens -> S] /\ g[t] = v /\ \A u \in Tokens : u # t => g[u] = f[a][u]
  BY <1>1
<1>3. [f EXCEPT ![a][t] = v] = [f EXCEPT ![a] = g]
  OBVIOUS
<1> HIDE DEF g
<1> QED BY <1>2, <1>3

-----------------------------------------------------------------------------
(* What the invariant says of one subscription *)

\* The records of a stored subscription and of its plan.
LEMMA RecordTypes ==
    ASSUME TypeOK, RecordsAgree, NEW s \in SubIds, sub[s] # NoEntry
    PROVE  /\ sub[s] \in Subscription
           /\ PlanOf(s) \in SubscriptionPlan
           /\ PlanOf(s).token \in Tokens
           /\ PlanOf(s).amount \in Nat \ {0}
           /\ PlanOf(s).max_cycles \in Nat \ {0}
           /\ sub[s].cycles_charged \in Nat
           /\ sub[s].subscriber \in Accounts
           /\ sub[s].merchant \in Merchants
<1>1. sub[s] \in Subscription
  BY DEF TypeOK
<1>2. sub[s].plan \in PlanIds
  BY <1>1 DEF Subscription
<1>3. PlanOf(s) \in SubscriptionPlan
  BY <1>2 DEF TypeOK, RecordsAgree, PlanOf
<1> QED BY <1>1, <1>3 DEF Subscription, SubscriptionPlan

\* What remains of an active subscription is at least one more charge.
LEMMA RemainingFacts ==
    ASSUME TypeOK, RecordsAgree, NEW s \in SubIds, sub[s] # NoEntry
    PROVE  /\ Remaining(s) \in Nat
           /\ sub[s].cycles_charged < PlanOf(s).max_cycles => Remaining(s) >= PlanOf(s).amount
<1> DEFINE x == PlanOf(s).amount
           k == PlanOf(s).max_cycles - sub[s].cycles_charged
<1>1. x \in Nat \ {0} /\ k \in Nat
  BY RecordTypes DEF RecordsAgree
<1>2. sub[s].cycles_charged < PlanOf(s).max_cycles => k >= 1
  BY RecordTypes
<1> HIDE DEF x, k
<1>3. x * k \in Nat /\ (k >= 1 => x * k >= x)
  BY <1>1
<1> QED BY <1>2, <1>3 DEF Remaining, x, k

\* The backing of a reserve is a function to the naturals.
LEMMA BackingType ==
    ASSUME TypeOK, RecordsAgree, NEW a \in Accounts, NEW t \in Tokens
    PROVE  Backing(a, t) \in [1..NumSubs -> Nat]
<1>1. \A s \in SubIds : IsActive(s) => Remaining(s) \in Nat
  BY RemainingFacts DEF IsActive
<1> QED BY <1>1 DEF Backing

\* The reserve covers what remains of each active subscription, so the
\* subtractions of charge_subscription and cancel_subscription never truncate.
LEMMA ReserveCovers ==
    ASSUME TypeOK, RecordsAgree, ReserveExact, NEW s \in SubIds, IsActive(s)
    PROVE  Remaining(s) <= reserve[sub[s].subscriber][PlanOf(s).token]
<1> DEFINE a == sub[s].subscriber
           t == PlanOf(s).token
<1>1. a \in Accounts /\ t \in Tokens
  BY RecordTypes DEF IsActive
<1>2. Backing(a, t)[s] = Remaining(s)
  BY DEF Backing
<1> HIDE DEF a, t
<1>3. Backing(a, t) \in [1..NumSubs -> Nat]
  BY <1>1, BackingType
<1>4. Backing(a, t)[s] <= Total(Backing(a, t), NumSubs)
  BY <1>3, TotalCovers
<1>5. reserve[a][t] = Total(Backing(a, t), NumSubs)
  BY <1>1 DEF ReserveExact
<1>6. Remaining(s) <= reserve[a][t]
  BY <1>2, <1>4, <1>5
<1> QED BY <1>6 DEF a, t

\* A step that touches one subscription changes the sum by that one's share.
LEMMA BackingAfter ==
    ASSUME TypeOK, RecordsAgree, TypeOK', RecordsAgree', NEW s \in SubIds,
           plan' = plan, \A n \in SubIds : n # s => sub'[n] = sub[n],
           NEW a \in Accounts, NEW t \in Tokens
    PROVE  Total(Backing(a, t)', NumSubs)
               = Total(Backing(a, t), NumSubs) - Backing(a, t)[s] + Backing(a, t)'[s]
<1>1. Backing(a, t) \in [1..NumSubs -> Nat]
  BY BackingType
<1>2. Backing(a, t)' \in [1..NumSubs -> Nat]
  <2>1. (TypeOK /\ RecordsAgree => Backing(a, t) \in [1..NumSubs -> Nat])'
    BY BackingType, PTL
  <2> QED BY <2>1
<1>3. \A n \in 1..NumSubs : n # s => Backing(a, t)'[n] = Backing(a, t)[n]
  BY DEF Backing, IsActive, Remaining, PlanOf
<1>4. NumSubs \in Nat /\ s \in 1..NumSubs
  OBVIOUS
<1> DEFINE f == Backing(a, t)
           g == Backing(a, t)'
<1>5. f \in [1..NumSubs -> Nat] /\ g \in [1..NumSubs -> Nat]
  BY <1>1, <1>2
<1>6. \A n \in 1..NumSubs : n # s => g[n] = f[n]
  BY <1>3
<1> HIDE DEF f, g
<1>7. \A F, G \in [1..NumSubs -> Nat] : \A k \in 1..NumSubs :
          (\A n \in 1..NumSubs : n # k => G[n] = F[n])
              => Total(G, NumSubs) = Total(F, NumSubs) - F[k] + G[k]
  BY <1>4, TotalAfter
<1>8. Total(g, NumSubs) = Total(f, NumSubs) - f[s] + g[s]
  BY <1>4, <1>5, <1>6, <1>7
<1> QED BY <1>8 DEF f, g

\* Two subscriptions' arithmetic: one more charge costs one amount.
LEMMA OneMoreCharge ==
    ASSUME NEW x \in Int, NEW m \in Int, NEW c \in Int
    PROVE  x * (m - (c + 1)) = x * (m - c) - x
OBVIOUS

-----------------------------------------------------------------------------
(* Every step keeps the records well typed and in agreement *)

LEMMA CreatePlanKeepsRecords ==
    ASSUME IInv, NEW p \in PlanIds, NEW t \in Tokens, NEW x \in Amounts, NEW i \in Intervals,
           NEW c \in CycleLimits, create_subscription_plan(p, t, x, i, c)
    PROVE  TypeOK' /\ RecordsAgree'
<1> DEFINE r == [token |-> t, amount |-> x, interval_secs |-> i, max_cycles |-> c]
<1>1. r \in SubscriptionPlan
  BY DEF create_subscription_plan, require_positive, SubscriptionPlan
<1>2. plan' = [plan EXCEPT ![p] = r] /\ plan[p] = NoEntry
      /\ UNCHANGED <<envVars, sub, reserve, allowance, released, revoked>>
  BY DEF create_subscription_plan
<1> HIDE DEF r
<1>3. TypeOK'
  BY <1>1, <1>2 DEF IInv, TypeOK, EnvTypeOK, envVars
<1>4. \A s \in SubIds : sub[s] # NoEntry => PlanOf(s)' = PlanOf(s)
  BY <1>2 DEF IInv, RecordsAgree, TypeOK, PlanOf
<1>5. RecordsAgree'
  BY <1>2, <1>4 DEF IInv, RecordsAgree
<1> QED BY <1>3, <1>5

LEMMA SubscribeKeepsRecords ==
    ASSUME IInv, NEW m \in Merchants, NEW a \in Accounts, NEW p \in PlanIds, NEW s \in SubIds,
           subscribe(m, a, p, s)
    PROVE  TypeOK' /\ RecordsAgree'
<1> DEFINE r == [plan |-> p, merchant |-> m, subscriber |-> a, status |-> "Active",
                 cycles_charged |-> 0, last_charged_at |-> now, created_at |-> now]
           t == plan[p].token
           total == reserve[a][t] + plan[p].amount * plan[p].max_cycles
<1>1. plan[p] \in SubscriptionPlan
  BY DEF IInv, TypeOK, subscribe
<1>2. t \in Tokens /\ plan[p].max_cycles \in Nat \ {0} /\ plan[p].amount \in Nat \ {0}
  BY <1>1 DEF SubscriptionPlan
<1>3. total \in Nat
  <2>1. plan[p].amount * plan[p].max_cycles \in Nat
    BY <1>2
  <2> QED BY <1>2, <2>1, SMTT(30) DEF IInv, TypeOK
<1>4. r \in Subscription
  BY DEF IInv, TypeOK, EnvTypeOK, Subscription
<1>5. /\ sub' = [sub EXCEPT ![s] = r]
      /\ reserve' = [reserve EXCEPT ![a][t] = IF total > 0 THEN total ELSE 0]
      /\ allowance' = [allowance EXCEPT ![a][t] = [amount |-> total, live_until |-> now + MaxTTL]]
      /\ released' = [released EXCEPT ![a][t] = 0]
      /\ revoked' = revoked \ {<<a, t>>}
      /\ UNCHANGED <<envVars, plan>>
  BY DEF subscribe, set_subscription_reserve, Approve
<1>6. now + MaxTTL \in Nat
  BY DEF IInv, TypeOK, EnvTypeOK
<1>7. r.plan = p /\ r.cycles_charged = 0 /\ r.status = "Active"
  OBVIOUS
<1> HIDE DEF r, t, total
<1>8. TypeOK'
  BY <1>2, <1>3, <1>4, <1>5, <1>6 DEF IInv, TypeOK, EnvTypeOK, envVars
<1>9. \A n \in SubIds : n # s => sub'[n] = sub[n] /\ PlanOf(n)' = PlanOf(n)
  BY <1>5 DEF IInv, TypeOK, PlanOf
<1>10. sub'[s] = r /\ PlanOf(s)' = plan[p]
  BY <1>5, <1>7 DEF IInv, TypeOK, PlanOf
<1>11. plan[p] # NoEntry
  BY <1>1
<1>12. RecordsAgree'
  BY <1>2, <1>7, <1>9, <1>10, <1>11 DEF IInv, RecordsAgree
<1> QED BY <1>8, <1>12

\* What charge_subscription needs and does, with the reserve's truncation gone.
ChargeEffect(s) ==
    LET a == sub[s].subscriber
        t == PlanOf(s).token
        x == PlanOf(s).amount
        c == sub[s].cycles_charged + 1
    IN  /\ sub[s] # NoEntry
        /\ IsActive(s)
        /\ c <= PlanOf(s).max_cycles
        /\ sub' = [sub EXCEPT
                ![s].cycles_charged = c, ![s].last_charged_at = now,
                ![s].status = IF c = PlanOf(s).max_cycles THEN "Completed" ELSE "Active"]
        /\ x <= reserve[a][t]
        /\ reserve' = [reserve EXCEPT ![a][t] = @ - x]
        /\ x <= allowance[a][t].amount
        /\ allowance' = [allowance EXCEPT ![a][t].amount = @ - x]
        /\ balance' \in [Tokens -> [Holders -> Nat]]
        /\ UNCHANGED <<now, paused, active, allowed, plan, released, revoked>>

LEMMA ChargeFacts ==
    ASSUME IInv, NEW m \in Merchants, NEW s \in SubIds, charge_subscription(m, s)
    PROVE  ChargeEffect(s)
<1> DEFINE a == sub[s].subscriber
           t == PlanOf(s).token
           x == PlanOf(s).amount
           c == sub[s].cycles_charged + 1
<1>1. sub[s] # NoEntry /\ sub[s].status # "Cancelled" /\ c <= PlanOf(s).max_cycles
      /\ m = sub[s].merchant
  BY DEF charge_subscription
<1>2. /\ sub[s] \in Subscription /\ a \in Accounts /\ t \in Tokens /\ x \in Nat \ {0}
      /\ PlanOf(s).max_cycles \in Nat /\ sub[s].cycles_charged \in Nat
  BY <1>1, RecordTypes DEF IInv
<1>3. IsActive(s)
  <2>1. sub[s].status # "Completed"
    BY <1>1, <1>2 DEF IInv, RecordsAgree
  <2> QED BY <1>1, <1>2, <2>1 DEF IsActive, Subscription
<1>4. x <= reserve[a][t]
  <2>1. Remaining(s) >= x /\ Remaining(s) \in Nat
    BY <1>1, <1>2, RemainingFacts DEF IInv
  <2>2. Remaining(s) <= reserve[a][t]
    BY <1>3, ReserveCovers DEF IInv
  <2>3. reserve[a][t] \in Nat
    BY <1>2 DEF IInv, TypeOK
  <2> QED BY <1>2, <2>1, <2>2, <2>3
<1>5. reserve' = [reserve EXCEPT ![a][t] = @ - x]
  <2>1. reserve' = [reserve EXCEPT ![a][t] = IF reserve[a][t] - x > 0 THEN reserve[a][t] - x ELSE 0]
    BY DEF charge_subscription, set_subscription_reserve
  <2>2. reserve[a][t] \in Nat
    BY <1>2 DEF IInv, TypeOK
  <2>3. (IF reserve[a][t] - x > 0 THEN reserve[a][t] - x ELSE 0) = reserve[a][t] - x
    BY <1>2, <1>4, <2>2
  <2> HIDE DEF a, t, x
  <2> QED BY <2>1, <2>3
<1>6. TransferFrom(t, a, m, x)
  BY DEF charge_subscription
<1>7. x <= allowance[a][t].amount /\ allowance' = [allowance EXCEPT ![a][t].amount = @ - x]
  <2>1. allowance[a][t].amount \in Nat
    BY <1>2 DEF IInv, TypeOK
  <2> QED BY <1>2, <1>6, <2>1 DEF TransferFrom
<1>8. balance' \in [Tokens -> [Holders -> Nat]]
  <2>1. a \in Holders /\ m \in Holders /\ x \in Nat
    BY <1>2 DEF Holders
  <2>2. Transfer(t, a, m, x)
    BY <1>6 DEF TransferFrom
  <2> QED BY <1>2, <2>1, <2>2, TransferFacts DEF IInv, TypeOK, EnvTypeOK
<1>9. sub' = [sub EXCEPT
                ![s].cycles_charged = c, ![s].last_charged_at = now,
                ![s].status = IF c = PlanOf(s).max_cycles THEN "Completed" ELSE "Active"]
  <2>1. sub[s].status = "Active"
    BY <1>3 DEF IsActive
  <2>2. sub' = [sub EXCEPT ![s].cycles_charged = c, ![s].last_charged_at = now,
                           ![s].status = IF c = PlanOf(s).max_cycles THEN "Completed" ELSE @]
    BY DEF charge_subscription
  <2> QED BY <2>1, <2>2
<1>10. UNCHANGED <<now, paused, active, allowed, plan, released, revoked>>
  BY DEF charge_subscription
<1> QED BY <1>1, <1>3, <1>4, <1>5, <1>7, <1>8, <1>9, <1>10 DEF ChargeEffect

LEMMA ChargeKeepsRecords ==
    ASSUME IInv, NEW s \in SubIds, ChargeEffect(s)
    PROVE  TypeOK' /\ RecordsAgree' /\ sub'[s] \in Subscription
<1> DEFINE a == sub[s].subscriber
           t == PlanOf(s).token
           x == PlanOf(s).amount
           c == sub[s].cycles_charged + 1
           r == sub'[s]
<1>1. /\ sub[s] \in Subscription /\ a \in Accounts /\ t \in Tokens /\ x \in Nat \ {0}
      /\ PlanOf(s).max_cycles \in Nat /\ sub[s].cycles_charged \in Nat
  BY RecordTypes DEF IInv, ChargeEffect
<1>2. /\ r.plan = sub[s].plan /\ r.cycles_charged = c
      /\ r.status = IF c = PlanOf(s).max_cycles THEN "Completed" ELSE "Active"
      /\ r \in Subscription
      /\ sub' \in [SubIds -> Subscription \cup {NoEntry}]
      /\ \A n \in SubIds : n # s => sub'[n] = sub[n]
  <2> DEFINE v == IF c = PlanOf(s).max_cycles THEN "Completed" ELSE "Active"
             q == [sub[s] EXCEPT !.cycles_charged = c, !.last_charged_at = now, !.status = v]
  <2>1. v \in {"Active", "Cancelled", "Completed"} /\ c \in Nat /\ now \in 0..MaxTime
    BY <1>1 DEF IInv, TypeOK, EnvTypeOK
  <2>2. sub' = [sub EXCEPT ![s].cycles_charged = c, ![s].last_charged_at = now, ![s].status = v]
    BY DEF ChargeEffect
  <2> HIDE DEF v, c
  <2>3. q \in Subscription /\ q.plan = sub[s].plan /\ q.cycles_charged = c /\ q.status = v
    BY <1>1, <2>1 DEF Subscription
  <2>4. sub \in [SubIds -> Subscription \cup {NoEntry}]
    BY DEF IInv, TypeOK
  <2>5. sub' = [sub EXCEPT ![s] = q]
    BY <2>2, <2>4
  <2> HIDE DEF q
  <2>6. r = q
    BY <2>4, <2>5
  <2>7. sub' \in [SubIds -> Subscription \cup {NoEntry}] /\ \A n \in SubIds : n # s => sub'[n] = sub[n]
    BY <2>3, <2>4, <2>5
  <2> QED BY <2>3, <2>6, <2>7 DEF v
<1>3. reserve' \in [Accounts -> [Tokens -> Nat]]
  <2>1. reserve[a][t] - x \in Nat /\ reserve' = [reserve EXCEPT ![a][t] = reserve[a][t] - x]
    BY <1>1, SMTT(30) DEF IInv, TypeOK, ChargeEffect
  <2> HIDE DEF a, t, x
  <2> QED BY <2>1 DEF IInv, TypeOK
<1>4. allowance' \in [Accounts -> [Tokens -> [amount : Nat, live_until : Nat]]]
  <2> DEFINE y == allowance[a][t].amount - x
             w == [allowance[a][t] EXCEPT !.amount = y]
  <2>1. y \in Nat /\ allowance' = [allowance EXCEPT ![a][t].amount = y]
    BY <1>1, SMTT(30) DEF IInv, TypeOK, ChargeEffect
  <2> HIDE DEF y
  <2>0. allowance[a][t] \in [amount : Nat, live_until : Nat]
    BY <1>1 DEF IInv, TypeOK
  <2>2. w \in [amount : Nat, live_until : Nat]
    BY <2>0, <2>1
  <2>3. allowance' = [allowance EXCEPT ![a][t] = w]
    BY <1>1, <2>1 DEF IInv, TypeOK
  <2>4. allowance \in [Accounts -> [Tokens -> [amount : Nat, live_until : Nat]]]
    BY DEF IInv, TypeOK
  <2>5. a \in Accounts /\ t \in Tokens
    BY <1>1
  <2> HIDE DEF w, a, t
  <2>6. [allowance[a] EXCEPT ![t] = w] \in [Tokens -> [amount : Nat, live_until : Nat]]
    BY <2>2, <2>4, <2>5, Zenon
  <2> QED BY <2>3, <2>4, <2>6
<1>5. TypeOK'
  <2>1. EnvTypeOK'
    BY Zenon DEF IInv, TypeOK, EnvTypeOK, ChargeEffect
  <2>2. UNCHANGED <<plan, released, revoked>>
    BY DEF ChargeEffect
  <2>3. /\ plan \in [PlanIds -> SubscriptionPlan \cup {NoEntry}]
        /\ released \in [Accounts -> [Tokens -> Nat]]
        /\ revoked \subseteq Accounts \X Tokens
    BY Zenon DEF IInv, TypeOK
  <2> QED BY <1>2, <1>3, <1>4, <2>1, <2>2, <2>3, Zenon DEF TypeOK
<1>6. \A n \in SubIds : PlanOf(n)' = PlanOf(n)
  BY <1>2, Zenon DEF PlanOf, ChargeEffect
<1>7. c <= PlanOf(s).max_cycles
  BY DEF ChargeEffect
<1> HIDE DEF r, c
<1>8. RecordsAgree'
  <2> SUFFICES ASSUME NEW n \in SubIds, sub'[n] # NoEntry
               PROVE  /\ PlanOf(n) # NoEntry
                      /\ sub'[n].cycles_charged <= PlanOf(n).max_cycles
                      /\ sub'[n].status = "Completed"
                             <=> sub'[n].cycles_charged = PlanOf(n).max_cycles
    BY <1>6 DEF RecordsAgree
  <2>1. CASE n # s
    BY <1>2, <2>1 DEF IInv, RecordsAgree
  <2>2. CASE n = s
    BY <1>2, <1>7, <2>2 DEF IInv, RecordsAgree, ChargeEffect, r
  <2> QED BY <2>1, <2>2
<1> QED BY <1>2, <1>5, <1>8 DEF r

\* What cancel_subscription needs and does, with the reserve's truncation gone.
CancelEffect(caller, s) ==
    LET a == sub[s].subscriber
        t == PlanOf(s).token
        left == reserve[a][t] - Remaining(s)
    IN  /\ IsActive(s)
        /\ sub' = [sub EXCEPT ![s].status = "Cancelled"]
        /\ Remaining(s) <= reserve[a][t]
        /\ reserve' = [reserve EXCEPT ![a][t] = left]
        /\ IF caller = a
           THEN /\ allowance' = [allowance EXCEPT ![a][t] = [amount |-> left, live_until |-> now + MaxTTL]]
                /\ released' = [released EXCEPT ![a][t] = 0]
                /\ revoked' = revoked \ {<<a, t>>}
           ELSE /\ released' = [released EXCEPT ![a][t] = @ + Remaining(s)]
                /\ UNCHANGED <<allowance, revoked>>
        /\ UNCHANGED <<envVars, plan>>

LEMMA CancelFacts ==
    ASSUME IInv, NEW caller \in Accounts, NEW s \in SubIds, cancel_subscription(caller, s)
    PROVE  CancelEffect(caller, s)
<1> DEFINE a == sub[s].subscriber
           t == PlanOf(s).token
           left == reserve[a][t] - Remaining(s)
<1>1. IsActive(s)
  BY DEF cancel_subscription
<1>2. a \in Accounts /\ t \in Tokens /\ Remaining(s) \in Nat /\ reserve[a][t] \in Nat
  <2>1. sub[s] # NoEntry
    BY <1>1 DEF IsActive
  <2>2. a \in Accounts /\ t \in Tokens
    BY <2>1, RecordTypes DEF IInv
  <2>3. Remaining(s) \in Nat
    BY <2>1, RemainingFacts DEF IInv
  <2> HIDE DEF a, t
  <2> QED BY <2>2, <2>3 DEF IInv, TypeOK
<1>3. Remaining(s) <= reserve[a][t]
  BY <1>1, ReserveCovers DEF IInv
<1>4. (IF left > 0 THEN left ELSE 0) = left
  BY <1>2, <1>3
<1>5. reserve' = [reserve EXCEPT ![a][t] = IF left > 0 THEN left ELSE 0]
  BY DEF cancel_subscription, set_subscription_reserve
<1>6. reserve' = [reserve EXCEPT ![a][t] = left]
  <2> HIDE DEF left, a, t
  <2> QED BY <1>4, <1>5
<1>7. sub' = [sub EXCEPT ![s].status = "Cancelled"] /\ UNCHANGED <<envVars, plan>>
  BY DEF cancel_subscription
<1>8. IF caller = a
      THEN /\ allowance' = [allowance EXCEPT ![a][t] = [amount |-> left, live_until |-> now + MaxTTL]]
           /\ released' = [released EXCEPT ![a][t] = 0]
           /\ revoked' = revoked \ {<<a, t>>}
      ELSE /\ released' = [released EXCEPT ![a][t] = @ + Remaining(s)]
           /\ UNCHANGED <<allowance, revoked>>
  BY DEF cancel_subscription, Approve
<1> QED BY <1>1, <1>3, <1>6, <1>7, <1>8 DEF CancelEffect

LEMMA CancelKeepsRecords ==
    ASSUME IInv, NEW caller \in Accounts, NEW s \in SubIds, CancelEffect(caller, s)
    PROVE  TypeOK' /\ RecordsAgree'
<1> DEFINE a == sub[s].subscriber
           t == PlanOf(s).token
           left == reserve[a][t] - Remaining(s)
           q == [sub[s] EXCEPT !.status = "Cancelled"]
<1>1. /\ sub[s] \in Subscription /\ sub[s] # NoEntry /\ sub[s].status = "Active"
      /\ a \in Accounts /\ t \in Tokens /\ Remaining(s) \in Nat /\ reserve[a][t] \in Nat
  <2>1. sub[s] # NoEntry /\ sub[s].status = "Active"
    BY DEF IsActive, CancelEffect
  <2>2. a \in Accounts /\ t \in Tokens /\ sub[s] \in Subscription
    BY <2>1, RecordTypes DEF IInv
  <2>3. Remaining(s) \in Nat
    BY <2>1, RemainingFacts DEF IInv
  <2> HIDE DEF a, t
  <2> QED BY <2>1, <2>2, <2>3 DEF IInv, TypeOK
<1>2. left \in Nat /\ now + MaxTTL \in Nat /\ released[a][t] + Remaining(s) \in Nat
  <2>1. Remaining(s) <= reserve[a][t]
    BY DEF CancelEffect
  <2>2. now + MaxTTL \in Nat
    BY DEF IInv, TypeOK, EnvTypeOK
  <2>3. released[a][t] \in Nat
    BY <1>1 DEF IInv, TypeOK
  <2> QED BY <1>1, <2>1, <2>2, <2>3
<1>3. q \in Subscription /\ q.plan = sub[s].plan /\ q.cycles_charged = sub[s].cycles_charged
      /\ q.status = "Cancelled"
  BY <1>1 DEF Subscription
<1>4. sub \in [SubIds -> Subscription \cup {NoEntry}] /\ sub' = [sub EXCEPT ![s].status = "Cancelled"]
  BY DEF IInv, TypeOK, CancelEffect
<1>5. sub' = [sub EXCEPT ![s] = q]
  BY <1>4
<1>6. /\ reserve' = [reserve EXCEPT ![a][t] = left]
      /\ UNCHANGED <<envVars, plan>>
      /\ \/ /\ allowance' = [allowance EXCEPT ![a][t] = [amount |-> left, live_until |-> now + MaxTTL]]
            /\ released' = [released EXCEPT ![a][t] = 0]
            /\ revoked' = revoked \ {<<a, t>>}
         \/ /\ released' = [released EXCEPT ![a][t] = released[a][t] + Remaining(s)]
            /\ UNCHANGED <<allowance, revoked>>
  BY DEF CancelEffect
<1> HIDE DEF q, left
<1>7. sub' \in [SubIds -> Subscription \cup {NoEntry}]
      /\ sub'[s] = q /\ \A n \in SubIds : n # s => sub'[n] = sub[n]
  BY <1>3, <1>4, <1>5
<1> HIDE DEF a, t
<1>8. reserve' \in [Accounts -> [Tokens -> Nat]]
  BY <1>1, <1>2, <1>6, EntryWritten, SMTT(30) DEF IInv, TypeOK
<1>9. released' \in [Accounts -> [Tokens -> Nat]]
  <2>1. released \in [Accounts -> [Tokens -> Nat]] /\ 0 \in Nat
    BY DEF IInv, TypeOK
  <2> QED BY <1>1, <1>2, <1>6, <2>1, EntryWritten
<1>10. allowance' \in [Accounts -> [Tokens -> [amount : Nat, live_until : Nat]]]
  <2> DEFINE A == [amount : Nat, live_until : Nat]
             w == [amount |-> left, live_until |-> now + MaxTTL]
  <2>1. w \in A
    BY <1>2
  <2>2. allowance \in [Accounts -> [Tokens -> A]]
    BY DEF IInv, TypeOK
  <2>3. allowance' = [allowance EXCEPT ![a][t] = w] \/ allowance' = allowance
    BY <1>6
  <2>4. a \in Accounts /\ t \in Tokens
    BY <1>1
  <2> HIDE DEF A, w
  <2>5. [allowance EXCEPT ![a][t] = w] \in [Accounts -> [Tokens -> A]]
    BY <2>1, <2>2, <2>4, EntryWritten
  <2> QED BY <2>2, <2>3, <2>5 DEF A
<1>11. revoked' \subseteq Accounts \X Tokens
  BY <1>6 DEF IInv, TypeOK
<1>12. TypeOK'
  BY <1>6, <1>7, <1>8, <1>9, <1>10, <1>11 DEF IInv, TypeOK, EnvTypeOK, envVars
<1>13. \A n \in SubIds : PlanOf(n)' = PlanOf(n)
  BY <1>3, <1>6, <1>7 DEF PlanOf
<1>14. RecordsAgree'
  <2> SUFFICES ASSUME NEW n \in SubIds, sub'[n] # NoEntry
               PROVE  /\ PlanOf(n) # NoEntry
                      /\ sub'[n].cycles_charged <= PlanOf(n).max_cycles
                      /\ sub'[n].status = "Completed"
                             <=> sub'[n].cycles_charged = PlanOf(n).max_cycles
    BY <1>13 DEF RecordsAgree
  <2>1. CASE n # s
    BY <1>7, <2>1 DEF IInv, RecordsAgree
  <2>2. CASE n = s
    BY <1>1, <1>3, <1>7, <2>2 DEF IInv, RecordsAgree
  <2> QED BY <2>1, <2>2
<1> QED BY <1>12, <1>14

\* An approval of a natural amount changes only the allowance.
LEMMA ApprovalKeepsRecords ==
    ASSUME IInv, NEW a \in Accounts, NEW t \in Tokens, NEW amount \in Nat,
           Approve(a, t, amount), revoked' \subseteq Accounts \X Tokens,
           UNCHANGED <<envVars, plan, sub, reserve>>
    PROVE  TypeOK' /\ RecordsAgree'
<1> DEFINE w == [amount |-> amount, live_until |-> now + MaxTTL]
           A == [amount : Nat, live_until : Nat]
<1>1. w \in A
  BY DEF IInv, TypeOK, EnvTypeOK
<1>2. allowance' = [allowance EXCEPT ![a][t] = w] /\ released' = [released EXCEPT ![a][t] = 0]
  BY DEF Approve
<1>3. /\ allowance \in [Accounts -> [Tokens -> A]]
      /\ released \in [Accounts -> [Tokens -> Nat]] /\ 0 \in Nat
  BY DEF IInv, TypeOK
<1> HIDE DEF w, A
<1>4. allowance' \in [Accounts -> [Tokens -> A]] /\ released' \in [Accounts -> [Tokens -> Nat]]
  BY <1>1, <1>2, <1>3, EntryWritten
<1>5. TypeOK'
  BY <1>4 DEF IInv, TypeOK, EnvTypeOK, envVars, A
<1>6. RecordsAgree'
  BY DEF IInv, RecordsAgree, PlanOf
<1> QED BY <1>5, <1>6

\* Init and the steps of the rest of the system.
LEMMA InitRecords == Init => TypeOK /\ RecordsAgree
<1> SUFFICES ASSUME Init PROVE TypeOK /\ RecordsAgree
  OBVIOUS
<1>1. EnvTypeOK
  <2>1. balance \in [Tokens -> [Holders -> Nat]] /\ now \in 0..MaxTime
    BY DEF Init, EnvInit
  <2>2. paused \in BOOLEAN /\ active \subseteq Merchants /\ allowed \subseteq Tokens
    BY Zenon DEF Init, EnvInit
  <2> QED BY <2>1, <2>2 DEF EnvTypeOK
<1>2. allowance \in [Accounts -> [Tokens -> [amount : Nat, live_until : Nat]]]
  BY DEF Init
<1>3. TypeOK
  BY <1>1, <1>2 DEF Init, TypeOK
<1>4. RecordsAgree
  BY DEF Init, RecordsAgree
<1> QED BY <1>3, <1>4

LEMMA EnvKeepsRecords ==
    ASSUME IInv, EnvNext \/ UNCHANGED envVars, UNCHANGED subVars
    PROVE  TypeOK' /\ RecordsAgree'
<1>1. EnvTypeOK'
  <2>1. CASE EnvNext
    BY <2>1, EnvNextFacts DEF IInv, TypeOK
  <2>2. CASE UNCHANGED envVars
    BY <2>2 DEF IInv, TypeOK, EnvTypeOK, envVars
  <2> QED BY <2>1, <2>2
<1>2. TypeOK'
  BY <1>1 DEF IInv, TypeOK, subVars
<1>3. RecordsAgree'
  BY DEF IInv, RecordsAgree, PlanOf, subVars
<1> QED BY <1>2, <1>3

-----------------------------------------------------------------------------
(* Every step keeps the reserve exact and the allowance accounted for *)

\* A handler that touches one subscription keeps the reserve exact when it
\* moves the reserve by that subscription's share.
LEMMA ReserveFollows ==
    ASSUME IInv, TypeOK', RecordsAgree', NEW s \in SubIds,
           plan' = plan, \A n \in SubIds : n # s => sub'[n] = sub[n],
           \A a \in Accounts, t \in Tokens :
               reserve'[a][t] = reserve[a][t] - Backing(a, t)[s] + Backing(a, t)'[s]
    PROVE  ReserveExact'
<1> SUFFICES ASSUME NEW a \in Accounts, NEW t \in Tokens
             PROVE  reserve'[a][t] = Total(Backing(a, t)', NumSubs)
  BY DEF ReserveExact
<1>1. reserve[a][t] = Total(Backing(a, t), NumSubs)
  BY DEF IInv, ReserveExact
<1>2. Total(Backing(a, t)', NumSubs)
          = Total(Backing(a, t), NumSubs) - Backing(a, t)[s] + Backing(a, t)'[s]
  BY BackingAfter DEF IInv
<1> QED BY <1>1, <1>2

\* A step that leaves the subscriptions and their plans alone.
LEMMA ReserveStays ==
    ASSUME IInv, sub' = sub, reserve' = reserve,
           \A s \in SubIds : sub[s] # NoEntry => PlanOf(s)' = PlanOf(s)
    PROVE  ReserveExact'
<1>1. \A a, t : Backing(a, t)' = Backing(a, t)
  BY DEF Backing, IsActive, Remaining
<1> QED BY <1>1 DEF IInv, ReserveExact

LEMMA SubscribeKeepsTotals ==
    ASSUME IInv, NEW m \in Merchants, NEW a \in Accounts, NEW p \in PlanIds, NEW s \in SubIds,
           subscribe(m, a, p, s)
    PROVE  ReserveExact' /\ AllowanceAccounted'
<1> DEFINE t == plan[p].token
           cost == plan[p].amount * plan[p].max_cycles
           total == reserve[a][t] + cost
<1>1. plan[p] \in SubscriptionPlan
  BY DEF IInv, TypeOK, subscribe
<1>2. t \in Tokens /\ plan[p].max_cycles \in Nat \ {0} /\ plan[p].amount \in Nat \ {0}
  BY <1>1 DEF SubscriptionPlan
<1>3. cost \in Nat
  BY <1>2
<1> HIDE DEF cost
<1>4. total \in Nat /\ total = reserve[a][t] + cost
  BY <1>2, <1>3 DEF IInv, TypeOK
<1>5. TypeOK' /\ RecordsAgree'
  BY SubscribeKeepsRecords
<1>6. /\ reserve' = [reserve EXCEPT ![a][t] = total]
      /\ allowance' = [allowance EXCEPT ![a][t] = [amount |-> total, live_until |-> now + MaxTTL]]
      /\ released' = [released EXCEPT ![a][t] = 0]
      /\ revoked' = revoked \ {<<a, t>>}
  <2>1. reserve' = [reserve EXCEPT ![a][t] = IF total > 0 THEN total ELSE 0]
    BY DEF subscribe, set_subscription_reserve, cost
  <2>2. (IF total > 0 THEN total ELSE 0) = total
    BY <1>4
  <2>3. /\ allowance' = [allowance EXCEPT ![a][t] = [amount |-> total, live_until |-> now + MaxTTL]]
        /\ released' = [released EXCEPT ![a][t] = 0]
        /\ revoked' = revoked \ {<<a, t>>}
    BY DEF subscribe, Approve, cost
  <2> HIDE DEF total, t
  <2> QED BY <2>1, <2>2, <2>3
<1>7. /\ plan' = plan /\ sub[s] = NoEntry
      /\ \A n \in SubIds : n # s => sub'[n] = sub[n]
      /\ sub'[s].plan = p /\ sub'[s].subscriber = a /\ sub'[s].status = "Active"
      /\ sub'[s].cycles_charged = 0 /\ sub'[s] # NoEntry
  BY DEF subscribe, IInv, TypeOK, EnvTypeOK, Subscription
<1>8. ASSUME NEW b \in Accounts, NEW u \in Tokens
      PROVE  /\ Backing(b, u)[s] = 0
             /\ Backing(b, u)'[s] = IF b = a /\ u = t THEN cost ELSE 0
  <2>1. Backing(b, u)[s] = 0
    BY <1>7 DEF Backing, IsActive
  <2>2. Remaining(s)' = plan[p].amount * (plan[p].max_cycles - 0)
    BY <1>7 DEF Remaining, PlanOf
  <2>3. Remaining(s)' = cost
    BY <1>2, <2>2 DEF cost
  <2>4. PlanOf(s)' = plan[p]
    BY <1>7 DEF PlanOf
  <2> QED BY <1>7, <2>1, <2>3, <2>4 DEF Backing, IsActive
<1> HIDE DEF total, t
<1>9. \A b \in Accounts, u \in Tokens :
          /\ reserve'[b][u] = IF b = a /\ u = t THEN total ELSE reserve[b][u]
          /\ released'[b][u] = IF b = a /\ u = t THEN 0 ELSE released[b][u]
          /\ allowance'[b][u].amount = IF b = a /\ u = t THEN total ELSE allowance[b][u].amount
  BY <1>2, <1>6 DEF IInv, TypeOK
<1>10. ReserveExact'
  <2>1. \A b \in Accounts, u \in Tokens :
            reserve'[b][u] = reserve[b][u] - Backing(b, u)[s] + Backing(b, u)'[s]
    <3> SUFFICES ASSUME NEW b \in Accounts, NEW u \in Tokens
                 PROVE  reserve'[b][u] = reserve[b][u] - Backing(b, u)[s] + Backing(b, u)'[s]
      OBVIOUS
    <3>1. reserve[b][u] \in Nat
      BY DEF IInv, TypeOK
    <3>2. /\ Backing(b, u)[s] = 0
          /\ Backing(b, u)'[s] = IF b = a /\ u = t THEN cost ELSE 0
      BY <1>8
    <3> QED BY <1>3, <1>4, <1>9, <3>1, <3>2
  <2> QED BY <1>5, <1>7, <2>1, ReserveFollows
<1>11. AllowanceAccounted'
  BY <1>4, <1>6, <1>9, SMTT(30) DEF IInv, TypeOK, AllowanceAccounted
<1> QED BY <1>10, <1>11

\* The records before and after a charge, and what it does to the three totals.
LEMMA ChargeKeepsTotals ==
    ASSUME IInv, NEW s \in SubIds, ChargeEffect(s)
    PROVE  ReserveExact' /\ AllowanceAccounted'
<1> DEFINE a == sub[s].subscriber
           t == PlanOf(s).token
           x == PlanOf(s).amount
           k == PlanOf(s).max_cycles
           c == sub[s].cycles_charged
<1>1. TypeOK' /\ RecordsAgree' /\ sub'[s] \in Subscription
  BY ChargeKeepsRecords
<1>2. /\ sub[s] # NoEntry /\ sub[s] \in Subscription /\ a \in Accounts /\ t \in Tokens
      /\ x \in Nat \ {0} /\ k \in Nat \ {0} /\ c \in Nat
  BY RecordTypes DEF IInv, ChargeEffect
<1>3. /\ plan' = plan
      /\ \A n \in SubIds : n # s => sub'[n] = sub[n]
      /\ sub'[s] = [sub[s] EXCEPT !.cycles_charged = c + 1, !.last_charged_at = now,
                                  !.status = IF c + 1 = k THEN "Completed" ELSE "Active"]
  BY DEF ChargeEffect, IInv, TypeOK
<1>4. /\ sub'[s].plan = sub[s].plan /\ sub'[s].subscriber = a
      /\ sub'[s].cycles_charged = c + 1
      /\ sub'[s].status = IF c + 1 = k THEN "Completed" ELSE "Active"
  BY <1>2, <1>3 DEF Subscription
<1>5. sub'[s] # NoEntry
  BY <1>1
<1>6. PlanOf(s)' = PlanOf(s)
  BY <1>3, <1>4 DEF PlanOf
<1>7. Remaining(s) = x * (k - c) /\ Remaining(s)' = x * (k - (c + 1))
  BY <1>4, <1>6 DEF Remaining
<1>8. Remaining(s)' = Remaining(s) - x /\ Remaining(s) \in Int
  <2> HIDE DEF x, k, c
  <2>1. x \in Int /\ k \in Int /\ c \in Int
    BY <1>2
  <2>2. x * (k - (c + 1)) = x * (k - c) - x
    BY <2>1, OneMoreCharge
  <2>3. k - c \in Int
    BY <2>1
  <2>4. x * (k - c) \in Int
    BY <2>1, <2>3
  <2> QED BY <1>7, <2>2, <2>4
<1>9. c + 1 = k => Remaining(s)' = 0
  <2>1. c + 1 = k => k - (c + 1) = 0
    BY <1>2
  <2>2. x * 0 = 0
    BY <1>2
  <2> QED BY <1>7, <2>1, <2>2
<1>10. ASSUME NEW b \in Accounts, NEW u \in Tokens
       PROVE  /\ Backing(b, u)[s] = IF b = a /\ u = t THEN Remaining(s) ELSE 0
              /\ Backing(b, u)'[s] = IF b = a /\ u = t THEN Remaining(s) - x ELSE 0
  <2>1. Backing(b, u)[s] = IF b = a /\ u = t THEN Remaining(s) ELSE 0
    BY DEF Backing, ChargeEffect
  <2>2. Backing(b, u)'[s]
            = IF (sub'[s] # NoEntry /\ sub'[s].status = "Active")
                 /\ sub'[s].subscriber = b /\ PlanOf(s)'.token = u
              THEN Remaining(s)' ELSE 0
    BY DEF Backing, IsActive
  <2>3. CASE c + 1 = k
    BY <1>4, <1>8, <1>9, <2>2, <2>3, <2>1
  <2>4. CASE c + 1 # k
    BY <1>4, <1>5, <1>6, <1>8, <2>2, <2>4, <2>1
  <2> QED BY <2>3, <2>4
<1>11. /\ reserve' = [reserve EXCEPT ![a][t] = reserve[a][t] - x]
       /\ allowance' = [allowance EXCEPT ![a][t].amount = allowance[a][t].amount - x]
       /\ released' = released /\ revoked' = revoked
  BY DEF ChargeEffect
<1> HIDE DEF a, t, x, k, c
<1>12. \A b \in Accounts, u \in Tokens :
           /\ reserve'[b][u] = IF b = a /\ u = t THEN reserve[a][t] - x ELSE reserve[b][u]
           /\ allowance'[b][u].amount = IF b = a /\ u = t THEN allowance[a][t].amount - x
                                                       ELSE allowance[b][u].amount
  <2> DEFINE A == [amount : Nat, live_until : Nat]
             y == allowance[a][t].amount - x
             w == [allowance[a][t] EXCEPT !.amount = y]
  <2>1. reserve \in [Accounts -> [Tokens -> Nat]] /\ allowance \in [Accounts -> [Tokens -> A]]
    BY DEF IInv, TypeOK
  <2>2. a \in Accounts /\ t \in Tokens /\ x \in Nat
    BY <1>2
  <2>3. reserve[a][t] - x \in Nat /\ y \in Nat
    BY <2>1, <2>2 DEF ChargeEffect, a, t, x
  <2>4. allowance[a][t] \in A
    BY <2>1, <2>2
  <2> HIDE DEF y
  <2>5. w \in A /\ w.amount = y
    BY <2>3, <2>4
  <2>6. allowance' = [allowance EXCEPT ![a][t] = w]
    BY <1>11, <2>1, <2>2 DEF y
  <2> HIDE DEF A, w
  <2>7. \A b \in Accounts, u \in Tokens :
            reserve'[b][u] = IF b = a /\ u = t THEN reserve[a][t] - x ELSE reserve[b][u]
    BY <1>11, <2>1, <2>2, <2>3, EntryWritten
  <2>8. \A b \in Accounts, u \in Tokens :
            allowance'[b][u] = IF b = a /\ u = t THEN w ELSE allowance[b][u]
    BY <2>1, <2>2, <2>5, <2>6, EntryWritten
  <2> QED BY <2>5, <2>7, <2>8 DEF y
<1>13. ReserveExact'
  <2>1. ASSUME NEW b \in Accounts, NEW u \in Tokens
        PROVE  reserve'[b][u] = reserve[b][u] - Backing(b, u)[s] + Backing(b, u)'[s]
    <3>1. reserve[b][u] \in Nat
      BY DEF IInv, TypeOK
    <3> QED BY <1>2, <1>8, <1>10, <1>12, <3>1
  <2> QED BY <1>1, <1>3, <2>1, ReserveFollows
<1>14. AllowanceAccounted'
  <2> SUFFICES ASSUME NEW b \in Accounts, NEW u \in Tokens, <<b, u>> \notin revoked
               PROVE  allowance'[b][u].amount = reserve'[b][u] + released[b][u]
    BY <1>11 DEF AllowanceAccounted
  <2>1. allowance[b][u].amount = reserve[b][u] + released[b][u]
    BY DEF IInv, AllowanceAccounted
  <2>2. reserve[b][u] \in Nat /\ released[b][u] \in Nat
    BY DEF IInv, TypeOK
  <2> QED BY <1>2, <1>12, <2>1, <2>2
<1> QED BY <1>13, <1>14

LEMMA CancelKeepsTotals ==
    ASSUME IInv, NEW caller \in Accounts, NEW s \in SubIds, CancelEffect(caller, s)
    PROVE  ReserveExact' /\ AllowanceAccounted'
<1> DEFINE a == sub[s].subscriber
           t == PlanOf(s).token
           left == reserve[a][t] - Remaining(s)
<1>1. TypeOK' /\ RecordsAgree'
  BY CancelKeepsRecords
<1>2. sub[s] # NoEntry /\ IsActive(s)
  BY DEF IsActive, CancelEffect
<1>3. a \in Accounts /\ t \in Tokens /\ Remaining(s) \in Nat /\ sub[s] \in Subscription
  BY <1>2, RecordTypes, RemainingFacts DEF IInv
<1>4. /\ plan' = plan
      /\ \A n \in SubIds : n # s => sub'[n] = sub[n]
      /\ sub'[s].status = "Cancelled"
  BY <1>3 DEF CancelEffect, IInv, TypeOK, Subscription
<1>5. ASSUME NEW b \in Accounts, NEW u \in Tokens
      PROVE  /\ Backing(b, u)[s] = IF b = a /\ u = t THEN Remaining(s) ELSE 0
             /\ Backing(b, u)'[s] = 0
  BY <1>2, <1>4 DEF Backing, IsActive
<1>6. /\ reserve' = [reserve EXCEPT ![a][t] = left]
      /\ IF caller = a
         THEN /\ allowance' = [allowance EXCEPT ![a][t] = [amount |-> left, live_until |-> now + MaxTTL]]
              /\ released' = [released EXCEPT ![a][t] = 0]
              /\ revoked' = revoked \ {<<a, t>>}
         ELSE /\ released' = [released EXCEPT ![a][t] = released[a][t] + Remaining(s)]
              /\ allowance' = allowance /\ revoked' = revoked
  BY DEF CancelEffect
<1> HIDE DEF left, a, t
<1>7. \A b \in Accounts, u \in Tokens :
          reserve'[b][u] = IF b = a /\ u = t THEN left ELSE reserve[b][u]
  BY <1>3, <1>6 DEF IInv, TypeOK
<1>8. left = reserve[a][t] - Remaining(s)
  BY DEF left, a, t
<1>9. ReserveExact'
  <2>1. ASSUME NEW b \in Accounts, NEW u \in Tokens
        PROVE  reserve'[b][u] = reserve[b][u] - Backing(b, u)[s] + Backing(b, u)'[s]
    <3>1. reserve[b][u] \in Nat
      BY DEF IInv, TypeOK
    <3> QED BY <1>3, <1>5, <1>7, <1>8, <3>1
  <2> QED BY <1>1, <1>4, <2>1, ReserveFollows
<1>10. AllowanceAccounted'
  <2> SUFFICES ASSUME NEW b \in Accounts, NEW u \in Tokens, <<b, u>> \notin revoked'
               PROVE  allowance'[b][u].amount = reserve'[b][u] + released'[b][u]
    BY DEF AllowanceAccounted
  <2>1. <<b, u>> \notin revoked => allowance[b][u].amount = reserve[b][u] + released[b][u]
    BY DEF IInv, AllowanceAccounted
  <2>2. reserve[b][u] \in Nat /\ released[b][u] \in Nat /\ left \in Int
    BY <1>3, <1>8 DEF IInv, TypeOK
  <2>3. CASE caller = a
    <3>1. /\ allowance'[b][u].amount = IF b = a /\ u = t THEN left ELSE allowance[b][u].amount
          /\ released'[b][u] = IF b = a /\ u = t THEN 0 ELSE released[b][u]
          /\ b # a \/ u # t => <<b, u>> \notin revoked
      <4> DEFINE w == [amount |-> left, live_until |-> now + MaxTTL]
      <4>1. /\ allowance' = [allowance EXCEPT ![a][t] = w]
            /\ released' = [released EXCEPT ![a][t] = 0]
            /\ revoked' = revoked \ {<<a, t>>}
        BY <1>6, <2>3
      <4>2. w.amount = left
        OBVIOUS
      <4> HIDE DEF w
      <4>3. /\ allowance'[b][u] = IF b = a /\ u = t THEN w ELSE allowance[b][u]
            /\ released'[b][u] = IF b = a /\ u = t THEN 0 ELSE released[b][u]
        BY <1>3, <4>1 DEF IInv, TypeOK
      <4>4. b # a \/ u # t => <<b, u>> \notin revoked
        BY <4>1
      <4> QED BY <4>2, <4>3, <4>4
    <3> QED BY <1>7, <2>1, <2>2, <3>1
  <2>4. CASE caller # a
    <3>1. /\ allowance'[b][u] = allowance[b][u] /\ <<b, u>> \notin revoked
          /\ released'[b][u] = IF b = a /\ u = t THEN released[b][u] + Remaining(s)
                               ELSE released[b][u]
      <4>1. /\ allowance' = allowance /\ revoked' = revoked
            /\ released' = [released EXCEPT ![a][t] = released[a][t] + Remaining(s)]
        BY <1>6, <2>4
      <4>2. a \in Accounts /\ t \in Tokens /\ released \in [Accounts -> [Tokens -> Nat]]
        BY <1>3 DEF IInv, TypeOK
      <4> QED BY <4>1, <4>2
    <3> QED BY <1>3, <1>7, <1>8, <2>1, <2>2, <3>1
  <2> QED BY <2>3, <2>4
<1> QED BY <1>9, <1>10

\* An approval that sets the allowance to the reserve, or that is remembered
\* as a revocation, keeps both totals.
LEMMA ApprovalKeepsTotals ==
    ASSUME IInv, NEW a \in Accounts, NEW t \in Tokens, NEW amount \in Nat,
           Approve(a, t, amount), UNCHANGED <<envVars, plan, sub, reserve>>,
           \/ amount = reserve[a][t] /\ revoked' = revoked \ {<<a, t>>}
           \/ revoked' = revoked \cup {<<a, t>>}
    PROVE  ReserveExact' /\ AllowanceAccounted'
<1>1. ReserveExact'
  BY ReserveStays DEF PlanOf
<1>2. AllowanceAccounted'
  <2> SUFFICES ASSUME NEW b \in Accounts, NEW u \in Tokens, <<b, u>> \notin revoked'
               PROVE  allowance'[b][u].amount = reserve[b][u] + released'[b][u]
    BY DEF AllowanceAccounted
  <2> DEFINE w == [amount |-> amount, live_until |-> now + MaxTTL]
  <2>1. w.amount = amount
    OBVIOUS
  <2>2. allowance' = [allowance EXCEPT ![a][t] = w] /\ released' = [released EXCEPT ![a][t] = 0]
    BY DEF Approve
  <2> HIDE DEF w
  <2>3. /\ allowance'[b][u] = IF b = a /\ u = t THEN w ELSE allowance[b][u]
        /\ released'[b][u] = IF b = a /\ u = t THEN 0 ELSE released[b][u]
    BY <2>2 DEF IInv, TypeOK
  <2>4. CASE b = a /\ u = t
    BY <2>1, <2>3, <2>4
  <2>5. CASE ~(b = a /\ u = t)
    BY <2>3, <2>5 DEF IInv, AllowanceAccounted
  <2> QED BY <2>4, <2>5
<1> QED BY <1>1, <1>2

-----------------------------------------------------------------------------
(* All of it is inductive *)

LEMMA InitIInv == Init => IInv
<1> SUFFICES ASSUME Init PROVE IInv
  OBVIOUS
<1>1. TypeOK /\ RecordsAgree
  BY InitRecords
<1>2. ReserveExact
  <2> SUFFICES ASSUME NEW a \in Accounts, NEW t \in Tokens
               PROVE  reserve[a][t] = Total(Backing(a, t), NumSubs)
    BY DEF ReserveExact
  <2>1. /\ Backing(a, t) \in [1..NumSubs -> Int]
        /\ \A n \in 1..NumSubs : Backing(a, t)[n] = 0
    BY DEF Init, Backing, IsActive
  <2>2. Total(Backing(a, t), NumSubs) = 0
    BY <2>1, TotalZero
  <2> QED BY <2>2 DEF Init
<1>3. AllowanceAccounted
  BY DEF Init, AllowanceAccounted
<1> QED BY <1>1, <1>2, <1>3 DEF IInv

LEMMA IInvStep == IInv /\ [Next]_vars => IInv'
<1> SUFFICES ASSUME IInv, [Next]_vars PROVE IInv'
  OBVIOUS
<1>1. ASSUME NEW p \in PlanIds, NEW t \in Tokens, NEW x \in Amounts, NEW i \in Intervals,
             NEW c \in CycleLimits, create_subscription_plan(p, t, x, i, c)
      PROVE  IInv'
  <2>1. TypeOK' /\ RecordsAgree'
    BY <1>1, CreatePlanKeepsRecords
  <2>2. /\ plan[p] = NoEntry /\ UNCHANGED <<envVars, sub, reserve, allowance, released, revoked>>
        /\ \A q \in PlanIds : q # p => plan'[q] = plan[q]
    BY <1>1 DEF create_subscription_plan, IInv, TypeOK
  <2>3. \A s \in SubIds : sub[s] # NoEntry => PlanOf(s)' = PlanOf(s)
    BY <2>2 DEF IInv, TypeOK, RecordsAgree, PlanOf, Subscription
  <2>4. ReserveExact'
    BY <2>2, <2>3, ReserveStays
  <2>5. AllowanceAccounted'
    BY <2>2 DEF IInv, AllowanceAccounted
  <2> QED BY <2>1, <2>4, <2>5 DEF IInv
<1>2. ASSUME NEW m \in Merchants, NEW a \in Accounts, NEW p \in PlanIds, NEW s \in SubIds,
             subscribe(m, a, p, s)
      PROVE  IInv'
  BY <1>2, SubscribeKeepsRecords, SubscribeKeepsTotals DEF IInv
<1>3. ASSUME NEW m \in Merchants, NEW s \in SubIds, charge_subscription(m, s)
      PROVE  IInv'
  BY <1>3, ChargeFacts, ChargeKeepsRecords, ChargeKeepsTotals DEF IInv
<1>4. ASSUME NEW a \in Accounts, NEW s \in SubIds, cancel_subscription(a, s)
      PROVE  IInv'
  BY <1>4, CancelFacts, CancelKeepsRecords, CancelKeepsTotals DEF IInv
<1>5. ASSUME NEW a \in Accounts, NEW t \in Tokens, renew_subscription_allowance(a, t)
      PROVE  IInv'
  <2>1. reserve[a][t] \in Nat /\ revoked \subseteq Accounts \X Tokens
    BY DEF IInv, TypeOK
  <2>2. /\ Approve(a, t, reserve[a][t]) /\ revoked' = revoked \ {<<a, t>>}
        /\ UNCHANGED <<envVars, plan, sub, reserve>>
    BY <1>5 DEF renew_subscription_allowance
  <2>3. revoked' \subseteq Accounts \X Tokens
    BY <2>1, <2>2
  <2> QED BY <2>1, <2>2, <2>3, ApprovalKeepsRecords, ApprovalKeepsTotals DEF IInv
<1>6. ASSUME NEW a \in Accounts, NEW t \in Tokens, RevokeAtToken(a, t)
      PROVE  IInv'
  <2>1. 0 \in Nat /\ revoked \subseteq Accounts \X Tokens
    BY DEF IInv, TypeOK
  <2>2. /\ Approve(a, t, 0) /\ revoked' = revoked \cup {<<a, t>>}
        /\ UNCHANGED <<envVars, plan, sub, reserve>>
    BY <1>6 DEF RevokeAtToken
  <2>3. revoked' \subseteq Accounts \X Tokens
    BY <2>1, <2>2
  <2> QED BY <2>1, <2>2, <2>3, ApprovalKeepsRecords, ApprovalKeepsTotals DEF IInv
<1>7. ASSUME EnvNext \/ UNCHANGED envVars, UNCHANGED subVars
      PROVE  IInv'
  <2>1. TypeOK' /\ RecordsAgree'
    BY <1>7, EnvKeepsRecords
  <2>2. ReserveExact'
    BY <1>7, ReserveStays DEF subVars, PlanOf
  <2>3. AllowanceAccounted'
    BY <1>7 DEF IInv, AllowanceAccounted, subVars
  <2> QED BY <2>1, <2>2, <2>3 DEF IInv
<1>8. CASE UNCHANGED vars
  BY <1>7, <1>8 DEF vars
<1> QED BY <1>1, <1>2, <1>3, <1>4, <1>5, <1>6, <1>7, <1>8 DEF Next

-----------------------------------------------------------------------------
(* What is billed follows the plan *)

\* The shares of one account's billing in a token, one by one.
Bills(a, t) == [s \in SubIds |-> Billed(s, a, t)]

BooksKept ==
    \A a \in Accounts, t \in Tokens : balance[t][a] = Funds + Total(Bills(a, t), NumSubs)

\* A whole interval of the plan lies before each cycle charged.
Punctual ==
    \A s \in SubIds : sub[s] # NoEntry =>
        sub[s].last_charged_at >= sub[s].created_at + sub[s].cycles_charged * PlanOf(s).interval_secs

LEMMA BillingParts == IInv => (BilledAsPlanned <=> BooksKept /\ Punctual)
BY DEF IInv, RecordsAgree, BilledAsPlanned, BooksKept, Bills, Punctual

\* The plan of every stored subscription is a plan.
PlansKnown == \A s \in SubIds : sub[s] # NoEntry => PlanOf(s) \in SubscriptionPlan

LEMMA PlansAreKnown == TypeOK /\ RecordsAgree => PlansKnown
BY RecordTypes DEF PlansKnown

\* One share is an integer: the price of the cycles charged, paid or received.
LEMMA BillsType ==
    ASSUME IInv, NEW a \in Accounts, NEW t \in Tokens
    PROVE  Bills(a, t) \in [1..NumSubs -> Int]
<1> SUFFICES ASSUME NEW s \in SubIds PROVE Billed(s, a, t) \in Int
  BY DEF Bills
<1>1. CASE sub[s] = NoEntry
  BY <1>1 DEF Billed
<1>2. CASE sub[s] # NoEntry
  <2> DEFINE x == PlanOf(s).amount
             c == sub[s].cycles_charged
             k == (IF sub[s].merchant = a THEN 1 ELSE 0) - (IF sub[s].subscriber = a THEN 1 ELSE 0)
  <2>1. x \in Nat /\ c \in Nat
    BY <1>2, RecordTypes DEF IInv
  <2>2. k \in Int
    OBVIOUS
  <2> HIDE DEF x, c, k
  <2>3. x * c * k \in Int
    BY <2>1, <2>2
  <2>4. Billed(s, a, t) = x * c * k \/ Billed(s, a, t) = 0
    BY DEF Billed, x, c, k
  <2> QED BY <2>3, <2>4
<1> QED BY <1>1, <1>2

BillsTyped == \A a \in Accounts, t \in Tokens : Bills(a, t) \in [1..NumSubs -> Int]

LEMMA BillsAreTyped == IInv => BillsTyped
BY BillsType DEF BillsTyped

\* A step that moves no money and changes no share.
LEMMA BooksStay ==
    ASSUME BooksKept, balance' = balance,
           \A s \in SubIds, a \in Accounts, t \in Tokens : Billed(s, a, t)' = Billed(s, a, t)
    PROVE  BooksKept'
<1>1. \A a \in Accounts, t \in Tokens : Bills(a, t)' = Bills(a, t)
  BY DEF Bills
<1> QED BY <1>1 DEF BooksKept

\* A step that leaves one subscription's parties, plan and cycles alone leaves
\* its shares alone.
LEMMA ShareStays ==
    ASSUME NEW s \in SubIds,
           \/ sub[s] = NoEntry /\ sub'[s] = NoEntry
           \/ /\ sub[s] # NoEntry /\ sub'[s] # NoEntry
              /\ sub'[s].merchant = sub[s].merchant
              /\ sub'[s].subscriber = sub[s].subscriber
              /\ sub'[s].cycles_charged = sub[s].cycles_charged
              /\ PlanOf(s)' = PlanOf(s)
    PROVE  \A a \in Accounts, t \in Tokens : Billed(s, a, t)' = Billed(s, a, t)
BY DEF Billed

\* The plan of a subscription never changes.
LEMMA CreatePlanKeepsBilling ==
    ASSUME IInv, BooksKept, Punctual, NEW p \in PlanIds, NEW t \in Tokens, NEW x \in Amounts,
           NEW i \in Intervals, NEW c \in CycleLimits, create_subscription_plan(p, t, x, i, c)
    PROVE  BooksKept' /\ Punctual'
<1>1. /\ plan[p] = NoEntry /\ UNCHANGED <<envVars, sub>>
      /\ \A q \in PlanIds : q # p => plan'[q] = plan[q]
  BY DEF create_subscription_plan, IInv, TypeOK
<1>2. \A s \in SubIds : sub[s] # NoEntry => PlanOf(s)' = PlanOf(s)
  BY <1>1 DEF IInv, TypeOK, RecordsAgree, PlanOf, Subscription
<1>3. \A s \in SubIds, a \in Accounts, u \in Tokens : Billed(s, a, u)' = Billed(s, a, u)
  BY <1>1, <1>2, ShareStays
<1>4. BooksKept'
  BY <1>1, <1>3, BooksStay DEF envVars
<1> QED BY <1>1, <1>2, <1>4 DEF Punctual

\* A new subscription has nothing billed yet.
LEMMA SubscribeKeepsBilling ==
    ASSUME IInv, IInv', BooksKept, Punctual, NEW m \in Merchants, NEW a \in Accounts,
           NEW p \in PlanIds, NEW s \in SubIds, subscribe(m, a, p, s)
    PROVE  BooksKept' /\ Punctual'
<1>1. /\ UNCHANGED <<envVars, plan>> /\ sub[s] = NoEntry
      /\ \A n \in SubIds : n # s => sub'[n] = sub[n]
      /\ sub'[s].cycles_charged = 0 /\ sub'[s] # NoEntry
      /\ sub'[s].last_charged_at = now /\ sub'[s].created_at = now
  <2> DEFINE r == [plan |-> p, merchant |-> m, subscriber |-> a, status |-> "Active",
                   cycles_charged |-> 0, last_charged_at |-> now, created_at |-> now]
  <2>1. UNCHANGED <<envVars, plan>> /\ sub[s] = NoEntry /\ sub' = [sub EXCEPT ![s] = r]
    BY DEF subscribe
  <2>2. r \in Subscription /\ r.cycles_charged = 0 /\ r.last_charged_at = now /\ r.created_at = now
    BY DEF IInv, TypeOK, EnvTypeOK, Subscription
  <2>3. sub \in [SubIds -> Subscription \cup {NoEntry}]
    BY DEF IInv, TypeOK
  <2> HIDE DEF r
  <2>4. sub'[s] = r /\ \A n \in SubIds : n # s => sub'[n] = sub[n]
    BY <2>1, <2>3
  <2> QED BY <2>1, <2>2, <2>4
<1>2. \A n \in SubIds : n # s => PlanOf(n)' = PlanOf(n)
  BY <1>1 DEF PlanOf
<1>3. \A n \in SubIds, b \in Accounts, u \in Tokens : Billed(n, b, u)' = Billed(n, b, u)
  <2>1. ASSUME NEW n \in SubIds, n # s
        PROVE  \A b \in Accounts, u \in Tokens : Billed(n, b, u)' = Billed(n, b, u)
    BY <1>1, <1>2, <2>1, ShareStays
  <2>2. ASSUME NEW b \in Accounts, NEW u \in Tokens
        PROVE  Billed(s, b, u)' = 0 /\ Billed(s, b, u) = 0
    <3> DEFINE x == PlanOf(s)'.amount
               k == (IF sub'[s].merchant = b THEN 1 ELSE 0) - (IF sub'[s].subscriber = b THEN 1 ELSE 0)
    <3>1. x \in Int /\ k \in Int
      <4>1. (TypeOK /\ RecordsAgree => PlansKnown)'
        BY PlansAreKnown, PTL
      <4> QED BY <1>1, <4>1 DEF IInv, PlansKnown, SubscriptionPlan
    <3> HIDE DEF x, k
    <3>2. x * 0 * k = 0
      BY <3>1
    <3>3. Billed(s, b, u)' = x * 0 * k \/ Billed(s, b, u)' = 0
      BY <1>1 DEF Billed, x, k
    <3>4. Billed(s, b, u) = 0
      BY <1>1 DEF Billed
    <3> QED BY <3>2, <3>3, <3>4
  <2> QED BY <2>1, <2>2
<1>4. BooksKept'
  BY <1>1, <1>3, BooksStay DEF envVars
<1>5. sub'[s].last_charged_at
          >= sub'[s].created_at + sub'[s].cycles_charged * PlanOf(s)'.interval_secs
  <2> DEFINE i == PlanOf(s)'.interval_secs
  <2>1. i \in Nat
    <3>1. (TypeOK /\ RecordsAgree => PlansKnown)'
      BY PlansAreKnown, PTL
    <3> QED BY <1>1, <3>1 DEF IInv, PlansKnown, SubscriptionPlan
  <2>2. now \in Int
    BY DEF IInv, TypeOK, EnvTypeOK
  <2> HIDE DEF i
  <2>3. now >= now + 0 * i
    BY <2>1, <2>2
  <2> QED BY <1>1, <2>3 DEF i
<1>6. Punctual'
  BY <1>1, <1>2, <1>5 DEF Punctual
<1> QED BY <1>4, <1>6

\* What a charge makes of the subscription's record.
LEMMA ChargeRecord ==
    ASSUME IInv, NEW s \in SubIds, ChargeEffect(s)
    PROVE  /\ sub[s] # NoEntry /\ sub'[s] # NoEntry
           /\ sub'[s].merchant = sub[s].merchant
           /\ sub'[s].subscriber = sub[s].subscriber
           /\ sub'[s].plan = sub[s].plan
           /\ sub'[s].created_at = sub[s].created_at
           /\ sub'[s].cycles_charged = sub[s].cycles_charged + 1
           /\ sub'[s].last_charged_at = now
           /\ \A n \in SubIds : n # s => sub'[n] = sub[n]
           /\ plan' = plan
<1> DEFINE c == sub[s].cycles_charged + 1
           v == IF c = PlanOf(s).max_cycles THEN "Completed" ELSE "Active"
           q == [sub[s] EXCEPT !.cycles_charged = c, !.last_charged_at = now, !.status = v]
<1>1. /\ sub[s] # NoEntry /\ plan' = plan
      /\ sub' = [sub EXCEPT ![s].cycles_charged = c, ![s].last_charged_at = now, ![s].status = v]
  BY DEF ChargeEffect
<1>2. sub[s] \in Subscription /\ sub \in [SubIds -> Subscription \cup {NoEntry}]
  BY <1>1 DEF IInv, TypeOK
<1>3. sub'[s] \in Subscription
  BY ChargeKeepsRecords
<1> HIDE DEF c, v
<1>4. /\ q.plan = sub[s].plan /\ q.cycles_charged = c /\ q.last_charged_at = now
      /\ q.merchant = sub[s].merchant /\ q.subscriber = sub[s].subscriber
      /\ q.created_at = sub[s].created_at
  BY <1>2 DEF Subscription
<1>5. sub' = [sub EXCEPT ![s] = q]
  BY <1>1, <1>2
<1> HIDE DEF q
<1>6. sub'[s] = q /\ \A n \in SubIds : n # s => sub'[n] = sub[n]
  BY <1>2, <1>5
<1> QED BY <1>1, <1>3, <1>4, <1>6 DEF c

\* One more cycle at a price, signed by who pays and who receives.
LEMMA OneMoreBill ==
    ASSUME NEW x \in Int, NEW c \in Int, NEW i \in {0, 1}, NEW j \in {0, 1}
    PROVE  x * (c + 1) * (i - j)
               = x * c * (i - j) - (IF j = 1 THEN x ELSE 0) + (IF i = 1 THEN x ELSE 0)
<1>1. CASE i = 1 /\ j = 1
  BY <1>1
<1>2. CASE i = 0 /\ j = 0
  BY <1>2
<1>3. CASE i = 1 /\ j = 0
  BY <1>3
<1>4. CASE i = 0 /\ j = 1
  BY <1>4
<1> QED BY <1>1, <1>2, <1>3, <1>4

\* A charge moves exactly what it adds to the shares of its subscription; the
\* merchant may be the subscriber.
LEMMA ChargeMoves ==
    ASSUME IInv, NEW m \in Merchants, NEW s \in SubIds, charge_subscription(m, s),
           NEW h \in Accounts, NEW u \in Tokens
    PROVE  balance'[u][h] = balance[u][h] - Billed(s, h, u) + Billed(s, h, u)'
<1> DEFINE a == sub[s].subscriber
           t == PlanOf(s).token
           x == PlanOf(s).amount
           c == sub[s].cycles_charged
           i == IF m = h THEN 1 ELSE 0
           j == IF a = h THEN 1 ELSE 0
<1>1. ChargeEffect(s)
  BY ChargeFacts
<1>2. /\ sub[s] # NoEntry /\ sub'[s] # NoEntry
      /\ sub'[s].merchant = sub[s].merchant /\ sub'[s].subscriber = a
      /\ sub'[s].cycles_charged = c + 1 /\ PlanOf(s)' = PlanOf(s)
  BY <1>1, ChargeRecord DEF PlanOf
<1>3. x \in Nat /\ c \in Nat /\ t \in Tokens
  BY <1>2, RecordTypes DEF IInv
<1>4. m = sub[s].merchant /\ balance' = [balance EXCEPT ![t] = Moved(@, a, m, x)]
  BY DEF charge_subscription, TransferFrom, Transfer
<1>5. balance \in [Tokens -> [Holders -> Nat]] /\ h \in Holders
  BY DEF IInv, TypeOK, EnvTypeOK, Holders
<1>6. Billed(s, h, u) = (IF t = u THEN x * c * (i - j) ELSE 0)
  BY <1>2, <1>4 DEF Billed
<1>7. Billed(s, h, u)' = (IF t = u THEN x * (c + 1) * (i - j) ELSE 0)
  BY <1>2, <1>4 DEF Billed
<1>8. x * c * (i - j) \in Int
  BY <1>3
<1>9. x * (c + 1) * (i - j)
          = x * c * (i - j) - (IF j = 1 THEN x ELSE 0) + (IF i = 1 THEN x ELSE 0)
  <2>1. i \in {0, 1} /\ j \in {0, 1} /\ x \in Int /\ c \in Int
    BY <1>3
  <2> HIDE DEF i, j, x, c
  <2> QED BY <2>1, OneMoreBill
<1>10. CASE t = u
  <2>1. balance'[u][h] = balance[u][h] - (IF h = a THEN x ELSE 0) + (IF h = m THEN x ELSE 0)
    BY <1>3, <1>4, <1>5, <1>10 DEF Moved
  <2>2. (j = 1 <=> h = a) /\ (i = 1 <=> h = m)
    OBVIOUS
  <2>3. balance[u][h] \in Int
    BY <1>5
  <2> DEFINE y == x * c * (i - j)
             z == x * (c + 1) * (i - j)
  <2>4. /\ y \in Int /\ Billed(s, h, u) = y /\ Billed(s, h, u)' = z
        /\ z = y - (IF j = 1 THEN x ELSE 0) + (IF i = 1 THEN x ELSE 0)
    BY <1>6, <1>7, <1>8, <1>9, <1>10
  <2>5. x \in Int
    BY <1>3
  <2> HIDE DEF i, j, x, y, z, a
  <2> QED BY <2>1, <2>2, <2>3, <2>4, <2>5
<1>11. CASE t # u
  <2>1. balance'[u][h] = balance[u][h] /\ balance[u][h] \in Int
    BY <1>4, <1>5, <1>11
  <2> QED BY <1>6, <1>7, <1>11, <2>1
<1> QED BY <1>10, <1>11

LEMMA ChargeKeepsBilling ==
    ASSUME IInv, IInv', BooksKept, Punctual, NEW m \in Merchants, NEW s \in SubIds,
           charge_subscription(m, s)
    PROVE  BooksKept' /\ Punctual'
<1>1. ChargeEffect(s)
  BY ChargeFacts
<1>2. /\ sub[s] # NoEntry /\ sub'[s] # NoEntry
      /\ sub'[s].merchant = sub[s].merchant /\ sub'[s].subscriber = sub[s].subscriber
      /\ sub'[s].cycles_charged = sub[s].cycles_charged + 1
      /\ sub'[s].last_charged_at = now /\ sub'[s].created_at = sub[s].created_at
      /\ \A n \in SubIds : n # s => sub'[n] = sub[n]
      /\ \A n \in SubIds : PlanOf(n)' = PlanOf(n)
  BY <1>1, ChargeRecord DEF PlanOf
<1>3. ASSUME NEW a \in Accounts, NEW t \in Tokens
      PROVE  balance'[t][a] = Funds + Total(Bills(a, t)', NumSubs)
  <2> DEFINE f == Bills(a, t)
             g == Bills(a, t)'
  <2>1. f \in [1..NumSubs -> Int]
    BY BillsType
  <2>2. g \in [1..NumSubs -> Int]
    <3>1. (IInv => BillsTyped)'
      BY BillsAreTyped, PTL
    <3> QED BY <3>1 DEF BillsTyped
  <2>3. \A n \in 1..NumSubs : n # s => g[n] = f[n]
    <3> SUFFICES ASSUME NEW n \in SubIds, n # s PROVE Billed(n, a, t)' = Billed(n, a, t)
      BY DEF Bills
    <3> QED BY <1>2, ShareStays
  <2>4. balance'[t][a] = balance[t][a] - f[s] + g[s]
    BY ChargeMoves DEF Bills
  <2>5. balance[t][a] = Funds + Total(f, NumSubs)
    BY DEF BooksKept
  <2>6. f[s] \in Int /\ g[s] \in Int /\ s \in 1..NumSubs /\ NumSubs \in Nat
    BY <2>1, <2>2
  <2> HIDE DEF f, g
  <2>7. Total(g, NumSubs) = Total(f, NumSubs) - f[s] + g[s]
    BY <2>1, <2>2, <2>3, <2>6, TotalMoves, SMTT(30)
  <2>8. Total(f, NumSubs) \in Int
    BY <2>1, <2>6, TotalType
  <2>9. balance'[t][a] = Funds + Total(g, NumSubs)
    BY <2>4, <2>5, <2>6, <2>7, <2>8
  <2> QED BY <2>9 DEF g
<1>4. BooksKept'
  BY <1>3 DEF BooksKept
<1>5. sub'[s].last_charged_at
          >= sub'[s].created_at + sub'[s].cycles_charged * PlanOf(s)'.interval_secs
  <2> DEFINE i == PlanOf(s).interval_secs
             c == sub[s].cycles_charged
             last == sub[s].last_charged_at
             from == sub[s].created_at
  <2>1. i \in Nat /\ c \in Nat /\ last \in Int /\ from \in Int /\ now \in Int
    <3>1. sub[s] \in Subscription /\ PlanOf(s) \in SubscriptionPlan
      BY <1>2, RecordTypes DEF IInv
    <3>2. now \in Int
      BY DEF IInv, TypeOK, EnvTypeOK
    <3> QED BY <3>1, <3>2 DEF Subscription, SubscriptionPlan
  <2>2. now >= last + i
    BY DEF charge_subscription
  <2>3. last >= from + c * i
    BY <1>2 DEF Punctual
  <2> HIDE DEF i, c, last, from
  <2>4. (c + 1) * i = c * i + i /\ c * i \in Int
    BY <2>1
  <2>5. now >= from + (c + 1) * i
    BY <2>1, <2>2, <2>3, <2>4
  <2> QED BY <1>2, <2>5 DEF i, c, from
<1>6. Punctual'
  BY <1>2, <1>5 DEF Punctual
<1> QED BY <1>4, <1>6

\* A cancelled subscription has been billed what it was billed.
LEMMA CancelKeepsBilling ==
    ASSUME IInv, BooksKept, Punctual, NEW caller \in Accounts, NEW s \in SubIds,
           cancel_subscription(caller, s)
    PROVE  BooksKept' /\ Punctual'
<1> DEFINE q == [sub[s] EXCEPT !.status = "Cancelled"]
<1>1. /\ UNCHANGED <<envVars, plan>> /\ sub[s] # NoEntry
      /\ sub' = [sub EXCEPT ![s].status = "Cancelled"]
  BY DEF cancel_subscription, IsActive
<1>2. sub[s] \in Subscription /\ sub \in [SubIds -> Subscription \cup {NoEntry}]
  BY <1>1 DEF IInv, TypeOK
<1>3. /\ q \in Subscription /\ q.plan = sub[s].plan /\ q.cycles_charged = sub[s].cycles_charged
      /\ q.merchant = sub[s].merchant /\ q.subscriber = sub[s].subscriber
      /\ q.created_at = sub[s].created_at /\ q.last_charged_at = sub[s].last_charged_at
  BY <1>2 DEF Subscription
<1>4. sub' = [sub EXCEPT ![s] = q]
  BY <1>1, <1>2
<1> HIDE DEF q
<1>5. /\ sub'[s] # NoEntry
      /\ sub'[s].plan = sub[s].plan /\ sub'[s].cycles_charged = sub[s].cycles_charged
      /\ sub'[s].merchant = sub[s].merchant /\ sub'[s].subscriber = sub[s].subscriber
      /\ sub'[s].created_at = sub[s].created_at
      /\ sub'[s].last_charged_at = sub[s].last_charged_at
      /\ \A n \in SubIds : n # s => sub'[n] = sub[n]
  BY <1>2, <1>3, <1>4
<1>6. \A n \in SubIds : PlanOf(n)' = PlanOf(n)
  BY <1>1, <1>5 DEF PlanOf
<1>7. \A n \in SubIds, a \in Accounts, t \in Tokens : Billed(n, a, t)' = Billed(n, a, t)
  BY <1>1, <1>5, <1>6, ShareStays
<1>8. BooksKept'
  BY <1>1, <1>7, BooksStay DEF envVars
<1>9. Punctual'
  BY <1>1, <1>5, <1>6 DEF Punctual
<1> QED BY <1>8, <1>9

\* A step of neither the plans, the subscriptions nor the money.
LEMMA IdleKeepsBilling ==
    ASSUME BooksKept, Punctual, UNCHANGED <<plan, sub, balance>>
    PROVE  BooksKept' /\ Punctual'
<1>1. \A n \in SubIds, a \in Accounts, t \in Tokens : Billed(n, a, t)' = Billed(n, a, t)
  BY DEF Billed, PlanOf
<1> QED BY <1>1, BooksStay DEF Punctual, PlanOf

LEMMA InitBilling == Init => BooksKept /\ Punctual
<1> SUFFICES ASSUME Init PROVE BooksKept /\ Punctual
  OBVIOUS
<1>1. BooksKept
  <2> SUFFICES ASSUME NEW a \in Accounts, NEW t \in Tokens
               PROVE  balance[t][a] = Funds + Total(Bills(a, t), NumSubs)
    BY DEF BooksKept
  <2>1. Bills(a, t) \in [1..NumSubs -> Int] /\ \A n \in 1..NumSubs : Bills(a, t)[n] = 0
    BY DEF Init, Bills, Billed
  <2>2. Total(Bills(a, t), NumSubs) = 0
    BY <2>1, TotalZero
  <2>3. balance[t][a] = Funds
    BY DEF Init, EnvInit, Holders
  <2> QED BY <2>2, <2>3
<1>2. Punctual
  BY DEF Init, Punctual
<1> QED BY <1>1, <1>2

LEMMA BillingStep ==
    ASSUME IInv, IInv', BooksKept, Punctual, [Next]_vars
    PROVE  BooksKept' /\ Punctual'
<1>1. ASSUME NEW p \in PlanIds, NEW t \in Tokens, NEW x \in Amounts, NEW i \in Intervals,
             NEW c \in CycleLimits, create_subscription_plan(p, t, x, i, c)
      PROVE  BooksKept' /\ Punctual'
  BY <1>1, CreatePlanKeepsBilling
<1>2. ASSUME NEW m \in Merchants, NEW a \in Accounts, NEW p \in PlanIds, NEW s \in SubIds,
             subscribe(m, a, p, s)
      PROVE  BooksKept' /\ Punctual'
  BY <1>2, SubscribeKeepsBilling
<1>3. ASSUME NEW m \in Merchants, NEW s \in SubIds, charge_subscription(m, s)
      PROVE  BooksKept' /\ Punctual'
  BY <1>3, ChargeKeepsBilling
<1>4. ASSUME NEW a \in Accounts, NEW s \in SubIds, cancel_subscription(a, s)
      PROVE  BooksKept' /\ Punctual'
  BY <1>4, CancelKeepsBilling
<1>5. ASSUME NEW a \in Accounts, NEW t \in Tokens, renew_subscription_allowance(a, t)
      PROVE  BooksKept' /\ Punctual'
  BY <1>5, IdleKeepsBilling DEF renew_subscription_allowance, envVars
<1>6. ASSUME NEW a \in Accounts, NEW t \in Tokens, RevokeAtToken(a, t)
      PROVE  BooksKept' /\ Punctual'
  BY <1>6, IdleKeepsBilling DEF RevokeAtToken, envVars
<1>7. ASSUME EnvNext \/ UNCHANGED envVars, UNCHANGED subVars
      PROVE  BooksKept' /\ Punctual'
  <2>1. balance' = balance
    <3>1. CASE EnvNext
      BY <3>1, EnvNextFacts DEF IInv, TypeOK
    <3>2. CASE UNCHANGED envVars
      BY <3>2 DEF envVars
    <3> QED BY <1>7, <3>1, <3>2
  <2> QED BY <1>7, <2>1, IdleKeepsBilling DEF subVars
<1>8. CASE UNCHANGED vars
  BY <1>7, <1>8 DEF vars
<1> QED BY <1>1, <1>2, <1>3, <1>4, <1>5, <1>6, <1>7, <1>8 DEF Next

-----------------------------------------------------------------------------
(* The theorems *)

\* Plans, subscriptions, reserves and allowances keep their types; that no
\* reserve and no allowance is ever negative needs all of IInv.
THEOREM SubscriptionsTypeCorrect == Spec => []TypeOK
<1>1. IInv => TypeOK
  BY DEF IInv
<1> QED BY <1>1, InitIInv, IInvStep, PTL DEF Spec

\* The reserve kept for a subscriber and token is, at any time, exactly what
\* their active subscriptions may still be charged.
THEOREM ReserveAlwaysExact == Spec => []ReserveExact
<1>1. IInv => ReserveExact
  BY DEF IInv
<1> QED BY <1>1, InitIInv, IInvStep, PTL DEF Spec

\* Unless the subscriber took it back at the token, the allowance is the
\* reserve plus what merchants released since.
THEOREM AllowanceAlwaysAccounted == Spec => []AllowanceAccounted
<1>1. IInv => AllowanceAccounted
  BY DEF IInv
<1> QED BY <1>1, InitIInv, IInvStep, PTL DEF Spec

\* Whatever was paused, delisted or revoked in between, the money moved is the
\* cycles charged, never more of them than the plan has, and a whole interval
\* lies before each (charge_subscription).
THEOREM AlwaysBilledAsPlanned == Spec => []BilledAsPlanned
<1> DEFINE Inv == IInv /\ BooksKept /\ Punctual
<1>1. Init => Inv
  BY InitIInv, InitBilling
<1>2. Inv /\ [Next]_vars => Inv'
  BY IInvStep, BillingStep
<1>3. Inv => BilledAsPlanned
  BY BillingParts
<1> QED BY <1>1, <1>2, <1>3, PTL DEF Spec

=============================================================================
