---------------------------- MODULE Subscriptions ----------------------------
(***************************************************************************)
(* Recurring charges: plans, subscriptions, the reserve the contract keeps *)
(* for each subscriber and token, and the allowance the token contract     *)
(* keeps for the same pair.  The contract may write its reserve whenever   *)
(* it wants, but the allowance only when the subscriber signs.             *)
(*                                                                         *)
(* One tick of the clock is one ledger, the unit of an allowance's expiry. *)
(***************************************************************************)
EXTENDS ContractEnv, Sums

CONSTANTS
    PlanIds,
    NumSubs,       \* bound of the model: subscription ids
    Amounts,       \* amounts a plan may ask for
    Intervals,     \* billing intervals a plan may ask for
    CycleLimits,   \* numbers of cycles a plan may ask for
    MaxTTL,        \* ledgers an allowance may live
    NoEntry        \* a storage key with no entry

VARIABLES
    plan,      \* DataKey::SP(plan_id)
    sub,       \* DataKey::Sub(subscription_id)
    reserve,   \* DataKey::SR(subscriber, token)
    allowance, \* the token contract's allowance from a subscriber to the contract
    released,  \* history: what merchants released since the subscriber last approved
    revoked    \* history: pairs whose allowance the subscriber changed at the token itself

subVars == <<plan, sub, reserve, allowance, released, revoked>>
vars == <<envVars, subVars>>

SubIds == 1..NumSubs

SubscriptionPlan ==
    [token : Tokens, amount : Nat \ {0}, interval_secs : Nat \ {0}, max_cycles : Nat \ {0}]

Subscription ==
    [plan : PlanIds, merchant : Merchants, subscriber : Accounts,
     status : {"Active", "Cancelled", "Completed"}, cycles_charged : Nat,
     last_charged_at : 0..MaxTime, created_at : 0..MaxTime]

ASSUME SubscriptionsAssumption ==
    /\ NumSubs \in Nat
    /\ Amounts \subseteq Int
    /\ Intervals \subseteq Nat
    /\ CycleLimits \subseteq Nat
    /\ MaxTTL \in Nat
    /\ NoEntry \notin SubscriptionPlan
    /\ NoEntry \notin Subscription

\* Plans, subscriptions and the two running totals are what storage can hold.
TypeOK ==
    /\ EnvTypeOK
    /\ plan \in [PlanIds -> SubscriptionPlan \cup {NoEntry}]
    /\ sub \in [SubIds -> Subscription \cup {NoEntry}]
    /\ reserve \in [Accounts -> [Tokens -> Nat]]
    /\ allowance \in [Accounts -> [Tokens -> [amount : Nat, live_until : Nat]]]
    /\ released \in [Accounts -> [Tokens -> Nat]]
    /\ revoked \subseteq Accounts \X Tokens

Init ==
    /\ EnvInit
    /\ plan = [p \in PlanIds |-> NoEntry]
    /\ sub = [s \in SubIds |-> NoEntry]
    /\ reserve = [a \in Accounts |-> [t \in Tokens |-> 0]]
    /\ allowance = [a \in Accounts |-> [t \in Tokens |-> [amount |-> 0, live_until |-> 0]]]
    /\ released = [a \in Accounts |-> [t \in Tokens |-> 0]]
    /\ revoked = {}

-----------------------------------------------------------------------------
(* Helpers *)

PlanOf(s) == plan[sub[s].plan]

IsActive(s) == sub[s] # NoEntry /\ sub[s].status = "Active"

\* What the rest of a subscription may still cost.
Remaining(s) == PlanOf(s).amount * (PlanOf(s).max_cycles - sub[s].cycles_charged)

\* set_subscription_reserve removes an entry that is not positive.
set_subscription_reserve(a, t, amount) ==
    reserve' = [reserve EXCEPT ![a][t] = IF amount > 0 THEN amount ELSE 0]

\* token::Client::approve sets the allowance; it does not add to it.
Approve(a, t, amount) ==
    /\ allowance' = [allowance EXCEPT ![a][t] = [amount |-> amount, live_until |-> now + MaxTTL]]
    /\ released' = [released EXCEPT ![a][t] = 0]

\* token::Client::transfer_from with the contract as the spender: an allowance
\* past its expiry counts for nothing.
TransferFrom(t, from, to, amount) ==
    /\ allowance[from][t].live_until >= now
    /\ allowance[from][t].amount >= amount
    /\ allowance' = [allowance EXCEPT ![from][t].amount = @ - amount]
    /\ Transfer(t, from, to, amount)

-----------------------------------------------------------------------------
(* The handlers *)

\* A slip the runs must notice: the numbers are not checked.
create_subscription_plan_unchecked(p, t, amount, interval, cycles) ==
    /\ require_not_paused
    /\ is_token_allowed(t)
    /\ plan[p] = NoEntry
    /\ plan' = [plan EXCEPT ![p] =
            [token |-> t, amount |-> amount, interval_secs |-> interval, max_cycles |-> cycles]]
    /\ UNCHANGED <<envVars, sub, reserve, allowance, released, revoked>>

create_subscription_plan(p, t, amount, interval, cycles) ==
    /\ require_not_paused
    /\ require_positive(amount)
    /\ interval # 0 /\ cycles # 0
    /\ is_token_allowed(t)
    /\ plan[p] = NoEntry
    /\ plan' = [plan EXCEPT ![p] =
            [token |-> t, amount |-> amount, interval_secs |-> interval, max_cycles |-> cycles]]
    /\ UNCHANGED <<envVars, sub, reserve, allowance, released, revoked>>

\* A slip: the approval covers the new subscription only.
subscribe_alone(merchant, subscriber, p, s) ==
    LET t == plan[p].token
        cost == plan[p].amount * plan[p].max_cycles
    IN  /\ require_not_paused
        /\ plan[p] # NoEntry
        /\ sub[s] = NoEntry
        /\ is_active(merchant)
        /\ sub' = [sub EXCEPT ![s] =
                [plan |-> p, merchant |-> merchant, subscriber |-> subscriber, status |-> "Active",
                 cycles_charged |-> 0, last_charged_at |-> now, created_at |-> now]]
        /\ set_subscription_reserve(subscriber, t, reserve[subscriber][t] + cost)
        /\ Approve(subscriber, t, cost)
        /\ revoked' = revoked \ {<<subscriber, t>>}
        /\ UNCHANGED <<envVars, plan>>

\* The allow-list is not looked at: only charges are stopped by a delisting.
subscribe(merchant, subscriber, p, s) ==
    LET t == plan[p].token
        total == reserve[subscriber][t] + plan[p].amount * plan[p].max_cycles
    IN  /\ require_not_paused
        /\ plan[p] # NoEntry
        /\ sub[s] = NoEntry
        /\ is_active(merchant)
        /\ sub' = [sub EXCEPT ![s] =
                [plan |-> p, merchant |-> merchant, subscriber |-> subscriber, status |-> "Active",
                 cycles_charged |-> 0, last_charged_at |-> now, created_at |-> now]]
        /\ set_subscription_reserve(subscriber, t, total)
        /\ Approve(subscriber, t, total)
        /\ revoked' = revoked \ {<<subscriber, t>>}
        /\ UNCHANGED <<envVars, plan>>

\* A slip: the interval keeps being measured from the first day.
charge_subscription_again(merchant, s) ==
    LET p == PlanOf(s)
        a == sub[s].subscriber
        cycles == sub[s].cycles_charged + 1
    IN  /\ require_not_paused
        /\ sub[s] # NoEntry
        /\ merchant = sub[s].merchant
        /\ sub[s].status # "Cancelled"
        /\ is_token_allowed(p.token)
        /\ is_active(merchant)
        /\ cycles <= p.max_cycles
        /\ now >= sub[s].last_charged_at + p.interval_secs
        /\ sub' = [sub EXCEPT ![s].cycles_charged = cycles,
                              ![s].status = IF cycles = p.max_cycles THEN "Completed" ELSE @]
        /\ set_subscription_reserve(a, p.token, reserve[a][p.token] - p.amount)
        /\ TransferFrom(p.token, a, merchant, p.amount)
        /\ UNCHANGED <<now, paused, active, allowed, plan, released, revoked>>

charge_subscription(merchant, s) ==
    LET p == PlanOf(s)
        a == sub[s].subscriber
        cycles == sub[s].cycles_charged + 1
    IN  /\ require_not_paused
        /\ sub[s] # NoEntry
        /\ merchant = sub[s].merchant
        /\ sub[s].status # "Cancelled"
        /\ is_token_allowed(p.token)
        /\ is_active(merchant)
        /\ cycles <= p.max_cycles
        /\ now >= sub[s].last_charged_at + p.interval_secs
        /\ sub' = [sub EXCEPT ![s].cycles_charged = cycles,
                              ![s].last_charged_at = now,
                              ![s].status = IF cycles = p.max_cycles THEN "Completed" ELSE @]
        /\ set_subscription_reserve(a, p.token, reserve[a][p.token] - p.amount)
        /\ TransferFrom(p.token, a, merchant, p.amount)
        /\ UNCHANGED <<now, paused, active, allowed, plan, released, revoked>>

\* A slip: all cycles are released, also those already charged.
cancel_subscription_whole(caller, s) ==
    LET t == PlanOf(s).token
        a == sub[s].subscriber
        left == reserve[a][t] - PlanOf(s).amount * PlanOf(s).max_cycles
    IN  /\ require_not_paused
        /\ IsActive(s)
        /\ caller \in {sub[s].merchant, a}
        /\ sub' = [sub EXCEPT ![s].status = "Cancelled"]
        /\ set_subscription_reserve(a, t, left)
        /\ IF caller = a
           THEN Approve(a, t, left) /\ revoked' = revoked \ {<<a, t>>}
           ELSE /\ released' = [released EXCEPT ![a][t] = @ + Remaining(s)]
                /\ UNCHANGED <<allowance, revoked>>
        /\ UNCHANGED <<envVars, plan>>

\* Only the subscriber's own cancel can shrink the allowance.
cancel_subscription(caller, s) ==
    LET t == PlanOf(s).token
        a == sub[s].subscriber
        left == reserve[a][t] - Remaining(s)
    IN  /\ require_not_paused
        /\ IsActive(s)
        /\ caller \in {sub[s].merchant, a}
        /\ sub' = [sub EXCEPT ![s].status = "Cancelled"]
        /\ set_subscription_reserve(a, t, left)
        /\ IF caller = a
           THEN Approve(a, t, left) /\ revoked' = revoked \ {<<a, t>>}
           ELSE /\ released' = [released EXCEPT ![a][t] = @ + Remaining(s)]
                /\ UNCHANGED <<allowance, revoked>>
        /\ UNCHANGED <<envVars, plan>>

renew_subscription_allowance(a, t) ==
    /\ require_not_paused
    /\ Approve(a, t, reserve[a][t])
    /\ revoked' = revoked \ {<<a, t>>}
    /\ UNCHANGED <<envVars, plan, sub, reserve>>

\* A subscriber may also take the allowance back at the token contract.
RevokeAtToken(a, t) ==
    /\ Approve(a, t, 0)
    /\ revoked' = revoked \cup {<<a, t>>}
    /\ UNCHANGED <<envVars, plan, sub, reserve>>

-----------------------------------------------------------------------------

Next ==
    \/ \E p \in PlanIds, t \in Tokens, x \in Amounts, i \in Intervals, c \in CycleLimits :
          create_subscription_plan(p, t, x, i, c)
    \/ \E m \in Merchants, a \in Accounts, p \in PlanIds, s \in SubIds : subscribe(m, a, p, s)
    \/ \E m \in Merchants, s \in SubIds : charge_subscription(m, s)
    \/ \E a \in Accounts, s \in SubIds : cancel_subscription(a, s)
    \/ \E a \in Accounts, t \in Tokens : renew_subscription_allowance(a, t)
    \/ \E a \in Accounts, t \in Tokens : RevokeAtToken(a, t)
    \/ EnvNext /\ UNCHANGED subVars

Spec == Init /\ [][Next]_vars

-----------------------------------------------------------------------------
(* Properties *)

\* What subscriber a's active subscriptions may still cost in token t, one by one.
Backing(a, t) ==
    [s \in SubIds |-> IF IsActive(s) /\ sub[s].subscriber = a /\ PlanOf(s).token = t
                      THEN Remaining(s) ELSE 0]

\* The reserve of a subscriber in a token is exactly what the active
\* subscriptions may still cost: no order of subscribing, charging, completing
\* and cancelling several subscriptions that share it makes it drift
\* (get_subscription_reserve in subscribe, charge_subscription,
\* cancel_subscription).
ReserveExact ==
    \A a \in Accounts, t \in Tokens : reserve[a][t] = Total(Backing(a, t), NumSubs)

\* The allowance covers every cycle still to come and exceeds it by exactly
\* what merchants released and the subscriber has not yet re-approved, unless
\* the subscriber took it back at the token: a new subscription, a charge or a
\* cancel of one never leaves another one short (Approve sets, TransferFrom
\* consumes, and a merchant's cancel can do neither).
AllowanceAccounted ==
    \A a \in Accounts, t \in Tokens : <<a, t>> \notin revoked =>
        allowance[a][t].amount = reserve[a][t] + released[a][t]

Billed(s, a, t) ==
    IF sub[s] # NoEntry /\ PlanOf(s).token = t
    THEN PlanOf(s).amount * sub[s].cycles_charged
         * ((IF sub[s].merchant = a THEN 1 ELSE 0) - (IF sub[s].subscriber = a THEN 1 ELSE 0))
    ELSE 0

\* Nobody is billed faster, further or for anything else than the plan says:
\* the money moved is the cycles charged, they never exceed the plan's, and a
\* whole interval lies before each of them (charge_subscription against the
\* records, whatever was paused, delisted or revoked in between).
BilledAsPlanned ==
    /\ \A a \in Accounts, t \in Tokens :
          balance[t][a] = Funds + Total([s \in SubIds |-> Billed(s, a, t)], NumSubs)
    /\ \A s \in SubIds : sub[s] # NoEntry =>
          /\ sub[s].cycles_charged <= PlanOf(s).max_cycles
          /\ sub[s].status = "Completed" <=> sub[s].cycles_charged = PlanOf(s).max_cycles
          /\ sub[s].last_charged_at >=
                sub[s].created_at + sub[s].cycles_charged * PlanOf(s).interval_secs

=============================================================================
