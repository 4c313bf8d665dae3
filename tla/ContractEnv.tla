---------------------------- MODULE ContractEnv ----------------------------
(***************************************************************************)
(* What every entry point of the LumenFlow contract shares: the ledger's   *)
(* clock, the token balances, the pause flag, which merchants are active   *)
(* and which tokens are on the allow-list.                                 *)
(*                                                                         *)
(* The Soroban host runs one call at a time and rolls back everything a    *)
(* call wrote when it returns Err or traps.  An action is therefore a      *)
(* whole successful call; a call that fails is a stuttering step.          *)
(***************************************************************************)
EXTENDS Integers

CONSTANTS
    Accounts,    \* addresses that pay, sell, arbitrate
    Contract,    \* the contract's own address
    Merchants,   \* the addresses registered as merchants
    Tokens,      \* token contracts
    Funds,       \* what every account holds of every token at the start
    MaxTime,     \* bound on the ledger's clock
    Switches     \* bound of a run: which of "pause", "merchant", "token" are flipped

ASSUME EnvAssumption ==
    /\ Contract \notin Accounts
    /\ Merchants \subseteq Accounts
    /\ Funds \in Nat
    /\ MaxTime \in Nat

VARIABLES
    now,         \* env.ledger().timestamp()
    paused,      \* DataKey::Paused
    active,      \* merchants whose profile has active = true
    allowed,     \* tokens t with DataKey::AT(t) present
    balance      \* balance[t][a]: what the token contract t says a holds

envVars == <<now, paused, active, allowed, balance>>

Holders == Accounts \cup {Contract}

EnvTypeOK ==
    /\ now \in 0..MaxTime
    /\ paused \in BOOLEAN
    /\ active \subseteq Merchants
    /\ allowed \subseteq Tokens
    /\ balance \in [Tokens -> [Holders -> Nat]]

EnvInit ==
    /\ now = 0
    /\ paused = FALSE
    /\ active = Merchants
    /\ allowed = Tokens
    /\ balance = [t \in Tokens |-> [h \in Holders |-> IF h = Contract THEN 0 ELSE Funds]]

-----------------------------------------------------------------------------
(* Helpers of the handlers *)

require_not_paused == ~paused

require_positive(amount) == amount > 0

is_token_allowed(t) == t \in allowed

is_active(m) == m \in active

\* What a transfer of `amount` makes of one token's accounts; the sender may
\* be the receiver.
Moved(accounts, from, to, amount) ==
    [h \in Holders |-> accounts[h] - (IF h = from THEN amount ELSE 0)
                                   + (IF h = to THEN amount ELSE 0)]

\* token::Client::transfer: traps when the sender holds too little, which
\* rolls the whole call back.
Transfer(t, from, to, amount) ==
    /\ balance[t][from] >= amount
    /\ balance' = [balance EXCEPT ![t] = Moved(@, from, to, amount)]

-----------------------------------------------------------------------------
(* Steps of the rest of the system that the handlers only observe *)

AdvanceTime ==
    /\ now < MaxTime
    /\ now' = now + 1
    /\ UNCHANGED <<paused, active, allowed, balance>>

set_paused ==
    /\ paused' = ~paused
    /\ UNCHANGED <<now, active, allowed, balance>>

\* deactivate_merchant and reactivate_merchant
set_merchant_active(m) ==
    /\ active' = IF m \in active THEN active \ {m} ELSE active \cup {m}
    /\ UNCHANGED <<now, paused, allowed, balance>>

\* add_allowed_token and remove_allowed_token
set_token_allowed(t) ==
    /\ allowed' = IF t \in allowed THEN allowed \ {t} ELSE allowed \cup {t}
    /\ UNCHANGED <<now, paused, active, balance>>

EnvNext ==
    \/ AdvanceTime
    \/ "pause" \in Switches /\ set_paused
    \/ "merchant" \in Switches /\ \E m \in Merchants : set_merchant_active(m)
    \/ "token" \in Switches /\ \E t \in Tokens : set_token_allowed(t)

=============================================================================
