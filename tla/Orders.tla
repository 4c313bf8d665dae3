------------------------------- MODULE Orders -------------------------------
(***************************************************************************)
(* The two ways to pay an order that was agreed on beforehand, payment     *)
(* requests and multi-signature payments, against the direct payments of   *)
(* module Ledger and the archive, which share their order ids.             *)
(*                                                                         *)
(* Requests and their index are temporary entries: nothing extends their   *)
(* TTL, so each is gone TempTTL ledgers after it was first written, and    *)
(* writing to an entry that is still there does not renew it.              *)
(***************************************************************************)
EXTENDS Ledger

CONSTANTS
    Payees,         \* bound of a run: who makes payment requests
    RequestTTLs,    \* the `ttl` a merchant may give a request
    TempTTL,        \* ledgers a temporary entry lives: the network's minimum
    SignerLists,    \* lists of signers, possibly with duplicates
    Thresholds,     \* values of required_signatures
    Expiries,       \* values of expires_at a caller may give, NoEntry for none
    MaxSigners,     \* DataKey::MSL
    ExpiryDuration, \* DataKey::MED
    MaxMultisigs    \* bound of the model: multi-signature payments ever made

MultisigPayment ==
    [initiator : Accounts, merchant : Merchants, token : Tokens, amount : Nat \ {0},
     required_signatures : Nat \ {0}, signers : SignerLists, collected : Seq(Accounts),
     executed : BOOLEAN, cancelled : BOOLEAN, expires_at : Nat]

RequestIndex == [ids : SUBSET Orders, live_until : Nat]

ASSUME OrdersAssumption ==
    /\ Payees \subseteq Accounts
    /\ RequestTTLs \subseteq Nat
    /\ TempTTL \in Nat
    /\ SignerLists \subseteq Seq(Accounts)
    /\ Thresholds \subseteq Nat
    /\ Expiries \subseteq Nat \cup {NoEntry}
    /\ MaxSigners \in Nat \ {0}
    /\ ExpiryDuration \in Nat
    /\ MaxMultisigs \in Nat
    /\ NoEntry \notin RequestIndex
    /\ NoEntry \notin MultisigPayment

VARIABLES
    request,        \* DataKey::PaymentRequest(request_id), a temporary entry
    request_index,  \* DataKey::PaymentRequestIndex, a temporary entry
    multisig        \* DataKey::Multisig(payment_id)

orderVars == <<request, request_index, multisig>>
vars == <<envVars, configVars, ledgerVars, orderVars>>

PaymentRequest ==
    [merchant : Accounts, token : Tokens, amount : Nat \ {0}, expires_at : Nat, live_until : Nat]

\* What storage can hold: no request or multi-signature payment of nothing, no
\* record with more signatures than signers.
TypeOK ==
    /\ LedgerTypeOK
    /\ request \in [Orders -> PaymentRequest \cup {NoEntry}]
    /\ request_index \in RequestIndex \cup {NoEntry}
    /\ multisig \in [Orders -> MultisigPayment \cup {NoEntry}]
    /\ \A o \in Orders : multisig[o] # NoEntry => Len(multisig[o].collected) <= Len(multisig[o].signers)

Init ==
    /\ LedgerInit
    /\ request = [o \in Orders |-> NoEntry]
    /\ request_index = NoEntry
    /\ multisig = [o \in Orders |-> NoEntry]

-----------------------------------------------------------------------------
(* Helpers *)

IsLive(entry) == entry # NoEntry /\ now <= entry.live_until

HasRequest(o) == IsLive(request[o])

get_payment_request_ids == IF IsLive(request_index) THEN request_index.ids ELSE {}

set_payment_request(o, pr) ==
    /\ request' = [request EXCEPT ![o] = pr]
    /\ request_index' = IF IsLive(request_index)
                        THEN [request_index EXCEPT !.ids = @ \cup {o}]
                        ELSE [ids |-> {o}, live_until |-> now + TempTTL]

\* A slip: the index goes with the request.
remove_payment_requests_and_index(removed) ==
    /\ request' = [o \in Orders |-> IF o \in removed THEN NoEntry ELSE request[o]]
    /\ request_index' = IF IsLive(request_index)
                        THEN [request_index EXCEPT !.ids = @ \cap removed]
                        ELSE request_index

remove_payment_requests(removed) ==
    /\ request' = [o \in Orders |-> IF o \in removed THEN NoEntry ELSE request[o]]
    /\ request_index' = IF IsLive(request_index)
                        THEN [request_index EXCEPT !.ids = @ \ removed]
                        ELSE request_index

ItemOf(o, agreed) ==
    [order |-> o, merchant |-> agreed.merchant, token |-> agreed.token, amount |-> agreed.amount]

\* Both ways count in the platform's totals only: neither the merchant's
\* statistics nor its total_received change, and no fee is taken.
AddToGlobalStats(it) ==
    global_stats' = [global_stats EXCEPT !.total_payments = @ + 1,
                                         !.total_volume = saturating_add(@, it.amount)]

-----------------------------------------------------------------------------
(* Payment requests *)

\* A slip: a request for nothing.
create_payment_request_unchecked(merchant, o, token, amount, ttl) ==
    /\ require_not_paused
    /\ ttl > 0
    /\ is_token_allowed(token)
    /\ ~HasRequest(o)
    /\ set_payment_request(o, [merchant |-> merchant, token |-> token, amount |-> amount,
                               expires_at |-> now + ttl, live_until |-> now + TempTTL])
    /\ UNCHANGED <<envVars, configVars, ledgerVars, multisig>>

\* Any address may ask: it need not be a merchant.
create_payment_request(merchant, o, token, amount, ttl) ==
    /\ require_not_paused
    /\ require_positive(amount)
    /\ ttl > 0
    /\ is_token_allowed(token)
    /\ ~HasRequest(o)
    /\ set_payment_request(o, [merchant |-> merchant, token |-> token, amount |-> amount,
                               expires_at |-> now + ttl, live_until |-> now + TempTTL])
    /\ UNCHANGED <<envVars, configVars, ledgerVars, multisig>>

\* An expired request is removed before the call fails, which undoes the
\* removal: the guard is all that remains of it.
pay_payment_request(payer, o) ==
    LET it == ItemOf(o, request[o]) IN
    /\ require_not_paused
    /\ HasRequest(o)
    /\ now <= request[o].expires_at
    /\ payment[o] = NoEntry
    /\ Transfer(it.token, payer, it.merchant, it.amount)
    /\ StorePayments(payer, <<it>>, 0)
    /\ AddToIndexes(payer, <<it>>)
    /\ AddToGlobalStats(it)
    /\ Remember("request", payer, <<it>>, 0, 0)
    /\ remove_payment_requests({o})
    /\ UNCHANGED <<now, paused, active, allowed, configVars, nonce, merchant_nonce, rate,
                   total_received, merchant_stats, multisig>>

cancel_payment_request(caller, o) ==
    /\ require_not_paused
    /\ HasRequest(o)
    /\ request[o].merchant = caller
    /\ remove_payment_requests({o})
    /\ UNCHANGED <<envVars, configVars, ledgerVars, multisig>>

\* The administrator's sweep goes through the index; an id whose entry the
\* network dropped leaves the index too.
cancel_expired_payment_requests ==
    /\ remove_payment_requests({o \in get_payment_request_ids :
                                   HasRequest(o) => now > request[o].expires_at})
    /\ UNCHANGED <<envVars, configVars, ledgerVars, multisig>>

-----------------------------------------------------------------------------
(* Multi-signature payments *)

\* `expiry` is the caller's, in the past or not, or NoEntry for the default.
\* Duplicate signers are not refused.
initiate_multisig_payment(initiator, it, signers, required, expiry) ==
    /\ require_not_paused
    /\ require_positive(it.amount)
    /\ signers # <<>>
    /\ required # 0
    /\ required <= Len(signers)
    /\ Len(signers) <= MaxSigners
    /\ is_token_allowed(it.token)
    /\ multisig[it.order] = NoEntry
    /\ is_active(it.merchant)
    /\ Cardinality({o \in Orders : multisig[o] # NoEntry}) < MaxMultisigs
    /\ multisig' = [multisig EXCEPT ![it.order] =
            [initiator |-> initiator, merchant |-> it.merchant, token |-> it.token,
             amount |-> it.amount, required_signatures |-> required, signers |-> signers,
             collected |-> <<>>, executed |-> FALSE, cancelled |-> FALSE,
             expires_at |-> IF expiry = NoEntry THEN now + ExpiryDuration ELSE expiry]]
    /\ UNCHANGED <<envVars, configVars, ledgerVars, request, request_index>>

\* A slip: a signer may sign twice.
sign_multisig_payment_again(signer, o) ==
    /\ require_not_paused
    /\ multisig[o] # NoEntry
    /\ ~multisig[o].executed
    /\ ~multisig[o].cancelled
    /\ now < multisig[o].expires_at
    /\ signer \in Entries(multisig[o].signers)
    /\ Len(multisig[o].collected) < Len(multisig[o].signers)
    /\ multisig' = [multisig EXCEPT ![o].collected = Append(@, signer)]
    /\ UNCHANGED <<envVars, configVars, ledgerVars, request, request_index>>

sign_multisig_payment(signer, o) ==
    /\ require_not_paused
    /\ multisig[o] # NoEntry
    /\ ~multisig[o].executed
    /\ ~multisig[o].cancelled
    /\ now < multisig[o].expires_at
    /\ signer \in Entries(multisig[o].signers)
    /\ signer \notin Entries(multisig[o].collected)
    /\ multisig' = [multisig EXCEPT ![o].collected = Append(@, signer)]
    /\ UNCHANGED <<envVars, configVars, ledgerVars, request, request_index>>

\* Also while the contract is paused.
cancel_multisig_payment(caller, o) ==
    /\ multisig[o] # NoEntry
    /\ ~multisig[o].executed
    /\ ~multisig[o].cancelled
    /\ caller \in {Admin, multisig[o].initiator}
    /\ multisig' = [multisig EXCEPT ![o].cancelled = TRUE]
    /\ UNCHANGED <<envVars, configVars, ledgerVars, request, request_index>>

\* Whoever pays; up to and including the last second.  A payment that is
\* already recorded under the id is written over.
execute_multisig_payment(payer, o) ==
    LET it == ItemOf(o, multisig[o]) IN
    /\ require_not_paused
    /\ multisig[o] # NoEntry
    /\ ~multisig[o].executed
    /\ ~multisig[o].cancelled
    /\ now <= multisig[o].expires_at
    /\ Len(multisig[o].collected) >= multisig[o].required_signatures
    /\ Transfer(it.token, payer, it.merchant, it.amount)
    /\ multisig' = [multisig EXCEPT ![o].executed = TRUE]
    /\ StorePayments(payer, <<it>>, 0)
    /\ AddToIndexesIfRoom(payer, <<it>>)
    /\ AddToGlobalStats(it)
    /\ Remember("multisig", payer, <<it>>, 0, 0)
    /\ UNCHANGED <<now, paused, active, allowed, configVars, nonce, merchant_nonce, rate,
                   total_received, merchant_stats, request, request_index>>

-----------------------------------------------------------------------------

Next ==
    \/ \E m \in Payees, o \in Orders, t \in Tokens, a \in Amounts, ttl \in RequestTTLs :
          create_payment_request(m, o, t, a, ttl)
    \/ \E p \in Accounts, o \in Orders : pay_payment_request(p, o)
    \/ \E c \in Accounts, o \in Orders : cancel_payment_request(c, o)
    \/ cancel_expired_payment_requests
    \/ \E i \in Accounts, it \in Items, s \in SignerLists, r \in Thresholds,
          x \in Expiries : initiate_multisig_payment(i, it, s, r, x)
    \/ \E s \in Accounts, o \in Orders : sign_multisig_payment(s, o)
    \/ \E c \in Accounts \cup {Admin}, o \in Orders : cancel_multisig_payment(c, o)
    \/ \E p \in Accounts, o \in Orders : execute_multisig_payment(p, o)
    \/ \E p \in Accounts, it \in Items, n \in 0..MaxPayments :
          process_payment_with_nonce(p, it, n) /\ UNCHANGED orderVars
    \/ \E o \in Orders : archive_payment_record(o) /\ UNCHANGED orderVars
    \/ EnvNext /\ UNCHANGED <<configVars, ledgerVars, orderVars>>

Spec == Init /\ [][Next]_vars

-----------------------------------------------------------------------------
(* Properties *)

\* A multi-signature payment pays once if it is executed and never otherwise,
\* what was agreed, to whom it was agreed, in time, and only after as many of
\* the listed people as required have signed, each counted once; what was
\* cancelled never pays (signing, cancelling and executing in any order).
MultisigPaysOnce ==
    \A o \in Orders : multisig[o] # NoEntry =>
        LET ms == multisig[o]
            paid == {r \in Entries(receipts) : r.kind = "multisig" /\ r.order = o}
            times == Cardinality({i \in 1..Len(receipts) : receipts[i] \in paid})
        IN  /\ times = IF ms.executed THEN 1 ELSE 0
            /\ \A r \in paid :
                  /\ ItemOf(o, r) = ItemOf(o, ms)
                  /\ r.window <= ms.expires_at
            /\ ms.executed =>
                  /\ ~ms.cancelled
                  /\ Entries(ms.collected) \subseteq Entries(ms.signers)
                  /\ Cardinality(Entries(ms.collected)) >= ms.required_signatures

\* A recorded payment goes only when it is archived or when a multi-signature
\* payment under its id is executed: neither a direct payment nor a request that
\* was waiting under the same id replaces it.
PaymentsKept ==
    [][\A o \in Orders : (payment[o] # NoEntry /\ payment'[o] # payment[o]) =>
          \/ payment'[o] = NoEntry
          \/ multisig[o] # NoEntry /\ ~multisig[o].executed /\ multisig'[o].executed]_vars

LastReceipt(o) == receipts[CHOOSE i \in 1..Len(receipts) :
                      /\ receipts[i].order = o
                      /\ \A j \in i + 1..Len(receipts) : receipts[j].order # o]

\* Full histories, ids archived and used again, and payments on all three paths:
\* only a payment made by executing a multi-signature payment may be missing
\* from the histories of its merchant and payer.
OnlyMultisigUnindexed ==
    \A o \in Orders : (payment[o] # NoEntry /\ LastReceipt(o).kind # "multisig") =>
        /\ o \in Entries(merchant_ids[payment[o].merchant])
        /\ o \in Entries(payer_ids[payment[o].payer])

\* A request that is still there is in the index, for the sweep to find, unless
\* the index it was entered in has itself been dropped since: entering, paying,
\* cancelling and sweeping other requests never loses one.
OutstandingListed ==
    \A o \in Orders :
        (HasRequest(o) /\ IsLive(request_index) /\ request[o].live_until >= request_index.live_until)
        => o \in request_index.ids

-----------------------------------------------------------------------------
(* What the documentation says and the code does not do *)

\* get_payment_request_ids' comment: all outstanding payment requests.  An index
\* that was dropped starts empty, and the sweep never sees what it had listed.
IndexListsAll == \A o \in Orders : HasRequest(o) => o \in get_payment_request_ids

\* create_payment_request's comment: a payer can fulfil a request before its
\* ttl has passed.  The entry may be gone before.
RequestLastsItsTTL ==
    \A o \in Orders : (request[o] # NoEntry /\ now < request[o].expires_at) => HasRequest(o)

\* initiate_multisig_payment's comment: the list of signers holds no
\* duplicates.  With one, the threshold may be out of reach.
QuorumReachable ==
    \A o \in Orders : multisig[o] # NoEntry =>
        Cardinality(Entries(multisig[o].signers)) >= multisig[o].required_signatures

\* docs/order-id-semantics.md: a recorded payment is never replaced.
PaymentsNeverReplaced ==
    [][\A o \in Orders : payment[o] # NoEntry => payment'[o] \in {payment[o], NoEntry}]_vars

=============================================================================
