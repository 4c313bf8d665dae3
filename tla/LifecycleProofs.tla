---------------------------- MODULE LifecycleProofs ---------------------------
(***************************************************************************)
(* What surrounds a payment, for every value of the constants: the         *)
(* requests and the multi-signature agreements it may come from (Orders),  *)
(* and the refunds and disputes that may follow it (Refunds).              *)
(*                                                                         *)
(* Requests.  The step that could lose some is the one that finds no index *)
(* and starts one: the requests entered earlier do not outlive the new     *)
(* index, because the entry that lives longest was made in this ledger,    *)
(* and then its index would live.                                          *)
(*                                                                         *)
(* Agreements and refunds.  Every step is first shown to be of one of a    *)
(* few kinds, each with what it changes (OrdersStepCases and               *)
(* RefundsStepCases); an invariant then needs one argument for each kind   *)
(* that can disturb it.  A payment record stands for the last receipt of   *)
(* its order, which relates what is stored now to the history that no      *)
(* clean-up reaches.                                                       *)
(***************************************************************************)
EXTENDS Orders, Refunds, PaymentsProofs

-----------------------------------------------------------------------------
(* Requests: no live one is lost from a live index *)

RequestTypes ==
    /\ now \in Nat
    /\ request \in [Orders -> PaymentRequest \cup {NoEntry}]
    /\ request_index \in RequestIndex \cup {NoEntry}

\* No request outlives what is entered now, and one that lives as long was
\* entered with an index that is still there.
Fresh ==
    \A o \in Orders : request[o] # NoEntry =>
        /\ request[o].live_until <= now + TempTTL
        /\ request[o].live_until = now + TempTTL => IsLive(request_index)

Inv == RequestTypes /\ Fresh /\ OutstandingListed

USE DEF IsLive, HasRequest

LEMMA InitInv == Init => Inv
BY EnvAssumption DEF Init, LedgerInit, EnvInit, Inv, RequestTypes, Fresh, OutstandingListed

\* A new request, in the index that lives or in a new one.
LEMMA SetInv ==
    ASSUME Inv, NEW o \in Orders, NEW pr \in PaymentRequest, pr.live_until = now + TempTTL,
           set_payment_request(o, pr), now' = now
    PROVE  Inv'
<1> USE OrdersAssumption DEF OrdersAssumption, Inv, RequestTypes, set_payment_request
<1>1. request' \in [Orders -> PaymentRequest \cup {NoEntry}]
  OBVIOUS
<1>2. \A n \in Orders : request'[n] = IF n = o THEN pr ELSE request[n]
  OBVIOUS
<1>3. IsLive(request_index)' => Fresh'
  BY <1>2 DEF Fresh
<1>4. CASE IsLive(request_index)
  <2>1. request_index' = [request_index EXCEPT !.ids = @ \cup {o}]
    BY <1>4
  <2>2. request_index \in RequestIndex
    BY <1>4
  <2>3. /\ request_index' \in RequestIndex
        /\ request_index'.ids = request_index.ids \cup {o}
        /\ request_index'.live_until = request_index.live_until
    BY <2>1, <2>2 DEF RequestIndex
  <2>4. Fresh'
    BY <1>4, <1>3, <2>3
  <2>5. OutstandingListed'
    BY <1>4, <2>3 DEF OutstandingListed
  <2> QED
    BY <1>1, <2>3, <2>4, <2>5
<1>5. CASE ~IsLive(request_index)
  <2>1. request_index' = [ids |-> {o}, live_until |-> now + TempTTL]
    BY <1>5
  <2>2. /\ request_index' \in RequestIndex
        /\ request_index'.ids = {o}
        /\ request_index'.live_until = now + TempTTL
    BY <2>1 DEF RequestIndex
  <2>3. Fresh'
    <3>1. now' <= request_index'.live_until
      BY <2>2
    <3>2. request_index' # NoEntry
      BY <2>2
    <3> QED
      BY ONLY <1>3, <3>1, <3>2 DEF IsLive
  <2>4. \A n \in Orders : n # o /\ request[n] # NoEntry => request[n].live_until < now + TempTTL
    BY <1>5 DEF Fresh, PaymentRequest
  <2>5. OutstandingListed'
    BY <2>2, <2>4 DEF OutstandingListed, PaymentRequest
  <2> QED
    BY <1>1, <2>2, <2>3, <2>5
<1> QED
  BY <1>4, <1>5

\* Requests that go leave the index too, if it lives.
LEMMA RemoveInv ==
    ASSUME Inv, NEW removed, remove_payment_requests(removed), now' = now
    PROVE  Inv'
<1> USE OrdersAssumption DEF OrdersAssumption, Inv, RequestTypes, remove_payment_requests
<1>1. request' \in [Orders -> PaymentRequest \cup {NoEntry}]
  OBVIOUS
<1>2. \A o \in Orders : request'[o] # NoEntry => o \notin removed /\ request'[o] = request[o]
  OBVIOUS
<1>3. CASE IsLive(request_index)
  <2>1. request_index' = [request_index EXCEPT !.ids = @ \ removed]
    BY <1>3
  <2>2. /\ request_index' \in RequestIndex
        /\ request_index'.ids = request_index.ids \ removed
        /\ request_index'.live_until = request_index.live_until
    BY <1>3, <2>1 DEF RequestIndex
  <2>3. Fresh'
    BY <1>2, <1>3, <2>2 DEF Fresh
  <2>4. OutstandingListed'
    BY <1>2, <1>3, <2>2 DEF OutstandingListed
  <2> QED
    BY <1>1, <2>2, <2>3, <2>4
<1>4. CASE ~IsLive(request_index)
  <2>1. request_index' = request_index
    BY <1>4
  <2>2. Fresh'
    BY <1>2, <2>1 DEF Fresh
  <2>3. OutstandingListed'
    BY <1>4, <2>1 DEF OutstandingListed
  <2> QED
    BY <1>1, <2>1, <2>2, <2>3
<1> QED
  BY <1>3, <1>4

\* Time only takes requests and index away.
LEMMA IdleInv ==
    ASSUME Inv, request' = request, request_index' = request_index, now' = now \/ now' = now + 1
    PROVE  Inv'
<1> USE OrdersAssumption DEF OrdersAssumption
<1>1. RequestTypes'
  BY DEF Inv, RequestTypes
<1>2. Fresh'
  BY DEF Inv, RequestTypes, Fresh, PaymentRequest
<1>3. OutstandingListed'
  BY DEF Inv, RequestTypes, OutstandingListed, PaymentRequest, RequestIndex
<1> QED
  BY <1>1, <1>2, <1>3 DEF Inv

LEMMA CreateInv ==
    ASSUME Inv, NEW m \in Payees, NEW o \in Orders, NEW t \in Tokens, NEW a \in Amounts,
           NEW ttl \in RequestTTLs, create_payment_request(m, o, t, a, ttl)
    PROVE  Inv'
<1> DEFINE pr == [merchant |-> m, token |-> t, amount |-> a,
                  expires_at |-> now + ttl, live_until |-> now + TempTTL]
<1>1. pr \in PaymentRequest
  BY OrdersAssumption, LedgerAssumption
  DEF OrdersAssumption, LedgerAssumption, Inv, RequestTypes, PaymentRequest,
      create_payment_request, require_positive
<1>2. set_payment_request(o, pr) /\ now' = now
  BY DEF create_payment_request, envVars
<1> QED
  BY <1>1, <1>2, SetInv

LEMMA NextInv == ASSUME Inv, [Next]_vars PROVE Inv'
<1>1. ASSUME NEW m \in Payees, NEW o \in Orders, NEW t \in Tokens, NEW a \in Amounts,
             NEW ttl \in RequestTTLs, create_payment_request(m, o, t, a, ttl)
      PROVE  Inv'
  BY <1>1, CreateInv
<1>2. ASSUME NEW p \in Accounts, NEW o \in Orders, pay_payment_request(p, o)
      PROVE  Inv'
  BY <1>2, RemoveInv DEF pay_payment_request
<1>3. ASSUME NEW c \in Accounts, NEW o \in Orders, cancel_payment_request(c, o)
      PROVE  Inv'
  BY <1>3, RemoveInv DEF cancel_payment_request, envVars
<1>4. CASE cancel_expired_payment_requests
  BY <1>4, RemoveInv DEF cancel_expired_payment_requests, envVars
<1>5. ASSUME NEW i \in Accounts, NEW it \in Items, NEW s \in SignerLists, NEW r \in Thresholds,
             NEW x \in Expiries, initiate_multisig_payment(i, it, s, r, x)
      PROVE  Inv'
  BY <1>5, IdleInv DEF initiate_multisig_payment, envVars
<1>6. ASSUME NEW s \in Accounts, NEW o \in Orders, sign_multisig_payment(s, o)
      PROVE  Inv'
  BY <1>6, IdleInv DEF sign_multisig_payment, envVars
<1>7. ASSUME NEW c \in Accounts \cup {Admin}, NEW o \in Orders, cancel_multisig_payment(c, o)
      PROVE  Inv'
  BY <1>7, IdleInv DEF cancel_multisig_payment, envVars
<1>8. ASSUME NEW p \in Accounts, NEW o \in Orders, execute_multisig_payment(p, o)
      PROVE  Inv'
  BY <1>8, IdleInv DEF execute_multisig_payment
<1>9. ASSUME NEW p \in Accounts, NEW it \in Items, NEW n \in 0..MaxPayments,
             process_payment_with_nonce(p, it, n), UNCHANGED orderVars
      PROVE  Inv'
  BY <1>9, IdleInv DEF process_payment_with_nonce, orderVars
<1>10. ASSUME NEW o \in Orders, archive_payment_record(o), UNCHANGED orderVars
       PROVE  Inv'
  BY <1>10, IdleInv DEF archive_payment_record, orderVars, envVars
<1>11. CASE EnvNext /\ UNCHANGED <<configVars, ledgerVars, orderVars>>
  <2>1. now' = now \/ now' = now + 1
    BY <1>11 DEF EnvNext, AdvanceTime, set_paused, set_merchant_active, set_token_allowed
  <2> QED
    BY <1>11, <2>1, IdleInv DEF orderVars
<1>12. CASE UNCHANGED vars
  BY <1>12, IdleInv DEF vars, envVars, orderVars
<1> QED
  BY <1>1, <1>2, <1>3, <1>4, <1>5, <1>6, <1>7, <1>8, <1>9, <1>10, <1>11, <1>12 DEF Next

-----------------------------------------------------------------------------
(* Lists of signatures *)

\* The ledger as it is, for the lemmas of PaymentsProofs.
USE EnvAssumption, LedgerAssumption, OrdersAssumption DEF MAX_PLATFORM_FEE_BPS

Distinct(s) == \A i, j \in 1..Len(s) : s[i] = s[j] => i = j

\* As many people signed as there are signatures, when nobody signed twice.
LEMMA DistinctCount ==
    ASSUME NEW s \in Seq(Accounts), Distinct(s)
    PROVE  IsFiniteSet(Entries(s)) /\ Cardinality(Entries(s)) = Len(s)
<1> DEFINE f == [i \in 1..Len(s) |-> s[i]]
<1>1. Len(s) \in Nat /\ \A i \in 1..Len(s) : s[i] \in Entries(s)
  BY DEF Entries
<1>2. f \in Surjection(1..Len(s), Entries(s))
  BY <1>1 DEF Surjection, Entries
<1>3. f \in Injection(1..Len(s), Entries(s))
  <2>1. f \in [1..Len(s) -> Entries(s)]
    BY <1>1
  <2>2. \A i, j \in 1..Len(s) : f[i] = f[j] => i = j
    BY DEF Distinct
  <2> HIDE DEF f
  <2> QED BY <2>1, <2>2 DEF Injection, IsInjective
<1>4. IsFiniteSet(1..Len(s)) /\ Cardinality(1..Len(s)) = Len(s)
  BY <1>1, FS_Interval
<1> HIDE DEF f
<1> QED BY <1>2, <1>3, <1>4, FS_Surjection

\* A list of n entries names at most n people.
LEMMA EntriesBound ==
    ASSUME NEW s \in Seq(Accounts)
    PROVE  IsFiniteSet(Entries(s)) /\ Cardinality(Entries(s)) <= Len(s)
<1> DEFINE f == [i \in 1..Len(s) |-> s[i]]
<1>1. Len(s) \in Nat /\ \A i \in 1..Len(s) : s[i] \in Entries(s)
  BY DEF Entries
<1>2. f \in Surjection(1..Len(s), Entries(s))
  BY <1>1 DEF Surjection, Entries
<1>3. IsFiniteSet(1..Len(s)) /\ Cardinality(1..Len(s)) = Len(s)
  BY <1>1, FS_Interval
<1> HIDE DEF f
<1> QED BY <1>2, <1>3, FS_Surjection

\* Nobody signs twice and only those listed sign, so there are never more
\* signatures than signers, although a list may name somebody twice.
LEMMA SignaturesBound ==
    ASSUME NEW s \in Seq(Accounts), Distinct(s), NEW t \in Seq(Accounts),
           Entries(s) \subseteq Entries(t)
    PROVE  Len(s) <= Len(t)
<1>1. Cardinality(Entries(s)) = Len(s)
  BY DistinctCount
<1>2. IsFiniteSet(Entries(t)) /\ Cardinality(Entries(t)) <= Len(t)
  BY EntriesBound
<1>3. Cardinality(Entries(s)) <= Cardinality(Entries(t))
  BY <1>2, FS_Subset
<1>4. Cardinality(Entries(t)) \in Nat /\ Len(s) \in Nat /\ Len(t) \in Nat
  BY <1>2, FS_CardinalityType
<1> QED BY <1>1, <1>2, <1>3, <1>4

\* One more signature, by somebody who has not signed.
LEMMA SignatureAdded ==
    ASSUME NEW s \in Seq(Accounts), Distinct(s), NEW a \in Accounts, a \notin Entries(s)
    PROVE  /\ Append(s, a) \in Seq(Accounts) /\ Distinct(Append(s, a))
           /\ Entries(Append(s, a)) = Entries(s) \cup {a}
<1> DEFINE r == Append(s, a)
<1>1. /\ r \in Seq(Accounts) /\ Len(s) \in Nat /\ Len(r) = Len(s) + 1 /\ r[Len(s) + 1] = a
      /\ \A i \in 1..Len(s) : r[i] = s[i]
  BY AppendProperties
<1>2. 1..Len(r) = 1..Len(s) \cup {Len(s) + 1}
  BY <1>1
<1> HIDE DEF r
<1>3. \A i \in 1..Len(s) : r[i] # a
  BY <1>1 DEF Entries
<1>4. Distinct(r)
  BY <1>1, <1>2, <1>3 DEF Distinct
<1>5. Entries(r) = Entries(s) \cup {a}
  BY <1>1, <1>2 DEF Entries
<1> QED BY <1>1, <1>4, <1>5 DEF r

-----------------------------------------------------------------------------
(* What the steps do to the multi-signature payments *)

MultisigTypes == multisig \in [Orders -> MultisigPayment \cup {NoEntry}]

\* Each signature is by somebody else, and all are by people listed.
SignedOnce ==
    \A o \in Orders : multisig[o] # NoEntry =>
        /\ Distinct(multisig[o].collected)
        /\ Entries(multisig[o].collected) \subseteq Entries(multisig[o].signers)

\* One record is written.
Writes(o, r) ==
    /\ multisig' = [multisig EXCEPT ![o] = r]
    /\ r \in MultisigPayment

\* What is written to one of them keeps the types.
LEMMA WriteFacts ==
    ASSUME MultisigTypes, NEW o \in Orders, NEW r, Writes(o, r)
    PROVE  /\ MultisigTypes'
           /\ multisig'[o] = r /\ r # NoEntry
           /\ \A q \in Orders : q # o => multisig'[q] = multisig[q]
BY DEF MultisigTypes, Writes

LEMMA InitiateFacts ==
    ASSUME LedgerTypeOK, NEW i \in Accounts, NEW it \in Items, NEW s \in SignerLists,
           NEW required \in Thresholds, NEW x \in Expiries,
           initiate_multisig_payment(i, it, s, required, x)
    PROVE  \E r : /\ Writes(it.order, r)
                  /\ multisig[it.order] = NoEntry
                  /\ r.collected = <<>> /\ ~r.executed
<1> DEFINE r == [initiator |-> i, merchant |-> it.merchant, token |-> it.token,
                 amount |-> it.amount, required_signatures |-> required, signers |-> s,
                 collected |-> <<>>, executed |-> FALSE, cancelled |-> FALSE,
                 expires_at |-> IF x = NoEntry THEN now + ExpiryDuration ELSE x]
<1>1. /\ multisig[it.order] = NoEntry /\ multisig' = [multisig EXCEPT ![it.order] = r]
      /\ it.amount > 0 /\ required # 0
  BY DEF initiate_multisig_payment, require_positive
<1>2. it \in Paid /\ it.merchant \in Merchants
  BY <1>1, ItemPaid DEF Items
<1>3. (IF x = NoEntry THEN now + ExpiryDuration ELSE x) \in Nat
  BY MoneyTypes
<1>4. required \in Nat \ {0} /\ <<>> \in Seq(Accounts)
  BY <1>1
<1>5. it.token \in Tokens /\ it.amount \in Nat \ {0}
  BY <1>2 DEF Paid
<1>6. r \in MultisigPayment
  BY <1>2, <1>3, <1>4, <1>5 DEF MultisigPayment
<1>7. r.collected = <<>> /\ ~r.executed
  OBVIOUS
<1> HIDE DEF r
<1> QED BY <1>1, <1>6, <1>7 DEF Writes

LEMMA SignFacts ==
    ASSUME MultisigTypes, NEW signer \in Accounts, NEW o \in Orders, SignedOnce,
           sign_multisig_payment(signer, o)
    PROVE  \E r : /\ Writes(o, r)
                  /\ multisig[o] # NoEntry /\ ~multisig[o].executed
                  /\ ~r.executed
                  /\ Distinct(r.collected) /\ Entries(r.collected) \subseteq Entries(r.signers)
<1> DEFINE c == Append(multisig[o].collected, signer)
           r == [multisig[o] EXCEPT !.collected = c]
<1>1. /\ multisig[o] # NoEntry /\ ~multisig[o].executed
      /\ signer \in Entries(multisig[o].signers) /\ signer \notin Entries(multisig[o].collected)
      /\ multisig' = [multisig EXCEPT ![o].collected = Append(@, signer)]
  BY DEF sign_multisig_payment
<1>2. multisig[o] \in MultisigPayment /\ multisig \in [Orders -> MultisigPayment \cup {NoEntry}]
  BY <1>1 DEF MultisigTypes
<1>3. multisig[o].collected \in Seq(Accounts)
  BY <1>2 DEF MultisigPayment
<1>4. /\ c \in Seq(Accounts) /\ Distinct(c)
      /\ Entries(c) \subseteq Entries(multisig[o].signers)
  <2> DEFINE s == multisig[o].collected
  <2>1. /\ s \in Seq(Accounts) /\ Distinct(s) /\ signer \notin Entries(s)
        /\ Entries(s) \subseteq Entries(multisig[o].signers)
    BY <1>1, <1>3 DEF SignedOnce
  <2> HIDE DEF s
  <2>2. /\ Append(s, signer) \in Seq(Accounts) /\ Distinct(Append(s, signer))
        /\ Entries(Append(s, signer)) = Entries(s) \cup {signer}
    BY <2>1, SignatureAdded
  <2> QED BY <1>1, <2>1, <2>2 DEF s
<1>5. multisig' = [multisig EXCEPT ![o] = r]
  BY <1>1
<1> HIDE DEF c
<1>6. /\ r \in MultisigPayment /\ r.collected = c /\ r.signers = multisig[o].signers
      /\ r.executed = multisig[o].executed
  BY <1>2, <1>4 DEF MultisigPayment
<1> HIDE DEF r
<1> QED BY <1>1, <1>4, <1>5, <1>6 DEF Writes

LEMMA CancelFacts ==
    ASSUME MultisigTypes, NEW caller, NEW o \in Orders, cancel_multisig_payment(caller, o)
    PROVE  \E r : /\ Writes(o, r)
                  /\ multisig[o] # NoEntry /\ ~multisig[o].executed
                  /\ ~r.executed
                  /\ r.collected = multisig[o].collected /\ r.signers = multisig[o].signers
<1> DEFINE r == [multisig[o] EXCEPT !.cancelled = TRUE]
<1>1. /\ multisig[o] # NoEntry /\ ~multisig[o].executed
      /\ multisig' = [multisig EXCEPT ![o].cancelled = TRUE]
  BY DEF cancel_multisig_payment
<1>2. multisig[o] \in MultisigPayment
  BY <1>1 DEF MultisigTypes
<1>3. multisig' = [multisig EXCEPT ![o] = r]
  BY <1>1
<1>4. /\ r \in MultisigPayment /\ r.executed = multisig[o].executed
      /\ r.collected = multisig[o].collected /\ r.signers = multisig[o].signers
  BY <1>2 DEF MultisigPayment
<1> HIDE DEF r
<1> QED BY <1>1, <1>3, <1>4 DEF Writes

\* Executing settles what was agreed and marks the record.
LEMMA ExecuteFacts ==
    ASSUME LedgerTypeOK, MultisigTypes, NEW payer \in Accounts, NEW o \in Orders,
           execute_multisig_payment(payer, o)
    PROVE  LET it == ItemOf(o, multisig[o])
           IN  /\ it \in Paid /\ it.order = o
               /\ Settles("multisig", payer, <<it>>, 0, 0)
               /\ multisig[o] # NoEntry /\ ~multisig[o].executed /\ ~multisig[o].cancelled
               /\ now <= multisig[o].expires_at
               /\ Len(multisig[o].collected) >= multisig[o].required_signatures
               /\ \E r : /\ Writes(o, r)
                         /\ r.executed /\ ~r.cancelled
                         /\ ItemOf(o, r) = it
                         /\ r.collected = multisig[o].collected
                         /\ r.signers = multisig[o].signers
                         /\ r.required_signatures = multisig[o].required_signatures
                         /\ r.expires_at = multisig[o].expires_at
<1> DEFINE it == ItemOf(o, multisig[o])
           r == [multisig[o] EXCEPT !.executed = TRUE]
<1>1. /\ multisig[o] # NoEntry /\ ~multisig[o].executed /\ ~multisig[o].cancelled
      /\ now <= multisig[o].expires_at
      /\ Len(multisig[o].collected) >= multisig[o].required_signatures
      /\ multisig' = [multisig EXCEPT ![o].executed = TRUE]
      /\ StorePayments(payer, <<it>>, 0)
      /\ Remember("multisig", payer, <<it>>, 0, 0)
      /\ UNCHANGED <<now, paused, active, allowed, configVars>>
  BY DEF execute_multisig_payment
<1>2. multisig[o] \in MultisigPayment
  BY <1>1 DEF MultisigTypes
<1>3. it \in Paid /\ it.order = o
  BY <1>2 DEF MultisigPayment, ItemOf, Paid
<1>4. multisig' = [multisig EXCEPT ![o] = r]
  BY <1>1
<1>5. /\ r \in MultisigPayment /\ r.executed /\ r.cancelled = multisig[o].cancelled
      /\ r.merchant = multisig[o].merchant /\ r.token = multisig[o].token
      /\ r.amount = multisig[o].amount
      /\ r.collected = multisig[o].collected
      /\ r.signers = multisig[o].signers
      /\ r.required_signatures = multisig[o].required_signatures
      /\ r.expires_at = multisig[o].expires_at
  BY <1>2 DEF MultisigPayment
<1>6. ItemOf(o, r) = it
  BY <1>5 DEF ItemOf
<1> HIDE DEF r, it
<1>7. Settles("multisig", payer, <<it>>, 0, 0)
  BY <1>1, <1>3 DEF Settles
<1> QED BY <1>1, <1>3, <1>4, <1>5, <1>6, <1>7 DEF Writes, it

\* Paying a request settles what was asked.
LEMMA PayRequestFacts ==
    ASSUME LedgerTypeOK, RequestTypes, NEW payer \in Accounts, NEW o \in Orders,
           pay_payment_request(payer, o)
    PROVE  LET it == ItemOf(o, request[o])
           IN  /\ it \in Paid /\ it.order = o
               /\ Settles("request", payer, <<it>>, 0, 0)
               /\ payment[o] = NoEntry /\ multisig' = multisig
<1> DEFINE it == ItemOf(o, request[o])
<1>1. /\ request[o] # NoEntry /\ payment[o] = NoEntry /\ multisig' = multisig
      /\ StorePayments(payer, <<it>>, 0)
      /\ Remember("request", payer, <<it>>, 0, 0)
      /\ UNCHANGED <<now, paused, active, allowed, configVars>>
  BY DEF pay_payment_request
<1>2. request[o] \in PaymentRequest
  BY <1>1 DEF RequestTypes
<1>3. it \in Paid /\ it.order = o
  BY <1>2 DEF PaymentRequest, ItemOf, Paid
<1> HIDE DEF it
<1>4. Settles("request", payer, <<it>>, 0, 0)
  BY <1>1, <1>3 DEF Settles
<1> QED BY <1>1, <1>3, <1>4 DEF it

-----------------------------------------------------------------------------
(* Every step keeps the types *)

\* What both ways to pay an agreed order leave in the ledger is well typed.
LEMMA AgreedTypes ==
    ASSUME LedgerTypeOK, NEW kind, NEW payer \in Accounts, NEW it \in Paid,
           Settles(kind, payer, <<it>>, 0, 0),
           Transfer(it.token, payer, it.merchant, it.amount),
           AddToIndexes(payer, <<it>>) \/ AddToIndexesIfRoom(payer, <<it>>),
           AddToGlobalStats(it),
           UNCHANGED <<nonce, merchant_nonce, rate, total_received, merchant_stats>>
    PROVE  LedgerTypeOK'
<1>1. /\ it.token \in Tokens /\ it.merchant \in Holders /\ payer \in Holders /\ it.amount \in Nat
      /\ <<it>> \in Seq(Paid)
  BY DEF Paid, Holders
<1>2. balance' \in [Tokens -> [Holders -> Nat]]
  BY <1>1, MoneyTypes, TransferFacts
<1>3. merchant_ids' \in [Accounts -> Seq(Orders)] /\ payer_ids' \in [Accounts -> Seq(Orders)]
  BY <1>1, IndexTypes
<1>4. global_stats' \in Stats
  <2>1. global_stats \in Stats
    BY DEF LedgerTypeOK
  <2>2. global_stats' = [global_stats EXCEPT !.total_payments = @ + 1,
                                             !.total_volume = saturating_add(@, it.amount)]
    BY DEF AddToGlobalStats
  <2> QED BY <1>1, <2>1, <2>2, StatsAdd
<1>5. /\ nonce' \in [Accounts -> Nat] /\ merchant_nonce' \in [Merchants -> Nat]
      /\ rate' \in [Merchants -> [WindowStarts -> Nat]]
      /\ total_received' \in [Merchants -> Nat]
  BY CounterTypes, SMTT(30)
<1>6. merchant_stats' \in [Merchants -> Stats]
  BY DEF LedgerTypeOK
<1> QED BY <1>2, <1>3, <1>4, <1>5, <1>6, SettledTypes

LEMMA LedgerStep ==
    ASSUME LedgerTypeOK, RequestTypes, MultisigTypes, [Next]_vars
    PROVE  LedgerTypeOK'
<1>1. ASSUME UNCHANGED envVars, UNCHANGED <<configVars, ledgerVars>> PROVE LedgerTypeOK'
  BY <1>1, IdleTypes
<1>2. ASSUME NEW m \in Payees, NEW o \in Orders, NEW t \in Tokens, NEW a \in Amounts,
             NEW ttl \in RequestTTLs, create_payment_request(m, o, t, a, ttl)
      PROVE  LedgerTypeOK'
  BY <1>1, <1>2 DEF create_payment_request
<1>3. ASSUME NEW p \in Accounts, NEW o \in Orders, pay_payment_request(p, o)
      PROVE  LedgerTypeOK'
  <2> DEFINE it == ItemOf(o, request[o])
  <2>1. it \in Paid /\ Settles("request", p, <<it>>, 0, 0)
    BY <1>3, PayRequestFacts
  <2>2. /\ Transfer(it.token, p, it.merchant, it.amount)
        /\ AddToIndexes(p, <<it>>) /\ AddToGlobalStats(it)
        /\ UNCHANGED <<nonce, merchant_nonce, rate, total_received, merchant_stats>>
    BY <1>3 DEF pay_payment_request
  <2> HIDE DEF it
  <2> QED BY <2>1, <2>2, AgreedTypes
<1>4. ASSUME NEW c \in Accounts, NEW o \in Orders, cancel_payment_request(c, o)
      PROVE  LedgerTypeOK'
  BY <1>1, <1>4 DEF cancel_payment_request
<1>5. CASE cancel_expired_payment_requests
  BY <1>1, <1>5 DEF cancel_expired_payment_requests
<1>6. ASSUME NEW i \in Accounts, NEW it \in Items, NEW s \in SignerLists, NEW r \in Thresholds,
             NEW x \in Expiries, initiate_multisig_payment(i, it, s, r, x)
      PROVE  LedgerTypeOK'
  BY <1>1, <1>6 DEF initiate_multisig_payment
<1>7. ASSUME NEW s \in Accounts, NEW o \in Orders, sign_multisig_payment(s, o)
      PROVE  LedgerTypeOK'
  BY <1>1, <1>7 DEF sign_multisig_payment
<1>8. ASSUME NEW c \in Accounts \cup {Admin}, NEW o \in Orders, cancel_multisig_payment(c, o)
      PROVE  LedgerTypeOK'
  BY <1>1, <1>8 DEF cancel_multisig_payment
<1>9. ASSUME NEW p \in Accounts, NEW o \in Orders, execute_multisig_payment(p, o)
      PROVE  LedgerTypeOK'
  <2> DEFINE it == ItemOf(o, multisig[o])
  <2>1. it \in Paid /\ Settles("multisig", p, <<it>>, 0, 0)
    BY <1>9, ExecuteFacts
  <2>2. /\ Transfer(it.token, p, it.merchant, it.amount)
        /\ AddToIndexesIfRoom(p, <<it>>) /\ AddToGlobalStats(it)
        /\ UNCHANGED <<nonce, merchant_nonce, rate, total_received, merchant_stats>>
    BY <1>9 DEF execute_multisig_payment
  <2> HIDE DEF it
  <2> QED BY <2>1, <2>2, AgreedTypes
<1>10. ASSUME NEW p \in Accounts, NEW it \in Items, NEW n \in 0..MaxPayments,
              process_payment_with_nonce(p, it, n)
       PROVE  LedgerTypeOK'
  BY <1>10, NonceTypes
<1>11. ASSUME NEW o \in Orders, archive_payment_record(o) PROVE LedgerTypeOK'
  BY <1>11, ArchiveTypes
<1>12. CASE EnvNext /\ UNCHANGED <<configVars, ledgerVars, orderVars>>
  BY <1>12, IdleTypes
<1>13. CASE UNCHANGED vars
  BY <1>1, <1>13 DEF vars
<1> QED
  BY <1>2, <1>3, <1>4, <1>5, <1>6, <1>7, <1>8, <1>9, <1>10, <1>11, <1>12, <1>13 DEF Next

\* One record written with signatures that are sound.
LEMMA WriteSigned ==
    ASSUME MultisigTypes, SignedOnce, NEW o \in Orders, NEW r, Writes(o, r),
           Distinct(r.collected), Entries(r.collected) \subseteq Entries(r.signers)
    PROVE  MultisigTypes' /\ SignedOnce'
<1>1. /\ MultisigTypes' /\ multisig'[o] = r
      /\ \A q \in Orders : q # o => multisig'[q] = multisig[q]
  BY WriteFacts
<1>2. ASSUME NEW q \in Orders, multisig'[q] # NoEntry
      PROVE  /\ Distinct(multisig'[q].collected)
             /\ Entries(multisig'[q].collected) \subseteq Entries(multisig'[q].signers)
  BY <1>1, <1>2 DEF SignedOnce
<1> QED BY <1>1, <1>2 DEF SignedOnce

LEMMA MultisigStep ==
    ASSUME LedgerTypeOK, MultisigTypes, SignedOnce, [Next]_vars
    PROVE  MultisigTypes' /\ SignedOnce'
<1>1. ASSUME multisig' = multisig PROVE MultisigTypes' /\ SignedOnce'
  BY <1>1 DEF MultisigTypes, SignedOnce
<1>2. ASSUME NEW i \in Accounts, NEW it \in Items, NEW s \in SignerLists, NEW r \in Thresholds,
             NEW x \in Expiries, initiate_multisig_payment(i, it, s, r, x)
      PROVE  MultisigTypes' /\ SignedOnce'
  <2>1. PICK q : Writes(it.order, q) /\ q.collected = <<>>
    BY <1>2, InitiateFacts
  <2>2. Distinct(q.collected) /\ Entries(q.collected) \subseteq Entries(q.signers)
    BY <2>1 DEF Distinct, Entries
  <2>3. it.order \in Orders
    BY DEF Items
  <2> QED BY <2>1, <2>2, <2>3, WriteSigned
<1>3. ASSUME NEW s \in Accounts, NEW o \in Orders, sign_multisig_payment(s, o)
      PROVE  MultisigTypes' /\ SignedOnce'
  <2>1. PICK r : /\ Writes(o, r)
                 /\ Distinct(r.collected) /\ Entries(r.collected) \subseteq Entries(r.signers)
    BY <1>3, SignFacts
  <2> QED BY <2>1, WriteSigned
<1>4. ASSUME NEW c, NEW o \in Orders, cancel_multisig_payment(c, o)
      PROVE  MultisigTypes' /\ SignedOnce'
  <2>1. PICK r : /\ Writes(o, r) /\ multisig[o] # NoEntry
                 /\ r.collected = multisig[o].collected /\ r.signers = multisig[o].signers
    BY <1>4, CancelFacts
  <2>2. Distinct(r.collected) /\ Entries(r.collected) \subseteq Entries(r.signers)
    BY <2>1 DEF SignedOnce
  <2> QED BY <2>1, <2>2, WriteSigned
<1>5. ASSUME NEW p \in Accounts, NEW o \in Orders, execute_multisig_payment(p, o)
      PROVE  MultisigTypes' /\ SignedOnce'
  <2>1. PICK r : /\ Writes(o, r)
                 /\ r.collected = multisig[o].collected /\ r.signers = multisig[o].signers
    BY <1>5, ExecuteFacts, ZenonT(30)
  <2>2. multisig[o] # NoEntry
    BY <1>5, ExecuteFacts
  <2>3. Distinct(r.collected) /\ Entries(r.collected) \subseteq Entries(r.signers)
    BY <2>1, <2>2 DEF SignedOnce
  <2> QED BY <2>1, <2>3, WriteSigned
<1>6. ASSUME NEW m \in Payees, NEW o \in Orders, NEW t \in Tokens, NEW a \in Amounts,
             NEW ttl \in RequestTTLs, create_payment_request(m, o, t, a, ttl)
      PROVE  multisig' = multisig
  BY <1>6 DEF create_payment_request
<1>7. ASSUME NEW p \in Accounts, NEW o \in Orders, pay_payment_request(p, o)
      PROVE  multisig' = multisig
  BY <1>7 DEF pay_payment_request
<1>8. ASSUME NEW c \in Accounts, NEW o \in Orders, cancel_payment_request(c, o)
      PROVE  multisig' = multisig
  BY <1>8 DEF cancel_payment_request
<1>9. CASE cancel_expired_payment_requests
  BY <1>1, <1>9 DEF cancel_expired_payment_requests
<1>10. ASSUME UNCHANGED orderVars PROVE multisig' = multisig
  BY <1>10 DEF orderVars
<1>11. CASE UNCHANGED vars
  BY <1>1, <1>10, <1>11 DEF vars
<1> QED BY <1>1, <1>2, <1>3, <1>4, <1>5, <1>6, <1>7, <1>8, <1>9, <1>10, <1>11 DEF Next

\* The signatures are never more than the signers, because nobody signs twice.
LEMMA TypesHold == LedgerTypeOK /\ RequestTypes /\ MultisigTypes /\ SignedOnce => TypeOK
<1> SUFFICES ASSUME LedgerTypeOK, RequestTypes, MultisigTypes, SignedOnce PROVE TypeOK
  OBVIOUS
<1>1. ASSUME NEW o \in Orders, multisig[o] # NoEntry
      PROVE  Len(multisig[o].collected) <= Len(multisig[o].signers)
  <2>1. multisig[o] \in MultisigPayment
    BY <1>1 DEF MultisigTypes
  <2>2. multisig[o].collected \in Seq(Accounts) /\ multisig[o].signers \in Seq(Accounts)
    BY <2>1 DEF MultisigPayment
  <2>3. /\ Distinct(multisig[o].collected)
        /\ Entries(multisig[o].collected) \subseteq Entries(multisig[o].signers)
    BY <1>1 DEF SignedOnce
  <2> QED BY <2>2, <2>3, SignaturesBound
<1> QED BY <1>1 DEF TypeOK, RequestTypes, MultisigTypes

\* What holds of the records in every state.
Sound == LedgerTypeOK /\ Inv /\ MultisigTypes /\ SignedOnce

LEMMA SoundInit == Init => Sound
<1> SUFFICES ASSUME Init PROVE Sound
  OBVIOUS
<1>1. LedgerTypeOK
  BY InitTypes DEF Init
<1>2. MultisigTypes /\ SignedOnce
  BY DEF Init, MultisigTypes, SignedOnce
<1> QED BY <1>1, <1>2, InitInv DEF Sound

LEMMA SoundStep == Sound /\ [Next]_vars => Sound'
BY NextInv, LedgerStep, MultisigStep DEF Sound, Inv

LEMMA AlwaysSound == Spec => []Sound
BY SoundInit, SoundStep, PTL DEF Spec

-----------------------------------------------------------------------------
(* What a step does to the records, the receipts and the agreements *)

\* One payment is recorded; the histories have it, unless they are full and it
\* was made by executing an agreement.
Settling(kind, payer, it, charged, n) ==
    /\ payer \in Accounts /\ it \in Paid
    /\ Settles(kind, payer, <<it>>, charged, n)
    /\ \/ AddToIndexes(payer, <<it>>)
       \/ kind = "multisig" /\ AddToIndexesIfRoom(payer, <<it>>)

\* A direct payment, or a request paid.
PaidDirectly(kind, payer, it, charged, n) ==
    /\ Settling(kind, payer, it, charged, n)
    /\ kind # "multisig" /\ payment[it.order] = NoEntry /\ multisig' = multisig

\* An agreement that is open, in time and signed by enough people is executed.
Executed(payer, o, r) ==
    /\ Settling("multisig", payer, ItemOf(o, multisig[o]), 0, 0)
    /\ multisig[o] # NoEntry /\ ~multisig[o].executed
    /\ now <= multisig[o].expires_at
    /\ Len(multisig[o].collected) >= multisig[o].required_signatures
    /\ Writes(o, r)
    /\ r.executed /\ ~r.cancelled
    /\ ItemOf(o, r) = ItemOf(o, multisig[o])
    /\ r.collected = multisig[o].collected
    /\ r.required_signatures = multisig[o].required_signatures
    /\ r.expires_at = multisig[o].expires_at

\* An agreement is made, signed or cancelled.
Revised(o, r) ==
    /\ Writes(o, r)
    /\ multisig[o] = NoEntry \/ ~multisig[o].executed
    /\ ~r.executed

Archived(o) ==
    /\ payment' = [payment EXCEPT ![o] = NoEntry]
    /\ UNCHANGED <<merchant_ids, payer_ids, receipts, multisig>>

NothingPaid == UNCHANGED <<payment, merchant_ids, payer_ids, receipts>>

LEMMA OrdersStepCases ==
    ASSUME Sound, [Next]_vars
    PROVE  \/ \E kind, p, it, charged, n : PaidDirectly(kind, p, it, charged, n)
           \/ \E p, r : \E o \in Orders : Executed(p, o, r)
           \/ \E o \in Orders : Archived(o)
           \/ NothingPaid /\ \E o \in Orders : \E r : Revised(o, r)
           \/ NothingPaid /\ multisig' = multisig
<1> DEFINE Direct == \E kind, p, it, charged, n : PaidDirectly(kind, p, it, charged, n)
           Executes == \E p, r : \E o \in Orders : Executed(p, o, r)
           Archives == \E o \in Orders : Archived(o)
           Revises == NothingPaid /\ \E o \in Orders : \E r : Revised(o, r)
           Rests == NothingPaid /\ multisig' = multisig
<1>1. ASSUME NEW m \in Payees, NEW o \in Orders, NEW t \in Tokens, NEW a \in Amounts,
             NEW ttl \in RequestTTLs, create_payment_request(m, o, t, a, ttl)
      PROVE  Rests
  BY <1>1 DEF create_payment_request, ledgerVars, NothingPaid
<1>2. ASSUME NEW p \in Accounts, NEW o \in Orders, pay_payment_request(p, o)
      PROVE  Direct
  <2> DEFINE it == ItemOf(o, request[o])
  <2>1. /\ it \in Paid /\ it.order = o
        /\ Settles("request", p, <<it>>, 0, 0)
        /\ payment[o] = NoEntry /\ multisig' = multisig
    BY <1>2, PayRequestFacts DEF Sound, Inv
  <2>2. AddToIndexes(p, <<it>>)
    BY <1>2 DEF pay_payment_request
  <2> HIDE DEF it
  <2>3. PaidDirectly("request", p, it, 0, 0)
    BY <2>1, <2>2 DEF PaidDirectly, Settling
  <2> QED BY <2>3
<1>3. ASSUME NEW c \in Accounts, NEW o \in Orders, cancel_payment_request(c, o)
      PROVE  Rests
  BY <1>3 DEF cancel_payment_request, ledgerVars, NothingPaid
<1>4. ASSUME cancel_expired_payment_requests PROVE Rests
  BY <1>4 DEF cancel_expired_payment_requests, ledgerVars, NothingPaid
<1>5. ASSUME NEW i \in Accounts, NEW it \in Items, NEW s \in SignerLists, NEW q \in Thresholds,
             NEW x \in Expiries, initiate_multisig_payment(i, it, s, q, x)
      PROVE  Revises
  <2>1. PICK r : /\ Writes(it.order, r) /\ multisig[it.order] = NoEntry /\ ~r.executed
    BY <1>5, InitiateFacts DEF Sound
  <2>2. Revised(it.order, r) /\ it.order \in Orders
    BY <2>1 DEF Revised, Items
  <2>3. NothingPaid
    BY <1>5 DEF initiate_multisig_payment, ledgerVars, NothingPaid
  <2> QED BY <2>2, <2>3
<1>6. ASSUME NEW s \in Accounts, NEW o \in Orders, sign_multisig_payment(s, o)
      PROVE  Revises
  <2>1. PICK r : Writes(o, r) /\ ~multisig[o].executed /\ ~r.executed
    BY <1>6, SignFacts DEF Sound
  <2>2. NothingPaid
    BY <1>6 DEF sign_multisig_payment, ledgerVars, NothingPaid
  <2> QED BY <2>1, <2>2 DEF Revised
<1>7. ASSUME NEW c, NEW o \in Orders, cancel_multisig_payment(c, o)
      PROVE  Revises
  <2>1. PICK r : Writes(o, r) /\ ~multisig[o].executed /\ ~r.executed
    BY <1>7, CancelFacts DEF Sound
  <2>2. NothingPaid
    BY <1>7 DEF cancel_multisig_payment, ledgerVars, NothingPaid
  <2> QED BY <2>1, <2>2 DEF Revised
<1>8. ASSUME NEW p \in Accounts, NEW o \in Orders, execute_multisig_payment(p, o)
      PROVE  Executes
  <2> DEFINE it == ItemOf(o, multisig[o])
  <2>1. /\ it \in Paid
        /\ Settles("multisig", p, <<it>>, 0, 0)
        /\ multisig[o] # NoEntry /\ ~multisig[o].executed
        /\ now <= multisig[o].expires_at
        /\ Len(multisig[o].collected) >= multisig[o].required_signatures
    BY <1>8, ExecuteFacts DEF Sound
  <2>2. PICK r : /\ Writes(o, r)
                 /\ r.executed /\ ~r.cancelled
                 /\ ItemOf(o, r) = it
                 /\ r.collected = multisig[o].collected
                 /\ r.required_signatures = multisig[o].required_signatures
                 /\ r.expires_at = multisig[o].expires_at
    BY <1>8, ExecuteFacts, ZenonT(30) DEF Sound
  <2>3. AddToIndexesIfRoom(p, <<it>>)
    BY <1>8 DEF execute_multisig_payment
  <2>4. Executed(p, o, r)
    BY <2>1, <2>2, <2>3 DEF Executed, Settling
  <2> QED BY <2>4
<1>9. ASSUME NEW p \in Accounts, NEW it \in Items, NEW n \in 0..MaxPayments,
             process_payment_with_nonce(p, it, n), UNCHANGED orderVars
      PROVE  Direct
  <2> DEFINE c == platform_fee(it.amount)
  <2>1. it \in Paid /\ Pays("nonce", p, <<it>>, c, n)
    BY <1>9, NoncePays DEF Sound
  <2>2. payment[it.order] = NoEntry
    BY <1>9 DEF process_payment_with_nonce, Payable
  <2>3. multisig' = multisig
    BY <1>9 DEF orderVars
  <2> HIDE DEF c
  <2>4. PaidDirectly("nonce", p, it, c, n)
    BY <2>1, <2>2, <2>3 DEF PaidDirectly, Settling, Pays
  <2> QED BY <2>4
<1>10. ASSUME NEW o \in Orders, archive_payment_record(o), UNCHANGED orderVars
       PROVE  Archives
  BY <1>10 DEF archive_payment_record, orderVars, Archived
<1>11. ASSUME UNCHANGED <<configVars, ledgerVars, orderVars>> PROVE Rests
  BY <1>11 DEF ledgerVars, orderVars, NothingPaid
<1>12. ASSUME UNCHANGED vars PROVE Rests
  BY <1>12 DEF vars, ledgerVars, orderVars, NothingPaid
<1> HIDE DEF Direct, Executes, Archives, Revises, Rests
<1>13. Direct \/ Executes \/ Archives \/ Revises \/ Rests
  BY <1>1, <1>2, <1>3, <1>4, <1>5, <1>6, <1>7, <1>8, <1>9, <1>10, <1>11, <1>12
  DEF Next
<1> QED BY <1>13 DEF Direct, Executes, Archives, Revises, Rests

\* One record is written and one receipt is added.
LEMMA OneSettled ==
    ASSUME LedgerTypeOK, NEW kind, NEW payer, NEW it, NEW charged, NEW n,
           Settling(kind, payer, it, charged, n)
    PROVE  /\ it \in Paid /\ it.order \in Orders /\ it.merchant \in Accounts
           /\ payer \in Accounts /\ <<it>> \in Seq(Paid)
           /\ payment'[it.order] = NewRecord(payer, it, charged)
           /\ payment'[it.order].merchant = it.merchant /\ payment'[it.order].payer = payer
           /\ \A o \in Orders : o # it.order => payment'[o] = payment[o]
           /\ Len(receipts) \in Nat /\ Len(receipts') = Len(receipts) + 1
           /\ \A i \in 1..Len(receipts) : receipts'[i] = receipts[i]
           /\ receipts'[Len(receipts) + 1] = NewReceipt(kind, payer, it, charged, n)
<1>1. it \in Paid /\ payer \in Accounts /\ Settles(kind, payer, <<it>>, charged, n)
  BY DEF Settling
<1>2. it.order \in Orders /\ it.merchant \in Accounts
  BY <1>1 DEF Paid
<1> DEFINE items == <<it>>
<1>3. items \in Seq(Paid) /\ Len(items) = 1 /\ items[1] = it
  BY <1>1
<1>4. Settles(kind, payer, items, charged, n)
  BY <1>1
<1> HIDE DEF items
<1>5. /\ Len(receipts) \in Nat /\ Len(receipts') = Len(receipts) + 1
      /\ \A i \in 1..Len(receipts) : receipts'[i] = receipts[i]
      /\ receipts'[Len(receipts) + 1] = NewReceipt(kind, payer, it, charged, n)
  <2>1. /\ Len(receipts) \in Nat /\ Len(receipts') = Len(receipts) + Len(items)
        /\ \A i \in 1..Len(receipts) : receipts'[i] = receipts[i]
        /\ \A i \in 1..Len(items) :
              receipts'[Len(receipts) + i] = NewReceipt(kind, payer, items[i], charged, n)
    BY <1>4, ReceiptsGrow
  <2> QED BY <1>3, <2>1
<1>6. ASSUME NEW o \in Orders, o # it.order PROVE payment'[o] = payment[o]
  <2>1. \A i \in 1..Len(items) : items[i].order # o
    BY <1>3, <1>6
  <2>2. ~ \E i \in 1..Len(items) : items[i].order = o
    BY <2>1
  <2>3. StorePayments(payer, items, charged)
    BY <1>4 DEF Settles
  <2> QED BY <2>2, <2>3 DEF StorePayments
<1>7. payment'[it.order] = NewRecord(payer, it, charged)
  <2>1. \/ \A i \in 1..Len(items) : items[i].order # it.order
        \/ \E i \in 1..Len(items) : payment'[it.order] = NewRecord(payer, items[i], charged)
    BY <1>2, <1>4, OrdersStored
  <2> QED BY <1>3, <2>1
<1>8. payment'[it.order].merchant = it.merchant /\ payment'[it.order].payer = payer
  BY <1>7 DEF NewRecord
<1> QED BY <1>1, <1>2, <1>3, <1>5, <1>6, <1>7, <1>8 DEF items

-----------------------------------------------------------------------------
(* A recorded payment is kept *)

LEMMA KeptStep ==
    ASSUME Sound, [Next]_vars, NEW o \in Orders, payment[o] # NoEntry, payment'[o] # payment[o]
    PROVE  \/ payment'[o] = NoEntry
           \/ multisig[o] # NoEntry /\ ~multisig[o].executed /\ multisig'[o].executed
<1>1. LedgerTypeOK /\ MultisigTypes
  BY DEF Sound
<1>2. ASSUME NEW kind, NEW p, NEW it, NEW charged, NEW n, PaidDirectly(kind, p, it, charged, n)
      PROVE  FALSE
  BY <1>1, <1>2, OneSettled DEF PaidDirectly
<1>3. ASSUME NEW p, NEW r, NEW q \in Orders, Executed(p, q, r)
      PROVE  multisig[o] # NoEntry /\ ~multisig[o].executed /\ multisig'[o].executed
  <2>1. Settling("multisig", p, ItemOf(q, multisig[q]), 0, 0)
    BY <1>3 DEF Executed
  <2>2. ItemOf(q, multisig[q]).order = q
    BY DEF ItemOf
  <2>3. o = q
    BY <1>1, <2>1, <2>2, OneSettled
  <2>4. multisig'[q] = r
    BY <1>1, <1>3, WriteFacts DEF Executed
  <2> QED BY <1>3, <2>3, <2>4 DEF Executed
<1>4. ASSUME NEW q \in Orders, Archived(q) PROVE payment'[o] = NoEntry
  <2>1. payment \in [Orders -> PaymentOrder \cup {NoEntry}]
    BY <1>1 DEF LedgerTypeOK
  <2> QED BY <1>4, <2>1 DEF Archived
<1>5. ASSUME NothingPaid PROVE FALSE
  BY <1>5 DEF NothingPaid
<1> QED BY <1>2, <1>3, <1>4, <1>5, OrdersStepCases

\* A recorded payment goes only when it is archived or when an agreement under
\* its id is executed: neither process_payment_with_nonce nor
\* pay_payment_request writes over it.
THEOREM PaymentsAlwaysKept == Spec => PaymentsKept
<1> DEFINE Kept == \A o \in Orders : (payment[o] # NoEntry /\ payment'[o] # payment[o]) =>
                      \/ payment'[o] = NoEntry
                      \/ multisig[o] # NoEntry /\ ~multisig[o].executed /\ multisig'[o].executed
<1>1. Sound /\ [Next]_vars => Kept
  BY KeptStep
<1>2. Spec => [][Kept]_vars
  BY <1>1, AlwaysSound, PTL DEF Spec
<1> QED BY <1>2 DEF PaymentsKept

-----------------------------------------------------------------------------
(* Only an executed agreement may be missing from the histories *)

\* The last receipt of an order.
IsLast(s, i, o) == i \in 1..Len(s) /\ s[i].order = o /\ \A j \in i + 1..Len(s) : s[j].order # o

\* A record stands for the last receipt of its order, and the histories have it
\* unless that was made by executing an agreement.
Recorded ==
    \A o \in Orders : payment[o] # NoEntry =>
        \E i : /\ IsLast(receipts, i, o)
               /\ receipts[i].kind # "multisig" =>
                     /\ Has(merchant_ids[payment[o].merchant], o)
                     /\ Has(payer_ids[payment[o].payer], o)

LEMMA LastIsOne ==
    ASSUME NEW s, Len(s) \in Nat, NEW o, NEW i, IsLast(s, i, o), NEW j, IsLast(s, j, o)
    PROVE  i = j
<1>1. /\ i \in 1..Len(s) /\ j \in 1..Len(s) /\ s[i].order = o /\ s[j].order = o
      /\ (\A k \in i + 1..Len(s) : s[k].order # o) /\ (\A k \in j + 1..Len(s) : s[k].order # o)
  BY DEF IsLast
<1>2. i \notin j + 1..Len(s) /\ j \notin i + 1..Len(s)
  BY <1>1
<1> QED BY <1>1, <1>2

LEMMA RecordedMeans ==
    ASSUME LedgerTypeOK, Recorded
    PROVE  OnlyMultisigUnindexed
<1> SUFFICES ASSUME NEW o \in Orders, payment[o] # NoEntry, LastReceipt(o).kind # "multisig"
             PROVE  /\ o \in Entries(merchant_ids[payment[o].merchant])
                    /\ o \in Entries(payer_ids[payment[o].payer])
  BY DEF OnlyMultisigUnindexed
<1>1. PICK i : /\ IsLast(receipts, i, o)
               /\ receipts[i].kind # "multisig" =>
                     /\ Has(merchant_ids[payment[o].merchant], o)
                     /\ Has(payer_ids[payment[o].payer], o)
  BY DEF Recorded
<1> DEFINE c == CHOOSE j \in 1..Len(receipts) :
                    /\ receipts[j].order = o
                    /\ \A k \in j + 1..Len(receipts) : receipts[k].order # o
<1>2. \E j \in 1..Len(receipts) :
         receipts[j].order = o /\ \A k \in j + 1..Len(receipts) : receipts[k].order # o
  BY <1>1 DEF IsLast
<1>3. IsLast(receipts, c, o)
  BY <1>2 DEF IsLast
<1>4. LastReceipt(o) = receipts[c]
  BY DEF LastReceipt
<1> HIDE DEF c
<1>5. Len(receipts) \in Nat
  BY DEF LedgerTypeOK
<1>6. c = i
  BY <1>1, <1>3, <1>5, LastIsOne
<1> QED BY <1>1, <1>4, <1>6 DEF Has, Entries

\* Another order's receipt changes nothing of an order.
LEMMA OthersRecorded ==
    ASSUME LedgerTypeOK, Recorded, NEW kind, NEW payer, NEW it, NEW charged, NEW n,
           Settling(kind, payer, it, charged, n), NEW o \in Orders, o # it.order,
           payment'[o] # NoEntry
    PROVE  \E i : /\ IsLast(receipts', i, o)
                  /\ receipts'[i].kind # "multisig" =>
                        /\ Has(merchant_ids'[payment'[o].merchant], o)
                        /\ Has(payer_ids'[payment'[o].payer], o)
<1>1. /\ it \in Paid /\ payer \in Accounts /\ <<it>> \in Seq(Paid)
      /\ payment'[o] = payment[o]
      /\ Len(receipts) \in Nat /\ Len(receipts') = Len(receipts) + 1
      /\ \A i \in 1..Len(receipts) : receipts'[i] = receipts[i]
      /\ receipts'[Len(receipts) + 1] = NewReceipt(kind, payer, it, charged, n)
  BY OneSettled
<1>2. PICK i : /\ IsLast(receipts, i, o)
               /\ receipts[i].kind # "multisig" =>
                     /\ Has(merchant_ids[payment[o].merchant], o)
                     /\ Has(payer_ids[payment[o].payer], o)
  BY <1>1 DEF Recorded
<1>3. receipts'[Len(receipts) + 1].order # o
  BY <1>1 DEF NewReceipt
<1>4. IsLast(receipts', i, o) /\ receipts'[i] = receipts[i]
  <2>1. /\ i \in 1..Len(receipts) /\ receipts[i].order = o
        /\ \A j \in i + 1..Len(receipts) : receipts[j].order # o
    BY <1>2 DEF IsLast
  <2>2. ASSUME NEW j \in i + 1..Len(receipts') PROVE receipts'[j].order # o
    <3>1. CASE j = Len(receipts) + 1
      BY <1>3, <3>1
    <3>2. CASE j # Len(receipts) + 1
      <4>1. j \in i + 1..Len(receipts) /\ j \in 1..Len(receipts)
        BY <1>1, <2>1, <3>2
      <4> QED BY <1>1, <2>1, <4>1
    <3> QED BY <3>1, <3>2
  <2>3. i \in 1..Len(receipts') /\ receipts'[i] = receipts[i]
    BY <1>1, <2>1
  <2> QED BY <2>1, <2>2, <2>3 DEF IsLast
<1>5. payment[o].merchant \in Accounts /\ payment[o].payer \in Accounts
  BY <1>1, HistoryTypes
<1>6. AddToIndexes(payer, <<it>>) \/ AddToIndexesIfRoom(payer, <<it>>)
  BY DEF Settling
<1> DEFINE m == payment[o].merchant
           p == payment[o].payer
<1>7. Has(merchant_ids[m], o) => Has(merchant_ids'[m], o)
  BY <1>1, <1>5, <1>6, IndexesKeep
<1>8. Has(payer_ids[p], o) => Has(payer_ids'[p], o)
  BY <1>1, <1>5, <1>6, IndexesKeep
<1> QED BY <1>1, <1>2, <1>4, <1>7, <1>8

\* The order that is paid has the last receipt, and its histories have it.
LEMMA NewRecorded ==
    ASSUME LedgerTypeOK, NEW kind, NEW payer, NEW it, NEW charged, NEW n,
           Settling(kind, payer, it, charged, n)
    PROVE  \E i : /\ IsLast(receipts', i, it.order)
                  /\ receipts'[i].kind # "multisig" =>
                        /\ Has(merchant_ids'[payment'[it.order].merchant], it.order)
                        /\ Has(payer_ids'[payment'[it.order].payer], it.order)
<1>1. /\ it \in Paid /\ payer \in Accounts /\ <<it>> \in Seq(Paid)
      /\ payment'[it.order].merchant = it.merchant /\ payment'[it.order].payer = payer
      /\ Len(receipts) \in Nat /\ Len(receipts') = Len(receipts) + 1
      /\ receipts'[Len(receipts) + 1] = NewReceipt(kind, payer, it, charged, n)
  BY OneSettled
<1> DEFINE i == Len(receipts) + 1
<1>2. receipts'[i].order = it.order /\ receipts'[i].kind = kind
  BY <1>1 DEF NewReceipt
<1>3. IsLast(receipts', i, it.order)
  <2>1. i \in 1..Len(receipts') /\ i + 1..Len(receipts') = {}
    BY <1>1
  <2> QED BY <1>2, <2>1 DEF IsLast
<1>4. ASSUME kind # "multisig"
      PROVE  Has(merchant_ids'[it.merchant], it.order) /\ Has(payer_ids'[payer], it.order)
  <2> DEFINE items == <<it>>
  <2>1. items \in Seq(Paid) /\ 1 \in 1..Len(items) /\ items[1] = it /\ AddToIndexes(payer, items)
    BY <1>1, <1>4 DEF Settling
  <2> HIDE DEF items
  <2> QED BY <1>1, <2>1, IndexesHold
<1> QED BY <1>1, <1>2, <1>3, <1>4

LEMMA RecordedStep == ASSUME Sound, Recorded, [Next]_vars PROVE Recorded'
<1>1. LedgerTypeOK
  BY DEF Sound
<1>2. ASSUME NEW kind, NEW payer, NEW it, NEW charged, NEW n, Settling(kind, payer, it, charged, n)
      PROVE  Recorded'
  <2>1. ASSUME NEW o \in Orders, payment'[o] # NoEntry
        PROVE  \E i : /\ IsLast(receipts', i, o)
                      /\ receipts'[i].kind # "multisig" =>
                            /\ Has(merchant_ids'[payment'[o].merchant], o)
                            /\ Has(payer_ids'[payment'[o].payer], o)
    <3>1. CASE o = it.order
      BY <1>1, <1>2, <3>1, NewRecorded
    <3>2. CASE o # it.order
      BY <1>1, <1>2, <2>1, <3>2, OthersRecorded
    <3> QED BY <3>1, <3>2
  <2> QED BY <2>1 DEF Recorded
<1>3. ASSUME NEW kind, NEW p, NEW it, NEW charged, NEW n, PaidDirectly(kind, p, it, charged, n)
      PROVE  Recorded'
  BY <1>2, <1>3 DEF PaidDirectly
<1>4. ASSUME NEW p, NEW r, NEW o \in Orders, Executed(p, o, r) PROVE Recorded'
  BY <1>2, <1>4 DEF Executed
<1>5. ASSUME NEW q \in Orders, Archived(q) PROVE Recorded'
  <2>1. \A o \in Orders : payment'[o] # NoEntry => payment'[o] = payment[o]
    BY <1>1, <1>5, HistoryTypes DEF Archived
  <2>2. UNCHANGED <<merchant_ids, payer_ids, receipts>>
    BY <1>5 DEF Archived
  <2> QED BY <2>1, <2>2 DEF Recorded
<1>6. ASSUME NothingPaid PROVE Recorded'
  BY <1>6 DEF NothingPaid, Recorded
<1> QED BY <1>3, <1>4, <1>5, <1>6, OrdersStepCases

\* Only a payment made by execute_multisig_payment may be missing from the
\* histories of its merchant and payer, whatever was archived and paid again
\* under the same id and however full the histories are.
THEOREM OnlyMultisigsUnindexed == Spec => []OnlyMultisigUnindexed
<1>1. Init => Recorded
  BY DEF Init, LedgerInit, Recorded
<1>2. Sound /\ Recorded /\ [Next]_vars => Recorded'
  BY RecordedStep
<1>3. Sound /\ Recorded => OnlyMultisigUnindexed
  BY RecordedMeans DEF Sound
<1> QED BY <1>1, <1>2, <1>3, AlwaysSound, PTL DEF Spec

-----------------------------------------------------------------------------
(* An agreement is executed once *)

MadeUnder(r, o) == r.kind = "multisig" /\ r.order = o

ExecutedAt(s, o) == {i \in 1..Len(s) : MadeUnder(s[i], o)}

\* An agreement that is open or cancelled has paid nothing; one that was
\* executed was signed by enough, and paid once, what was agreed, in time.
PaidAsAgreed(ms, s, o) ==
    /\ ms = NoEntry \/ ~ms.executed => ExecutedAt(s, o) = {}
    /\ ms # NoEntry /\ ms.executed =>
          /\ ~ms.cancelled
          /\ Len(ms.collected) >= ms.required_signatures
          /\ \E i \in 1..Len(s) : /\ ExecutedAt(s, o) = {i}
                                  /\ ItemOf(o, s[i]) = ItemOf(o, ms)
                                  /\ s[i].window <= ms.expires_at

PaysOnce == \A o \in Orders : PaidAsAgreed(multisig[o], receipts, o)

\* A window starts before it is paid in.
LEMMA WindowBefore ==
    ASSUME now \in Nat
    PROVE  current_window_start <= now
BY DEF current_window_start

\* A receipt of another kind, or of another order, was not made under an order.
LEMMA ExecutedAtGrows ==
    ASSUME NEW s, NEW u, NEW o, Len(s) \in Nat, Len(u) = Len(s) + 1,
           \A i \in 1..Len(s) : u[i] = s[i]
    PROVE  /\ ~MadeUnder(u[Len(u)], o) => ExecutedAt(u, o) = ExecutedAt(s, o)
           /\ MadeUnder(u[Len(u)], o) => ExecutedAt(u, o) = ExecutedAt(s, o) \cup {Len(u)}
<1>1. 1..Len(u) = 1..Len(s) \cup {Len(u)}
  OBVIOUS
<1> QED BY <1>1 DEF ExecutedAt

\* What was paid under the other orders stays as it was.
LEMMA OthersPaid ==
    ASSUME LedgerTypeOK, NEW kind, NEW payer, NEW it, NEW charged, NEW n,
           Settling(kind, payer, it, charged, n), NEW o \in Orders, NEW ms,
           kind # "multisig" \/ o # it.order, PaidAsAgreed(ms, receipts, o)
    PROVE  PaidAsAgreed(ms, receipts', o)
<1>1. /\ Len(receipts) \in Nat /\ Len(receipts') = Len(receipts) + 1
      /\ \A i \in 1..Len(receipts) : receipts'[i] = receipts[i]
      /\ receipts'[Len(receipts) + 1] = NewReceipt(kind, payer, it, charged, n)
  BY OneSettled
<1>2. ~MadeUnder(receipts'[Len(receipts')], o)
  BY <1>1 DEF MadeUnder, NewReceipt
<1>3. ExecutedAt(receipts', o) = ExecutedAt(receipts, o)
  BY <1>1, <1>2, ExecutedAtGrows
<1>4. \A i \in 1..Len(receipts) : i \in 1..Len(receipts') /\ receipts'[i] = receipts[i]
  BY <1>1
<1> QED BY <1>3, <1>4 DEF PaidAsAgreed

\* The agreement that is executed had paid nothing before.
LEMMA ExecutedPaid ==
    ASSUME Sound, PaysOnce, NEW p, NEW r, NEW o \in Orders, Executed(p, o, r)
    PROVE  PaidAsAgreed(r, receipts', o)
<1> DEFINE it == ItemOf(o, multisig[o])
<1>1. LedgerTypeOK /\ MultisigTypes /\ now \in Nat
  BY DEF Sound, Inv, RequestTypes
<1>2. /\ Settling("multisig", p, it, 0, 0)
      /\ multisig[o] # NoEntry /\ ~multisig[o].executed
      /\ now <= multisig[o].expires_at
      /\ Len(multisig[o].collected) >= multisig[o].required_signatures
      /\ r.executed /\ ~r.cancelled
      /\ ItemOf(o, r) = it
      /\ r.collected = multisig[o].collected
      /\ r.required_signatures = multisig[o].required_signatures
      /\ r.expires_at = multisig[o].expires_at
  BY DEF Executed
<1>3. it.order = o /\ it = ItemOf(o, it)
  BY DEF ItemOf
<1>4. multisig[o].expires_at \in Nat
  BY <1>1, <1>2 DEF MultisigTypes, MultisigPayment
<1> HIDE DEF it
<1>5. /\ Len(receipts) \in Nat /\ Len(receipts') = Len(receipts) + 1
      /\ \A i \in 1..Len(receipts) : receipts'[i] = receipts[i]
      /\ receipts'[Len(receipts) + 1] = NewReceipt("multisig", p, it, 0, 0)
  BY <1>1, <1>2, OneSettled
<1>6. ExecutedAt(receipts, o) = {}
  BY <1>2 DEF PaysOnce, PaidAsAgreed
<1> DEFINE last == receipts'[Len(receipts')]
<1>7. /\ last.kind = "multisig" /\ last.order = o /\ last.window = current_window_start
      /\ last.merchant = it.merchant /\ last.token = it.token /\ last.amount = it.amount
  BY <1>3, <1>5 DEF NewReceipt
<1>8. MadeUnder(last, o)
  BY <1>7 DEF MadeUnder
<1>9. ExecutedAt(receipts', o) = {Len(receipts')}
  BY <1>5, <1>6, <1>8, ExecutedAtGrows
<1>10. ItemOf(o, last) = ItemOf(o, r)
  BY <1>2, <1>3, <1>7 DEF ItemOf
<1>11. last.window <= r.expires_at
  <2>1. current_window_start <= now /\ current_window_start \in Int
    BY <1>1, WindowBefore DEF current_window_start
  <2> QED BY <1>1, <1>2, <1>4, <1>7, <2>1
<1>12. Len(receipts') \in 1..Len(receipts')
  BY <1>5
<1>13. r # NoEntry
  BY <1>1, WriteFacts DEF Executed
<1> HIDE DEF last
<1>14. \E i \in 1..Len(receipts') : /\ ExecutedAt(receipts', o) = {i}
                                   /\ ItemOf(o, receipts'[i]) = ItemOf(o, r)
                                   /\ receipts'[i].window <= r.expires_at
  BY <1>9, <1>10, <1>11, <1>12 DEF last
<1> QED BY <1>2, <1>13, <1>14 DEF PaidAsAgreed

LEMMA PaysOnceStep == ASSUME Sound, PaysOnce, [Next]_vars PROVE PaysOnce'
<1>1. LedgerTypeOK /\ MultisigTypes
  BY DEF Sound
<1>2. ASSUME NEW kind, NEW p, NEW it, NEW charged, NEW n, PaidDirectly(kind, p, it, charged, n)
      PROVE  PaysOnce'
  <2>1. ASSUME NEW o \in Orders PROVE PaidAsAgreed(multisig[o], receipts', o)
    <3>1. /\ Settling(kind, p, it, charged, n) /\ kind # "multisig"
          /\ PaidAsAgreed(multisig[o], receipts, o)
      BY <1>2 DEF PaidDirectly, PaysOnce
    <3> QED BY <1>1, <3>1, OthersPaid
  <2>2. multisig' = multisig
    BY <1>2 DEF PaidDirectly
  <2> QED BY <2>1, <2>2 DEF PaysOnce
<1>3. ASSUME NEW p, NEW r, NEW q \in Orders, Executed(p, q, r) PROVE PaysOnce'
  <2>1. /\ multisig'[q] = r
        /\ \A o \in Orders : o # q => multisig'[o] = multisig[o]
    BY <1>1, <1>3, WriteFacts DEF Executed
  <2>2. PaidAsAgreed(r, receipts', q)
    BY <1>3, ExecutedPaid
  <2>3. ASSUME NEW o \in Orders, o # q PROVE PaidAsAgreed(multisig[o], receipts', o)
    <3> DEFINE it == ItemOf(q, multisig[q])
    <3>1. Settling("multisig", p, it, 0, 0) /\ PaidAsAgreed(multisig[o], receipts, o)
      BY <1>3 DEF Executed, PaysOnce
    <3>2. o # it.order
      BY <2>3 DEF ItemOf
    <3> HIDE DEF it
    <3> QED BY <1>1, <3>1, <3>2, OthersPaid
  <2>4. ASSUME NEW o \in Orders PROVE PaidAsAgreed(multisig'[o], receipts', o)
    BY <2>1, <2>2, <2>3
  <2> QED BY <2>4 DEF PaysOnce
<1>4. ASSUME NEW q \in Orders, Archived(q) PROVE PaysOnce'
  BY <1>4 DEF Archived, PaysOnce
<1>5. ASSUME NothingPaid, NEW q \in Orders, NEW r, Revised(q, r) PROVE PaysOnce'
  <2>1. /\ multisig'[q] = r /\ r # NoEntry
        /\ \A o \in Orders : o # q => multisig'[o] = multisig[o]
    BY <1>1, <1>5, WriteFacts DEF Revised
  <2>2. PaidAsAgreed(r, receipts, q)
    BY <1>5, <2>1 DEF Revised, PaysOnce, PaidAsAgreed
  <2>3. ASSUME NEW o \in Orders PROVE PaidAsAgreed(multisig'[o], receipts, o)
    BY <2>1, <2>2 DEF PaysOnce
  <2>4. receipts' = receipts
    BY <1>5 DEF NothingPaid
  <2> QED BY <2>3, <2>4 DEF PaysOnce
<1>6. ASSUME NothingPaid, multisig' = multisig PROVE PaysOnce'
  BY <1>6 DEF NothingPaid, PaysOnce
<1> QED BY <1>2, <1>3, <1>4, <1>5, <1>6, OrdersStepCases

\* Nobody signs twice, so as many people signed as there are signatures.
LEMMA PaysOnceMeans ==
    ASSUME Sound, PaysOnce
    PROVE  MultisigPaysOnce
<1> SUFFICES ASSUME NEW o \in Orders, multisig[o] # NoEntry
             PROVE  LET ms == multisig[o]
                        paid == {r \in Entries(receipts) : r.kind = "multisig" /\ r.order = o}
                        times == Cardinality({i \in 1..Len(receipts) : receipts[i] \in paid})
                    IN  /\ times = IF ms.executed THEN 1 ELSE 0
                        /\ \A r \in paid :
                              /\ ItemOf(o, r) = ItemOf(o, ms)
                              /\ r.window <= ms.expires_at
                        /\ ms.executed =>
                              /\ ~ms.cancelled
                              /\ Entries(ms.collected) \subseteq Entries(ms.signers)
                              /\ Cardinality(Entries(ms.collected)) >= ms.required_signatures
  BY DEF MultisigPaysOnce
<1> DEFINE ms == multisig[o]
           paid == {r \in Entries(receipts) : r.kind = "multisig" /\ r.order = o}
           times == Cardinality({i \in 1..Len(receipts) : receipts[i] \in paid})
<1>1. MultisigTypes /\ SignedOnce
  BY DEF Sound
<1>2. ms \in MultisigPayment /\ ms # NoEntry
  BY <1>1 DEF MultisigTypes
<1>3. PaidAsAgreed(ms, receipts, o)
  BY DEF PaysOnce
<1>4. /\ Distinct(ms.collected) /\ Entries(ms.collected) \subseteq Entries(ms.signers)
  BY <1>1 DEF SignedOnce
<1>5. {i \in 1..Len(receipts) : receipts[i] \in paid} = ExecutedAt(receipts, o)
  BY DEF Entries, ExecutedAt, MadeUnder
<1>6. \A r \in paid : \E i \in ExecutedAt(receipts, o) : r = receipts[i]
  BY DEF Entries, ExecutedAt, MadeUnder
<1> HIDE DEF ms, paid
<1>7. CASE ms.executed
  <2>1. PICK i \in 1..Len(receipts) : /\ ExecutedAt(receipts, o) = {i}
                                      /\ ItemOf(o, receipts[i]) = ItemOf(o, ms)
                                      /\ receipts[i].window <= ms.expires_at
    BY <1>2, <1>3, <1>7 DEF PaidAsAgreed
  <2>2. ~ms.cancelled /\ Len(ms.collected) >= ms.required_signatures
    BY <1>2, <1>3, <1>7 DEF PaidAsAgreed
  <2>3. times = 1
    BY <1>5, <2>1, FS_Singleton
  <2>4. \A r \in paid : r = receipts[i]
    BY <1>6, <2>1
  <2>5. Cardinality(Entries(ms.collected)) = Len(ms.collected)
    BY <1>2, <1>4, DistinctCount DEF MultisigPayment
  <2> QED BY <1>4, <1>7, <2>1, <2>2, <2>3, <2>4, <2>5 DEF ms, paid
<1>8. CASE ~ms.executed
  <2>1. ExecutedAt(receipts, o) = {}
    BY <1>3, <1>8 DEF PaidAsAgreed
  <2>2. times = 0
    BY <1>5, <2>1, FS_EmptySet
  <2>3. \A r \in paid : FALSE
    BY <1>6, <2>1
  <2> QED BY <1>8, <2>2, <2>3 DEF ms, paid
<1> QED BY <1>7, <1>8

\* A multi-signature payment pays once if it is executed and never otherwise,
\* what was agreed, in time, and after enough of the people listed signed, each
\* counted once, whatever else is paid or archived under its id
\* (sign_multisig_payment, cancel_multisig_payment, execute_multisig_payment).
THEOREM MultisigAlwaysPaysOnce == Spec => []MultisigPaysOnce
<1>1. Init => PaysOnce
  <2> SUFFICES ASSUME Init PROVE PaysOnce
    OBVIOUS
  <2>1. multisig = [o \in Orders |-> NoEntry] /\ Len(receipts) = 0
    BY DEF Init, LedgerInit
  <2>2. \A o : ExecutedAt(receipts, o) = {}
    BY <2>1 DEF ExecutedAt
  <2> QED BY <2>1, <2>2 DEF PaysOnce, PaidAsAgreed
<1>2. Sound /\ PaysOnce /\ [Next]_vars => PaysOnce'
  BY PaysOnceStep
<1>3. Sound /\ PaysOnce => MultisigPaysOnce
  BY PaysOnceMeans
<1> QED BY <1>1, <1>2, <1>3, AlwaysSound, PTL DEF Spec

-----------------------------------------------------------------------------
(* The theorems on requests and types *)

\* Requests, multi-signature payments and the ledger are what storage can hold:
\* no payment of nothing, and never more signatures than signers, although the
\* list of signers may name somebody twice.
THEOREM OrdersTypeCorrect == Spec => []TypeOK
<1>1. Sound => TypeOK
  BY TypesHold DEF Sound, Inv
<1> QED BY <1>1, AlwaysSound, PTL

\* A request that is still there is in the index, unless the index it was
\* entered in has been dropped since (set_payment_request,
\* remove_payment_request).
THEOREM RequestsListed == Spec => []OutstandingListed
<1>1. Inv => OutstandingListed
  BY DEF Inv
<1> QED
  BY InitInv, NextInv, <1>1, PTL DEF Spec

-----------------------------------------------------------------------------
(* Refunds: what storage can hold *)

USE EnvAssumption, LedgerAssumption DEF MAX_PLATFORM_FEE_BPS

Repayment == [refund : RefundIds, payment : 1..MaxPayments, amount : Nat \ {0}]

RecordTypes ==
    /\ refund \in [RefundIds -> RefundRecord \cup {NoEntry}]
    /\ order_refunds \in [Orders -> Seq(RefundIds)]
    /\ dispute \in [DisputeIds -> DisputeRecord \cup {NoEntry}]

HistoriesTyped ==
    /\ repaid \in Seq(Repayment)
    /\ overridden \subseteq Orders
    /\ irregular \subseteq Orders

\* A record stands for the last receipt of its order, a refund was paid for a
\* receipt, and nobody takes a fee.
Backed ==
    /\ Len(receipts) <= MaxPayments
    /\ fee.bps = 0
    /\ \A o \in Orders : IsPaid(o) =>
          \E i : /\ IsLast(receipts, i, o)
                 /\ receipts[i].merchant = payment[o].merchant
                 /\ receipts[i].payer = payment[o].payer
                 /\ receipts[i].token = payment[o].token
    /\ \A i \in 1..Len(repaid) : repaid[i].payment \in 1..Len(receipts)

\* The receipt of a record is the last of its order.
LEMMA CurrentIsLast ==
    ASSUME LedgerTypeOK, Backed, NEW o \in Orders, IsPaid(o)
    PROVE  /\ IsLast(receipts, CurrentReceipt(o), o)
           /\ CurrentReceipt(o) \in 1..Len(receipts) /\ Len(receipts) \in Nat
           /\ receipts[CurrentReceipt(o)].merchant = payment[o].merchant
           /\ receipts[CurrentReceipt(o)].payer = payment[o].payer
           /\ receipts[CurrentReceipt(o)].token = payment[o].token
           /\ receipts[CurrentReceipt(o)].order = o
<1>1. PICK i : /\ IsLast(receipts, i, o)
               /\ receipts[i].merchant = payment[o].merchant
               /\ receipts[i].payer = payment[o].payer
               /\ receipts[i].token = payment[o].token
  BY DEF Backed
<1> DEFINE c == CHOOSE j \in 1..Len(receipts) :
                    receipts[j].order = o /\ \A k \in j + 1..Len(receipts) : receipts[k].order # o
<1>2. \E j \in 1..Len(receipts) :
         receipts[j].order = o /\ \A k \in j + 1..Len(receipts) : receipts[k].order # o
  BY <1>1 DEF IsLast
<1>3. IsLast(receipts, c, o)
  BY <1>2 DEF IsLast
<1>4. CurrentReceipt(o) = c
  BY DEF CurrentReceipt
<1> HIDE DEF c
<1>5. Len(receipts) \in Nat
  BY DEF LedgerTypeOK
<1>6. c = i
  BY <1>1, <1>3, <1>5, LastIsOne
<1> QED BY <1>1, <1>3, <1>4, <1>5, <1>6 DEF IsLast

\* A record that keeps its identity stays what storage can hold.
LEMMA AmendedRecord ==
    ASSUME NEW p \in PaymentOrder, NEW refunded \in Int, NEW bump \in Nat
    PROVE  LET q == [p EXCEPT !.refunded_amount = refunded,
                              !.status = StatusFor(refunded, p.amount),
                              !.version = @ + bump]
           IN  /\ q \in PaymentOrder
               /\ q.merchant = p.merchant /\ q.payer = p.payer /\ q.token = p.token
               /\ q.amount = p.amount /\ q.refunded_amount = refunded
               /\ q.status = StatusFor(refunded, p.amount)
<1> DEFINE st == StatusFor(refunded, p.amount)
           v == p.version + bump
<1>1. st \in PaymentStatus
  BY DEF StatusFor, PaymentStatus
<1>2. v \in Nat
  BY DEF PaymentOrder
<1> HIDE DEF st, v
<1>3. LET q == [p EXCEPT !.refunded_amount = refunded, !.status = st, !.version = v]
      IN  /\ q \in PaymentOrder
          /\ q.merchant = p.merchant /\ q.payer = p.payer /\ q.token = p.token
          /\ q.amount = p.amount /\ q.refunded_amount = refunded
          /\ q.status = st
  BY <1>1, <1>2 DEF PaymentOrder
<1> QED BY <1>3 DEF st, v

\* A record of the same payment with another refunded amount.
Amends(o, q) ==
    /\ payment' = [payment EXCEPT ![o] = q]
    /\ q \in PaymentOrder
    /\ q.merchant = payment[o].merchant /\ q.payer = payment[o].payer
    /\ q.token = payment[o].token /\ q.amount = payment[o].amount
    /\ q.status = StatusFor(q.refunded_amount, q.amount)

\* A step that writes records, balances and totals keeps the types when what it
\* writes is well typed.
LEMMA UntouchedTypes ==
    ASSUME LedgerTypeOK, payment' \in [Orders -> PaymentOrder \cup {NoEntry}],
           balance' \in [Tokens -> [Holders -> Nat]],
           merchant_stats' \in [Merchants -> Stats], global_stats' \in Stats,
           UNCHANGED Untouched
    PROVE  LedgerTypeOK' /\ fee' = fee
<1>1. EnvTypeOK'
  <2>1. EnvTypeOK /\ UNCHANGED <<now, paused, active, allowed>>
    BY CounterTypes DEF Untouched
  <2> QED BY <2>1 DEF EnvTypeOK
<1>2. /\ nonce' \in [Accounts -> Nat] /\ merchant_nonce' \in [Merchants -> Nat]
      /\ rate' \in [Merchants -> [WindowStarts -> Nat]]
      /\ total_received' \in [Merchants -> Nat]
  BY CounterTypes, SMTT(30) DEF Untouched
<1>3. merchant_ids' \in [Accounts -> Seq(Orders)] /\ payer_ids' \in [Accounts -> Seq(Orders)]
  BY HistoryTypes, SMTT(30) DEF Untouched
<1>4. /\ rate_limit' \in RateLimits \ {0} /\ fee' = fee
      /\ fee' \in [bps : 0..MAX_PLATFORM_FEE_BPS, recipient : Accounts \cup {NoEntry}]
  <2>1. /\ rate_limit \in RateLimits \ {0}
        /\ fee \in [bps : 0..MAX_PLATFORM_FEE_BPS, recipient : Accounts \cup {NoEntry}]
    BY SMTT(30) DEF LedgerTypeOK
  <2>2. rate_limit' = rate_limit /\ fee' = fee
    BY DEF Untouched, configVars
  <2> QED BY ONLY <2>1, <2>2, SMTT(30)
<1>5. receipts' \in Seq(Receipt)
  BY DEF Untouched, LedgerTypeOK
<1>6. /\ payment' \in [Orders -> PaymentOrder \cup {NoEntry}]
      /\ merchant_stats' \in [Merchants -> Stats]
      /\ global_stats' \in Stats
  BY SMTT(30)
<1>7. /\ rate_limit' \in RateLimits \ {0}
      /\ fee' \in [bps : 0..MAX_PLATFORM_FEE_BPS, recipient : Accounts \cup {NoEntry}]
  BY <1>4, SMTT(30)
<1>8. LedgerTypeOK'
  BY ONLY <1>1, <1>2, <1>3, <1>5, <1>6, <1>7, TypeMeans, SMTT(30) DEF MAX_PLATFORM_FEE_BPS
<1> QED BY <1>4, <1>8

\* What a refund is paid from.
LEMMA RefundOf ==
    ASSUME LedgerTypeOK, RecordTypes, NEW r \in RefundIds, refund[r] # NoEntry
    PROVE  /\ refund[r] \in RefundRecord /\ refund[r].order \in Orders
           /\ refund[r].amount \in Nat \ {0}
           /\ IsPaid(refund[r].order) =>
                 /\ payment[refund[r].order] \in PaymentOrder
                 /\ payment[refund[r].order].merchant \in Accounts
                 /\ payment[refund[r].order].payer \in Accounts
                 /\ payment[refund[r].order].token \in Tokens
                 /\ payment[refund[r].order].refunded_amount \in Int
                 /\ payment[refund[r].order].amount \in Nat \ {0}
<1>1. refund[r] \in RefundRecord
  BY DEF RecordTypes
<1>2. refund[r].order \in Orders /\ refund[r].amount \in Nat \ {0}
  BY <1>1 DEF RefundRecord
<1>3. IsPaid(refund[r].order) => payment[refund[r].order] \in PaymentOrder
  BY <1>2, HistoryTypes DEF IsPaid
<1>4. \A p \in PaymentOrder : /\ p.merchant \in Accounts /\ p.payer \in Accounts
                              /\ p.token \in Tokens /\ p.refunded_amount \in Int
                              /\ p.amount \in Nat \ {0}
  BY DEF PaymentOrder
<1> QED BY <1>1, <1>2, <1>3, <1>4

\* Writing one refund record; the order and the amount of a refund never change.
Marks(r, s) ==
    /\ refund' = [refund EXCEPT ![r] = s]
    /\ s \in RefundRecord
    /\ s.order = refund[r].order /\ s.amount = refund[r].amount

LEMMA StatusSet ==
    ASSUME RecordTypes, NEW r \in RefundIds, refund[r] # NoEntry,
           NEW status \in {"Approved", "Rejected", "Completed"}, SetStatus(r, status)
    PROVE  \E s : Marks(r, s) /\ s.status = status
<1> DEFINE s == [refund[r] EXCEPT !.status = status]
<1>1. refund[r] \in RefundRecord
  BY DEF RecordTypes
<1>2. refund' = [refund EXCEPT ![r] = s]
  BY DEF SetStatus
<1>3. /\ s \in RefundRecord /\ s.status = status
      /\ s.order = refund[r].order /\ s.amount = refund[r].amount
  BY <1>1 DEF RefundRecord
<1> HIDE DEF s
<1> QED BY <1>2, <1>3 DEF Marks

LEMMA RefundStatsTypes ==
    ASSUME LedgerTypeOK, NEW m \in Accounts, NEW a \in Nat, AddToRefundStats(m, a)
    PROVE  /\ merchant_stats' \in [Merchants -> Stats] /\ global_stats' \in Stats
           /\ \A n \in Merchants :
                 /\ merchant_stats'[n].total_refunds
                      = merchant_stats[n].total_refunds + (IF n = m THEN 1 ELSE 0)
                 /\ merchant_stats'[n].total_refund_volume
                      = IF n = m THEN saturating_add(merchant_stats[n].total_refund_volume, a)
                        ELSE merchant_stats[n].total_refund_volume
           /\ global_stats'.total_refunds = global_stats.total_refunds + 1
           /\ global_stats'.total_refund_volume
                = saturating_add(global_stats.total_refund_volume, a)
<1> DEFINE More(s) == [s EXCEPT !.total_refunds = @ + 1, !.total_refund_volume = saturating_add(@, a)]
<1>1. \A s \in Stats : /\ More(s) \in Stats
                       /\ s.total_refunds \in Nat /\ s.total_refund_volume \in Nat
                       /\ More(s).total_refunds = s.total_refunds + 1
                       /\ More(s).total_refund_volume = saturating_add(s.total_refund_volume, a)
  <2> SUFFICES ASSUME NEW s \in Stats
               PROVE  /\ More(s) \in Stats
                      /\ s.total_refunds \in Nat /\ s.total_refund_volume \in Nat
                      /\ More(s).total_refunds = s.total_refunds + 1
                      /\ More(s).total_refund_volume = saturating_add(s.total_refund_volume, a)
    OBVIOUS
  <2> DEFINE c == s.total_refunds + 1
             v == saturating_add(s.total_refund_volume, a)
  <2>0. s.total_refunds \in Nat /\ s.total_refund_volume \in Nat
    BY DEF Stats
  <2>a. c \in Nat
    BY <2>0
  <2>b. v \in Nat
    BY <2>0, SaturatingSum
  <2>1. c \in Nat /\ v \in Nat /\ s.total_refunds \in Nat /\ s.total_refund_volume \in Nat
    BY <2>0, <2>a, <2>b
  <2>2. More(s) = [s EXCEPT !.total_refunds = c, !.total_refund_volume = v]
    OBVIOUS
  <2> HIDE DEF c, v, More
  <2>3. More(s) \in Stats /\ More(s).total_refunds = c /\ More(s).total_refund_volume = v
    BY <2>1, <2>2 DEF Stats
  <2> QED BY <2>1, <2>3 DEF c, v
<1>2. merchant_stats \in [Merchants -> Stats] /\ global_stats \in Stats
  BY DEF LedgerTypeOK
<1>3. /\ merchant_stats' = [merchant_stats EXCEPT ![m] = More(merchant_stats[m])]
      /\ global_stats' = More(global_stats)
  BY DEF AddToRefundStats
<1> HIDE DEF More
<1>4. /\ merchant_stats' \in [Merchants -> Stats]
      /\ \A n \in Merchants : merchant_stats'[n]
                                = IF n = m THEN More(merchant_stats[n]) ELSE merchant_stats[n]
  BY <1>1, <1>2, <1>3
<1>5. global_stats' \in Stats
  BY <1>1, <1>2, <1>3
<1>6. ASSUME NEW n \in Merchants
      PROVE  /\ merchant_stats'[n].total_refunds
                  = merchant_stats[n].total_refunds + (IF n = m THEN 1 ELSE 0)
             /\ merchant_stats'[n].total_refund_volume
                  = IF n = m THEN saturating_add(merchant_stats[n].total_refund_volume, a)
                    ELSE merchant_stats[n].total_refund_volume
  BY <1>1, <1>2, <1>4
<1> QED BY <1>1, <1>2, <1>3, <1>4, <1>5, <1>6

-----------------------------------------------------------------------------
(* What a step does to payments, refunds and disputes *)

RefundsSound == LedgerTypeOK /\ RecordTypes /\ HistoriesTyped /\ Backed

\* A payment is made, without a fee, under an order id that is free.
Bought(payer, it, n) ==
    /\ payer \in Accounts /\ it \in Paid
    /\ Pays("nonce", payer, <<it>>, 0, n)
    /\ PayWithFee(payer, it, 0)
    /\ payment[it.order] = NoEntry
    /\ irregular' = IF \E i \in 1..Len(receipts) : receipts[i].order = it.order
                    THEN irregular \cup {it.order} ELSE irregular
    /\ overridden' = overridden \ {it.order}
    /\ UNCHANGED <<recordVars, repaid>>

SameMoney == UNCHANGED <<balance, payment, merchant_stats, global_stats, receipts, repaid>>

\* A refund is asked for that still fits.
Requested(r, s) ==
    /\ r \in RefundIds /\ s \in RefundRecord
    /\ refund[r] = NoEntry /\ s.status = "Pending"
    /\ IsPaid(s.order)
    /\ payment[s.order].refunded_amount + s.amount <= payment[s.order].amount
    /\ refund' = [refund EXCEPT ![r] = s]
    /\ order_refunds' = [order_refunds EXCEPT ![s.order] = Append(@, r)]
    /\ irregular' = IF OtherMayBePaid(r, s.order) \/ InDispute(r)
                    THEN irregular \cup {s.order} ELSE irregular
    /\ SameMoney /\ UNCHANGED <<dispute, overridden>>

Decided(r, s) ==
    /\ r \in RefundIds /\ Marks(r, s)
    /\ HasStatus(r, {"Pending"}) /\ s.status \in {"Approved", "Rejected"}
    /\ SameMoney /\ UNCHANGED <<order_refunds, dispute, overridden, irregular>>

\* A refund is paid, from the payment its order now has.
Repays(r) ==
    LET o == refund[r].order
        a == refund[r].amount
    IN  /\ r \in RefundIds /\ refund[r] # NoEntry
        /\ IsPaid(o)
        /\ \E q : Amends(o, q) /\ q.refunded_amount = payment[o].refunded_amount + a
        /\ \E s : Marks(r, s) /\ s.status = "Completed"
        /\ \E b \in Repayment : /\ repaid' = Append(repaid, b)
                                /\ b.payment = CurrentReceipt(o) /\ b.amount = a
        /\ AddToRefundStats(payment[o].merchant, a)
        /\ Transfer(payment[o].token, payment[o].merchant, payment[o].payer, a)
        /\ UNCHANGED <<receipts, order_refunds, overridden, irregular>>

\* A dispute that is not resolved goes on.
Continues(d, x) ==
    /\ d \in DisputeIds /\ x \in DisputeRecord
    /\ dispute[d] # NoEntry /\ dispute[d].status # "Resolved"
    /\ x.refund = dispute[d].refund
    /\ dispute' = [dispute EXCEPT ![d] = x]

\* An approved refund is executed, or a dispute about one is resolved by force.
Paying(r) ==
    /\ Repays(r)
    /\ \/ HasStatus(r, {"Approved"}) /\ UNCHANGED dispute
       \/ \E d, x : Continues(d, x) /\ x.status = "Resolved" /\ x.refund = r

\* A dispute is raised, about a rejected refund or about a payment.
Disputed(d, x) ==
    /\ d \in DisputeIds /\ x \in DisputeRecord
    /\ dispute[d] = NoEntry
    /\ dispute' = [dispute EXCEPT ![d] = x]
    /\ \/ /\ x.refund \in RefundIds /\ HasStatus(x.refund, {"Rejected"})
          /\ LET o == refund[x.refund].order
             IN  irregular' = IF \/ OtherMayBePaid(x.refund, o)
                                 \/ InDispute(x.refund)
                                 \/ payment[o].refunded_amount + refund[x.refund].amount > payment[o].amount
                              THEN irregular \cup {o} ELSE irregular
       \/ x.refund = NoEntry /\ irregular' = irregular
    /\ SameMoney /\ UNCHANGED <<refund, order_refunds, overridden>>

Discussed(d, x) ==
    /\ Continues(d, x)
    /\ SameMoney /\ UNCHANGED <<refund, order_refunds, overridden, irregular>>

\* The refunded amount is set by hand.
Corrected(o, q) ==
    /\ o \in Orders /\ IsPaid(o) /\ Amends(o, q)
    /\ overridden' = overridden \cup {o} /\ irregular' = irregular \cup {o}
    /\ UNCHANGED <<balance, merchant_stats, global_stats, receipts, repaid, recordVars>>

\* Records go; a list goes with the refunds it names.
Dropped ==
    /\ payment' \in [Orders -> PaymentOrder \cup {NoEntry}] /\ RecordTypes'
    /\ \A o \in Orders : payment'[o] = payment[o] \/ payment'[o] = NoEntry
    /\ \A r \in RefundIds : refund'[r] = refund[r] \/ refund'[r] = NoEntry
    /\ \A o \in Orders :
          \/ order_refunds'[o] = order_refunds[o]
          \/ \A r \in RefundIds : r \in Entries(order_refunds[o]) => refund'[r] = NoEntry
    /\ UNCHANGED <<balance, merchant_stats, global_stats, receipts, repaid, dispute, overridden,
                   irregular>>

Idles == SameMoney /\ UNCHANGED <<recordVars, overridden, irregular>>

\* A refund is paid from the payment its order now has.
LEMMA PayBackFacts ==
    ASSUME LedgerTypeOK, RecordTypes, Backed, NEW r \in RefundIds, refund[r] # NoEntry,
           NEW bump \in Nat, PayBack(r, bump),
           UNCHANGED Untouched, UNCHANGED <<order_refunds, overridden, irregular>>
    PROVE  LedgerTypeOK' /\ fee' = fee /\ Repays(r)
<1> DEFINE o == refund[r].order
           a == refund[r].amount
           p == payment[o]
           refunded == p.refunded_amount + a
           q == [p EXCEPT !.refunded_amount = refunded, !.status = StatusFor(refunded, p.amount),
                          !.version = @ + bump]
           b == [refund |-> r, payment |-> CurrentReceipt(o), amount |-> a]
<1>1. /\ IsPaid(o) /\ payment' = [payment EXCEPT ![o].refunded_amount = refunded,
                                                 ![o].status = StatusFor(refunded, p.amount),
                                                 ![o].version = @ + bump]
      /\ SetStatus(r, "Completed") /\ AddToRefundStats(p.merchant, a)
      /\ Transfer(p.token, p.merchant, p.payer, a)
      /\ repaid' = Append(repaid, b)
  BY SMTT(30) DEF PayBack
<1>2. /\ o \in Orders /\ a \in Nat \ {0} /\ p \in PaymentOrder
      /\ p.merchant \in Accounts /\ p.payer \in Accounts /\ p.token \in Tokens
      /\ p.refunded_amount \in Int
  BY <1>1, RefundOf, SMTT(30)
<1>3. payment' = [payment EXCEPT ![o] = q]
  BY <1>1
<1>4. refunded \in Int
  BY <1>2
<1>5. /\ q \in PaymentOrder
      /\ q.merchant = p.merchant /\ q.payer = p.payer /\ q.token = p.token
      /\ q.amount = p.amount /\ q.refunded_amount = refunded
      /\ q.status = StatusFor(refunded, p.amount)
  <2> HIDE DEF p, refunded
  <2> QED BY <1>2, <1>4, AmendedRecord, ZenonT(30)
<1>6. CurrentReceipt(o) \in 1..MaxPayments
  <2> DEFINE c == CurrentReceipt(o)
  <2>1. c \in 1..Len(receipts) /\ Len(receipts) \in Nat
    BY <1>1, <1>2, CurrentIsLast
  <2>2. Len(receipts) <= MaxPayments /\ MaxPayments \in Nat
    BY DEF Backed
  <2> HIDE DEF c
  <2>3. c \in 1..MaxPayments
    BY ONLY <2>1, <2>2
  <2> QED BY <2>3 DEF c
<1>7. b \in Repayment /\ b.payment = CurrentReceipt(o) /\ b.amount = a
  BY <1>2, <1>6 DEF Repayment
<1>8. \E s : Marks(r, s) /\ s.status = "Completed"
  BY <1>1, StatusSet
<1> HIDE DEF q, b, p, o, a, refunded
<1>9. payment' \in [Orders -> PaymentOrder \cup {NoEntry}]
  BY <1>3, <1>5, HistoryTypes
<1>10. balance' \in [Tokens -> [Holders -> Nat]]
  <2>1. p.merchant \in Holders /\ p.payer \in Holders /\ a \in Nat
    BY <1>2 DEF Holders
  <2>2. balance \in [Tokens -> [Holders -> Nat]]
    BY MoneyTypes
  <2>3. p.token \in Tokens /\ Transfer(p.token, p.merchant, p.payer, a)
    BY <1>1, <1>2
  <2> QED BY <2>1, <2>2, <2>3, TransferFacts
<1>11. merchant_stats' \in [Merchants -> Stats] /\ global_stats' \in Stats
  <2>1. a \in Nat
    BY <1>2
  <2> QED BY <1>1, <1>2, <2>1, RefundStatsTypes
<1>12. LedgerTypeOK' /\ fee' = fee
  BY <1>9, <1>10, <1>11, UntouchedTypes
<1>13. Amends(o, q) /\ q.refunded_amount = payment[o].refunded_amount + a
  BY <1>3, <1>5 DEF Amends, p, refunded
<1>14. receipts' = receipts
  BY SMTT(30) DEF Untouched
<1>15. Repays(r)
  BY <1>1, <1>7, <1>8, <1>13, <1>14 DEF Repays, p, o, a
<1> QED BY <1>12, <1>15

LEMMA BuyCase ==
    ASSUME RefundsSound, NEW p \in Accounts, NEW it \in Items, NEW n \in 0..MaxPayments, Pay(p, it, n)
    PROVE  LedgerTypeOK' /\ fee' = fee /\ Bought(p, it, n)
<1>1. LedgerTypeOK /\ fee.bps = 0
  BY DEF RefundsSound, Backed
<1>2. process_payment_with_nonce(p, it, n)
  BY DEF Pay
<1>3. LedgerTypeOK' /\ fee' = fee
  BY <1>1, <1>2, NonceTypes
<1>4. /\ it \in Paid /\ platform_fee(it.amount) \in 0..it.amount
      /\ Pays("nonce", p, <<it>>, platform_fee(it.amount), n)
  BY <1>1, <1>2, NoncePays
<1>5. platform_fee(it.amount) = 0
  <2>1. it.amount \in Nat
    BY <1>4 DEF Paid
  <2>2. platform_fee(it.amount) = (it.amount * 0) \div 10000
    BY <1>1 DEF platform_fee
  <2> QED BY <2>1, <2>2
<1>6. PayWithFee(p, it, platform_fee(it.amount)) /\ payment[it.order] = NoEntry
  BY <1>2 DEF process_payment_with_nonce, Payable
<1>7. Pays("nonce", p, <<it>>, 0, n) /\ PayWithFee(p, it, 0)
  BY <1>4, <1>5, <1>6
<1> QED BY <1>3, <1>4, <1>6, <1>7 DEF Pay, Bought

\* A step that writes neither records of payments nor money keeps the types.
LEMMA SameMoneyTypes ==
    ASSUME LedgerTypeOK, UNCHANGED Untouched, UNCHANGED <<balance, payment, merchant_stats, global_stats>>
    PROVE  LedgerTypeOK' /\ fee' = fee /\ receipts' = receipts
<1>1. /\ payment \in [Orders -> PaymentOrder \cup {NoEntry}]
      /\ balance \in [Tokens -> [Holders -> Nat]]
      /\ merchant_stats \in [Merchants -> Stats] /\ global_stats \in Stats
  <2>1. merchant_stats \in [Merchants -> Stats] /\ global_stats \in Stats
    BY DEF LedgerTypeOK
  <2> QED BY <2>1, MoneyTypes, HistoryTypes
<1>2. /\ payment' \in [Orders -> PaymentOrder \cup {NoEntry}]
      /\ balance' \in [Tokens -> [Holders -> Nat]]
      /\ merchant_stats' \in [Merchants -> Stats] /\ global_stats' \in Stats
  BY <1>1
<1>3. LedgerTypeOK' /\ fee' = fee
  BY <1>2, UntouchedTypes
<1> QED BY <1>3, SMTT(30) DEF Untouched

LEMMA RequestCase ==
    ASSUME RefundsSound, NEW c \in Callers, NEW r \in RefundIds, NEW o \in Orders,
           NEW a \in RefundAmounts, initiate_refund(c, r, o, a)
    PROVE  LedgerTypeOK' /\ fee' = fee /\ \E s : Requested(r, s)
<1> DEFINE s == [order |-> o, initiator |-> c, amount |-> a, status |-> "Pending", created_at |-> now]
<1>1. LedgerTypeOK
  BY DEF RefundsSound
<1>2. LedgerTypeOK' /\ fee' = fee /\ receipts' = receipts
  BY <1>1, SameMoneyTypes DEF initiate_refund
<1>3. /\ a > 0 /\ a \in Int /\ IsPaid(o) /\ c \in {payment[o].payer, payment[o].merchant}
  BY RefundsAssumption DEF initiate_refund, require_positive
<1>4. now \in 0..MaxTime /\ c \in Accounts
  BY <1>1, <1>3, MoneyTypes, HistoryTypes DEF IsPaid
<1>5. s \in RefundRecord
  BY <1>3, <1>4 DEF RefundRecord
<1>6. s.order = o /\ s.amount = a /\ s.status = "Pending"
  OBVIOUS
<1>7. refund' = [refund EXCEPT ![r] = s]
  BY DEF initiate_refund
<1> HIDE DEF s
<1>8. Requested(r, s)
  BY <1>2, <1>3, <1>5, <1>6, <1>7 DEF initiate_refund, Requested, SameMoney
<1> QED BY <1>2, <1>8

LEMMA DecideCase ==
    ASSUME RefundsSound, NEW c, NEW r \in RefundIds, NEW status \in {"Approved", "Rejected"},
           DecideRefund(c, r, status)
    PROVE  LedgerTypeOK' /\ fee' = fee /\ \E s : Decided(r, s)
<1>1. LedgerTypeOK /\ RecordTypes
  BY DEF RefundsSound
<1>2. LedgerTypeOK' /\ fee' = fee /\ receipts' = receipts
  BY <1>1, SameMoneyTypes DEF DecideRefund
<1>3. HasStatus(r, {"Pending"}) /\ refund[r] # NoEntry /\ SetStatus(r, status)
  BY DEF DecideRefund, HasStatus
<1>4. PICK s : Marks(r, s) /\ s.status = status
  BY <1>1, <1>3, StatusSet
<1>5. Decided(r, s)
  BY <1>2, <1>3, <1>4 DEF Decided, DecideRefund, SameMoney, historyVars
<1> QED BY <1>2, <1>5

LEMMA ExecuteCase ==
    ASSUME RefundsSound, NEW r \in RefundIds, execute_refund(r)
    PROVE  LedgerTypeOK' /\ fee' = fee /\ Paying(r)
<1>1. LedgerTypeOK /\ RecordTypes /\ Backed
  BY DEF RefundsSound
<1>2. refund[r] # NoEntry /\ HasStatus(r, {"Approved"}) /\ PayBack(r, 1)
  BY DEF execute_refund, HasStatus
<1>3. UNCHANGED Untouched /\ UNCHANGED <<order_refunds, overridden, irregular>>
  BY DEF execute_refund
<1>4. LedgerTypeOK' /\ fee' = fee /\ Repays(r)
  BY <1>1, <1>2, <1>3, PayBackFacts
<1> QED BY <1>2, <1>4 DEF Paying, execute_refund

\* A dispute that gets another status, and perhaps an outcome.
LEMMA DisputeMoved ==
    ASSUME RecordTypes, NEW d \in DisputeIds, dispute[d] # NoEntry, dispute[d].status # "Resolved",
           NEW status \in {"UnderReview", "Escalated", "Resolved"},
           \/ dispute' = [dispute EXCEPT ![d].status = status]
           \/ \E outcome \in {"PayerFavor", "MerchantFavor"} :
                 dispute' = [dispute EXCEPT ![d].status = status, ![d].outcome = outcome]
    PROVE  \E x : Continues(d, x) /\ x.status = status
<1>1. dispute[d] \in DisputeRecord
  BY DEF RecordTypes
<1>2. CASE dispute' = [dispute EXCEPT ![d].status = status]
  <2> DEFINE x == [dispute[d] EXCEPT !.status = status]
  <2>1. dispute' = [dispute EXCEPT ![d] = x]
    BY <1>2
  <2>2. x \in DisputeRecord /\ x.refund = dispute[d].refund /\ x.status = status
    BY <1>1 DEF DisputeRecord
  <2> HIDE DEF x
  <2> QED BY <2>1, <2>2 DEF Continues
<1>3. ASSUME NEW outcome \in {"PayerFavor", "MerchantFavor"},
             dispute' = [dispute EXCEPT ![d].status = status, ![d].outcome = outcome]
      PROVE  \E x : Continues(d, x) /\ x.status = status
  <2> DEFINE x == [dispute[d] EXCEPT !.status = status, !.outcome = outcome]
  <2>1. dispute' = [dispute EXCEPT ![d] = x]
    BY <1>3
  <2>2. x \in DisputeRecord /\ x.refund = dispute[d].refund /\ x.status = status
    BY <1>1 DEF DisputeRecord
  <2> HIDE DEF x
  <2> QED BY <2>1, <2>2 DEF Continues
<1> QED BY <1>2, <1>3

LEMMA RaiseCase ==
    ASSUME RefundsSound, NEW c \in Callers, NEW d \in DisputeIds, NEW r \in RefundIds,
           raise_dispute(c, d, r)
    PROVE  LedgerTypeOK' /\ fee' = fee /\ \E x : Disputed(d, x)
<1> DEFINE o == refund[r].order
           x == [order |-> o, refund |-> r, initiator |-> c, status |-> "Open", outcome |-> "None"]
<1>1. LedgerTypeOK /\ RecordTypes
  BY DEF RefundsSound
<1>2. LedgerTypeOK' /\ fee' = fee /\ receipts' = receipts
  BY <1>1, SameMoneyTypes DEF raise_dispute
<1>3. /\ HasStatus(r, {"Rejected"}) /\ refund[r] # NoEntry
      /\ IsPaid(o) /\ c = payment[o].payer
      /\ dispute[d] = NoEntry /\ dispute' = [dispute EXCEPT ![d] = x]
      /\ irregular' = IF \/ OtherMayBePaid(r, o) \/ InDispute(r)
                         \/ payment[o].refunded_amount + refund[r].amount > payment[o].amount
                      THEN irregular \cup {o} ELSE irregular
  BY DEF raise_dispute, HasStatus, NewDispute
<1>4. o \in Orders
  BY <1>1, <1>3, RefundOf
<1>5. c \in Accounts
  BY <1>1, <1>3, <1>4, HistoryTypes DEF IsPaid
<1>6. x \in DisputeRecord /\ x.refund = r
  BY <1>4, <1>5 DEF DisputeRecord
<1>7. SameMoney /\ UNCHANGED <<refund, order_refunds, overridden>>
  BY <1>2 DEF raise_dispute, SameMoney
<1> HIDE DEF x, o
<1>8. Disputed(d, x)
  BY <1>3, <1>6, <1>7 DEF Disputed, o
<1> QED BY <1>2, <1>8

LEMMA OpenCase ==
    ASSUME RefundsSound, NEW c \in Callers, NEW d \in DisputeIds, NEW o \in Orders,
           initiate_dispute(c, d, o)
    PROVE  LedgerTypeOK' /\ fee' = fee /\ \E x : Disputed(d, x)
<1> DEFINE x == [order |-> o, refund |-> NoEntry, initiator |-> c, status |-> "Open",
                 outcome |-> "None"]
<1>1. LedgerTypeOK /\ RecordTypes
  BY DEF RefundsSound
<1>2. LedgerTypeOK' /\ fee' = fee /\ receipts' = receipts
  BY <1>1, SameMoneyTypes DEF initiate_dispute
<1>3. /\ IsPaid(o) /\ c \in {payment[o].payer, payment[o].merchant}
      /\ dispute[d] = NoEntry /\ dispute' = [dispute EXCEPT ![d] = x]
  BY DEF initiate_dispute, NewDispute
<1>4. c \in Accounts
  BY <1>1, <1>3, HistoryTypes DEF IsPaid
<1>5. x \in DisputeRecord /\ x.refund = NoEntry
  BY <1>4 DEF DisputeRecord
<1>6. SameMoney /\ UNCHANGED <<refund, order_refunds, overridden, irregular>>
  BY <1>2 DEF initiate_dispute, SameMoney, historyVars
<1> HIDE DEF x
<1>7. Disputed(d, x)
  BY <1>3, <1>5, <1>6 DEF Disputed
<1> QED BY <1>2, <1>7

LEMMA MoveCase ==
    ASSUME RefundsSound, NEW d \in DisputeIds, NEW from, "Resolved" \notin from,
           NEW to \in {"UnderReview", "Escalated"}, MoveDispute(d, from, to)
    PROVE  LedgerTypeOK' /\ fee' = fee /\ \E x : Discussed(d, x)
<1>1. LedgerTypeOK /\ RecordTypes
  BY DEF RefundsSound
<1>2. LedgerTypeOK' /\ fee' = fee /\ receipts' = receipts
  BY <1>1, SameMoneyTypes DEF MoveDispute
<1>3. /\ dispute[d] # NoEntry /\ dispute[d].status # "Resolved"
      /\ dispute' = [dispute EXCEPT ![d].status = to]
  BY DEF MoveDispute
<1>4. PICK x : Continues(d, x)
  BY <1>1, <1>3, DisputeMoved
<1>5. SameMoney /\ UNCHANGED <<refund, order_refunds, overridden, irregular>>
  BY <1>2 DEF MoveDispute, SameMoney, historyVars
<1> QED BY <1>2, <1>4, <1>5 DEF Discussed

LEMMA ResolveCase ==
    ASSUME RefundsSound, NEW d \in DisputeIds, NEW force \in BOOLEAN, resolve_dispute(d, force)
    PROVE  /\ LedgerTypeOK' /\ fee' = fee
           /\ (\E r : Paying(r)) \/ (\E x : Discussed(d, x))
<1>1. LedgerTypeOK /\ RecordTypes /\ Backed
  BY DEF RefundsSound
<1> DEFINE outcome == IF force THEN "PayerFavor" ELSE "MerchantFavor"
<1>2. /\ dispute[d] # NoEntry /\ dispute[d].status # "Resolved"
      /\ dispute' = [dispute EXCEPT ![d].status = "Resolved", ![d].outcome = outcome]
      /\ UNCHANGED Untouched /\ UNCHANGED <<order_refunds, overridden, irregular>>
  BY DEF resolve_dispute
<1>3. outcome \in {"PayerFavor", "MerchantFavor"}
  OBVIOUS
<1> HIDE DEF outcome
<1>4. PICK x : Continues(d, x) /\ x.status = "Resolved"
  BY <1>1, <1>2, <1>3, DisputeMoved
<1>5. CASE force
  <2> DEFINE r == dispute[d].refund
  <2>1. r # NoEntry /\ refund[r] # NoEntry /\ PayBack(r, 0)
    BY <1>5 DEF resolve_dispute
  <2>2. r \in RefundIds
    <3>1. dispute[d] \in DisputeRecord
      BY <1>1, <1>2 DEF RecordTypes
    <3> QED BY <2>1, <3>1 DEF DisputeRecord
  <2>3. x.refund = r
    BY <1>4 DEF Continues
  <2> HIDE DEF r
  <2>4. LedgerTypeOK' /\ fee' = fee /\ Repays(r)
    BY <1>1, <1>2, <2>1, <2>2, PayBackFacts
  <2>5. Paying(r)
    BY <1>4, <2>3, <2>4 DEF Paying
  <2> QED BY <2>4, <2>5
<1>6. CASE ~force
  <2>1. UNCHANGED <<balance, payment, merchant_stats, global_stats, refund, repaid>>
    BY <1>6 DEF resolve_dispute
  <2>2. LedgerTypeOK' /\ fee' = fee /\ receipts' = receipts
    BY <1>1, <1>2, <2>1, SameMoneyTypes
  <2>3. Discussed(d, x)
    BY <1>2, <1>4, <2>1, <2>2 DEF Discussed, SameMoney
  <2> QED BY <2>2, <2>3
<1> QED BY <1>5, <1>6

LEMMA CorrectCase ==
    ASSUME RefundsSound, NEW c, NEW o \in Orders, NEW a \in RefundAmounts, NEW v,
           update_payment_status(c, o, a, v)
    PROVE  LedgerTypeOK' /\ fee' = fee /\ \E q : Corrected(o, q)
<1> DEFINE p == payment[o]
           q == [p EXCEPT !.refunded_amount = a, !.status = StatusFor(a, p.amount),
                          !.version = @ + 1]
<1>1. LedgerTypeOK
  BY DEF RefundsSound
<1>2. IsPaid(o) /\ p \in PaymentOrder
  BY <1>1, HistoryTypes DEF update_payment_status, IsPaid
<1>3. payment' = [payment EXCEPT ![o] = q]
  BY DEF update_payment_status
<1>4. a \in Int
  BY RefundsAssumption
<1>5. /\ q \in PaymentOrder
      /\ q.merchant = p.merchant /\ q.payer = p.payer /\ q.token = p.token
      /\ q.amount = p.amount /\ q.refunded_amount = a
      /\ q.status = StatusFor(a, p.amount)
  <2> HIDE DEF p
  <2> QED BY <1>2, <1>4, AmendedRecord, ZenonT(30)
<1> HIDE DEF q
<1>6. Amends(o, q)
  BY <1>3, <1>5 DEF Amends
<1>7. /\ payment' \in [Orders -> PaymentOrder \cup {NoEntry}]
      /\ balance' \in [Tokens -> [Holders -> Nat]]
      /\ merchant_stats' \in [Merchants -> Stats] /\ global_stats' \in Stats
  <2>1. payment' \in [Orders -> PaymentOrder \cup {NoEntry}]
    BY <1>1, <1>3, <1>5, HistoryTypes
  <2>2. merchant_stats \in [Merchants -> Stats] /\ global_stats \in Stats
    BY <1>1 DEF LedgerTypeOK
  <2>3. UNCHANGED <<balance, merchant_stats, global_stats>>
    BY DEF update_payment_status
  <2> QED BY <1>1, <2>1, <2>2, <2>3, MoneyTypes
<1>8. UNCHANGED Untouched
  BY DEF update_payment_status
<1>9. LedgerTypeOK' /\ fee' = fee
  BY <1>1, <1>7, <1>8, UntouchedTypes
<1>10. Corrected(o, q)
  BY <1>2, <1>6, <1>8 DEF Corrected, update_payment_status, Untouched
<1> QED BY <1>9, <1>10

LEMMA ArchiveCase ==
    ASSUME RefundsSound, NEW o \in Orders, archive_payment_record(o),
           UNCHANGED <<recordVars, historyVars>>
    PROVE  LedgerTypeOK' /\ fee' = fee /\ Dropped
<1>1. LedgerTypeOK /\ RecordTypes
  BY DEF RefundsSound
<1>2. LedgerTypeOK' /\ fee' = fee
  BY <1>1, ArchiveTypes
<1>3. payment' \in [Orders -> PaymentOrder \cup {NoEntry}]
  BY <1>2 DEF LedgerTypeOK
<1>4. \A q \in Orders : payment'[q] = payment[q] \/ payment'[q] = NoEntry
  BY <1>1, HistoryTypes DEF archive_payment_record
<1>5. UNCHANGED <<recordVars, historyVars, balance, merchant_stats, global_stats, receipts>>
  BY DEF archive_payment_record, envVars
<1>6. RecordTypes'
  BY <1>1, <1>5 DEF RecordTypes, recordVars
<1> QED BY <1>2, <1>3, <1>4, <1>5, <1>6 DEF Dropped, recordVars, historyVars

LEMMA CleanupPaymentsCase ==
    ASSUME RefundsSound, cleanup_expired_payments
    PROVE  LedgerTypeOK' /\ fee' = fee /\ Dropped
<1> DEFINE expired == {o \in Listed : IsPaid(o) /\ payment[o].paid_at < now - CleanupPeriod}
           doomed == UNION {Entries(order_refunds[o]) : o \in expired}
<1>1. LedgerTypeOK /\ RecordTypes
  BY DEF RefundsSound
<1>2. /\ payment' = [o \in Orders |-> IF o \in expired THEN NoEntry ELSE payment[o]]
      /\ refund' = [r \in RefundIds |-> IF r \in doomed THEN NoEntry ELSE refund[r]]
      /\ order_refunds' = [o \in Orders |-> IF o \in expired THEN <<>> ELSE order_refunds[o]]
      /\ UNCHANGED Untouched /\ UNCHANGED <<balance, merchant_stats, global_stats, dispute, historyVars>>
  BY DEF cleanup_expired_payments
<1>3. \A o \in expired : \A r : r \in Entries(order_refunds[o]) => r \in doomed
  OBVIOUS
<1> HIDE DEF expired, doomed
<1>4. payment \in [Orders -> PaymentOrder \cup {NoEntry}]
  BY <1>1, HistoryTypes
<1>5. payment' \in [Orders -> PaymentOrder \cup {NoEntry}]
  BY <1>2, <1>4
<1>6. RecordTypes'
  <2>1. /\ refund \in [RefundIds -> RefundRecord \cup {NoEntry}]
        /\ order_refunds \in [Orders -> Seq(RefundIds)]
        /\ dispute \in [DisputeIds -> DisputeRecord \cup {NoEntry}]
    BY <1>1 DEF RecordTypes
  <2>2. refund' \in [RefundIds -> RefundRecord \cup {NoEntry}]
    BY <1>2, <2>1
  <2>3. order_refunds' \in [Orders -> Seq(RefundIds)]
    <3>1. <<>> \in Seq(RefundIds)
      OBVIOUS
    <3> QED BY <1>2, <2>1, <3>1
  <2>4. dispute' \in [DisputeIds -> DisputeRecord \cup {NoEntry}]
    BY <1>2, <2>1, SMTT(30)
  <2> QED BY <2>2, <2>3, <2>4 DEF RecordTypes
<1>7. /\ balance' \in [Tokens -> [Holders -> Nat]]
      /\ merchant_stats' \in [Merchants -> Stats] /\ global_stats' \in Stats
  <2>1. merchant_stats \in [Merchants -> Stats] /\ global_stats \in Stats
    BY <1>1 DEF LedgerTypeOK
  <2> QED BY <1>1, <1>2, <2>1, MoneyTypes
<1>8. LedgerTypeOK' /\ fee' = fee
  BY <1>1, <1>2, <1>5, <1>7, UntouchedTypes
<1>9. \A o \in Orders : payment'[o] = payment[o] \/ payment'[o] = NoEntry
  BY <1>2
<1>10. \A r \in RefundIds : refund'[r] = refund[r] \/ refund'[r] = NoEntry
  BY <1>2
<1>11. ASSUME NEW o \in Orders, order_refunds'[o] # order_refunds[o],
              NEW r \in RefundIds, r \in Entries(order_refunds[o])
       PROVE  refund'[r] = NoEntry
  BY <1>2, <1>3, <1>11
<1> QED BY <1>2, <1>5, <1>6, <1>8, <1>9, <1>10, <1>11 DEF Dropped, Untouched, historyVars

LEMMA CleanupRefundsCase ==
    ASSUME RefundsSound, cleanup_expired_refunds
    PROVE  LedgerTypeOK' /\ fee' = fee /\ Dropped
<1> DEFINE doomed == {r \in RefundIds : /\ \E o \in Listed : r \in Entries(order_refunds[o])
                                        /\ HasStatus(r, {"Completed", "Rejected"})
                                        /\ refund[r].created_at < now - RetentionPeriod}
<1>1. LedgerTypeOK /\ RecordTypes
  BY DEF RefundsSound
<1>2. /\ refund' = [r \in RefundIds |-> IF r \in doomed THEN NoEntry ELSE refund[r]]
      /\ UNCHANGED Untouched
      /\ UNCHANGED <<balance, payment, merchant_stats, global_stats, order_refunds, dispute, historyVars>>
  BY DEF cleanup_expired_refunds
<1> HIDE DEF doomed
<1>3. LedgerTypeOK' /\ fee' = fee /\ receipts' = receipts
  BY <1>1, <1>2, SameMoneyTypes
<1>4. RecordTypes'
  BY <1>1, <1>2 DEF RecordTypes
<1>5. \A r \in RefundIds : refund'[r] = refund[r] \/ refund'[r] = NoEntry
  BY <1>2
<1>6. payment' \in [Orders -> PaymentOrder \cup {NoEntry}]
  BY <1>1, <1>2, HistoryTypes
<1> QED BY <1>2, <1>3, <1>4, <1>5, <1>6 DEF Dropped, historyVars

LEMMA IdleCase ==
    ASSUME RefundsSound, EnvNext \/ UNCHANGED envVars,
           UNCHANGED <<configVars, ledgerVars, recordVars, historyVars>>
    PROVE  LedgerTypeOK' /\ fee' = fee /\ Idles
<1>1. LedgerTypeOK
  BY DEF RefundsSound
<1>2. LedgerTypeOK' /\ fee' = fee
  BY <1>1, IdleTypes
<1>3. balance' = balance
  <2>1. EnvTypeOK
    BY <1>1, CounterTypes
  <2>2. CASE EnvNext
    BY <2>1, <2>2, EnvNextFacts
  <2>3. CASE UNCHANGED envVars
    BY <2>3 DEF envVars
  <2> QED BY <2>2, <2>3
<1> QED BY <1>2, <1>3 DEF Idles, SameMoney, ledgerVars, historyVars

\* What a step writes, by what it is about.
LEMMA RefundsStepCases ==
    ASSUME RefundsSound, [RefundsNext]_refundsVars
    PROVE  /\ LedgerTypeOK' /\ fee' = fee
           /\ \/ \E p, it, n : Bought(p, it, n)
              \/ \E r, s : Requested(r, s)
              \/ \E r, s : Decided(r, s)
              \/ \E r : Paying(r)
              \/ \E d, x : Disputed(d, x)
              \/ \E d, x : Discussed(d, x)
              \/ \E o, q : Corrected(o, q)
              \/ Dropped
              \/ Idles
<1> DEFINE Buys == \E p, it, n : Bought(p, it, n)
           Requests == \E r, s : Requested(r, s)
           Decides == \E r, s : Decided(r, s)
           Refunds == \E r : Paying(r)
           Disputes == \E d, x : Disputed(d, x)
           Discusses == \E d, x : Discussed(d, x)
           Corrects == \E o, q : Corrected(o, q)
           Goal == /\ LedgerTypeOK' /\ fee' = fee
                   /\ \/ Buys \/ Requests \/ Decides \/ Refunds \/ Disputes \/ Discusses
                      \/ Corrects \/ Dropped \/ Idles
<1>1. ASSUME NEW p \in Accounts, NEW it \in Items, NEW n \in 0..MaxPayments, Pay(p, it, n)
      PROVE  Goal
  BY <1>1, BuyCase
<1>2. ASSUME NEW c \in Callers, NEW r \in RefundIds, NEW o \in Orders, NEW a \in RefundAmounts,
             initiate_refund(c, r, o, a)
      PROVE  Goal
  BY <1>2, RequestCase
<1>3. ASSUME NEW c \in Callers, NEW r \in RefundIds, approve_refund(c, r) \/ reject_refund(c, r)
      PROVE  Goal
  BY <1>3, DecideCase DEF approve_refund, reject_refund
<1>4. ASSUME NEW r \in RefundIds, execute_refund(r) PROVE Goal
  BY <1>4, ExecuteCase
<1>5. ASSUME NEW c \in Callers, NEW d \in DisputeIds, NEW r \in RefundIds, raise_dispute(c, d, r)
      PROVE  Goal
  BY <1>5, RaiseCase
<1>6. ASSUME NEW c \in Callers, NEW d \in DisputeIds, NEW o \in Orders, initiate_dispute(c, d, o)
      PROVE  Goal
  BY <1>6, OpenCase
<1>7. ASSUME NEW d \in DisputeIds, mark_dispute_under_review(d) \/ escalate_dispute(d)
      PROVE  Goal
  BY <1>7, MoveCase DEF mark_dispute_under_review, escalate_dispute
<1>8. ASSUME NEW d \in DisputeIds, NEW f \in BOOLEAN, resolve_dispute(d, f) PROVE Goal
  BY <1>8, ResolveCase
<1>9. ASSUME NEW c \in Callers, NEW o \in Orders, NEW a \in RefundAmounts,
             NEW v \in {NoEntry} \cup 0..MaxVersion, update_payment_status(c, o, a, v)
      PROVE  Goal
  BY <1>9, CorrectCase
<1>10. ASSUME NEW o \in Orders, archive_payment_record(o), UNCHANGED <<recordVars, historyVars>>
       PROVE  Goal
  BY <1>10, ArchiveCase
<1>11. ASSUME cleanup_expired_payments PROVE Goal
  BY <1>11, CleanupPaymentsCase
<1>12. ASSUME cleanup_expired_refunds PROVE Goal
  BY <1>12, CleanupRefundsCase
<1>13. ASSUME EnvNext, UNCHANGED <<configVars, ledgerVars, recordVars, historyVars>> PROVE Goal
  BY <1>13, IdleCase
<1>14. ASSUME UNCHANGED refundsVars PROVE Goal
  BY <1>14, IdleCase DEF refundsVars
<1> HIDE DEF Goal
<1>15. Goal
  BY <1>1, <1>2, <1>3, <1>4, <1>5, <1>6, <1>7, <1>8, <1>9, <1>10, <1>11, <1>12, <1>13, <1>14
  DEF RefundsNext
<1> QED BY <1>15 DEF Goal

-----------------------------------------------------------------------------
(* Records stay what storage can hold, and stand for receipts *)

LEMMA AmendsAt ==
    ASSUME LedgerTypeOK, NEW o \in Orders, NEW q, Amends(o, q)
    PROVE  \A p \in Orders : payment'[p] = IF p = o THEN q ELSE payment[p]
BY HistoryTypes DEF Amends

LEMMA RefundAt ==
    ASSUME RecordTypes, NEW r \in RefundIds, NEW s \in RefundRecord, refund' = [refund EXCEPT ![r] = s]
    PROVE  /\ refund' \in [RefundIds -> RefundRecord \cup {NoEntry}]
           /\ \A u \in RefundIds : refund'[u] = IF u = r THEN s ELSE refund[u]
BY DEF RecordTypes

LEMMA DisputeAt ==
    ASSUME RecordTypes, NEW d \in DisputeIds, NEW x \in DisputeRecord,
           dispute' = [dispute EXCEPT ![d] = x]
    PROVE  /\ dispute' \in [DisputeIds -> DisputeRecord \cup {NoEntry}]
           /\ \A e \in DisputeIds : dispute'[e] = IF e = d THEN x ELSE dispute[e]
BY DEF RecordTypes

\* A purchase writes one record and adds one receipt.
LEMMA BoughtFacts ==
    ASSUME LedgerTypeOK, NEW p, NEW it, NEW n, Bought(p, it, n)
    PROVE  /\ it \in Paid /\ it.order \in Orders /\ p \in Accounts
           /\ payment'[it.order] = NewRecord(p, it, 0)
           /\ \A o \in Orders : o # it.order => payment'[o] = payment[o]
           /\ Len(receipts) \in Nat /\ Len(receipts') = Len(receipts) + 1
           /\ \A i \in 1..Len(receipts) : receipts'[i] = receipts[i]
           /\ receipts'[Len(receipts) + 1] = NewReceipt("nonce", p, it, 0, n)
           /\ Len(receipts') <= MaxPayments
<1>1. it \in Paid /\ p \in Accounts /\ Pays("nonce", p, <<it>>, 0, n)
  BY DEF Bought
<1>2. Settling("nonce", p, it, 0, n)
  BY <1>1 DEF Settling, Pays
<1>3. Remember("nonce", p, <<it>>, 0, n)
  BY <1>1 DEF Pays, Settles
<1>4. /\ it.order \in Orders
      /\ payment'[it.order] = NewRecord(p, it, 0)
      /\ \A o \in Orders : o # it.order => payment'[o] = payment[o]
      /\ Len(receipts) \in Nat /\ Len(receipts') = Len(receipts) + 1
      /\ \A i \in 1..Len(receipts) : receipts'[i] = receipts[i]
      /\ receipts'[Len(receipts) + 1] = NewReceipt("nonce", p, it, 0, n)
  BY <1>2, OneSettled
<1>5. Len(receipts) + Len(<<it>>) <= MaxPayments
  BY <1>3 DEF Remember
<1> QED BY <1>1, <1>4, <1>5

\* Every other step leaves the receipts alone and the payments what they were
\* made for.
SamePayments ==
    /\ receipts' = receipts
    /\ \A o \in Orders : payment'[o] # NoEntry =>
          /\ payment[o] # NoEntry
          /\ payment'[o].merchant = payment[o].merchant /\ payment'[o].payer = payment[o].payer
          /\ payment'[o].token = payment[o].token /\ payment'[o].amount = payment[o].amount

LEMMA OthersKeepPayments ==
    ASSUME RefundsSound,
           \/ \E r, s : Requested(r, s)
           \/ \E r, s : Decided(r, s)
           \/ \E r : Paying(r)
           \/ \E d, x : Disputed(d, x)
           \/ \E d, x : Discussed(d, x)
           \/ \E o, q : Corrected(o, q)
           \/ Dropped
           \/ Idles
    PROVE  SamePayments
<1>1. LedgerTypeOK /\ RecordTypes
  BY DEF RefundsSound
<1>2. ASSUME SameMoney PROVE SamePayments
  BY <1>2 DEF SameMoney, SamePayments
<1>3. ASSUME NEW o \in Orders, IsPaid(o), NEW q, Amends(o, q), receipts' = receipts
      PROVE  SamePayments
  <2>1. \A p \in Orders : payment'[p] = IF p = o THEN q ELSE payment[p]
    BY <1>1, <1>3, AmendsAt
  <2>2. /\ q.merchant = payment[o].merchant /\ q.payer = payment[o].payer
        /\ q.token = payment[o].token /\ q.amount = payment[o].amount
    BY <1>3 DEF Amends
  <2> QED BY <1>3, <2>1, <2>2 DEF SamePayments, IsPaid
<1>4. ASSUME NEW r, Paying(r) PROVE SamePayments
  <2>1. r \in RefundIds /\ refund[r] # NoEntry /\ IsPaid(refund[r].order) /\ receipts' = receipts
    BY <1>4 DEF Paying, Repays
  <2>2. PICK q : Amends(refund[r].order, q)
    BY <1>4 DEF Paying, Repays
  <2>3. refund[r].order \in Orders
    BY <1>1, <2>1, RefundOf
  <2> QED BY <1>3, <2>1, <2>2, <2>3
<1>5. ASSUME NEW o, NEW q, Corrected(o, q) PROVE SamePayments
  BY <1>3, <1>5 DEF Corrected
<1>6. ASSUME Dropped PROVE SamePayments
  BY <1>6 DEF Dropped, SamePayments
<1> QED BY <1>2, <1>4, <1>5, <1>6 DEF Requested, Decided, Disputed, Discussed, Idles

\* The last receipt of an order is the new one, or the one it was.
LEMMA LastAfter ==
    ASSUME LedgerTypeOK, NEW p, NEW it, NEW n, Bought(p, it, n)
    PROVE  /\ IsLast(receipts', Len(receipts) + 1, it.order)
           /\ \A o, i : o # it.order /\ IsLast(receipts, i, o) => IsLast(receipts', i, o)
<1>1. /\ Len(receipts) \in Nat /\ Len(receipts') = Len(receipts) + 1
      /\ \A i \in 1..Len(receipts) : receipts'[i] = receipts[i]
      /\ receipts'[Len(receipts) + 1] = NewReceipt("nonce", p, it, 0, n)
      /\ NewReceipt("nonce", p, it, 0, n).order = it.order
  <2>1. NewReceipt("nonce", p, it, 0, n).order = it.order
    BY DEF NewReceipt
  <2> QED BY <2>1, BoughtFacts
<1>2. IsLast(receipts', Len(receipts) + 1, it.order)
  BY <1>1 DEF IsLast
<1>3. ASSUME NEW o, NEW i, o # it.order, IsLast(receipts, i, o) PROVE IsLast(receipts', i, o)
  <2>1. /\ i \in 1..Len(receipts) /\ receipts[i].order = o
        /\ \A j \in i + 1..Len(receipts) : receipts[j].order # o
    BY <1>3 DEF IsLast
  <2>2. i \in 1..Len(receipts') /\ receipts'[i].order = o
    BY <1>1, <2>1
  <2>3. ASSUME NEW j \in i + 1..Len(receipts') PROVE receipts'[j].order # o
    <3>1. j \in i + 1..Len(receipts) \/ j = Len(receipts) + 1
      BY <1>1, <2>1
    <3>2. j \in i + 1..Len(receipts) => j \in 1..Len(receipts)
      BY <1>1, <2>1
    <3> QED BY <1>1, <1>3, <2>1, <3>1, <3>2
  <2> QED BY <2>2, <2>3 DEF IsLast
<1> QED BY <1>2, <1>3

LEMMA BackedStep ==
    ASSUME RefundsSound, [RefundsNext]_refundsVars
    PROVE  Backed'
<1>1. LedgerTypeOK /\ HistoriesTyped /\ Backed
  BY DEF RefundsSound
<1>2. fee'.bps = 0
  BY <1>1, RefundsStepCases DEF Backed
<1>3. ASSUME NEW p, NEW it, NEW n, Bought(p, it, n) PROVE Backed'
  <2>1. /\ it.order \in Orders /\ payment'[it.order] = NewRecord(p, it, 0)
        /\ \A o \in Orders : o # it.order => payment'[o] = payment[o]
        /\ Len(receipts) \in Nat /\ Len(receipts') = Len(receipts) + 1
        /\ \A i \in 1..Len(receipts) : receipts'[i] = receipts[i]
        /\ receipts'[Len(receipts) + 1] = NewReceipt("nonce", p, it, 0, n)
        /\ Len(receipts') <= MaxPayments
    BY <1>1, <1>3, BoughtFacts
  <2>2. ASSUME NEW o \in Orders, payment'[o] # NoEntry
        PROVE  \E i : /\ IsLast(receipts', i, o)
                      /\ receipts'[i].merchant = payment'[o].merchant
                      /\ receipts'[i].payer = payment'[o].payer
                      /\ receipts'[i].token = payment'[o].token
    <3>1. CASE o = it.order
      <4>1. IsLast(receipts', Len(receipts) + 1, o)
        BY <1>1, <1>3, <3>1, LastAfter
      <4>2. /\ receipts'[Len(receipts) + 1].merchant = payment'[o].merchant
            /\ receipts'[Len(receipts) + 1].payer = payment'[o].payer
            /\ receipts'[Len(receipts) + 1].token = payment'[o].token
        BY <2>1, <3>1 DEF NewReceipt, NewRecord
      <4> QED BY <4>1, <4>2
    <3>2. CASE o # it.order
      <4>1. payment'[o] = payment[o]
        BY <2>1, <3>2
      <4>2. PICK i : /\ IsLast(receipts, i, o)
                     /\ receipts[i].merchant = payment[o].merchant
                     /\ receipts[i].payer = payment[o].payer
                     /\ receipts[i].token = payment[o].token
        BY <1>1, <2>2, <4>1 DEF Backed, IsPaid
      <4>3. IsLast(receipts', i, o)
        BY <1>1, <1>3, <3>2, <4>2, LastAfter
      <4>4. receipts'[i] = receipts[i]
        BY <2>1, <4>2 DEF IsLast
      <4> QED BY <4>1, <4>2, <4>3, <4>4
    <3> QED BY <3>1, <3>2
  <2>3. \A i \in 1..Len(repaid') : repaid'[i].payment \in 1..Len(receipts')
    <3>1. repaid' = repaid
      BY <1>3 DEF Bought
    <3>2. \A i \in 1..Len(repaid) : repaid[i].payment \in 1..Len(receipts)
      BY <1>1 DEF Backed
    <3> QED BY <2>1, <3>1, <3>2
  <2> QED BY <1>2, <2>1, <2>2, <2>3 DEF Backed, IsPaid
<1>4. ASSUME SamePayments, \A i \in 1..Len(repaid') : repaid'[i].payment \in 1..Len(receipts)
      PROVE  Backed'
  <2>1. receipts' = receipts
    BY <1>4 DEF SamePayments
  <2>2. ASSUME NEW o \in Orders, payment'[o] # NoEntry
        PROVE  \E i : /\ IsLast(receipts', i, o)
                      /\ receipts'[i].merchant = payment'[o].merchant
                      /\ receipts'[i].payer = payment'[o].payer
                      /\ receipts'[i].token = payment'[o].token
    BY <1>1, <1>4, <2>1, <2>2 DEF SamePayments, Backed, IsPaid
  <2>3. Len(receipts) <= MaxPayments
    BY <1>1 DEF Backed
  <2> QED BY <1>2, <1>4, <2>1, <2>2, <2>3 DEF Backed, IsPaid
<1>5. repaid' = repaid => \A i \in 1..Len(repaid') : repaid'[i].payment \in 1..Len(receipts)
  BY <1>1 DEF Backed
<1>6. ASSUME NEW r, Paying(r)
      PROVE  \A i \in 1..Len(repaid') : repaid'[i].payment \in 1..Len(receipts)
  <2>1. /\ r \in RefundIds /\ refund[r] # NoEntry /\ IsPaid(refund[r].order)
    BY <1>6 DEF Paying, Repays
  <2>2. PICK b \in Repayment : repaid' = Append(repaid, b) /\ b.payment = CurrentReceipt(refund[r].order)
    BY <1>6 DEF Paying, Repays
  <2>3. refund[r].order \in Orders
    BY <2>1, RefundOf DEF RefundsSound
  <2>4. b.payment \in 1..Len(receipts)
    BY <1>1, <2>1, <2>2, <2>3, CurrentIsLast
  <2>5. \A i \in 1..Len(repaid) : repaid[i].payment \in 1..Len(receipts)
    BY <1>1 DEF Backed
  <2>6. repaid \in Seq(Repayment)
    BY <1>1 DEF HistoriesTyped
  <2>7. /\ Len(repaid') = Len(repaid) + 1 /\ Len(repaid) \in Nat
        /\ \A i \in 1..Len(repaid) : repaid'[i] = repaid[i]
        /\ repaid'[Len(repaid) + 1] = b
    BY <2>2, <2>6
  <2> QED BY <2>4, <2>5, <2>7
<1>7. SamePayments => Backed' \/ repaid' # repaid
  BY <1>4, <1>5
<1>8. ASSUME NEW r, Paying(r) PROVE Backed'
  BY <1>4, <1>6, <1>8, OthersKeepPayments
<1>9. ASSUME \/ \E r, s : Requested(r, s)
             \/ \E r, s : Decided(r, s)
             \/ \E d, x : Disputed(d, x)
             \/ \E d, x : Discussed(d, x)
             \/ \E o, q : Corrected(o, q)
             \/ Dropped
             \/ Idles
      PROVE  Backed'
  <2>1. SamePayments
    BY <1>9, OthersKeepPayments
  <2>2. repaid' = repaid
    BY <1>9 DEF Requested, Decided, Disputed, Discussed, Corrected, Dropped, Idles, SameMoney
  <2> QED BY <1>7, <2>1, <2>2
<1> QED BY <1>3, <1>8, <1>9, RefundsStepCases

\* A step that writes one refund, one dispute or both.
LEMMA RecordTypesStep ==
    ASSUME RefundsSound, [RefundsNext]_refundsVars
    PROVE  RecordTypes' /\ HistoriesTyped'
<1>1. LedgerTypeOK /\ RecordTypes /\ HistoriesTyped /\ Backed
  BY DEF RefundsSound
<1>2. /\ refund \in [RefundIds -> RefundRecord \cup {NoEntry}]
      /\ order_refunds \in [Orders -> Seq(RefundIds)]
      /\ dispute \in [DisputeIds -> DisputeRecord \cup {NoEntry}]
  BY <1>1 DEF RecordTypes
<1>3. repaid \in Seq(Repayment) /\ overridden \subseteq Orders /\ irregular \subseteq Orders
  BY <1>1 DEF HistoriesTyped
<1>4. ASSUME NEW r, NEW s, Marks(r, s), r \in RefundIds
      PROVE  refund' \in [RefundIds -> RefundRecord \cup {NoEntry}]
  BY <1>1, <1>4, RefundAt DEF Marks
<1>5. ASSUME NEW d, NEW x, Continues(d, x)
      PROVE  dispute' \in [DisputeIds -> DisputeRecord \cup {NoEntry}]
  BY <1>1, <1>5, DisputeAt DEF Continues
<1>6. ASSUME NEW p, NEW it, NEW n, Bought(p, it, n) PROVE RecordTypes' /\ HistoriesTyped'
  <2>1. it.order \in Orders
    BY <1>1, <1>6, BoughtFacts
  <2>2. irregular' \in {irregular, irregular \cup {it.order}} /\ overridden' = overridden \ {it.order}
    BY <1>6 DEF Bought
  <2>3. UNCHANGED <<refund, order_refunds, dispute, repaid>>
    BY <1>6 DEF Bought, recordVars
  <2> QED BY <1>2, <1>3, <2>1, <2>2, <2>3 DEF RecordTypes, HistoriesTyped
<1>7. ASSUME NEW r, NEW s, Requested(r, s) PROVE RecordTypes' /\ HistoriesTyped'
  <2>1. s.order \in Orders /\ r \in RefundIds /\ s \in RefundRecord
    BY <1>7 DEF Requested, RefundRecord
  <2>2. refund' \in [RefundIds -> RefundRecord \cup {NoEntry}]
    BY <1>1, <1>7, <2>1, RefundAt DEF Requested
  <2>3. order_refunds' = [order_refunds EXCEPT ![s.order] = Append(order_refunds[s.order], r)]
    BY <1>7 DEF Requested
  <2>4. Append(order_refunds[s.order], r) \in Seq(RefundIds)
    BY <1>2, <2>1
  <2>5. order_refunds' \in [Orders -> Seq(RefundIds)]
    BY <1>2, <2>1, <2>3, <2>4
  <2>6. irregular' \in {irregular, irregular \cup {s.order}}
    BY <1>7 DEF Requested
  <2>7. UNCHANGED <<dispute, repaid, overridden>>
    BY <1>7 DEF Requested, SameMoney
  <2> QED BY <1>2, <1>3, <2>1, <2>2, <2>5, <2>6, <2>7 DEF RecordTypes, HistoriesTyped
<1>8. ASSUME NEW r, NEW s, Decided(r, s) PROVE RecordTypes' /\ HistoriesTyped'
  <2>1. UNCHANGED <<order_refunds, dispute, repaid, overridden, irregular>>
    BY <1>8 DEF Decided, SameMoney
  <2>2. refund' \in [RefundIds -> RefundRecord \cup {NoEntry}]
    BY <1>4, <1>8 DEF Decided
  <2> QED BY <1>2, <1>3, <2>1, <2>2 DEF RecordTypes, HistoriesTyped
<1>9. ASSUME NEW r, Paying(r) PROVE RecordTypes' /\ HistoriesTyped'
  <2>1. refund' \in [RefundIds -> RefundRecord \cup {NoEntry}]
    BY <1>4, <1>9 DEF Paying, Repays
  <2>2. PICK b \in Repayment : repaid' = Append(repaid, b)
    BY <1>9 DEF Paying, Repays
  <2>3. repaid' \in Seq(Repayment)
    BY <1>3, <2>2
  <2>4. UNCHANGED <<order_refunds, overridden, irregular>>
    BY <1>9 DEF Paying, Repays
  <2>5. dispute' \in [DisputeIds -> DisputeRecord \cup {NoEntry}]
    BY <1>2, <1>5, <1>9 DEF Paying
  <2> QED BY <1>2, <1>3, <2>1, <2>3, <2>4, <2>5 DEF RecordTypes, HistoriesTyped
<1>10. ASSUME NEW d, NEW x, Disputed(d, x) PROVE RecordTypes' /\ HistoriesTyped'
  <2>1. dispute' \in [DisputeIds -> DisputeRecord \cup {NoEntry}]
    BY <1>1, <1>10, DisputeAt DEF Disputed
  <2>2. UNCHANGED <<refund, order_refunds, repaid, overridden>>
    BY <1>10 DEF Disputed, SameMoney
  <2>3. irregular' \subseteq Orders
    <3>1. CASE irregular' = irregular
      BY <1>3, <3>1
    <3>2. CASE /\ x.refund \in RefundIds /\ HasStatus(x.refund, {"Rejected"})
               /\ irregular' \in {irregular, irregular \cup {refund[x.refund].order}}
      <4>1. refund[x.refund].order \in Orders
        BY <1>1, <3>2, RefundOf DEF HasStatus
      <4> QED BY <1>3, <3>2, <4>1
    <3> QED BY <1>10, <3>1, <3>2 DEF Disputed
  <2> QED BY <1>2, <1>3, <2>1, <2>2, <2>3 DEF RecordTypes, HistoriesTyped
<1>11. ASSUME NEW d, NEW x, Discussed(d, x) PROVE RecordTypes' /\ HistoriesTyped'
  <2>1. UNCHANGED <<refund, order_refunds, repaid, overridden, irregular>>
    BY <1>11 DEF Discussed, SameMoney
  <2>2. dispute' \in [DisputeIds -> DisputeRecord \cup {NoEntry}]
    BY <1>5, <1>11 DEF Discussed
  <2> QED BY <1>2, <1>3, <2>1, <2>2 DEF RecordTypes, HistoriesTyped
<1>12. ASSUME NEW o, NEW q, Corrected(o, q) PROVE RecordTypes' /\ HistoriesTyped'
  <2>1. /\ o \in Orders /\ UNCHANGED <<refund, order_refunds, dispute, repaid>>
        /\ overridden' = overridden \cup {o} /\ irregular' = irregular \cup {o}
    BY <1>12 DEF Corrected, recordVars
  <2> QED BY <1>2, <1>3, <2>1 DEF RecordTypes, HistoriesTyped
<1>13. ASSUME Dropped PROVE RecordTypes' /\ HistoriesTyped'
  BY <1>3, <1>13 DEF Dropped, HistoriesTyped
<1>14. ASSUME Idles PROVE RecordTypes' /\ HistoriesTyped'
  BY <1>2, <1>3, <1>14 DEF Idles, SameMoney, recordVars, RecordTypes, HistoriesTyped
<1> QED BY <1>6, <1>7, <1>8, <1>9, <1>10, <1>11, <1>12, <1>13, <1>14, RefundsStepCases

LEMMA InitSound ==
    ASSUME RefundsInit
    PROVE  RefundsSound
<1>1. LedgerTypeOK
  BY InitTypes DEF RefundsInit
<1>2. receipts = <<>> /\ fee = [bps |-> 0, recipient |-> NoEntry] /\ payment = [o \in Orders |-> NoEntry]
  BY DEF RefundsInit, LedgerInit
<1>3. repaid = <<>> /\ overridden = {} /\ irregular = {}
  BY DEF RefundsInit
<1>4. Len(receipts) = 0 /\ Len(repaid) = 0
  BY <1>2, <1>3
<1>5. Backed
  BY <1>2, <1>4 DEF Backed, IsPaid
<1>6. repaid \in Seq(Repayment)
  BY <1>3
<1>7. HistoriesTyped
  BY <1>3, <1>6 DEF HistoriesTyped
<1>8. RecordTypes
  <2>1. <<>> \in Seq(RefundIds)
    OBVIOUS
  <2> QED BY <2>1 DEF RefundsInit, RecordTypes
<1> QED BY <1>1, <1>5, <1>7, <1>8 DEF RefundsSound

LEMMA AlwaysRefundsSound == RefundsSpec => []RefundsSound
<1>1. RefundsInit => RefundsSound
  BY InitSound
<1>2. RefundsSound /\ [RefundsNext]_refundsVars => RefundsSound'
  <2> SUFFICES ASSUME RefundsSound, [RefundsNext]_refundsVars PROVE RefundsSound'
    OBVIOUS
  <2>1. LedgerTypeOK'
    BY RefundsStepCases
  <2> QED BY <2>1, RecordTypesStep, BackedStep DEF RefundsSound
<1> QED BY <1>1, <1>2, PTL DEF RefundsSpec

\* Refunds, disputes, lists, totals and counters are always what storage can
\* hold, whatever was archived, cleaned up or entered again under a used id.
THEOREM RefundsTypesCorrect == RefundsSpec => []RefundsTypeOK
<1>1. RefundsSound => RefundsTypeOK
  BY DEF RefundsSound, RecordTypes, HistoriesTyped, Repayment, RefundsTypeOK
<1> QED BY <1>1, AlwaysRefundsSound, PTL

-----------------------------------------------------------------------------
(* The status of a payment agrees with what was refunded of it *)

\* What is written over a stored payment is an amendment of it.
LEMMA PaymentAfter ==
    ASSUME RefundsSound, [RefundsNext]_refundsVars, NEW o \in Orders, payment'[o] # NoEntry,
           payment'[o] # payment[o]
    PROVE  \/ \E p, it, n : Bought(p, it, n) /\ o = it.order
           \/ /\ IsPaid(o)
              /\ \E q : Amends(o, q) /\ payment'[o] = q
<1>1. LedgerTypeOK /\ RecordTypes
  BY DEF RefundsSound
<1>2. ASSUME NEW p, NEW it, NEW n, Bought(p, it, n) PROVE o = it.order
  BY <1>1, <1>2, BoughtFacts
<1>3. ASSUME NEW u \in Orders, IsPaid(u), NEW q, Amends(u, q)
      PROVE  IsPaid(o) /\ Amends(o, q) /\ payment'[o] = q
  <2>1. \A p \in Orders : payment'[p] = IF p = u THEN q ELSE payment[p]
    BY <1>1, <1>3, AmendsAt
  <2>2. u = o
    BY <2>1
  <2> QED BY <1>3, <2>1, <2>2
<1>4. ASSUME NEW r, Paying(r) PROVE IsPaid(o) /\ \E q : Amends(o, q) /\ payment'[o] = q
  <2>1. r \in RefundIds /\ refund[r] # NoEntry /\ IsPaid(refund[r].order)
    BY <1>4 DEF Paying, Repays
  <2>2. PICK q : Amends(refund[r].order, q)
    BY <1>4 DEF Paying, Repays
  <2>3. refund[r].order \in Orders
    BY <1>1, <2>1, RefundOf
  <2> QED BY <1>3, <2>1, <2>2, <2>3
<1>5. ASSUME NEW u, NEW q, Corrected(u, q)
      PROVE  IsPaid(o) /\ Amends(o, q) /\ payment'[o] = q
  BY <1>3, <1>5 DEF Corrected
<1>6. ASSUME Dropped PROVE FALSE
  BY <1>6 DEF Dropped
<1>7. ASSUME SameMoney PROVE FALSE
  BY <1>7 DEF SameMoney
<1>8. \/ \E p, it, n : Bought(p, it, n)
      \/ \E r : Paying(r)
      \/ \E u, q : Corrected(u, q)
      \/ Dropped
      \/ SameMoney
  BY RefundsStepCases DEF Requested, Decided, Disputed, Discussed, Idles
<1> QED BY <1>2, <1>4, <1>5, <1>6, <1>7, <1>8

StatusFits(p) ==
    /\ p.status = "Completed" => p.refunded_amount = 0
    /\ p.status = "FullyRefunded" <=> p.refunded_amount >= p.amount

LEMMA StatusStep ==
    ASSUME RefundsSound, StatusMatchesAmount, [RefundsNext]_refundsVars
    PROVE  StatusMatchesAmount'
<1>1. LedgerTypeOK
  BY DEF RefundsSound
<1>2. \A o \in Orders : payment[o] # NoEntry => StatusFits(payment[o])
  BY DEF StatusMatchesAmount, StatusFits, IsPaid
<1>3. ASSUME NEW o \in Orders, payment'[o] # NoEntry PROVE StatusFits(payment'[o])
  <2>1. CASE payment'[o] = payment[o]
    BY <1>2, <1>3, <2>1
  <2>2. ASSUME NEW p, NEW it, NEW n, Bought(p, it, n), o = it.order
        PROVE  StatusFits(payment'[o])
    <3>1. payment'[o] = NewRecord(p, it, 0) /\ it.amount \in Nat \ {0}
      BY <1>1, <2>2, BoughtFacts DEF Paid
    <3>2. /\ payment'[o].status = "Completed" /\ payment'[o].refunded_amount = 0
          /\ payment'[o].amount = it.amount
      BY <3>1 DEF NewRecord
    <3> QED BY <3>1, <3>2 DEF StatusFits
  <2>3. ASSUME NEW q, Amends(o, q), payment'[o] = q PROVE StatusFits(payment'[o])
    <3>1. q \in PaymentOrder /\ q.status = StatusFor(q.refunded_amount, q.amount)
      BY <2>3 DEF Amends
    <3>2. StatusFits(q)
      BY <3>1 DEF StatusFor, StatusFits
    <3> QED BY <2>3, <3>2
  <2> QED BY <1>3, <2>1, <2>2, <2>3, PaymentAfter
<1> QED BY <1>3 DEF StatusMatchesAmount, StatusFits, IsPaid

\* Whoever wrote the refunded amount of a payment, a refund executed, a dispute
\* resolved or an override, left the status that goes with it.
THEOREM StatusAlwaysMatches == RefundsSpec => []StatusMatchesAmount
<1>1. RefundsInit => StatusMatchesAmount
  BY DEF RefundsInit, LedgerInit, StatusMatchesAmount, IsPaid
<1>2. RefundsSound /\ StatusMatchesAmount /\ [RefundsNext]_refundsVars => StatusMatchesAmount'
  BY StatusStep
<1> QED BY <1>1, <1>2, AlwaysRefundsSound, PTL DEF RefundsSpec

-----------------------------------------------------------------------------
(* Every stored refund is listed under its order *)

LEMMA AppendHas ==
    \A s \in Seq(RefundIds) : \A r \in RefundIds :
        Entries(Append(s, r)) = Entries(s) \cup {r}
<1> SUFFICES ASSUME NEW s \in Seq(RefundIds), NEW r \in RefundIds
             PROVE  Entries(Append(s, r)) = Entries(s) \cup {r}
  OBVIOUS
<1> DEFINE t == Append(s, r)
<1>1. /\ Len(s) \in Nat /\ Len(t) = Len(s) + 1
      /\ t[Len(s) + 1] = r /\ \A i \in 1..Len(s) : t[i] = s[i]
  OBVIOUS
<1> HIDE DEF t
<1>2. Entries(t) = Entries(s) \cup {r}
  <2>1. Entries(s) \subseteq Entries(t) /\ r \in Entries(t)
    BY <1>1 DEF Entries
  <2>2. ASSUME NEW x \in Entries(t) PROVE x \in Entries(s) \cup {r}
    <3>1. PICK i \in 1..Len(t) : x = t[i]
      BY DEF Entries
    <3>2. i \in 1..Len(s) \/ i = Len(s) + 1
      BY <1>1, <3>1
    <3> QED BY <1>1, <3>1, <3>2 DEF Entries
  <2> QED BY <2>1, <2>2
<1> QED BY <1>2 DEF t

LEMMA RefundIndexedStep ==
    ASSUME RefundsSound, RefundIndexed, [RefundsNext]_refundsVars
    PROVE  RefundIndexed'
<1>1. LedgerTypeOK /\ RecordTypes
  BY DEF RefundsSound
<1>2. \A r \in RefundIds : refund[r] # NoEntry => r \in Entries(order_refunds[refund[r].order])
  BY DEF RefundIndexed
<1>3. ASSUME NEW r, NEW s, Requested(r, s) PROVE RefundIndexed'
  <2>1. r \in RefundIds /\ s \in RefundRecord /\ s.order \in Orders
    BY <1>3 DEF Requested, RefundRecord
  <2>2. \A u \in RefundIds : refund'[u] = IF u = r THEN s ELSE refund[u]
    BY <1>1, <1>3, <2>1, RefundAt DEF Requested
  <2>3. order_refunds \in [Orders -> Seq(RefundIds)]
    BY <1>1 DEF RecordTypes
  <2>4. \A o \in Orders : order_refunds'[o] = IF o = s.order THEN Append(order_refunds[o], r)
                                              ELSE order_refunds[o]
    BY <1>3, <2>1, <2>3 DEF Requested
  <2>5. \A o \in Orders : Entries(order_refunds[o]) \subseteq Entries(order_refunds'[o])
    BY <2>1, <2>3, <2>4, AppendHas
  <2>6. r \in Entries(order_refunds'[s.order])
    BY <2>1, <2>3, <2>4, AppendHas
  <2>7. ASSUME NEW u \in RefundIds, refund'[u] # NoEntry
        PROVE  u \in Entries(order_refunds'[refund'[u].order])
    <3>1. CASE u = r
      BY <2>2, <2>6, <3>1
    <3>2. CASE u # r
      <4>1. refund'[u] = refund[u] /\ refund[u] # NoEntry
        BY <2>2, <2>7, <3>2
      <4>2. refund[u].order \in Orders
        BY <1>1, <4>1, RefundOf
      <4> QED BY <1>2, <2>5, <4>1, <4>2
    <3> QED BY <3>1, <3>2
  <2> QED BY <2>7 DEF RefundIndexed
<1>4. ASSUME NEW r \in RefundIds, refund[r] # NoEntry, NEW s, Marks(r, s), order_refunds' = order_refunds
      PROVE  RefundIndexed'
  <2>1. \A u \in RefundIds : refund'[u] = IF u = r THEN s ELSE refund[u]
    BY <1>1, <1>4, RefundAt DEF Marks
  <2>2. s.order = refund[r].order
    BY <1>4 DEF Marks
  <2> QED BY <1>2, <1>4, <2>1, <2>2 DEF RefundIndexed
<1>5. ASSUME NEW r, NEW s, Decided(r, s) PROVE RefundIndexed'
  BY <1>4, <1>5 DEF Decided, HasStatus
<1>6. ASSUME NEW r, Paying(r) PROVE RefundIndexed'
  BY <1>4, <1>6 DEF Paying, Repays
<1>7. ASSUME Dropped PROVE RefundIndexed'
  <2>1. ASSUME NEW r \in RefundIds, refund'[r] # NoEntry
        PROVE  r \in Entries(order_refunds'[refund'[r].order])
    <3>1. refund'[r] = refund[r] /\ refund[r] # NoEntry
      BY <1>7, <2>1 DEF Dropped
    <3>2. refund[r].order \in Orders /\ r \in Entries(order_refunds[refund[r].order])
      BY <1>1, <1>2, <3>1, RefundOf
    <3>3. order_refunds'[refund[r].order] = order_refunds[refund[r].order]
      BY <1>7, <2>1, <3>2 DEF Dropped
    <3> QED BY <3>1, <3>2, <3>3
  <2> QED BY <2>1 DEF RefundIndexed
<1>8. ASSUME UNCHANGED <<refund, order_refunds>> PROVE RefundIndexed'
  BY <1>2, <1>8 DEF RefundIndexed
<1>9. \/ \E r, s : Requested(r, s)
      \/ \E r, s : Decided(r, s)
      \/ \E r : Paying(r)
      \/ Dropped
      \/ UNCHANGED <<refund, order_refunds>>
  BY RefundsStepCases DEF Bought, Disputed, Discussed, Corrected, Idles, recordVars
<1> QED BY <1>3, <1>5, <1>6, <1>7, <1>8, <1>9

\* No stored refund escapes the list of its order, although a clean-up empties
\* lists and the ids of orders and refunds are used again.
THEOREM RefundsAlwaysIndexed == RefundsSpec => []RefundIndexed
<1>1. RefundsInit => RefundIndexed
  BY DEF RefundsInit, RefundIndexed
<1>2. RefundsSound /\ RefundIndexed /\ [RefundsNext]_refundsVars => RefundIndexed'
  BY RefundIndexedStep
<1> QED BY <1>1, <1>2, AlwaysRefundsSound, PTL DEF RefundsSpec

-----------------------------------------------------------------------------
(* Refunds that go one after the other never exceed the payment *)

Stored(r, o) == refund[r] # NoEntry /\ refund[r].order = o

Disputing(d, r) == dispute[d] # NoEntry /\ dispute[d].refund = r /\ dispute[d].status # "Resolved"

Fits(r, o) == payment[o].refunded_amount + refund[r].amount <= payment[o].amount

\* A stored refund is of an order that was paid at some time.
RefundsOfReceipts ==
    \A r \in RefundIds : refund[r] # NoEntry =>
        \E i \in 1..Len(receipts) : receipts[i].order = refund[r].order

\* At most one refund of the order may still be paid, and it fits; one that is
\* in dispute was rejected, and is in one dispute only.
OneByOne(o) ==
    /\ IsPaid(o) => payment[o].refunded_amount <= payment[o].amount
    /\ \A r \in RefundIds : Stored(r, o) =>
          /\ \A d \in DisputeIds : Disputing(d, r) =>
                /\ refund[r].status = "Rejected"
                /\ \A e \in DisputeIds : Disputing(e, r) => e = d
          /\ MayBePaid(r) =>
                /\ IsPaid(o) => Fits(r, o)
                /\ \A s \in RefundIds : Stored(s, o) /\ MayBePaid(s) => s = r

Capped == RefundsOfReceipts /\ \A o \in Orders : o \notin irregular => OneByOne(o)

LEMMA DisputeMeans ==
    /\ \A r : InDispute(r) <=> \E d \in DisputeIds : Disputing(d, r)
    /\ \A r : InDispute(r)' <=> \E d \in DisputeIds : Disputing(d, r)'
BY DEF InDispute, Disputing

LEMMA MayBePaidMeans ==
    /\ \A r : MayBePaid(r) <=> /\ refund[r] # NoEntry
                               /\ \/ refund[r].status \in {"Pending", "Approved"}
                                  \/ refund[r].status = "Rejected" /\ InDispute(r)
    /\ \A r : MayBePaid(r)' <=> /\ refund'[r] # NoEntry
                                /\ \/ refund'[r].status \in {"Pending", "Approved"}
                                   \/ refund'[r].status = "Rejected" /\ InDispute(r)'
BY DEF MayBePaid, HasStatus

\* What a step must not do to an order it is not about.
NothingNew(o) ==
    /\ payment'[o] # NoEntry => payment'[o] = payment[o]
    /\ \A r \in RefundIds : Stored(r, o)' =>
          /\ Stored(r, o) /\ refund'[r].amount = refund[r].amount
          /\ \A d \in DisputeIds : Disputing(d, r)' =>
                Disputing(d, r) /\ refund'[r].status = refund[r].status
          /\ MayBePaid(r)' => MayBePaid(r)

LEMMA NothingNewKeeps ==
    ASSUME NEW o, OneByOne(o), NothingNew(o)
    PROVE  OneByOne(o)'
<1>1. payment'[o] # NoEntry =>
         payment[o] # NoEntry /\ payment'[o] = payment[o]
         /\ payment'[o].refunded_amount <= payment'[o].amount
  BY DEF OneByOne, NothingNew, IsPaid
<1>2. ASSUME NEW r \in RefundIds, Stored(r, o)'
      PROVE  /\ \A d \in DisputeIds : Disputing(d, r)' =>
                   /\ refund'[r].status = "Rejected"
                   /\ \A e \in DisputeIds : Disputing(e, r)' => e = d
             /\ MayBePaid(r)' =>
                   /\ payment'[o] # NoEntry =>
                         payment'[o].refunded_amount + refund'[r].amount <= payment'[o].amount
                   /\ \A s \in RefundIds : Stored(s, o)' /\ MayBePaid(s)' => s = r
  <2>1. /\ Stored(r, o) /\ refund'[r].amount = refund[r].amount
        /\ \A d \in DisputeIds : Disputing(d, r)' =>
              Disputing(d, r) /\ refund'[r].status = refund[r].status
        /\ MayBePaid(r)' => MayBePaid(r)
    BY <1>2 DEF NothingNew
  <2>2. /\ \A d \in DisputeIds : Disputing(d, r) =>
              /\ refund[r].status = "Rejected"
              /\ \A e \in DisputeIds : Disputing(e, r) => e = d
        /\ MayBePaid(r) =>
              /\ payment[o] # NoEntry =>
                    payment[o].refunded_amount + refund[r].amount <= payment[o].amount
              /\ \A s \in RefundIds : Stored(s, o) /\ MayBePaid(s) => s = r
    BY <2>1 DEF OneByOne, IsPaid, Fits
  <2>3. \A s \in RefundIds : Stored(s, o)' /\ MayBePaid(s)' => Stored(s, o) /\ MayBePaid(s)
    BY DEF NothingNew
  <2> QED BY <1>1, <2>1, <2>2, <2>3
<1> QED BY <1>1, <1>2 DEF OneByOne, IsPaid, Fits

\* A step that leaves the refunds alone, and the disputes about those of the
\* order, is not about it.
LEMMA SameRefundsNothingNew ==
    ASSUME NEW o, payment'[o] # NoEntry => payment'[o] = payment[o],
           \A r \in RefundIds : Stored(r, o)' => refund'[r] = refund[r],
           \A r \in RefundIds, d \in DisputeIds : Stored(r, o)' /\ Disputing(d, r)' => Disputing(d, r)
    PROVE  NothingNew(o)
<1>1. ASSUME NEW r \in RefundIds, Stored(r, o)'
      PROVE  /\ Stored(r, o) /\ refund'[r].amount = refund[r].amount
             /\ \A d \in DisputeIds : Disputing(d, r)' =>
                   Disputing(d, r) /\ refund'[r].status = refund[r].status
             /\ MayBePaid(r)' => MayBePaid(r)
  <2>1. refund'[r] = refund[r]
    BY <1>1
  <2>2. Stored(r, o)
    BY <1>1, <2>1 DEF Stored
  <2>3. InDispute(r)' => InDispute(r)
    BY <1>1, DisputeMeans
  <2>4. MayBePaid(r)' => MayBePaid(r)
    BY <2>1, <2>3, MayBePaidMeans
  <2> QED BY <1>1, <2>1, <2>2, <2>4
<1> QED BY <1>1 DEF NothingNew

LEMMA OfReceiptsStep ==
    ASSUME RefundsSound, RefundsOfReceipts, [RefundsNext]_refundsVars
    PROVE  RefundsOfReceipts'
<1>1. LedgerTypeOK /\ RecordTypes /\ Backed
  BY DEF RefundsSound
<1>2. \A i \in 1..Len(receipts) : i \in 1..Len(receipts') /\ receipts'[i] = receipts[i]
  <2>1. ASSUME NEW p, NEW it, NEW n, Bought(p, it, n)
        PROVE  \A i \in 1..Len(receipts) : i \in 1..Len(receipts') /\ receipts'[i] = receipts[i]
    BY <1>1, <2>1, BoughtFacts
  <2>2. CASE receipts' = receipts
    BY <2>2
  <2>3. (\E p, it, n : Bought(p, it, n)) \/ receipts' = receipts
    BY RefundsStepCases, OthersKeepPayments DEF SamePayments
  <2> QED BY <2>1, <2>2, <2>3
<1>3. ASSUME NEW o, \E i \in 1..Len(receipts) : receipts[i].order = o
      PROVE  \E i \in 1..Len(receipts') : receipts'[i].order = o
  BY <1>2, <1>3
<1>4. ASSUME NEW r \in RefundIds, refund'[r] # NoEntry
      PROVE  \E i \in 1..Len(receipts) : receipts[i].order = refund'[r].order
  <2>1. CASE refund[r] # NoEntry /\ refund'[r].order = refund[r].order
    BY <2>1 DEF RefundsOfReceipts
  <2>2. ASSUME NEW u, NEW s, Requested(u, s), refund'[r] # refund[r]
        PROVE  \E i \in 1..Len(receipts) : receipts[i].order = refund'[r].order
    <3>1. u \in RefundIds /\ s \in RefundRecord /\ IsPaid(s.order) /\ s.order \in Orders
      BY <2>2 DEF Requested, RefundRecord
    <3>2. refund'[r] = s
      BY <1>1, <2>2, <3>1, RefundAt DEF Requested
    <3>3. PICK i : IsLast(receipts, i, s.order)
      BY <1>1, <3>1 DEF Backed
    <3> QED BY <3>2, <3>3 DEF IsLast
  <2>3. ASSUME NEW u \in RefundIds, refund[u] # NoEntry, NEW s, Marks(u, s)
        PROVE  refund'[r] = refund[r] \/ (refund[r] # NoEntry /\ refund'[r].order = refund[r].order)
    BY <1>1, <2>3, RefundAt DEF Marks
  <2>4. \/ \E u, s : Requested(u, s)
        \/ \E u \in RefundIds : \E s : refund[u] # NoEntry /\ Marks(u, s)
        \/ refund'[r] = refund[r]
    BY <1>4, RefundsStepCases
    DEF Bought, Decided, HasStatus, Paying, Repays, Dropped, Disputed, Discussed, Corrected, Idles,
        recordVars
  <2> QED BY <1>4, <2>1, <2>2, <2>3, <2>4
<1> QED BY <1>3, <1>4 DEF RefundsOfReceipts

LEMMA BoughtOneByOne ==
    ASSUME RefundsSound, Capped, NEW p, NEW it, NEW n, Bought(p, it, n),
           NEW o \in Orders, o \notin irregular'
    PROVE  OneByOne(o)'
<1>1. LedgerTypeOK
  BY DEF RefundsSound
<1>2. /\ it \in Paid /\ payment'[it.order] = NewRecord(p, it, 0)
      /\ \A u \in Orders : u # it.order => payment'[u] = payment[u]
  BY <1>1, BoughtFacts
<1>3. UNCHANGED <<refund, dispute>>
  BY DEF Bought, recordVars
<1>4. irregular' = IF \E i \in 1..Len(receipts) : receipts[i].order = it.order
                   THEN irregular \cup {it.order} ELSE irregular
  BY DEF Bought
<1>5. CASE o # it.order
  <2>1. payment'[o] = payment[o]
    BY <1>2, <1>5
  <2>2. NothingNew(o)
    BY <1>3, <2>1, SameRefundsNothingNew DEF Stored, Disputing
  <2>3. OneByOne(o)
    BY <1>4 DEF Capped
  <2> QED BY <2>2, <2>3, NothingNewKeeps
<1>6. CASE o = it.order
  <2>1. ~ \E i \in 1..Len(receipts) : receipts[i].order = o
    BY <1>4, <1>6
  <2>2. ASSUME NEW r \in RefundIds, Stored(r, o)' PROVE FALSE
    BY <1>3, <2>1, <2>2 DEF Capped, RefundsOfReceipts, Stored
  <2>3. payment'[o].refunded_amount = 0 /\ payment'[o].amount = it.amount /\ it.amount \in Nat
    BY <1>2, <1>6 DEF NewRecord, Paid
  <2>4. payment'[o].refunded_amount <= payment'[o].amount
    BY <2>3
  <2> QED BY <2>2, <2>4 DEF OneByOne
<1> QED BY <1>5, <1>6

LEMMA RequestedOneByOne ==
    ASSUME RefundsSound, Capped, NEW r, NEW s, Requested(r, s),
           NEW o \in Orders, o \notin irregular'
    PROVE  OneByOne(o)'
<1>1. LedgerTypeOK /\ RecordTypes
  BY DEF RefundsSound
<1>2. /\ r \in RefundIds /\ s \in RefundRecord /\ refund[r] = NoEntry /\ s.status = "Pending"
      /\ payment[s.order].refunded_amount + s.amount <= payment[s.order].amount
      /\ UNCHANGED <<payment, dispute>>
      /\ irregular' = IF OtherMayBePaid(r, s.order) \/ InDispute(r)
                      THEN irregular \cup {s.order} ELSE irregular
  BY DEF Requested, SameMoney
<1>3. \A u \in RefundIds : refund'[u] = IF u = r THEN s ELSE refund[u]
  BY <1>1, <1>2, RefundAt DEF Requested
<1>4. OneByOne(o)
  BY <1>2 DEF Capped
<1>5. CASE o # s.order
  <2>1. \A u \in RefundIds : Stored(u, o)' => refund'[u] = refund[u]
    BY <1>3, <1>5 DEF Stored
  <2>2. NothingNew(o)
    BY <1>2, <2>1, SameRefundsNothingNew DEF Disputing
  <2> QED BY <1>4, <2>2, NothingNewKeeps
<1>6. CASE o = s.order
  <2>1. ~OtherMayBePaid(r, o) /\ ~InDispute(r)
    BY <1>2, <1>6
  <2>2. \A u : InDispute(u)' <=> InDispute(u)
    BY <1>2, DisputeMeans DEF Disputing
  <2>3. \A d, u : Disputing(d, u)' <=> Disputing(d, u)
    BY <1>2 DEF Disputing
  <2>4. ASSUME NEW u \in RefundIds, u # r
        PROVE  (MayBePaid(u)' => MayBePaid(u)) /\ (Stored(u, o)' => Stored(u, o) /\ ~MayBePaid(u))
    <3>1. refund'[u] = refund[u]
      BY <1>3, <2>4
    <3>2. MayBePaid(u)' => MayBePaid(u)
      BY <2>2, <3>1, MayBePaidMeans
    <3>3. Stored(u, o)' => Stored(u, o) /\ refund[u].order = o
      BY <3>1 DEF Stored
    <3> QED BY <2>1, <2>4, <3>2, <3>3 DEF OtherMayBePaid
  <2>5. ASSUME NEW u \in RefundIds, Stored(u, o)'
        PROVE  /\ \A d \in DisputeIds : Disputing(d, u)' =>
                     /\ refund'[u].status = "Rejected"
                     /\ \A e \in DisputeIds : Disputing(e, u)' => e = d
               /\ MayBePaid(u)' =>
                     /\ payment'[o].refunded_amount + refund'[u].amount <= payment'[o].amount
                     /\ \A v \in RefundIds : Stored(v, o)' /\ MayBePaid(v)' => v = u
    <3>1. CASE u = r
      <4>1. \A d \in DisputeIds : ~Disputing(d, u)'
        BY <2>1, <2>3, <3>1, DisputeMeans
      <4>2. refund'[u] = s
        BY <1>3, <3>1
      <4>3. \A v \in RefundIds : Stored(v, o)' /\ MayBePaid(v)' => v = u
        BY <2>4, <3>1
      <4> QED BY <1>2, <1>6, <4>1, <4>2, <4>3
    <3>2. CASE u # r
      <4>1. refund'[u] = refund[u] /\ Stored(u, o) /\ ~MayBePaid(u)'
        BY <1>3, <2>4, <2>5, <3>2
      <4> QED BY <1>4, <2>3, <4>1 DEF OneByOne
    <3> QED BY <3>1, <3>2
  <2>6. payment'[o] # NoEntry => payment'[o].refunded_amount <= payment'[o].amount
    BY <1>2, <1>4 DEF OneByOne, IsPaid
  <2> QED BY <2>5, <2>6 DEF OneByOne, IsPaid, Fits
<1> QED BY <1>5, <1>6

LEMMA DecidedOneByOne ==
    ASSUME RefundsSound, Capped, NEW r, NEW s, Decided(r, s),
           NEW o \in Orders, o \notin irregular'
    PROVE  OneByOne(o)'
<1>1. LedgerTypeOK /\ RecordTypes
  BY DEF RefundsSound
<1>2. /\ r \in RefundIds /\ s \in RefundRecord /\ s.order = refund[r].order /\ s.amount = refund[r].amount
      /\ refund[r] # NoEntry /\ refund[r].status = "Pending" /\ s.status \in {"Approved", "Rejected"}
      /\ UNCHANGED <<payment, dispute, irregular>>
  BY DEF Decided, Marks, HasStatus, SameMoney
<1>3. \A u \in RefundIds : refund'[u] = IF u = r THEN s ELSE refund[u]
  BY <1>1, <1>2, RefundAt DEF Decided, Marks
<1>4. OneByOne(o)
  BY <1>2 DEF Capped
<1>5. \A u : InDispute(u)' <=> InDispute(u)
  BY <1>2, DisputeMeans DEF Disputing
<1>6. \A d, u : Disputing(d, u)' <=> Disputing(d, u)
  BY <1>2 DEF Disputing
<1>7. ASSUME NEW u \in RefundIds, Stored(u, o)'
      PROVE  /\ Stored(u, o) /\ refund'[u].amount = refund[u].amount
             /\ \A d \in DisputeIds : Disputing(d, u)' =>
                   Disputing(d, u) /\ refund'[u].status = refund[u].status
             /\ MayBePaid(u)' => MayBePaid(u)
  <2>1. CASE u = r
    <3>1. Stored(u, o) /\ refund'[u].amount = refund[u].amount
      BY <1>2, <1>3, <1>7, <2>1 DEF Stored
    <3>2. \A d \in DisputeIds : ~Disputing(d, u)
      BY <1>2, <1>4, <2>1, <3>1 DEF OneByOne
    <3>3. MayBePaid(u)
      BY <1>2, <2>1, MayBePaidMeans
    <3> QED BY <1>6, <3>1, <3>2, <3>3
  <2>2. CASE u # r
    <3>1. refund'[u] = refund[u]
      BY <1>3, <2>2
    <3>2. MayBePaid(u)' => MayBePaid(u)
      BY <1>5, <3>1, MayBePaidMeans
    <3> QED BY <1>6, <1>7, <3>1, <3>2 DEF Stored
  <2> QED BY <2>1, <2>2
<1>8. NothingNew(o)
  BY <1>2, <1>7 DEF NothingNew
<1> QED BY <1>4, <1>8, NothingNewKeeps

LEMMA ContinuesAt ==
    ASSUME RecordTypes, NEW d, NEW x, Continues(d, x)
    PROVE  /\ \A e \in DisputeIds : \A u : Disputing(e, u)' => Disputing(e, u)
           /\ \A u : Disputing(d, u) => x.refund = u
           /\ x.status = "Resolved" => \A u : ~Disputing(d, u)'
<1>1. /\ d \in DisputeIds /\ x \in DisputeRecord
      /\ dispute[d] # NoEntry /\ dispute[d].status # "Resolved" /\ x.refund = dispute[d].refund
  BY DEF Continues
<1>2. \A e \in DisputeIds : dispute'[e] = IF e = d THEN x ELSE dispute[e]
  BY <1>1, DisputeAt DEF Continues
<1> QED BY <1>1, <1>2 DEF Disputing

\* The refund a step pays may be paid, and is in no dispute afterwards.
LEMMA PayingFacts ==
    ASSUME RefundsSound, Capped, NEW r, Paying(r), refund[r].order \notin irregular
    PROVE  /\ MayBePaid(r)
           /\ \A d \in DisputeIds : ~Disputing(d, r)'
<1>1. LedgerTypeOK /\ RecordTypes
  BY DEF RefundsSound
<1>2. r \in RefundIds /\ refund[r] # NoEntry
  BY DEF Paying, Repays
<1>3. refund[r].order \in Orders /\ Stored(r, refund[r].order)
  BY <1>1, <1>2, RefundOf DEF Stored
<1>4. OneByOne(refund[r].order)
  BY <1>3 DEF Capped
<1>5. \A d \in DisputeIds : Disputing(d, r) =>
         refund[r].status = "Rejected" /\ \A e \in DisputeIds : Disputing(e, r) => e = d
  BY <1>2, <1>3, <1>4 DEF OneByOne
<1>6. CASE HasStatus(r, {"Approved"}) /\ UNCHANGED dispute
  <2>1. refund[r].status = "Approved"
    BY <1>6 DEF HasStatus
  <2>2. MayBePaid(r)
    BY <1>2, <2>1, MayBePaidMeans
  <2>3. \A d \in DisputeIds : ~Disputing(d, r)
    BY <1>5, <2>1
  <2> QED BY <1>6, <2>2, <2>3 DEF Disputing
<1>7. ASSUME NEW d, NEW x, Continues(d, x), x.status = "Resolved", x.refund = r
      PROVE  MayBePaid(r) /\ \A e \in DisputeIds : ~Disputing(e, r)'
  <2>1. d \in DisputeIds /\ Disputing(d, r)
    BY <1>7 DEF Continues, Disputing
  <2>2. refund[r].status = "Rejected" /\ \A e \in DisputeIds : Disputing(e, r) => e = d
    BY <1>5, <2>1
  <2>3. MayBePaid(r)
    BY <1>2, <2>1, <2>2, MayBePaidMeans, DisputeMeans
  <2>4. ASSUME NEW e \in DisputeIds, Disputing(e, r)' PROVE FALSE
    <3>1. Disputing(e, r)
      BY <1>1, <1>7, <2>4, ContinuesAt
    <3>2. e = d
      BY <2>2, <3>1
    <3> QED BY <1>1, <1>7, <2>4, <3>2, ContinuesAt
  <2> QED BY <2>3, <2>4
<1> QED BY <1>6, <1>7 DEF Paying

LEMMA PayingOneByOne ==
    ASSUME RefundsSound, Capped, NEW r, Paying(r), NEW o \in Orders, o \notin irregular'
    PROVE  OneByOne(o)'
<1>1. LedgerTypeOK /\ RecordTypes
  BY DEF RefundsSound
<1>2. /\ r \in RefundIds /\ refund[r] # NoEntry /\ IsPaid(refund[r].order) /\ irregular' = irregular
  BY DEF Paying, Repays
<1>3. refund[r].order \in Orders
  BY <1>1, <1>2, RefundOf
<1>4. PICK q : /\ Amends(refund[r].order, q)
               /\ q.refunded_amount = payment[refund[r].order].refunded_amount + refund[r].amount
  BY DEF Paying, Repays
<1>5. PICK s : Marks(r, s) /\ s.status = "Completed"
  BY DEF Paying, Repays
<1>6. \A p \in Orders : payment'[p] = IF p = refund[r].order THEN q ELSE payment[p]
  BY <1>1, <1>3, <1>4, AmendsAt
<1>7. \A u \in RefundIds : refund'[u] = IF u = r THEN s ELSE refund[u]
  BY <1>1, <1>2, <1>5, RefundAt DEF Marks
<1>8. s.order = refund[r].order
  BY <1>5 DEF Marks
<1>9. \A e \in DisputeIds : \A u : Disputing(e, u)' => Disputing(e, u)
  <2>1. CASE UNCHANGED dispute
    BY <2>1 DEF Disputing
  <2>2. ASSUME NEW d, NEW x, Continues(d, x)
        PROVE  \A e \in DisputeIds : \A u : Disputing(e, u)' => Disputing(e, u)
    BY <1>1, <2>2, ContinuesAt
  <2> QED BY <2>1, <2>2 DEF Paying
<1>10. OneByOne(o)
  BY <1>2 DEF Capped
<1>11. CASE o # refund[r].order
  <2>1. payment'[o] = payment[o]
    BY <1>6, <1>11
  <2>2. \A u \in RefundIds : Stored(u, o)' => refund'[u] = refund[u]
    BY <1>7, <1>8, <1>11 DEF Stored
  <2>3. NothingNew(o)
    BY <1>9, <2>1, <2>2, SameRefundsNothingNew
  <2> QED BY <1>10, <2>3, NothingNewKeeps
<1>12. CASE o = refund[r].order
  <2>1. /\ MayBePaid(r)
        /\ \A d \in DisputeIds : ~Disputing(d, r)'
    BY <1>2, <1>12, PayingFacts
  <2>2. Stored(r, o)
    BY <1>2, <1>12 DEF Stored
  <2>3. /\ payment[o].refunded_amount + refund[r].amount <= payment[o].amount
        /\ \A u \in RefundIds : Stored(u, o) /\ MayBePaid(u) => u = r
    BY <1>2, <1>10, <1>12, <2>1, <2>2 DEF OneByOne, Fits
  <2>4. q.amount = payment[o].amount
    BY <1>4, <1>12 DEF Amends
  <2>5. payment'[o].refunded_amount <= payment'[o].amount
    BY <1>4, <1>6, <1>12, <2>3, <2>4
  <2>6. ~MayBePaid(r)'
    BY <1>2, <1>5, <1>7, MayBePaidMeans
  <2>7. ASSUME NEW u \in RefundIds, Stored(u, o)'
        PROVE  /\ \A d \in DisputeIds : Disputing(d, u)' =>
                     /\ refund'[u].status = "Rejected"
                     /\ \A e \in DisputeIds : Disputing(e, u)' => e = d
               /\ ~MayBePaid(u)'
    <3>1. CASE u = r
      BY <2>1, <2>6, <3>1
    <3>2. CASE u # r
      <4>1. refund'[u] = refund[u] /\ Stored(u, o)
        BY <1>7, <2>7, <3>2 DEF Stored
      <4>2. InDispute(u)' => InDispute(u)
        BY <1>9, DisputeMeans
      <4>3. ~MayBePaid(u)'
        BY <2>3, <3>2, <4>1, <4>2, MayBePaidMeans
      <4> QED BY <1>9, <1>10, <4>1, <4>3 DEF OneByOne
    <3> QED BY <3>1, <3>2
  <2> QED BY <2>5, <2>7 DEF OneByOne
<1> QED BY <1>11, <1>12

LEMMA DisputedOneByOne ==
    ASSUME RefundsSound, Capped, NEW d, NEW x, Disputed(d, x), NEW o \in Orders, o \notin irregular'
    PROVE  OneByOne(o)'
<1>1. LedgerTypeOK /\ RecordTypes
  BY DEF RefundsSound
<1>2. /\ d \in DisputeIds /\ x \in DisputeRecord /\ dispute[d] = NoEntry
      /\ UNCHANGED <<payment, refund>>
      /\ irregular \subseteq irregular'
  BY DEF Disputed, SameMoney
<1>3. \A e \in DisputeIds : dispute'[e] = IF e = d THEN x ELSE dispute[e]
  BY <1>1, <1>2, DisputeAt DEF Disputed
<1>4. \A e \in DisputeIds : \A u : u # x.refund /\ Disputing(e, u)' => Disputing(e, u)
  BY <1>3 DEF Disputing
<1>5. OneByOne(o)
  BY <1>2 DEF Capped
<1>6. CASE ~(x.refund \in RefundIds /\ Stored(x.refund, o))
  <2>1. \A u \in RefundIds, e \in DisputeIds : Stored(u, o)' /\ Disputing(e, u)' => Disputing(e, u)
    BY <1>2, <1>4, <1>6 DEF Stored
  <2>2. NothingNew(o)
    BY <1>2, <2>1, SameRefundsNothingNew
  <2> QED BY <1>5, <2>2, NothingNewKeeps
<1>7. CASE x.refund \in RefundIds /\ Stored(x.refund, o)
  <2> DEFINE r == x.refund
  <2>1. r \in RefundIds /\ refund[r] # NoEntry /\ refund[r].order = o
    BY <1>7 DEF Stored
  <2>2. r # NoEntry
    BY <2>1, RefundsAssumption
  <2>3. /\ HasStatus(r, {"Rejected"})
        /\ irregular' = IF \/ OtherMayBePaid(r, o) \/ InDispute(r)
                           \/ payment[o].refunded_amount + refund[r].amount > payment[o].amount
                        THEN irregular \cup {o} ELSE irregular
    BY <2>1, <2>2 DEF Disputed
  <2>4. /\ ~OtherMayBePaid(r, o) /\ ~InDispute(r) /\ refund[r].status = "Rejected"
        /\ ~(payment[o].refunded_amount + refund[r].amount > payment[o].amount)
    BY <2>3 DEF HasStatus
  <2> HIDE DEF r
  <2>5. \A e \in DisputeIds : Disputing(e, r)' => e = d
    BY <1>3, <2>4, DisputeMeans DEF Disputing
  <2>6. \A e \in DisputeIds : \A u : u # r /\ Disputing(e, u)' => Disputing(e, u)
    BY <1>4 DEF r
  <2>7. ASSUME NEW u \in RefundIds, u # r, Stored(u, o)'
        PROVE  Stored(u, o) /\ ~MayBePaid(u)'
    <3>1. Stored(u, o) /\ refund'[u] = refund[u] /\ refund[u].order = o
      BY <1>2, <2>7 DEF Stored
    <3>2. InDispute(u)' => InDispute(u)
      BY <2>6, <2>7, DisputeMeans
    <3>3. MayBePaid(u)' => MayBePaid(u)
      BY <3>1, <3>2, MayBePaidMeans
    <3> QED BY <2>4, <2>7, <3>1, <3>3 DEF OtherMayBePaid
  <2>8. payment'[o] # NoEntry => payment'[o].refunded_amount + refund'[r].amount <= payment'[o].amount
    <3>1. ASSUME payment[o] # NoEntry
          PROVE  payment[o].refunded_amount + refund[r].amount <= payment[o].amount
      <4>1. /\ payment[o].refunded_amount \in Int /\ refund[r].amount \in Int
            /\ payment[o].amount \in Int
        BY <1>1, <2>1, <3>1, RefundOf DEF IsPaid
      <4> QED BY <2>4, <4>1
    <3> QED BY <1>2, <3>1
  <2>9. ASSUME NEW u \in RefundIds, Stored(u, o)'
        PROVE  /\ \A e \in DisputeIds : Disputing(e, u)' =>
                     /\ refund'[u].status = "Rejected"
                     /\ \A f \in DisputeIds : Disputing(f, u)' => f = e
               /\ MayBePaid(u)' =>
                     /\ payment'[o] # NoEntry =>
                           payment'[o].refunded_amount + refund'[u].amount <= payment'[o].amount
                     /\ \A v \in RefundIds : Stored(v, o)' /\ MayBePaid(v)' => v = u
    <3>1. CASE u = r
      BY <1>2, <2>4, <2>5, <2>7, <2>8, <3>1
    <3>2. CASE u # r
      <4>1. Stored(u, o) /\ ~MayBePaid(u)'
        BY <2>7, <2>9, <3>2
      <4> QED BY <1>2, <1>5, <2>6, <3>2, <4>1 DEF OneByOne
    <3> QED BY <3>1, <3>2
  <2>10. payment'[o] # NoEntry => payment'[o].refunded_amount <= payment'[o].amount
    BY <1>2, <1>5 DEF OneByOne, IsPaid
  <2> QED BY <2>9, <2>10 DEF OneByOne, IsPaid, Fits
<1> QED BY <1>6, <1>7

LEMMA CappedStep ==
    ASSUME RefundsSound, Capped, [RefundsNext]_refundsVars
    PROVE  Capped'
<1>1. RecordTypes /\ LedgerTypeOK
  BY DEF RefundsSound
<1>2. RefundsOfReceipts'
  BY OfReceiptsStep DEF Capped
<1>3. SUFFICES ASSUME NEW o \in Orders, o \notin irregular' PROVE OneByOne(o)'
  BY <1>2 DEF Capped
<1>4. ASSUME NEW d, NEW x, Discussed(d, x) PROVE OneByOne(o)'
  <2>1. UNCHANGED <<payment, refund, irregular>> /\ Continues(d, x)
    BY <1>4 DEF Discussed, SameMoney
  <2>2. \A e \in DisputeIds : \A u : Disputing(e, u)' => Disputing(e, u)
    BY <1>1, <2>1, ContinuesAt
  <2>3. NothingNew(o)
    BY <2>1, <2>2, SameRefundsNothingNew
  <2> QED BY <1>3, <2>1, <2>3, NothingNewKeeps DEF Capped
<1>5. ASSUME NEW u, NEW q, Corrected(u, q) PROVE OneByOne(o)'
  <2>1. UNCHANGED <<refund, dispute>> /\ u \in Orders /\ irregular' = irregular \cup {u} /\ Amends(u, q)
    BY <1>5 DEF Corrected, recordVars
  <2>2. o # u /\ o \notin irregular
    BY <1>3, <2>1
  <2>3. payment'[o] = payment[o]
    BY <1>1, <2>1, <2>2, AmendsAt
  <2>4. NothingNew(o)
    BY <2>1, <2>3, SameRefundsNothingNew DEF Disputing
  <2> QED BY <2>2, <2>4, NothingNewKeeps DEF Capped
<1>6. ASSUME Dropped PROVE OneByOne(o)'
  <2>1. UNCHANGED <<dispute, irregular>>
    BY <1>6 DEF Dropped
  <2>2. \A r \in RefundIds : Stored(r, o)' => refund'[r] = refund[r]
    BY <1>6 DEF Dropped, Stored
  <2>3. payment'[o] # NoEntry => payment'[o] = payment[o]
    BY <1>6 DEF Dropped
  <2>4. NothingNew(o)
    BY <2>1, <2>2, <2>3, SameRefundsNothingNew DEF Disputing
  <2> QED BY <1>3, <2>1, <2>4, NothingNewKeeps DEF Capped
<1>7. ASSUME Idles PROVE OneByOne(o)'
  <2>1. UNCHANGED <<payment, refund, dispute, irregular>>
    BY <1>7 DEF Idles, SameMoney, recordVars
  <2>2. NothingNew(o)
    BY <2>1, SameRefundsNothingNew DEF Disputing
  <2> QED BY <1>3, <2>1, <2>2, NothingNewKeeps DEF Capped
<1> QED BY <1>3, <1>4, <1>5, <1>6, <1>7, RefundsStepCases, BoughtOneByOne, RequestedOneByOne,
           DecidedOneByOne, PayingOneByOne, DisputedOneByOne

\* As long as the refunds of an order go one after the other, what execute_refund
\* and resolve_dispute pay without looking again never adds up to more than the
\* payment.
THEOREM RefundsAlwaysCapped == RefundsSpec => []RefundsCapped
<1>1. RefundsInit => Capped
  BY DEF RefundsInit, LedgerInit, Capped, RefundsOfReceipts, OneByOne, Stored, IsPaid
<1>2. RefundsSound /\ Capped /\ [RefundsNext]_refundsVars => Capped'
  BY CappedStep
<1>3. Capped => RefundsCapped
  BY DEF Capped, OneByOne, RefundsCapped
<1> QED BY <1>1, <1>2, <1>3, AlwaysRefundsSound, PTL DEF RefundsSpec

-----------------------------------------------------------------------------
(* Sums over the payments made and the refunds paid *)

LEMMA TotalAppended ==
    \A N \in Nat : \A f \in [1..N + 1 -> Int], g \in [1..N -> Int] :
        (\A i \in 1..N : g[i] = f[i]) => Total(f, N + 1) = Total(g, N) + f[N + 1]
<1> SUFFICES ASSUME NEW N \in Nat, NEW f \in [1..N + 1 -> Int], NEW g \in [1..N -> Int],
                    \A i \in 1..N : g[i] = f[i]
             PROVE  Total(f, N + 1) = Total(g, N) + f[N + 1]
  OBVIOUS
<1> DEFINE h == [i \in 1..1 |-> f[N + i]]
<1>1. h \in [1..1 -> Int] /\ h[1] = f[N + 1] /\ \A i \in 1..1 : h[i] = f[N + i]
  OBVIOUS
<1> HIDE DEF h
<1>2. Total(f, N + 1) = Total(g, N) + Total(h, 1)
  <2>1. \A F \in [1..N + 1 -> Int], G \in [1..N -> Int], H \in [1..1 -> Int] :
           (\A i \in 1..N : G[i] = F[i]) /\ (\A i \in 1..1 : H[i] = F[N + i])
              => Total(F, N + 1) = Total(G, N) + Total(H, 1)
    BY TotalSplit
  <2> QED BY <1>1, <2>1
<1>3. Total(h, 1) = h[1]
  BY <1>1, TotalOne
<1> QED BY <1>1, <1>2, <1>3

\* What a transfer does to every balance.
LEMMA TransferEffect ==
    ASSUME NEW t \in Tokens, NEW from \in Holders, NEW to \in Holders, NEW v \in Nat,
           balance \in [Tokens -> [Holders -> Nat]], Transfer(t, from, to, v)
    PROVE  \A u \in Tokens, h \in Holders :
              balance'[u][h] = balance[u][h]
                + (IF u = t THEN (IF h = to THEN v ELSE 0) - (IF h = from THEN v ELSE 0) ELSE 0)
<1>1. balance' = [balance EXCEPT ![t] = Moved(balance[t], from, to, v)]
  BY DEF Transfer
<1>2. \A h \in Holders : Moved(balance[t], from, to, v)[h]
                           = balance[t][h] + ((IF h = to THEN v ELSE 0) - (IF h = from THEN v ELSE 0))
  <2>1. \A h \in Holders : balance[t][h] \in Nat
    OBVIOUS
  <2>2. balance[t] \in [Holders -> Nat]
    OBVIOUS
  <2> QED BY ONLY <2>1, <2>2, v \in Nat DEF Moved
<1>3. ASSUME NEW u \in Tokens, NEW h \in Holders, u # t
      PROVE  balance'[u][h] = balance[u][h] /\ balance[u][h] \in Nat
  BY <1>1, <1>3
<1>4. ASSUME NEW h \in Holders PROVE balance'[t][h] = Moved(balance[t], from, to, v)[h]
  BY <1>1
<1> QED BY <1>2, <1>3, <1>4

\* What a payment took from and gave to account a in token t, and what a refund
\* gave back.
Sent(r, a, t) ==
    IF r.token = t
    THEN (IF r.merchant = a THEN r.amount ELSE 0) - (IF r.payer = a THEN r.amount ELSE 0)
    ELSE 0

Back(rs, b, a, t) ==
    IF rs[b.payment].token = t
    THEN (IF rs[b.payment].payer = a THEN b.amount ELSE 0)
         - (IF rs[b.payment].merchant = a THEN b.amount ELSE 0)
    ELSE 0

SentSum(rs, a, t) == Total([i \in 1..Len(rs) |-> Sent(rs[i], a, t)], Len(rs))

BackSum(rs, bs, a, t) == Total([i \in 1..Len(bs) |-> Back(rs, bs[i], a, t)], Len(bs))

Holds(bal, rs, bs, a, t) == bal[t][a] = Funds + SentSum(rs, a, t) + BackSum(rs, bs, a, t)

LEMMA RefundsReconciledMeans ==
    /\ RefundsReconciled <=> \A a \in Accounts, t \in Tokens : Holds(balance, receipts, repaid, a, t)
    /\ RefundsReconciled' <=> \A a \in Accounts, t \in Tokens :
                                 Holds(balance', receipts', repaid', a, t)
BY DEF RefundsReconciled, Holds, SentSum, BackSum, Sent, Back, SumOfReceipts, SumOfRepaid

LEMMA SentType ==
    \A r \in Receipt : \A a, t : Sent(r, a, t) \in Int
BY DEF Receipt, Sent

LEMMA BackType ==
    \A b \in Repayment : \A rs, a, t : Back(rs, b, a, t) \in Int
BY DEF Repayment, Back

LEMMA SumsTyped ==
    ASSUME RefundsSound
    PROVE  /\ Len(receipts) \in Nat /\ Len(repaid) \in Nat
           /\ \A i \in 1..Len(receipts) : receipts[i] \in Receipt
           /\ \A i \in 1..Len(repaid) : repaid[i] \in Repayment /\ repaid[i].payment \in 1..Len(receipts)
<1>1. receipts \in Seq(Receipt) /\ repaid \in Seq(Repayment)
  BY DEF RefundsSound, LedgerTypeOK, HistoriesTyped
<1>2. \A i \in 1..Len(repaid) : repaid[i].payment \in 1..Len(receipts)
  BY DEF RefundsSound, Backed
<1> QED BY <1>1, <1>2

\* One more payment; the refunds paid were for earlier ones.
LEMMA BoughtSums ==
    ASSUME RefundsSound, NEW p, NEW it, NEW n, Bought(p, it, n), NEW a, NEW t
    PROVE  /\ SentSum(receipts', a, t)
                = SentSum(receipts, a, t) + Sent(NewReceipt("nonce", p, it, 0, n), a, t)
           /\ SentSum(receipts, a, t) \in Int
           /\ BackSum(receipts', repaid', a, t) = BackSum(receipts, repaid, a, t)
           /\ Sent(NewReceipt("nonce", p, it, 0, n), a, t) \in Int
<1>1. LedgerTypeOK
  BY DEF RefundsSound
<1> DEFINE N == Len(receipts)
           new == NewReceipt("nonce", p, it, 0, n)
           f == [i \in 1..N + 1 |-> Sent(receipts'[i], a, t)]
           g == [i \in 1..N |-> Sent(receipts[i], a, t)]
<1>2. /\ Len(receipts') = N + 1 /\ N \in Nat
      /\ \A i \in 1..N : receipts'[i] = receipts[i]
      /\ receipts'[N + 1] = new
  BY <1>1, BoughtFacts
<1>3. new \in Receipt
  <2>1. Settles("nonce", p, <<it>>, 0, n)
    BY DEF Bought, Pays
  <2>2. receipts' \in Seq(Receipt)
    BY <1>1, <2>1, ReceiptsGrow
  <2> QED BY <1>2, <2>2
<1>4. \A i \in 1..N : receipts[i] \in Receipt
  BY SumsTyped
<1> HIDE DEF new
<1>5. \A i \in 1..N + 1 : receipts'[i] \in Receipt
  BY <1>2, <1>3, <1>4
<1>6. f \in [1..N + 1 -> Int] /\ g \in [1..N -> Int]
  BY <1>4, <1>5, SentType
<1>7. \A i \in 1..N : g[i] = f[i]
  BY <1>2
<1>8. f[N + 1] = Sent(new, a, t)
  BY <1>2
<1>9. Total(f, N + 1) = Total(g, N) + Sent(new, a, t)
  <2> HIDE DEF f, g
  <2> QED BY <1>2, <1>6, <1>7, <1>8, TotalAppended
<1>10. SentSum(receipts', a, t) = Total(f, N + 1) /\ SentSum(receipts, a, t) = Total(g, N)
  BY <1>2 DEF SentSum
<1>11. Total(g, N) \in Int
  BY <1>2, <1>6, TotalType
<1>12. BackSum(receipts', repaid', a, t) = BackSum(receipts, repaid, a, t)
  <2>1. repaid' = repaid
    BY DEF Bought
  <2>2. \A i \in 1..Len(repaid) : receipts'[repaid[i].payment] = receipts[repaid[i].payment]
    BY <1>2, SumsTyped
  <2>3. \A i \in 1..Len(repaid) : Back(receipts', repaid[i], a, t) = Back(receipts, repaid[i], a, t)
    BY <2>2 DEF Back
  <2>4. [i \in 1..Len(repaid) |-> Back(receipts', repaid[i], a, t)]
           = [i \in 1..Len(repaid) |-> Back(receipts, repaid[i], a, t)]
    BY <2>3
  <2> QED BY <2>1, <2>4 DEF BackSum
<1>13. Sent(new, a, t) \in Int
  BY <1>3, SentType
<1> QED BY <1>9, <1>10, <1>11, <1>12, <1>13 DEF new

\* One more refund paid, from the receipt its payment stands for.
LEMMA PaidSums ==
    ASSUME RefundsSound, NEW r, Paying(r)
    PROVE  LET o == refund[r].order
           IN  /\ o \in Orders /\ refund[r].amount \in Nat \ {0} /\ payment[o] \in PaymentOrder
               /\ payment[o].merchant \in Accounts /\ payment[o].payer \in Accounts
               /\ payment[o].token \in Tokens /\ payment[o].refunded_amount \in Int
               /\ receipts' = receipts /\ IsPaid(o)
               /\ CurrentReceipt(o) \in 1..Len(receipts)
               /\ receipts[CurrentReceipt(o)].merchant = payment[o].merchant
               /\ receipts[CurrentReceipt(o)].payer = payment[o].payer
               /\ receipts[CurrentReceipt(o)].token = payment[o].token
               /\ Len(repaid') = Len(repaid) + 1 /\ Len(repaid) \in Nat
               /\ \A i \in 1..Len(repaid) : repaid'[i] = repaid[i]
               /\ repaid'[Len(repaid) + 1] \in Repayment
               /\ repaid'[Len(repaid) + 1].payment = CurrentReceipt(o)
               /\ repaid'[Len(repaid) + 1].amount = refund[r].amount
               /\ \A i \in 1..Len(repaid') : repaid'[i] \in Repayment
<1> DEFINE o == refund[r].order
<1>1. LedgerTypeOK /\ RecordTypes /\ Backed /\ HistoriesTyped
  BY DEF RefundsSound
<1>2. r \in RefundIds /\ refund[r] # NoEntry /\ IsPaid(o) /\ receipts' = receipts
  BY DEF Paying, Repays
<1>3. PICK b \in Repayment : repaid' = Append(repaid, b) /\ b.payment = CurrentReceipt(o)
                             /\ b.amount = refund[r].amount
  BY DEF Paying, Repays
<1>4. /\ o \in Orders /\ refund[r].amount \in Nat \ {0} /\ payment[o] \in PaymentOrder
      /\ payment[o].merchant \in Accounts /\ payment[o].payer \in Accounts
      /\ payment[o].token \in Tokens /\ payment[o].refunded_amount \in Int
  BY <1>1, <1>2, RefundOf
<1> HIDE DEF o
<1>5. /\ CurrentReceipt(o) \in 1..Len(receipts)
      /\ receipts[CurrentReceipt(o)].merchant = payment[o].merchant
      /\ receipts[CurrentReceipt(o)].payer = payment[o].payer
      /\ receipts[CurrentReceipt(o)].token = payment[o].token
  BY <1>1, <1>2, <1>4, CurrentIsLast
<1>6. repaid \in Seq(Repayment)
  BY <1>1 DEF HistoriesTyped
<1>7. /\ Len(repaid') = Len(repaid) + 1 /\ Len(repaid) \in Nat
      /\ \A i \in 1..Len(repaid) : repaid'[i] = repaid[i]
      /\ repaid'[Len(repaid) + 1] = b
      /\ \A i \in 1..Len(repaid') : repaid'[i] \in Repayment
  BY <1>3, <1>6
<1> QED BY <1>2, <1>3, <1>4, <1>5, <1>7 DEF o

LEMMA ReconciledPaying ==
    ASSUME RefundsSound, RefundsReconciled, NEW r, Paying(r)
    PROVE  RefundsReconciled'
<1> DEFINE o == refund[r].order
           v == refund[r].amount
           p == payment[o]
           N == Len(repaid)
           b == repaid'[N + 1]
<1>1. LedgerTypeOK /\ Transfer(p.token, p.merchant, p.payer, v)
  BY DEF RefundsSound, Paying, Repays
<1>2. /\ v \in Nat /\ p.merchant \in Accounts /\ p.payer \in Accounts /\ p.token \in Tokens
      /\ receipts' = receipts
      /\ receipts[b.payment].merchant = p.merchant /\ receipts[b.payment].payer = p.payer
      /\ receipts[b.payment].token = p.token
      /\ Len(repaid') = N + 1 /\ N \in Nat
      /\ \A i \in 1..N : repaid'[i] = repaid[i]
      /\ b.amount = v
      /\ \A i \in 1..N + 1 : repaid'[i] \in Repayment
  BY PaidSums
<1> HIDE DEF v, p, N, o
<1>3. ASSUME NEW a \in Accounts, NEW t \in Tokens
      PROVE  Holds(balance', receipts', repaid', a, t)
  <2> DEFINE f == [i \in 1..N + 1 |-> Back(receipts, repaid'[i], a, t)]
             g == [i \in 1..N |-> Back(receipts, repaid[i], a, t)]
  <2>1. f \in [1..N + 1 -> Int] /\ g \in [1..N -> Int] /\ \A i \in 1..N : g[i] = f[i]
    <3>1. \A i \in 1..N + 1 : Back(receipts, repaid'[i], a, t) \in Int
      BY <1>2, BackType
    <3>2. \A i \in 1..N : Back(receipts, repaid[i], a, t) = Back(receipts, repaid'[i], a, t)
                          /\ i \in 1..N + 1
      BY <1>2
    <3> QED BY <3>1, <3>2
  <2>2. f[N + 1] = Back(receipts, b, a, t)
    BY <1>2
  <2>3. Total(f, N + 1) = Total(g, N) + Back(receipts, b, a, t)
    <3> HIDE DEF f, g
    <3> QED BY <1>2, <2>1, <2>2, TotalAppended
  <2>4. Total(g, N) \in Int
    <3> HIDE DEF g
    <3> QED BY <1>2, <2>1, TotalType
  <2>5. BackSum(receipts', repaid', a, t) = Total(f, N + 1) /\ BackSum(receipts, repaid, a, t) = Total(g, N)
    BY <1>2 DEF BackSum, N
  <2>6. SentSum(receipts', a, t) = SentSum(receipts, a, t)
    BY <1>2
  <2>7. balance'[t][a] = balance[t][a]
           + (IF t = p.token THEN (IF a = p.payer THEN v ELSE 0) - (IF a = p.merchant THEN v ELSE 0)
              ELSE 0)
    <3>1. p.merchant \in Holders /\ p.payer \in Holders /\ a \in Holders
      BY <1>2 DEF Holders
    <3>2. balance \in [Tokens -> [Holders -> Nat]]
      BY <1>1, MoneyTypes
    <3>3. p.token \in Tokens /\ v \in Nat /\ Transfer(p.token, p.merchant, p.payer, v)
      BY <1>1, <1>2
    <3>4. \A u \in Tokens, h \in Holders : balance'[u][h] = balance[u][h]
             + (IF u = p.token THEN (IF h = p.payer THEN v ELSE 0) - (IF h = p.merchant THEN v ELSE 0)
                ELSE 0)
      BY ONLY <3>1, <3>2, <3>3, TransferEffect DEF Transfer
    <3> QED BY <3>1, <3>4
  <2>8. Back(receipts, b, a, t)
           = IF t = p.token THEN (IF a = p.payer THEN v ELSE 0) - (IF a = p.merchant THEN v ELSE 0)
             ELSE 0
    BY <1>2 DEF Back
  <2>9. Back(receipts, b, a, t) \in Int
    BY <1>2, <2>8
  <2>10. balance[t][a] = Funds + SentSum(receipts, a, t) + BackSum(receipts, repaid, a, t)
    BY RefundsReconciledMeans DEF Holds
  <2>11. SentSum(receipts, a, t) \in Int
    <3>1. Len(receipts) \in Nat /\ \A i \in 1..Len(receipts) : Sent(receipts[i], a, t) \in Int
      BY SumsTyped, SentType
    <3>2. [i \in 1..Len(receipts) |-> Sent(receipts[i], a, t)] \in [1..Len(receipts) -> Int]
      BY <3>1
    <3> QED BY <3>1, <3>2, TotalType DEF SentSum
  <2> DEFINE d == Back(receipts, b, a, t)
             S == SentSum(receipts, a, t)
             B == Total(g, N)
  <2>12. balance'[t][a] = (Funds + S + B) + d
    BY <2>5, <2>7, <2>8, <2>10
  <2>13. BackSum(receipts', repaid', a, t) = B + d
    BY <2>3, <2>5
  <2>14. d \in Int /\ S \in Int /\ B \in Int /\ Funds \in Int
    BY <2>4, <2>9, <2>11
  <2> HIDE DEF d, S, B, b, f, g
  <2>15. balance'[t][a] = Funds + S + (B + d)
    BY <2>12, <2>14
  <2> QED BY <2>6, <2>13, <2>15 DEF Holds, S
<1> QED BY <1>3, RefundsReconciledMeans

LEMMA ReconciledBought ==
    ASSUME RefundsSound, RefundsReconciled, NEW p, NEW it, NEW n, Bought(p, it, n)
    PROVE  RefundsReconciled'
<1>1. LedgerTypeOK
  BY DEF RefundsSound
<1>2. p \in Accounts /\ it \in Paid /\ PayWithFee(p, it, 0)
  BY DEF Bought
<1>3. 0 \in 0..it.amount
  BY <1>2 DEF Paid
<1>4. \A a \in Accounts, t \in Tokens :
         balance'[t][a] = balance[t][a] + Effect(NewReceipt("nonce", p, it, 0, n), a, t)
  BY <1>1, <1>2, <1>3, FeePaid
<1>5. ASSUME NEW a \in Accounts, NEW t \in Tokens
      PROVE  Holds(balance', receipts', repaid', a, t)
  <2> DEFINE new == NewReceipt("nonce", p, it, 0, n)
             S == SentSum(receipts, a, t)
             B == BackSum(receipts, repaid, a, t)
             d == Sent(new, a, t)
  <2>1. Effect(new, a, t) = d
    <3>1. /\ new.fee = 0 /\ new.recipient = NoEntry /\ new.amount = it.amount
          /\ it.amount \in Nat /\ NoEntry # a
      BY <1>2 DEF NewReceipt, Paid
    <3> HIDE DEF new
    <3> QED BY <3>1 DEF Effect, Sent
  <2>2. /\ SentSum(receipts', a, t) = S + d /\ S \in Int /\ d \in Int
        /\ BackSum(receipts', repaid', a, t) = B
    BY BoughtSums
  <2>3. balance[t][a] = Funds + S + B
    BY RefundsReconciledMeans DEF Holds
  <2>4. balance'[t][a] = (Funds + S + B) + d
    BY <1>4, <2>1, <2>3
  <2>5. B \in Int
    <3>1. Len(repaid) \in Nat /\ \A i \in 1..Len(repaid) : Back(receipts, repaid[i], a, t) \in Int
      BY SumsTyped, BackType
    <3>2. [i \in 1..Len(repaid) |-> Back(receipts, repaid[i], a, t)] \in [1..Len(repaid) -> Int]
      BY <3>1
    <3> QED BY <3>1, <3>2, TotalType DEF BackSum
  <2> HIDE DEF S, B, d
  <2>6. balance'[t][a] = Funds + (S + d) + B
    BY <2>2, <2>4, <2>5
  <2> QED BY <2>2, <2>6 DEF Holds
<1> QED BY <1>5, RefundsReconciledMeans

LEMMA ReconciledAfter ==
    ASSUME RefundsSound, RefundsReconciled, [RefundsNext]_refundsVars
    PROVE  RefundsReconciled'
<1>1. CASE UNCHANGED <<balance, receipts, repaid>>
  BY <1>1, RefundsReconciledMeans
<1>2. \/ \E p, it, n : Bought(p, it, n)
      \/ \E r : Paying(r)
      \/ UNCHANGED <<balance, receipts, repaid>>
  BY RefundsStepCases DEF Requested, Decided, Disputed, Discussed, Corrected, Dropped, Idles, SameMoney
<1> QED BY <1>1, <1>2, ReconciledBought, ReconciledPaying

\* Every account holds what the payments made and the refunds paid say,
\* whichever of execute_refund and resolve_dispute paid them and whatever was
\* archived, cleaned up or overridden.
THEOREM RefundsAlwaysReconciled == RefundsSpec => []RefundsReconciled
<1>1. ASSUME RefundsInit PROVE RefundsReconciled
  <2>1. /\ balance = [t \in Tokens |-> [h \in Holders |-> IF h = Contract THEN 0 ELSE Funds]]
        /\ receipts = <<>> /\ repaid = <<>>
    BY <1>1 DEF RefundsInit, LedgerInit, EnvInit
  <2>2. Len(receipts) = 0 /\ Len(repaid) = 0
    BY <2>1
  <2>3. ASSUME NEW a \in Accounts, NEW t \in Tokens PROVE Holds(balance, receipts, repaid, a, t)
    <3>1. SentSum(receipts, a, t) = 0
      <4> DEFINE f == [i \in 1..0 |-> Sent(receipts[i], a, t)]
      <4>1. f \in [1..0 -> Int] /\ \A i \in 1..0 : f[i] = 0
        OBVIOUS
      <4>2. SentSum(receipts, a, t) = Total(f, 0)
        BY <2>2 DEF SentSum
      <4> HIDE DEF f
      <4> QED BY <4>1, <4>2, TotalZero
    <3>2. BackSum(receipts, repaid, a, t) = 0
      <4> DEFINE f == [i \in 1..0 |-> Back(receipts, repaid[i], a, t)]
      <4>1. f \in [1..0 -> Int] /\ \A i \in 1..0 : f[i] = 0
        OBVIOUS
      <4>2. BackSum(receipts, repaid, a, t) = Total(f, 0)
        BY <2>2 DEF BackSum
      <4> HIDE DEF f
      <4> QED BY <4>1, <4>2, TotalZero
    <3>3. balance[t][a] = Funds
      BY <2>1 DEF Holders
    <3> QED BY <3>1, <3>2, <3>3 DEF Holds
  <2> QED BY <2>3, RefundsReconciledMeans
<1>2. RefundsSound /\ RefundsReconciled /\ [RefundsNext]_refundsVars => RefundsReconciled'
  BY ReconciledAfter
<1> QED BY <1>1, <1>2, AlwaysRefundsSound, PTL DEF RefundsSpec

-----------------------------------------------------------------------------
(* Refunds: the totals *)

\* What the refunds bs paid for the receipts rs come to: for merchant m, how
\* many they are, over all, and for the payment of receipt c.
OwnPart(rs, b, m) == IF rs[b.payment].merchant = m THEN b.amount ELSE 0

OnePart(rs, b, m) == IF rs[b.payment].merchant = m THEN 1 ELSE 0

BackPart(b, c) == IF b.payment = c THEN b.amount ELSE 0

OwnSum(rs, bs, m) == Total([i \in 1..Len(bs) |-> OwnPart(rs, bs[i], m)], Len(bs))

OneSum(rs, bs, m) == Total([i \in 1..Len(bs) |-> OnePart(rs, bs[i], m)], Len(bs))

VolumeSum(bs) == Total([i \in 1..Len(bs) |-> bs[i].amount], Len(bs))

BackFor(bs, c) == Total([i \in 1..Len(bs) |-> BackPart(bs[i], c)], Len(bs))

RepaidMatch(rs, bs, ms, gs) ==
    /\ \A m \in Merchants : /\ ms[m].total_refund_volume = Clamped(OwnSum(rs, bs, m))
                            /\ ms[m].total_refunds = OneSum(rs, bs, m)
    /\ gs.total_refund_volume = Clamped(VolumeSum(bs))
    /\ gs.total_refunds = Len(bs)

LEMMA StatsMatchRepaidMeans ==
    /\ StatsMatchRepaid <=> RepaidMatch(receipts, repaid, merchant_stats, global_stats)
    /\ StatsMatchRepaid' <=> RepaidMatch(receipts', repaid', merchant_stats', global_stats')
BY DEF StatsMatchRepaid, RepaidMatch, OwnSum, OneSum, VolumeSum, OwnPart, OnePart, SumOfRepaid

\* The sums of two histories, the second with one more refund of the same
\* receipts.
LEMMA OneMoreRepaid ==
    ASSUME NEW rs, NEW bs, NEW cs, Len(bs) \in Nat, Len(cs) = Len(bs) + 1,
           \A i \in 1..Len(cs) : cs[i] \in Repayment,
           \A i \in 1..Len(bs) : cs[i] = bs[i]
    PROVE  /\ \A m : /\ OwnSum(rs, cs, m) = OwnSum(rs, bs, m) + OwnPart(rs, cs[Len(bs) + 1], m)
                     /\ OneSum(rs, cs, m) = OneSum(rs, bs, m) + OnePart(rs, cs[Len(bs) + 1], m)
           /\ VolumeSum(cs) = VolumeSum(bs) + cs[Len(bs) + 1].amount
           /\ \A c : BackFor(cs, c) = BackFor(bs, c) + BackPart(cs[Len(bs) + 1], c)
<1> DEFINE N == Len(bs)
<1>1. \A i \in 1..N + 1 : /\ cs[i].amount \in Int
                          /\ \A m : OwnPart(rs, cs[i], m) \in Int /\ OnePart(rs, cs[i], m) \in Int
                          /\ \A c : BackPart(cs[i], c) \in Int
  BY DEF Repayment, OwnPart, OnePart, BackPart
<1>2. \A i \in 1..N : i \in 1..N + 1
  OBVIOUS
<1>3. ASSUME NEW m PROVE OwnSum(rs, cs, m) = OwnSum(rs, bs, m) + OwnPart(rs, cs[N + 1], m)
  <2> DEFINE f == [i \in 1..N + 1 |-> OwnPart(rs, cs[i], m)]
             g == [i \in 1..N |-> OwnPart(rs, bs[i], m)]
  <2>1. f \in [1..N + 1 -> Int] /\ g \in [1..N -> Int] /\ \A i \in 1..N : g[i] = f[i]
    BY <1>1, <1>2
  <2>2. f[N + 1] = OwnPart(rs, cs[N + 1], m)
    OBVIOUS
  <2>3. OwnSum(rs, cs, m) = Total(f, N + 1) /\ OwnSum(rs, bs, m) = Total(g, N)
    BY DEF OwnSum
  <2> HIDE DEF f, g
  <2> QED BY <2>1, <2>2, <2>3, TotalAppended
<1>4. ASSUME NEW m PROVE OneSum(rs, cs, m) = OneSum(rs, bs, m) + OnePart(rs, cs[N + 1], m)
  <2> DEFINE f == [i \in 1..N + 1 |-> OnePart(rs, cs[i], m)]
             g == [i \in 1..N |-> OnePart(rs, bs[i], m)]
  <2>1. f \in [1..N + 1 -> Int] /\ g \in [1..N -> Int] /\ \A i \in 1..N : g[i] = f[i]
    BY <1>1, <1>2
  <2>2. f[N + 1] = OnePart(rs, cs[N + 1], m)
    OBVIOUS
  <2>3. OneSum(rs, cs, m) = Total(f, N + 1) /\ OneSum(rs, bs, m) = Total(g, N)
    BY DEF OneSum
  <2> HIDE DEF f, g
  <2> QED BY <2>1, <2>2, <2>3, TotalAppended
<1>5. VolumeSum(cs) = VolumeSum(bs) + cs[N + 1].amount
  <2> DEFINE f == [i \in 1..N + 1 |-> cs[i].amount]
             g == [i \in 1..N |-> bs[i].amount]
  <2>1. f \in [1..N + 1 -> Int] /\ g \in [1..N -> Int] /\ \A i \in 1..N : g[i] = f[i]
    BY <1>1, <1>2
  <2>2. f[N + 1] = cs[N + 1].amount
    OBVIOUS
  <2>3. VolumeSum(cs) = Total(f, N + 1) /\ VolumeSum(bs) = Total(g, N)
    BY DEF VolumeSum
  <2> HIDE DEF f, g
  <2> QED BY <2>1, <2>2, <2>3, TotalAppended, ZenonT(30)
<1>6. ASSUME NEW c PROVE BackFor(cs, c) = BackFor(bs, c) + BackPart(cs[N + 1], c)
  <2> DEFINE f == [i \in 1..N + 1 |-> BackPart(cs[i], c)]
             g == [i \in 1..N |-> BackPart(bs[i], c)]
  <2>1. f \in [1..N + 1 -> Int] /\ g \in [1..N -> Int] /\ \A i \in 1..N : g[i] = f[i]
    BY <1>1, <1>2
  <2>2. f[N + 1] = BackPart(cs[N + 1], c)
    OBVIOUS
  <2>3. BackFor(cs, c) = Total(f, N + 1) /\ BackFor(bs, c) = Total(g, N)
    BY DEF BackFor
  <2> HIDE DEF f, g
  <2> QED BY <2>1, <2>2, <2>3, TotalAppended
<1> QED BY <1>3, <1>4, <1>5, <1>6

\* Every sum is empty before the first refund is paid.
LEMMA NothingRepaid ==
    ASSUME NEW rs, NEW bs, Len(bs) = 0
    PROVE  /\ \A m : OwnSum(rs, bs, m) = 0 /\ OneSum(rs, bs, m) = 0
           /\ VolumeSum(bs) = 0
           /\ \A c : BackFor(bs, c) = 0
<1>1. ASSUME NEW f \in [1..0 -> Int] PROVE Total(f, 0) = 0
  <2>1. 0 \in Nat /\ \A i \in 1..0 : f[i] = 0
    OBVIOUS
  <2> QED BY ONLY <1>1, <2>1, TotalZero
<1>2. \A m : [i \in 1..0 |-> OwnPart(rs, bs[i], m)] \in [1..0 -> Int]
  OBVIOUS
<1>3. \A m : [i \in 1..0 |-> OnePart(rs, bs[i], m)] \in [1..0 -> Int]
  OBVIOUS
<1>4. [i \in 1..0 |-> bs[i].amount] \in [1..0 -> Int]
  OBVIOUS
<1>5. \A c : [i \in 1..0 |-> BackPart(bs[i], c)] \in [1..0 -> Int]
  OBVIOUS
<1> QED BY <1>1, <1>2, <1>3, <1>4, <1>5 DEF OwnSum, OneSum, VolumeSum, BackFor

\* They are naturals, the amounts refunded being so.
LEMMA RepaidNatural ==
    ASSUME NEW rs, NEW bs, Len(bs) \in Nat, \A i \in 1..Len(bs) : bs[i].amount \in Nat, NEW m
    PROVE  OwnSum(rs, bs, m) \in Nat /\ VolumeSum(bs) \in Nat
<1> DEFINE own == [i \in 1..Len(bs) |-> OwnPart(rs, bs[i], m)]
           all == [i \in 1..Len(bs) |-> bs[i].amount]
<1>1. own \in [1..Len(bs) -> Nat] /\ all \in [1..Len(bs) -> Nat]
  BY DEF OwnPart
<1>2. OwnSum(rs, bs, m) = Total(own, Len(bs)) /\ VolumeSum(bs) = Total(all, Len(bs))
  BY DEF OwnSum, VolumeSum
<1> HIDE DEF own, all
<1> QED BY <1>1, <1>2, TotalNatural

LEMMA RepaidPaying ==
    ASSUME RefundsSound, StatsMatchRepaid, NEW r, Paying(r)
    PROVE  StatsMatchRepaid'
<1> DEFINE m == payment[refund[r].order].merchant
           v == refund[r].amount
           N == Len(repaid)
           b == repaid'[N + 1]
<1>1. LedgerTypeOK /\ AddToRefundStats(m, v)
  BY DEF RefundsSound, Paying, Repays
<1>2. /\ v \in Nat /\ m \in Accounts /\ receipts' = receipts
      /\ receipts[b.payment].merchant = m /\ b.amount = v
      /\ Len(repaid') = N + 1 /\ N \in Nat
      /\ \A i \in 1..N : repaid'[i] = repaid[i]
      /\ \A i \in 1..N + 1 : repaid'[i] \in Repayment
  BY PaidSums
<1>3. /\ \A n \in Merchants :
            /\ merchant_stats'[n].total_refunds
                 = merchant_stats[n].total_refunds + (IF n = m THEN 1 ELSE 0)
            /\ merchant_stats'[n].total_refund_volume
                 = IF n = m THEN saturating_add(merchant_stats[n].total_refund_volume, v)
                   ELSE merchant_stats[n].total_refund_volume
      /\ global_stats'.total_refunds = global_stats.total_refunds + 1
      /\ global_stats'.total_refund_volume = saturating_add(global_stats.total_refund_volume, v)
  <2>1. m \in Accounts /\ v \in Nat
    BY <1>2
  <2> HIDE DEF m, v
  <2> QED BY ONLY <1>1, <2>1, RefundStatsTypes
<1>4. /\ \A n : /\ OwnSum(receipts, repaid', n) = OwnSum(receipts, repaid, n) + OwnPart(receipts, b, n)
                /\ OneSum(receipts, repaid', n) = OneSum(receipts, repaid, n) + OnePart(receipts, b, n)
      /\ VolumeSum(repaid') = VolumeSum(repaid) + b.amount
  <2> HIDE DEF m, v
  <2>1. /\ Len(repaid) \in Nat /\ Len(repaid') = Len(repaid) + 1
        /\ \A i \in 1..Len(repaid') : repaid'[i] \in Repayment
        /\ \A i \in 1..Len(repaid) : repaid'[i] = repaid[i]
    BY <1>2
  <2> QED BY ONLY <2>1, OneMoreRepaid
<1>5. /\ \A n : OwnPart(receipts, b, n) = IF n = m THEN v ELSE 0
      /\ \A n : OnePart(receipts, b, n) = IF n = m THEN 1 ELSE 0
  <2> HIDE DEF m, v, b
  <2> QED BY <1>2 DEF OwnPart, OnePart
<1>6. RepaidMatch(receipts, repaid, merchant_stats, global_stats)
  BY StatsMatchRepaidMeans
<1>a. \A i \in 1..Len(repaid) : repaid[i].amount \in Nat
  <2> HIDE DEF m, v, b
  <2>1. \A x \in Repayment : x.amount \in Nat
    BY DEF Repayment
  <2>2. \A i \in 1..N : repaid'[i] \in Repayment
    BY <1>2
  <2> QED BY <1>2, <2>1, <2>2
<1> HIDE DEF m, v, N, b
<1>7. ASSUME NEW n \in Merchants
      PROVE  /\ merchant_stats'[n].total_refund_volume = Clamped(OwnSum(receipts', repaid', n))
             /\ merchant_stats'[n].total_refunds = OneSum(receipts', repaid', n)
  <2>1. OwnSum(receipts, repaid, n) \in Nat
    BY <1>2, <1>a, RepaidNatural DEF N
  <2>2. /\ merchant_stats[n].total_refund_volume = Clamped(OwnSum(receipts, repaid, n))
        /\ merchant_stats[n].total_refunds = OneSum(receipts, repaid, n)
    BY <1>6 DEF RepaidMatch
  <2>3. CASE n = m
    <3>1. OwnSum(receipts', repaid', n) = OwnSum(receipts, repaid, n) + v
      BY <1>2, <1>4, <1>5, <2>3
    <3>a. merchant_stats'[n].total_refund_volume
            = saturating_add(Clamped(OwnSum(receipts, repaid, n)), v)
      BY <1>3, <2>2, <2>3
    <3>b. v \in Nat
      BY <1>2
    <3>2. merchant_stats'[n].total_refund_volume = Clamped(OwnSum(receipts, repaid, n) + v)
      BY ONLY <2>1, <3>a, <3>b, SaturatingSum
    <3>3. merchant_stats'[n].total_refunds = OneSum(receipts', repaid', n)
      BY <1>2, <1>3, <1>4, <1>5, <2>2, <2>3
    <3> QED BY <3>1, <3>2, <3>3
  <2>4. CASE n # m
    <3>1. OwnSum(receipts', repaid', n) = OwnSum(receipts, repaid, n)
      BY <1>2, <1>4, <1>5, <2>1, <2>4
    <3>2. merchant_stats'[n].total_refunds = OneSum(receipts', repaid', n)
      BY <1>2, <1>3, <1>4, <1>5, <2>2, <2>4
    <3> QED BY <1>3, <2>2, <2>4, <3>1, <3>2
  <2> QED BY <2>3, <2>4
<1>8. /\ global_stats'.total_refund_volume = Clamped(VolumeSum(repaid'))
      /\ global_stats'.total_refunds = Len(repaid')
  <2>1. VolumeSum(repaid) \in Nat
    BY <1>2, <1>a, RepaidNatural DEF N
  <2>2. /\ global_stats.total_refund_volume = Clamped(VolumeSum(repaid))
        /\ global_stats.total_refunds = N
    BY <1>6 DEF RepaidMatch, N
  <2>3. global_stats'.total_refund_volume = Clamped(VolumeSum(repaid) + v)
    BY <1>2, <1>3, <2>1, <2>2, SaturatingSum
  <2> QED BY <1>2, <1>3, <1>4, <2>2, <2>3
<1>9. RepaidMatch(receipts', repaid', merchant_stats', global_stats')
  BY <1>7, <1>8 DEF RepaidMatch
<1> QED BY <1>9, StatsMatchRepaidMeans

LEMMA RepaidBought ==
    ASSUME RefundsSound, StatsMatchRepaid, NEW p, NEW it, NEW n, Bought(p, it, n)
    PROVE  StatsMatchRepaid'
<1>1. LedgerTypeOK
  BY DEF RefundsSound
<1>2. repaid' = repaid /\ AddToStats(<<it>>)
  BY SMTT(30) DEF Bought, Pays, Settles
<1>3. /\ merchant_stats \in [Merchants -> Stats] /\ global_stats \in Stats
  BY <1>1 DEF LedgerTypeOK
<1>4. /\ \A m \in Merchants :
            /\ merchant_stats'[m].total_refunds = merchant_stats[m].total_refunds
            /\ merchant_stats'[m].total_refund_volume = merchant_stats[m].total_refund_volume
      /\ global_stats'.total_refunds = global_stats.total_refunds
      /\ global_stats'.total_refund_volume = global_stats.total_refund_volume
  BY <1>2, <1>3 DEF AddToStats, Stats
<1>5. \A i \in 1..Len(repaid) : receipts'[repaid[i].payment] = receipts[repaid[i].payment]
  BY <1>1, SumsTyped, BoughtFacts
<1>6. ASSUME NEW m
      PROVE  /\ OwnSum(receipts', repaid, m) = OwnSum(receipts, repaid, m)
             /\ OneSum(receipts', repaid, m) = OneSum(receipts, repaid, m)
  <2>1. \A i \in 1..Len(repaid) : /\ OwnPart(receipts', repaid[i], m) = OwnPart(receipts, repaid[i], m)
                                  /\ OnePart(receipts', repaid[i], m) = OnePart(receipts, repaid[i], m)
    BY <1>5 DEF OwnPart, OnePart
  <2>2. /\ [i \in 1..Len(repaid) |-> OwnPart(receipts', repaid[i], m)]
             = [i \in 1..Len(repaid) |-> OwnPart(receipts, repaid[i], m)]
        /\ [i \in 1..Len(repaid) |-> OnePart(receipts', repaid[i], m)]
             = [i \in 1..Len(repaid) |-> OnePart(receipts, repaid[i], m)]
    BY <2>1
  <2> QED BY <2>2 DEF OwnSum, OneSum
<1>7. RepaidMatch(receipts, repaid, merchant_stats, global_stats)
  BY StatsMatchRepaidMeans
<1>8. RepaidMatch(receipts', repaid', merchant_stats', global_stats')
  BY <1>2, <1>4, <1>6, <1>7 DEF RepaidMatch
<1> QED BY <1>8, StatsMatchRepaidMeans

LEMMA RepaidAfter ==
    ASSUME RefundsSound, StatsMatchRepaid, [RefundsNext]_refundsVars
    PROVE  StatsMatchRepaid'
<1>1. CASE UNCHANGED <<merchant_stats, global_stats, receipts, repaid>>
  BY <1>1, StatsMatchRepaidMeans
<1>2. \/ \E p, it, n : Bought(p, it, n)
      \/ \E r : Paying(r)
      \/ UNCHANGED <<merchant_stats, global_stats, receipts, repaid>>
  BY RefundsStepCases DEF Requested, Decided, Disputed, Discussed, Corrected, Dropped, Idles, SameMoney
<1> QED BY <1>1, <1>2, RepaidBought, RepaidPaying

\* The refund counters of the merchants and of the platform count each refund
\* paid exactly once, on both of the ways a refund is paid, and their volumes are
\* what it came to, or i128::MAX from the moment that passes it (execute_refund
\* and resolve_dispute, which add with saturating_add, ADR-001).
THEOREM StatsAlwaysMatchRepaid == RefundsSpec => []StatsMatchRepaid
<1>1. ASSUME RefundsInit PROVE StatsMatchRepaid
  <2>1. /\ \A m \in Merchants : /\ merchant_stats[m].total_refunds = 0
                                /\ merchant_stats[m].total_refund_volume = 0
        /\ global_stats.total_refunds = 0 /\ global_stats.total_refund_volume = 0
        /\ Len(repaid) = 0
    BY <1>1 DEF RefundsInit, LedgerInit, NoStats
  <2>2. Clamped(0) = 0
    BY DEF Clamped
  <2> QED BY <2>1, <2>2, NothingRepaid, StatsMatchRepaidMeans DEF RepaidMatch
<1>2. RefundsSound /\ StatsMatchRepaid /\ [RefundsNext]_refundsVars => StatsMatchRepaid'
  BY RepaidAfter
<1> QED BY <1>1, <1>2, AlwaysRefundsSound, PTL DEF RefundsSpec

-----------------------------------------------------------------------------
(* Refunds: what a payment says was refunded *)

\* RefundedMatchesRepaid, said of the last receipt of an order instead of the
\* one CurrentReceipt chooses.
Matched ==
    \A o \in Orders : \A i : payment[o] # NoEntry /\ o \notin overridden /\ IsLast(receipts, i, o)
        => payment[o].refunded_amount = BackFor(repaid, i)

\* A payment just made has no refund: those paid are of earlier receipts.
LEMMA NothingBackYet ==
    ASSUME RefundsSound
    PROVE  BackFor(repaid, Len(receipts) + 1) = 0
<1> DEFINE N == Len(repaid)
           f == [i \in 1..N |-> BackPart(repaid[i], Len(receipts) + 1)]
<1>1. N \in Nat /\ Len(receipts) \in Nat /\ \A i \in 1..N : repaid[i].payment \in 1..Len(receipts)
  BY SumsTyped
<1>2. \A i \in 1..N : BackPart(repaid[i], Len(receipts) + 1) = 0
  BY <1>1 DEF BackPart
<1>3. f \in [1..N -> Int] /\ \A i \in 1..N : f[i] = 0
  BY <1>2
<1>4. BackFor(repaid, Len(receipts) + 1) = Total(f, N)
  BY DEF BackFor
<1> HIDE DEF f, N
<1> QED BY <1>1, <1>3, <1>4, TotalZero

LEMMA MatchedBought ==
    ASSUME RefundsSound, Matched, NEW p, NEW it, NEW n, Bought(p, it, n)
    PROVE  Matched'
<1>1. LedgerTypeOK /\ Backed
  BY DEF RefundsSound
<1>2. /\ it.order \in Orders /\ payment'[it.order] = NewRecord(p, it, 0)
      /\ \A o \in Orders : o # it.order => payment'[o] = payment[o]
      /\ Len(receipts) \in Nat /\ Len(receipts') = Len(receipts) + 1
  BY <1>1, BoughtFacts
<1>3. /\ IsLast(receipts', Len(receipts) + 1, it.order)
      /\ \A o, i : o # it.order /\ IsLast(receipts, i, o) => IsLast(receipts', i, o)
  BY <1>1, LastAfter
<1>4. Len(receipts') \in Nat
  BY <1>2
<1>5. repaid' = repaid /\ overridden' = overridden \ {it.order}
  BY DEF Bought
<1>6. ASSUME NEW o \in Orders, NEW i, payment'[o] # NoEntry, o \notin overridden',
             IsLast(receipts', i, o)
      PROVE  payment'[o].refunded_amount = BackFor(repaid', i)
  <2>1. CASE o = it.order
    <3>1. i = Len(receipts) + 1
      BY <1>3, <1>4, <1>6, <2>1, LastIsOne
    <3>2. payment'[o].refunded_amount = 0
      BY <1>2, <2>1 DEF NewRecord
    <3> QED BY <1>5, <3>1, <3>2, NothingBackYet
  <2>2. CASE o # it.order
    <3>1. payment[o] # NoEntry /\ payment'[o] = payment[o] /\ o \notin overridden
      BY <1>2, <1>5, <1>6, <2>2
    <3>2. PICK j : IsLast(receipts, j, o)
      BY <1>1, <3>1 DEF Backed, IsPaid
    <3>3. i = j
      BY <1>3, <1>4, <1>6, <2>2, <3>2, LastIsOne
    <3> QED BY <1>5, <3>1, <3>2, <3>3 DEF Matched
  <2> QED BY <2>1, <2>2
<1> QED BY <1>6 DEF Matched

LEMMA MatchedPaying ==
    ASSUME RefundsSound, Matched, NEW r, Paying(r)
    PROVE  Matched'
<1> DEFINE u == refund[r].order
           v == refund[r].amount
           c == CurrentReceipt(u)
           b == repaid'[Len(repaid) + 1]
<1>1. LedgerTypeOK /\ RecordTypes /\ Backed
  BY DEF RefundsSound
<1>2. /\ u \in Orders /\ IsPaid(u) /\ v \in Nat /\ receipts' = receipts
      /\ payment[u].refunded_amount \in Int
      /\ Len(repaid') = Len(repaid) + 1 /\ Len(repaid) \in Nat
      /\ \A i \in 1..Len(repaid) : repaid'[i] = repaid[i]
      /\ \A i \in 1..Len(repaid') : repaid'[i] \in Repayment
      /\ b.payment = c /\ b.amount = v
  BY PaidSums
<1>3. IsLast(receipts, c, u) /\ receipts[c].order = u /\ Len(receipts) \in Nat
  BY <1>1, <1>2, CurrentIsLast
<1>4. PICK q : Amends(u, q) /\ q.refunded_amount = payment[u].refunded_amount + v
  BY DEF Paying, Repays
<1>5. overridden' = overridden
  BY DEF Paying, Repays
<1>6. \A o \in Orders : payment'[o] = IF o = u THEN q ELSE payment[o]
  BY <1>1, <1>2, <1>4, AmendsAt
<1>7. \A i : BackFor(repaid', i) = BackFor(repaid, i) + BackPart(b, i)
  <2>1. /\ Len(repaid) \in Nat /\ Len(repaid') = Len(repaid) + 1
        /\ \A i \in 1..Len(repaid') : repaid'[i] \in Repayment
        /\ \A i \in 1..Len(repaid) : repaid'[i] = repaid[i]
    BY <1>2
  <2> QED BY ONLY <2>1, OneMoreRepaid
<1>8. \A i : BackPart(b, i) = IF i = c THEN v ELSE 0
  BY <1>2 DEF BackPart
<1> HIDE DEF u, v, c, b
<1>9. ASSUME NEW o \in Orders, NEW i, payment'[o] # NoEntry, o \notin overridden',
             IsLast(receipts', i, o)
      PROVE  payment'[o].refunded_amount = BackFor(repaid', i)
  <2>1. IsLast(receipts, i, o) /\ o \notin overridden /\ receipts[i].order = o
    BY <1>2, <1>5, <1>9 DEF IsLast
  <2>2. CASE o = u
    <3>1. i = c
      BY <1>3, <2>1, <2>2, LastIsOne
    <3>2. payment[u].refunded_amount = BackFor(repaid, c)
      BY <1>2, <2>1, <2>2, <3>1 DEF Matched, IsPaid
    <3>3. payment'[o].refunded_amount = payment[u].refunded_amount + v
      BY <1>4, <1>6, <2>2
    <3>4. BackFor(repaid', i) = BackFor(repaid, c) + v
      BY <1>7, <1>8, <3>1
    <3> QED BY <3>2, <3>3, <3>4
  <2>3. CASE o # u
    <3>1. i # c
      BY <1>3, <2>1, <2>3
    <3>2. payment'[o] = payment[o]
      BY <1>6, <2>3
    <3>3. payment[o].refunded_amount = BackFor(repaid, i)
      BY <1>9, <2>1, <3>2 DEF Matched
    <3>4. payment[o].refunded_amount \in Int
      BY <1>1, <1>9, <3>2, HistoryTypes DEF PaymentOrder
    <3>5. BackFor(repaid', i) = BackFor(repaid, i) + 0
      BY <1>7, <1>8, <3>1
    <3> QED BY <3>2, <3>3, <3>4, <3>5
  <2> QED BY <2>2, <2>3
<1> QED BY <1>9 DEF Matched

LEMMA MatchedAfter ==
    ASSUME RefundsSound, Matched, [RefundsNext]_refundsVars
    PROVE  Matched'
<1>1. LedgerTypeOK
  BY DEF RefundsSound
<1>2. ASSUME UNCHANGED <<receipts, repaid>>, overridden \subseteq overridden',
             \A o \in Orders : o \notin overridden' =>
                payment'[o] = payment[o] \/ payment'[o] = NoEntry
      PROVE  Matched'
  BY <1>2 DEF Matched
<1>3. ASSUME NEW o, NEW q, Corrected(o, q) PROVE Matched'
  <2>1. /\ o \in Orders /\ Amends(o, q) /\ overridden' = overridden \cup {o}
        /\ UNCHANGED <<receipts, repaid>>
    BY <1>3 DEF Corrected
  <2>2. \A p \in Orders : payment'[p] = IF p = o THEN q ELSE payment[p]
    BY <1>1, <2>1, AmendsAt
  <2> QED BY <1>2, <2>1, <2>2
<1>4. ASSUME Dropped PROVE Matched'
  BY <1>2, <1>4 DEF Dropped
<1>5. ASSUME SameMoney, overridden' = overridden PROVE Matched'
  BY <1>2, <1>5 DEF SameMoney
<1>6. \/ \E p, it, n : Bought(p, it, n)
      \/ \E r : Paying(r)
      \/ \E o, q : Corrected(o, q)
      \/ Dropped
      \/ SameMoney /\ overridden' = overridden
  BY RefundsStepCases DEF Requested, Decided, Disputed, Discussed, Idles
<1> QED BY <1>3, <1>4, <1>5, <1>6, MatchedBought, MatchedPaying

\* The refunded amount of a payment nobody overrode is what was paid back for
\* that payment, although its order may have been paid, refunded and cleaned up
\* before.
THEOREM RefundedAlwaysMatchesRepaid == RefundsSpec => []RefundedMatchesRepaid
<1>1. ASSUME RefundsInit PROVE Matched
  BY <1>1 DEF RefundsInit, LedgerInit, Matched
<1>2. RefundsSound /\ Matched /\ [RefundsNext]_refundsVars => Matched'
  BY MatchedAfter
<1>3. ASSUME RefundsSound, Matched PROVE RefundedMatchesRepaid
  <2>1. ASSUME NEW o \in Orders, IsPaid(o), o \notin overridden
        PROVE  payment[o].refunded_amount = BackFor(repaid, CurrentReceipt(o))
    <3>1. LedgerTypeOK /\ Backed
      BY <1>3 DEF RefundsSound
    <3>2. IsLast(receipts, CurrentReceipt(o), o)
      BY <2>1, <3>1, CurrentIsLast
    <3> QED BY <1>3, <2>1, <3>2 DEF Matched, IsPaid
  <2> QED BY <2>1 DEF RefundedMatchesRepaid, SumOfRepaid, BackFor, BackPart
<1> QED BY <1>1, <1>2, <1>3, AlwaysRefundsSound, PTL DEF RefundsSpec

=============================================================================
