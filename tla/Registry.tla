------------------------------ MODULE Registry ------------------------------
(***************************************************************************)
(* The merchants of the platform: registration in one step or by commit    *)
(* and reveal, referrals, profile changes, deactivation and verification,  *)
(* the list of all merchants and its pages.                                *)
(*                                                                         *)
(* One tick of the clock is one ledger.  A commitment is a temporary       *)
(* entry: the network drops it when its time to live is over.  The hash it *)
(* holds stands for what was hashed.                                       *)
(***************************************************************************)
EXTENDS Pages

CONSTANTS
    Addresses,     \* who may register
    Committers,    \* bound of the model: the addresses that may commit first
    Names,         \* display names
    Nonces,        \* the bytes a merchant draws to hide what it commits to
    CommitmentTTL, \* COMMITMENT_TTL_LEDGERS
    MinTempTTL,    \* for how many more ledgers the network keeps a new temporary entry
    MaxLedger      \* bound of the model on the ledger sequence

Hashes == Addresses \X Names \X Nonces

Merchant == [name : Names, active : BOOLEAN, verified : BOOLEAN, referral_count : Nat]

MerchantCommitment == [hash : Hashes, committed_at_ledger : Nat, live_until : Nat]

ASSUME RegistryAssumption ==
    /\ IsFiniteSet(Addresses)
    /\ Committers \subseteq Addresses
    /\ CommitmentTTL \in Nat
    /\ MinTempTTL \in Nat
    /\ Limits \subseteq Nat
    /\ MAX_PAGE_LIMIT \in Nat
    /\ MaxLedger \in Nat
    /\ NoEntry \notin Addresses \cup Merchant \cup MerchantCommitment

VARIABLES
    ledger,           \* env.ledger().sequence()
    paused,           \* DataKey::Paused
    merchant,         \* DataKey::Merchant(address)
    merchant_list,    \* DataKey::ML
    active_merchants, \* GlobalStats.active_merchants
    commitment,       \* DataKey::MerchantCommitment(address), a temporary entry
    walk,             \* a reader of the list: where it is and what it has seen
    referred_by,      \* history: the referral each merchant registered with
    repeated          \* history: an inactive merchant was deactivated

storeVars == <<merchant, merchant_list, active_merchants, commitment>>
historyVars == <<referred_by, repeated>>
vars == <<ledger, paused, storeVars, walk, historyVars>>

Start == [cursor |-> NoEntry, seen |-> <<>>, done |-> FALSE]

Init ==
    /\ ledger = 0
    /\ paused = FALSE
    /\ merchant = [a \in Addresses |-> NoEntry]
    /\ merchant_list = <<>>
    /\ active_merchants = 0
    /\ commitment = [a \in Addresses |-> NoEntry]
    /\ walk = Start
    /\ referred_by = [a \in Addresses |-> NoEntry]
    /\ repeated = FALSE

-----------------------------------------------------------------------------
(* Helpers *)

IsRegistered(a) == merchant[a] # NoEntry

HasCommitment(a) == commitment[a] # NoEntry

Larger(x, y) == IF x >= y THEN x ELSE y

\* The entry lives as long as the network gives it, extended when that is less.
set_merchant_commitment(a, hash) ==
    commitment' = [commitment EXCEPT ![a] =
        [hash |-> hash, committed_at_ledger |-> ledger,
         live_until |-> ledger + Larger(MinTempTTL, CommitmentTTL)]]

\* A new profile, listed and counted; its referrer, registered and not itself,
\* gets one more referral.
AddMerchant(a, name, referral) ==
    /\ merchant' = [b \in Addresses |->
            IF b = a THEN [name |-> name, active |-> TRUE, verified |-> FALSE, referral_count |-> 0]
            ELSE IF b = referral THEN [merchant[b] EXCEPT !.referral_count = @ + 1]
            ELSE merchant[b]]
    /\ merchant_list' = Append(merchant_list, a)
    /\ active_merchants' = active_merchants + 1
    /\ referred_by' = [referred_by EXCEPT ![a] = referral]

-----------------------------------------------------------------------------
(* Registration *)

commit_merchant_registration(a, hash) ==
    /\ ~paused
    /\ ~IsRegistered(a)
    /\ ~HasCommitment(a)
    /\ set_merchant_commitment(a, hash)
    /\ UNCHANGED <<ledger, paused, merchant, merchant_list, active_merchants, walk, historyVars>>

\* A slip: the age of the commitment is left to its time to live.
reveal_at_any_age(a, name, nonce) ==
    /\ ~paused
    /\ ~IsRegistered(a)
    /\ HasCommitment(a)
    /\ commitment[a].hash = <<a, name, nonce>>
    /\ commitment' = [commitment EXCEPT ![a] = NoEntry]
    /\ AddMerchant(a, name, NoEntry)
    /\ UNCHANGED <<ledger, paused, walk, repeated>>

\* A commitment that is too old is removed before the call fails, which undoes
\* the removal.
reveal_merchant_registration(a, name, nonce) ==
    /\ ~paused
    /\ ~IsRegistered(a)
    /\ HasCommitment(a)
    /\ ledger - commitment[a].committed_at_ledger <= CommitmentTTL
    /\ commitment[a].hash = <<a, name, nonce>>
    /\ commitment' = [commitment EXCEPT ![a] = NoEntry]
    /\ AddMerchant(a, name, NoEntry)
    /\ UNCHANGED <<ledger, paused, walk, repeated>>

\* In one step; a pending commitment stays behind.
register_merchant(a, name, referral) ==
    /\ ~paused
    /\ ~IsRegistered(a)
    /\ referral # a
    /\ referral # NoEntry => IsRegistered(referral)
    /\ AddMerchant(a, name, referral)
    /\ UNCHANGED <<ledger, paused, commitment, walk, repeated>>

-----------------------------------------------------------------------------
(* Profiles *)

\* A slip: the profile is built anew from the arguments.
update_merchant_anew(a, name) ==
    /\ IsRegistered(a)
    /\ merchant[a].active
    /\ merchant' = [merchant EXCEPT ![a] =
            [name |-> name, active |-> TRUE, verified |-> FALSE, referral_count |-> 0]]
    /\ UNCHANGED <<ledger, paused, merchant_list, active_merchants, commitment, walk, historyVars>>

\* Also while the contract is paused.
update_merchant(a, name) ==
    /\ IsRegistered(a)
    /\ merchant[a].active
    /\ merchant' = [merchant EXCEPT ![a].name = name]
    /\ UNCHANGED <<ledger, paused, merchant_list, active_merchants, commitment, walk, historyVars>>

\* Nothing asks whether the merchant is active: the count goes down each time,
\* but not below zero.
deactivate_merchant(a) ==
    /\ ~paused
    /\ IsRegistered(a)
    /\ merchant' = [merchant EXCEPT ![a].active = FALSE]
    /\ active_merchants' = IF active_merchants > 0 THEN active_merchants - 1 ELSE 0
    /\ repeated' = (repeated \/ ~merchant[a].active)
    /\ UNCHANGED <<ledger, paused, merchant_list, commitment, walk, referred_by>>

reactivate_merchant(a) ==
    /\ ~paused
    /\ IsRegistered(a)
    /\ ~merchant[a].active
    /\ merchant' = [merchant EXCEPT ![a].active = TRUE]
    /\ active_merchants' = active_merchants + 1
    /\ UNCHANGED <<ledger, paused, merchant_list, commitment, walk, historyVars>>

\* Also while the contract is paused.
verify_merchant(a) ==
    /\ IsRegistered(a)
    /\ merchant' = [merchant EXCEPT ![a].verified = TRUE]
    /\ UNCHANGED <<ledger, paused, merchant_list, active_merchants, commitment, walk, historyVars>>

unverify_merchant(a) ==
    /\ ~paused
    /\ IsRegistered(a)
    /\ merchant' = [merchant EXCEPT ![a].verified = FALSE]
    /\ UNCHANGED <<ledger, paused, merchant_list, active_merchants, commitment, walk, historyVars>>

-----------------------------------------------------------------------------
(* The list, page by page *)

Position(s, e) == CHOOSE i \in 1..Len(s) : s[i] = e /\ \A j \in 1..i - 1 : s[j] # e

\* What the cursor leaves: everything after it, or nothing if it is not listed.
\* A slip: the cursor itself comes again.
After_inclusive(cursor) ==
    IF cursor = NoEntry THEN merchant_list
    ELSE IF cursor \in Entries(merchant_list)
         THEN SubSeq(merchant_list, Position(merchant_list, cursor), Len(merchant_list))
         ELSE <<>>

\* What the cursor leaves: everything after it, or nothing if it is not listed.
After(cursor) ==
    IF cursor = NoEntry THEN merchant_list
    ELSE IF cursor \in Entries(merchant_list)
         THEN SubSeq(merchant_list, Position(merchant_list, cursor) + 1, Len(merchant_list))
         ELSE <<>>

\* next_cursor names the first merchant that did not fit, although the next call
\* resumes after its cursor.
build_merchant_page(cursor, limit) ==
    LET rest == After(cursor)
        fits == IF Len(rest) <= limit THEN rest ELSE SubSeq(rest, 1, limit)
    IN  [merchants |-> fits,
         next_cursor |-> IF Len(rest) <= limit THEN NoEntry ELSE rest[limit + 1],
         total |-> Len(rest)]

\* A reader of the command line's list goes on from the last merchant of the
\* page before, as its help says, and stops at a page without a next cursor.
ReadPage(limit) ==
    LET page == build_merchant_page(walk.cursor, limit)
    IN  /\ require_valid_limit(limit)
        /\ ~walk.done
        /\ walk' = [cursor |-> IF page.merchants = <<>> THEN walk.cursor
                               ELSE page.merchants[Len(page.merchants)],
                    seen |-> walk.seen \o page.merchants,
                    done |-> page.next_cursor = NoEntry]
        /\ UNCHANGED <<ledger, paused, storeVars, historyVars>>

StartOver ==
    /\ walk.done
    /\ walk' = Start
    /\ UNCHANGED <<ledger, paused, storeVars, historyVars>>

-----------------------------------------------------------------------------

\* The network drops the temporary entries whose time to live is over.
CloseLedger ==
    /\ ledger < MaxLedger
    /\ ledger' = ledger + 1
    /\ commitment' = [a \in Addresses |->
            IF HasCommitment(a) /\ ledger' > commitment[a].live_until THEN NoEntry ELSE commitment[a]]
    /\ UNCHANGED <<paused, merchant, merchant_list, active_merchants, walk, historyVars>>

set_paused ==
    /\ paused' = ~paused
    /\ UNCHANGED <<ledger, storeVars, walk, historyVars>>

Next ==
    \/ \E a \in Committers, h \in Hashes : commit_merchant_registration(a, h)
    \/ \E a \in Committers, n \in Names, x \in Nonces : reveal_merchant_registration(a, n, x)
    \/ \E a \in Addresses, n \in Names, r \in Addresses \cup {NoEntry} : register_merchant(a, n, r)
    \/ \E a \in Addresses, n \in Names : update_merchant(a, n)
    \/ \E a \in Addresses : deactivate_merchant(a)
    \/ \E a \in Addresses : reactivate_merchant(a)
    \/ \E a \in Addresses : verify_merchant(a)
    \/ \E a \in Addresses : unverify_merchant(a)
    \/ \E limit \in Limits : ReadPage(limit)
    \/ StartOver
    \/ CloseLedger
    \/ set_paused

Spec == Init /\ [][Next]_vars

-----------------------------------------------------------------------------
(* Properties *)

\* The variables hold what storage can hold.
TypeOK ==
    /\ ledger \in 0..MaxLedger
    /\ paused \in BOOLEAN
    /\ merchant \in [Addresses -> Merchant \cup {NoEntry}]
    /\ merchant_list \in Seq(Addresses)
    /\ active_merchants \in Nat
    /\ commitment \in [Addresses -> MerchantCommitment \cup {NoEntry}]
    /\ walk \in [cursor : Addresses \cup {NoEntry}, seen : Seq(Addresses), done : BOOLEAN]
    /\ referred_by \in [Addresses -> Addresses \cup {NoEntry}]
    /\ repeated \in BOOLEAN

\* The list names every registered merchant exactly once, on whichever path it
\* registered.
ListExact ==
    /\ \A a \in Addresses : IsRegistered(a) <=> a \in Entries(merchant_list)
    /\ \A i, j \in 1..Len(merchant_list) : merchant_list[i] = merchant_list[j] => i = j

Active == {a \in Addresses : IsRegistered(a) /\ merchant[a].active}

\* The count never exceeds the active merchants, and is exact unless an inactive
\* one was deactivated.
ActiveCounted ==
    /\ active_merchants <= Cardinality(Active)
    /\ ~repeated => active_merchants = Cardinality(Active)

\* A merchant's referrals are those who named it, whatever happened to its
\* profile since.
ReferralsCounted ==
    \A a \in Addresses : IsRegistered(a) =>
        merchant[a].referral_count = Cardinality({b \in Addresses : referred_by[b] = a})

\* List, count and referrals, which registration writes together and six
\* handlers read and write back, agree with the profiles.
RegistryAgrees ==
    /\ TypeOK
    /\ ListExact
    /\ ActiveCounted
    /\ ReferralsCounted

\* What was committed may be revealed for CommitmentTTL ledgers, and no longer:
\* a commitment is never replaced, and one that goes was revealed in time, under
\* the name it hid, or was too old for that, whatever time to live the network
\* gives temporary entries (the age check of reveal_merchant_registration and
\* the time to live of the entry are two clocks).
CommitmentHonoured ==
    [][\A a \in Addresses : HasCommitment(a) /\ commitment'[a] # commitment[a] =>
          LET inTime == ledger' - commitment[a].committed_at_ledger <= CommitmentTTL
              revealed == ~IsRegistered(a) /\ IsRegistered(a)'
          IN  /\ commitment'[a] = NoEntry
              /\ revealed <=> inTime
              /\ revealed => <<a, merchant'[a].name>> = <<commitment[a].hash[1], commitment[a].hash[2]>>
      ]_vars

\* A reader that reaches the end has seen every merchant registered by then,
\* each once, in order, whatever limits it used and whoever registered while it
\* was reading (build_merchant_page).
WalkComplete == [][walk'.done /\ ~walk.done => walk'.seen = merchant_list]_vars

-----------------------------------------------------------------------------
(* What the documentation says and the code does not do *)

\* docs/api-reference.md: active_merchants is the current count of active
\* merchant profiles.
ActiveCountExact == active_merchants = Cardinality(Active)

\* lib.rs:755-757: a commitment expires after CommitmentTTL ledgers, and after
\* that the caller submits a new one.  It can only once the old one is gone, which
\* the network decides.
NoStaleCommitment ==
    \A a \in Addresses : HasCommitment(a) =>
        ledger - commitment[a].committed_at_ledger <= CommitmentTTL

=============================================================================
