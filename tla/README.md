# LumenFlow contracts: specifications, model checks and proofs

LumenFlow is a payment processor written as a Soroban (Stellar) smart contract.
This directory holds TLA+ modules translated from its source, configurations
that check them with TLC on small instances, and theorems that TLAPS proves for
every value of the constants. `PROJECT.json` lists the runs, the mutations each
property is known to detect, and for every definition the source lines it
stands for.

## The system

`contracts/lumenflow/src` is the core: `lib.rs` (the entry points),
`storage.rs` (one accessor per storage key), `helper.rs` (guards and
signatures), `types.rs`, `error.rs`. Around it lie a blue/green router contract,
a TypeScript SDK, a command-line client, a webhook delivery service, web pages,
a metrics exporter and scripts.

| Component | State it keeps | Operations | What makes it hard |
|---|---|---|---|
| payments | payment records, two capped history indexes, nonces, rate counters, totals, fee | `process_payment_with_nonce`, `process_payment_with_signature`, `batch_payment`, `archive_payment_record`, fee and limit settings | a batch groups its transfers but records items one by one; archiving frees an order id while other records still name it; counters and indexes have limits |
| refunds, disputes | refund records, refund ids per order, dispute records | `initiate_`, `approve_`, `reject_`, `execute_refund`; `raise_`, `initiate_`, `escalate_`, `resolve_dispute`, `mark_dispute_under_review`; `update_payment_status`, two clean-ups | the remaining amount is checked long before it is used; two ways to pay a refund; ids dangle and are used again |
| escrow, holds | escrow and hold records; the money of all of them in one token balance | `create_escrow`, `release_escrow`, `cancel_escrow_before_lock`; `escrow_hold`, `escrow_release`, `escrow_cancel` | nobody keeps the sum; neither kind looks at the other's records |
| subscriptions | plans, subscriptions, one reserve per subscriber and token; an allowance in the token contract | `create_subscription_plan`, `subscribe`, `charge_`, `cancel_subscription`, `renew_subscription_allowance` | all subscriptions share an allowance that is set, not added to, and that only the subscriber may set |
| governance | administrator, pause flag, reason, timelock, guardians, approvals, audit log | `set_`, `transfer_admin`; `pause_contract`, `pause_with_reason`, `unpause_contract`; `set_pause_guardians`, `approve_early_unpause`; the log and its reader | votes, two kinds of pause, guardian changes and hand-overs in any order; a log that turns over |
| multisig, payment requests | multi-signature payments, requests and their index; the payment records | `initiate_`, `sign_`, `cancel_`, `execute_multisig_payment`; `create_`, `pay_`, `cancel_payment_request`, `cancel_expired_payment_requests` | requests are temporary entries that the network drops, at other times than their index; execution writes over whatever has the order id |
| merchants | profiles, commitments, referrals, the list, the active-merchant counter | `register_`, `update_`, `deactivate_`, `reactivate_`, `verify_`, `unverify_merchant`; `commit_`, `reveal_merchant_registration`; `get_merchants` | a removal rolled back with the call that fails; a counter beside the flags it counts; paging while the list grows |
| payment histories | nothing of their own; they read the indexes and records | `get_merchant_payment_history`, `get_payer_payment_history`, the SDK's `fetchAllPages` | a cursor is an order id, looked up in a list that is filtered and sorted anew for every page |
| router, scripts | active slot, slots, stable and canary, weight; the file of the slot to go back to | setters, `route_call`; `cutover.sh`, `rollback.sh` | two modes; a script of several commands that can fail or be killed anywhere, beside calls by hand |
| webhook service | cursor file, idempotency store, handlers in flight | stream, deliver with retries, reconnect, restart | handlers overlap and finish out of order; lost connections, lost answers, crashes |
| CLI, web, monitoring, most of the SDK and scripts | none of the protocol's | build calls, read | out of scope |

Components meet in shared storage: refunds, disputes and the clean-ups all write
payment records; escrows and holds share a balance; every entry point reads the
pause flag, the merchant's `active` flag and the allow-list, which others change
between two calls; direct payments, requests and multi-signature payments share
the order ids and the two histories that the readers page through. They call the
token contract: `transfer` fails when the sender holds too little, `approve`
sets an allowance, `transfer_from` uses it up. The router is called first and
told apart from the contract it names: the caller makes the real call itself.
The webhook service sees only the events of the contract.

## How code becomes actions

The Soroban host runs one call at a time and discards everything a call wrote
when it returns `Err` or traps. An action is therefore one successful call of an
entry point, with all its writes; a failing call is a stuttering step. What
interleaves are calls, and what goes wrong between them is what the properties
are about: records read by one call and changed by the next. Time is the
ledger's: it never goes back.

Outside the contract nothing is atomic. A script moves one command at a time and
every command may fail, succeed and lose its answer, or be its last. A handler of
the webhook server moves from one `await` to the next, and between any two of
those the connection or the process may be gone. A reader of pages makes one
call per step.

The source at this commit does not compile: merges left `add_allowed_token`,
`remove_allowed_token`, `set_platform_fee`, `set_refund_window`,
`set_min_refund_amount` and `set_multisig_expiry_duration` defined twice in
`lib.rs`, and some error variants and storage keys undefined. Where two versions
exist the first one is modelled (`set_platform_fee` at `lib.rs:176`; it is the
one whose storage functions exist).

Abstracted throughout: identifiers are model values, and their length checks are
left out; events, log texts and TTL extensions are left out; a signature is a
call that got past `verify_signature`; persistent entries are never lost
(the network archives them and they can be restored). Temporary entries, which
are lost for good, are payment requests, their index and commitments; their time
to live is modelled.

Numbers: the volumes that the statistics keep are clamped. `Ledger` translates
`saturating_add` by what it does, `Clamped` at the constant `MaxTotal`
(`i128::MAX`), wherever a volume of payments or refunds grows (`lib.rs:1323`,
`1329`, `1465`, `1471`, `1700`, `1705`, `2394`, `2399`, `2611`, `2617-2619`,
`3099`, `3595`; ADR-001), so that a call succeeds whatever the total:
`test_total_volume_no_overflow_saturates` pins it (`test.rs:3107`).
`Merchant.total_received` grows by a checked addition, and the contract is built
with `overflow-checks = true` (`Cargo.toml:18`): there the call fails, and so
does the action (`Receive`). All other integers are unbounded in the models. Of
those the code saturates, the counters of 32 and 64 bits (`lib.rs:1240`, `1804`,
`storage.rs:605`, `636`) would take as many calls as they can hold; the reserve
of a subscription (`lib.rs:3798-3800`) would take plans worth more than 2^127
and is listed as a hazard; and the subtractions (`lib.rs:847`, `1248` and their
like) stop at zero where the models say so.

## Modules

* `ContractEnv` - clock, token balances, pause flag, active merchants,
  allow-list, and the guards and the token transfer every handler uses.
  `EnvNext` lets the rest of the system flip any of the flags between calls;
  the constant `Switches` says which ones a run lets it flip.
* `Sums` - the sum of a function over `1..n` as a recursive function.
* `MoneyProofs` - the lemmas the proofs about money share: what a transfer and a
  step of the rest of the system change, and the laws of a sum (adding,
  changing one entry, appending, covering an entry).
* `Custody` - the promise of an escrow service in the abstract: a claim pays
  out once, in full, into the depositor's purse before its deadline or into the
  beneficiary's from the deadline on (earlier with a referee). `purse` is what
  each party holds itself: a payout that reaches anybody else is no step of the
  service.
* `Escrow` (with `MCEscrow`, `EscrowProofs`) - the six escrow handlers over the
  shared balance, and the mapping that shows both kinds of record together to
  be one `Custody`, whose claims are named by the kind and the index of the
  record and whose purses are the accounts' balances.
* `Ledger` - the payment paths and everything they write (`LedgerTypeOK` is what
  storage can hold); `Payments` (with `MCPayments`, `PaymentsProofs`) runs them
  against each other as `PaymentsSpec`, `Refunds` (with `MCRefunds`) adds what
  happens to a payment afterwards as `RefundsSpec`. `receipts` and `repaid` are
  history variables: the payments made and refunds paid, against which balances,
  totals and records are reconciled.
* `Orders` (with `MCOrders`) - payment requests and multi-signature payments on
  top of `Ledger`, beside its nonce payments and the archive. `request` and
  `request_index` carry the ledger they live until. As in the host, an entry
  that is still there keeps its time to live when it is written again, so the
  index can be dropped under requests that live on.
* `LifecycleProofs` - the theorems about what surrounds a payment: `Orders`
  before it and `Refunds` after it, on the lemmas of `PaymentsProofs`.
* `Pages` - what paged queries share: the entries of a list, the page sizes asked
  for and the guard on them.
* `Registry` (with `MCRegistry`) - one action per merchant handler,
  `CloseLedger` for the clock (one tick is one ledger) that also drops
  commitments when the network does (`MinTempTTL` is the least time to live it
  gives a temporary entry, `CommitmentTTL` the contract's 100 ledgers; the entry
  lives for the longer of the two), and a reader: `ReadPage` is one call of
  `get_merchants` with any page size. `referred_by` and `repeated` are history.
* `Histories` (with `MCHistories`) - `build_page` is filter, sort, cursor lookup
  and page of the two history queries; `fetchAllPages` is one round of the SDK's
  loop with its checks (`Guarded`; without them it is the loop the documents
  print). Between rounds payments are made by this account and by others
  (`Pay`; an id stays in the index, and `build_page` loads whatever is stored
  under it), agreed payments replace what is there
  (`execute_multisig_payment`), refunds and the administrator's override change
  statuses, on or back, and the archive removes records. `reader` holds its
  query, cursor and result, which payments matched all along, and whether its
  place in the list was lost. `SortedLists` are the orders in which
  `sort_unstable_by` may leave the candidates: equals keep the order of the index
  in a list of up to `SmallSort` elements (20 in the library), which it sorts by
  insertion, and come in any order in a longer one.
* `RecordsProofs` - the theorems on `Registry` and `Histories`.
* `Rollout` (with `MCRollout`) - the router's setters and `route_call`, the two
  scripts as a program counter over their commands (`ReadCurrent`,
  `SaveCurrent`, `CheckTarget`, `Switch`, `ClearFile`, and `EndScript` at any
  point), their shared file, and a client that is given a route and uses it later.
  `PrintedSlot` is what the command line prints of the active slot, which the
  scripts take as it is: the bare name, which they expect, or the name in
  quotes, which `generate_smoke_keypair.sh:188` says of the same command and
  strips; `Outputs` says which of the two a run allows. `undo` and `since` are
  history; `undo` is set when the file is saved, so a cutover that ends before
  that leaves the file, and what a rollback restores, of the cutover before.
* `Webhook` (with `MCWebhook`) - `connect`, `OnMessage` and `OnError` are the
  stream's callbacks; `CheckStore`, `AddToStore`, `deliverWithRetry` and
  `saveCursor` the handler's steps between awaits; `StoreFails` is a Redis call
  that is rejected, `DeliveryHangs` a `fetch` that is never answered and has no
  timeout (others take its handler's place), and `saveCursor` may fail before
  the file is emptied or after; `Stop` and `Restart` end and start the process,
  the first perhaps between the emptying and the writing of the file, which is
  then read as "now". `store` is the idempotency store it was built with: with
  the memory store the check and the entry are one step and a run starts with an
  empty one; with the Redis store they are two and the entries survive.
  `acknowledged`, `given_up`, `begun` and `lost` are history: `lost` are the
  events that were let go, each in a step that says why.
* `OperationsProofs` - the theorems on `Webhook` and `Rollout`.
* `Subscriptions` (with `MCSubscriptions`, `SubscriptionsProofs`) - plans,
  subscriptions, the reserve and the token's allowance. `released` and `revoked`
  are history: what merchants freed since the last approval, and who took the
  allowance back at the token.
* `Governance` (with `MCGovernance`, `GovernanceProofs`) - administrator,
  pauses, timelock, guardians, audit log. `lock_votes` and `pause_votes` are
  history. The guardian list is the set of its addresses; five entries may name
  fewer people, since duplicates are not refused. The authentication lockout has
  no state here: its counters are written only in calls that return `Err`.

Every state variable carries the storage key it stands for in its comment. A
definition with a suffix such as `_unchecked` or `_alone`, placed before the one
it resembles and marked as a slip, is that definition with a plausible bug; it
is used nowhere in the specifications, and replacing the real one by it makes
the property named in `PROJECT.json` fail.

## Runs

| Run | Instance | What it shows |
|---|---|---|
| `escrow` | a buyer and a shop, one escrow, one hold, amounts 0-2, three ticks, all switches | the pot is exact (`Solvency`), the two kinds of record are one custody service that pays the right party (`ImplementsCustody`), and money comes out again (`EventuallySettled`) |
| `payments` | two merchants that sell to each other, two order ids, amounts 0-2, a fee of half, limits 1 and 2, two windows, histories of two, batches of one and two items (three is the model's stand-in for too many), two payments, totals of at most 3 | balances match records, live payments are indexed, nonces are used once, totals count what was paid whichever path paid it and clamp where the code does, the limit holds |
| `refunds` | one payment, two refunds, one dispute, overrides, clean-ups | balances, status and cap agree whatever the order |
| `reuse` | two orders, one refund id, two disputes, totals of at most 4 | ids used again after clean-ups: indexes, refunded amounts and totals stay right |
| `orders` | two order ids, one multi-signature payment of two signers, requests and entries that live one tick, histories of one entry, two payments | agreed payments pay once, in time and with the signatures; who may be missing from a history; the sweep finds what it should |
| `registry` | three addresses, one of which may also commit, three ledgers, commitments of one ledger in entries of two, pages of zero to two | list, counter and referrals agree; a commitment is honoured for its time, and only as what it hid, while its entry lives on (`CommitmentHonoured`); a reader of pages sees everyone once |
| `histories` | two orders, three instants, an index of three places, one filter on the status, by date up and down, pages of zero to two | an undisturbed reader gets each payment once and all that matched (`PagesComplete`); the SDK's loop ends, whatever happens to the payments (`WalkEnds`) |
| `subscriptions` | two subscriptions over two plans of one or two cycles, allowance of one ledger, four ticks | reserve exact, allowance accounted for, billing as planned |
| `governance` | three people, two votes of two guardians, a timelock of two ticks, a log of two entries and four writes | pause state agrees, timelock holds, the log tells the administrator and its reader misses nothing |
| `rollout` | two administrators, two contracts, a cycle of two ledgers, weights 0-3, three ledgers, a command line that prints a slot bare or in quotes | in either mode the route is the configured one and the canary gets its share (`RoutingSound`); a rollback brings back what the cutover replaced (`RollbackReverts`) |
| `webhook` | either store, two handlers, two events, two attempts, two faults | handed on at most once in a run of the memory store (`OncePerRun`); nothing is overlooked that stream, cursor or store have passed (`NothingOverlooked`); in the end every event is dealt with (`EventuallyHandled`) |
| `overdraft` | the instance of `refunds` | the code does not do what two documents say (below) |

Why the bounds suffice: each hazard needs few actors. A drift of a shared sum
needs two records that share it; a stale check needs one call between check and
use; a reused id needs one reuse; a turned-over log or full index needs one
entry more than the limit; an overtaken handler needs one other. The instances
contain these, with one spare step where it is affordable. Amounts 1 and 2
distinguish partial from full, 0 exercises the guards. `MaxTotal` is 3 in
`payments`, where two payments of 2 clamp the global volume or, to one merchant,
make the second fail, and 4 in `reuse`, where three refunds clamp; in the other
runs no total reaches it. In `histories` two ids are enough for a cursor and
a payment that it skips or repeats, and an id used again can stand in the index
twice with another between the two places; `MCMoved.cfg` has three ids, one more
than the sort keeps stable, for `PagesComplete` alone, and passes as well. The
router's cycle of 100 ledgers is shortened to two, with weights for none, half,
all, and one too large. `webhook` also passes with the memory store, three events
and one fault, and with `FromNow = TRUE`, the default of the server without a
`CURSOR`.

Symmetry is used over order, refund, dispute and plan ids, over contracts, over
merchants and people who play the same part (in `MCMoved.cfg` over order ids, which
no operator compares but for equality), never in a run with a liveness
property. Bounds that are the model's own and not the code's are `MaxTime`,
`MaxLedger`, `MaxPayments`, `MaxMultisigs`, `MaxVersion`, `MaxActions`,
`NumEscrows`, `NumHolds`, `NumSubs`, `Switches`, `Payees`, `Committers`,
`RefundStatuses`, `Handlers`, `MaxEvents` and `MaxFaults`; they appear in guards
or index sets only. Two runs do not check for deadlock: `histories` and
`webhook` end, when the reader has its answer and nothing more can be paid, and
when every event is handled and no fault is left. In the other runs the reader,
the clock or a setter can always move, so a state without a step would be an
error.

Fairness is stated where something in the code keeps going by itself.

* `Escrow`, `FairSpec`: anyone may call `release_escrow` after the unlock time
  and `escrow_release` after the timeout, and the merchant who gains by it will:
  each is assumed to be made eventually if it is possible again and again
  (strong fairness, because pauses may intervene). The clock is assumed to
  advance. `EventuallySettled` additionally assumes that the contract is
  unpaused infinitely often: nothing in the code forces the administrator to do
  that.
* `Histories`: a loop that has begun goes on, each call is answered with a page
  or an error (weak fairness). `WalkEnds` then rests on the loop's own checks
  and page limit, since payments may go on.
* `Webhook`: the event loop runs every handler and timer that is due, a call to
  Redis ends, if only in an error, an open stream sends what there is, a closed
  one is opened again by its timer, and an ended process is restarted, as
  `webhook/README.md:8` expects (weak fairness of each). Of a delivery nothing
  is assumed: fairness of a handler may be met by `DeliveryHangs`. Faults are
  not fair and are finite in number: `EventuallyHandled` holds once they stop.
  An event may also end up `hung`, until the run ends, or `lost`, for one of
  four reasons: the run ended when the cursor of a faster handler had passed the
  event, or when the event was in a store that outlives the run (`Stop`); Redis
  rejected a call (`StoreFails`); the cursor file was empty, or there was none
  and no `CURSOR`, so that the stream started from now (`connect`). What is
  claimed, and proved, is that there is no fifth.

## Where the code and its documents disagree

One of these is a run that must end in a violation, and a finding in
`PROJECT.json`:

* `overdraft`: two refunds that each fit when requested are both executed and pay
  back more than the payment, which `docs/testing-guide.md:124` and
  `docs/refund-lifecycle.md:475` exclude.
Two more have a configuration of their own:

* `MCCommitments.cfg`, on `MCRegistry`, `NoStaleCommitment`: after its 100 ledgers
  an expired commitment still blocks its merchant for as long as the network keeps
  the entry, since `lib.rs:780` asks only whether there is one, and the removal at
  `lib.rs:849` is rolled back with the error of `lib.rs:850`. `lib.rs:755-757`
  says that a new one may then be submitted, which is so only where the network's
  minimum time to live of a temporary entry is no longer than 100 ledgers.
* `MCQuoted.cfg`, on `MCRollout`, `RollbackRestorable`: a slot that the command
  line printed in quotes is saved with them (`cutover.sh:119`), and
  `rollback.sh:121` refuses it, where `cutover.sh:116-117` says that it can then be
  restored without the operator. `RollbackReverts` is about the rollbacks that do
  go by the file; with such a command line there are none, and the operator names
  the slot in `ROLLBACK_TO_SLOT`.

The others are defined beside the properties that hold, and can be seen by hand:
put the property into the configuration named here (as `INVARIANT`, or as
`PROPERTY` where marked), with the change given if there is one, and run TLC.

| Property | Configuration | The code | What says otherwise |
|---|---|---|---|
| `OrderIdNeverReused` | `MCPayments` | an archived order id is free again | `docs/order-id-semantics.md:14` |
| `ArchivedLeavesHistory` | `MCPayments` | archiving leaves the id in the two histories | comment of `archive_payment_record` |
| `TotalReceivedIsNet` | `MCPayments` | a nonce payment adds the gross amount | comment of `process_payment_with_signature` |
| `MerchantReceivesAtMostLimit` (`PROPERTY`) | `MCPayments` | nonce payments do not count against the limit | comment of `set_payment_rate_limit` |
| `CompletedPaidOnce` (`PROPERTY`) | `MCPaidTwice` | a disputed refund is paid once by its execution and once by the dispute | `docs/refund-lifecycle.md:121` |
| `RejectionPermanent` (`PROPERTY`) | `MCPaidTwice` | a second dispute revives a rejected refund | `docs/refund-lifecycle.md` |
| `RefundedNeverDecreases` (`PROPERTY`) | `MCOverdraft` | a status override lowers the refunded amount | `docs/refund-lifecycle.md` |
| `ApprovalNotSkipped` (`PROPERTY`) | `MCSkipped` | a dispute that outlived its refund completes a new, pending one | `docs/refund-lifecycle.md` |
| `CleanupSparesOthers` (`PROPERTY`) | `MCCleanup` | cleaning up one payment deletes the undecided refund of another | `lib.rs:1905` |
| `VotesBelongToPause` (`PROPERTY`) | `MCGovernance` | votes cast while the contract runs help to lift a later pause | `lib.rs:367` |
| `IndexListsAll` | `MCOrders` | the index lapses before requests entered in it later | comment of `get_payment_request_ids` |
| `PaymentsNeverReplaced` (`PROPERTY`) | `MCOrders` | executing a multi-signature payment writes over a payment | `docs/order-id-semantics.md` |
| `QuorumReachable` | `MCOrders`, `SignerLists <- Duplicates` | a list that names a signer twice can never be completed | comment of `initiate_multisig_payment` |
| `RequestLastsItsTTL` | `MCOrders`, `RequestTTLs = {3}` | a request is dropped by the network before its `ttl` is over | comment of `create_payment_request` |
| `ActiveCountExact` | `MCRegistry` | deactivating twice counts down twice | `docs/api-reference.md:1750` |
| `NoPaymentTwice` | `MCMoved` | a cursor that is archived, or refunded out of the filter, starts the list again | `docs/merchant-payout-reporting.md:309-311` |
| `WalkEnds` | `MCHistories`, `Guarded = FALSE` | the loop printed in the document need not end (and its limit of 200 is refused, `MAX_PAGE_LIMIT` is 100) | the same page |
| `FileUndoesCutover` (`PROPERTY`) | `MCRollout` | a cutover run again after its answer was lost saves its own target | `cutover.sh:116-117` |
| `NoStaleRoute` (`PROPERTY`) | `MCRollout` | a client uses the route it was given before a switch | router `lib.rs:156-157` |
| `RouteAnswers` | `MCRollout` | a weight may be set before the canary it routes to | router `lib.rs:213-222` |
| `NeverTwice` | `MCWebhook` | a lost answer or a restart delivers again | `webhook-server.js:9-10` |
| `NothingLost` | `MCWebhook` | an event is let go in one of the four ways named above | `webhook-server.js:11-12`, `webhook/README.md:8,36` |
| `CursorAfterSuccess` | `MCWebhook` | the cursor is saved after a delivery that was given up as well | `webhook-server.js:262` |
| `OncePerRunOnRedis` | `MCWebhook` | two handlers of one event both find the Redis store empty | `handleMessage` |

In the configurations with a symmetry, drop it for these.

Read off the source without a run: `set_payment_rate_window` writes the key of
the refund window (`storage.rs:833`); the authentication lockout never engages
because its counters are rolled back with the failing call
(`storage.rs:1075-1083` says it does); `docs/api-reference.md:380-402` lists
actions as audited that append nothing; `docs/api-reference.md:1406` lets
anybody charge a subscription, the code only its merchant; `next_cursor` of a
page of merchants names the first merchant left out, but the next page begins
after it, so a reader that passes it on misses that merchant, as the test at
`test.rs:351-360` expects. The reader of `Registry` does what the help of the
command-line client says (`main.rs:172`) and passes the last merchant of the page:
`WalkComplete` is about that reader.

## What is proved

All theorems hold for any number of accounts, records, tokens, handlers and
events, and any values of the limits.

The names in the configurations are the names in the theorems: every invariant
and step property that a passing run checks is a theorem here; `PaymentsKept`
(`Orders`: what may replace a payment) is proved only. What the runs add is
liveness, and that the cases the theorems speak of do occur.

* `EscrowProofs`: `EscrowTypeCorrect`, `EscrowSolvent`, `EscrowPayoutsCovered`,
  `EscrowImplementsCustody`. Solvency is inductive together with the type
  invariant: each handler changes one record and the balance by that record's
  amount, and the law of sums (`TotalAfter` and its kin) carries that to the
  totals; coverage follows since a sum of naturals is at least each of its
  terms, so no run repeats it. The refinement goes handler by handler: each
  opens one claim or pays one out, by the terms its record stands for, out of
  the depositor's balance and into the balance of the party that the deadline
  and the referee allow; money that an account sends the contract unasked is
  spent from its purse; and what is left of the state maps to a stutter.
* `PaymentsProofs`: `PaymentsTypeCorrect`, `PaymentsAlwaysIndexed`,
  `NoncesAlwaysUsedOnce`, `StatsAlwaysMatchReceipts`, `RateLimitAlwaysKept`,
  `PaymentsAlwaysReconciled`. Every path is an instance of one operator, `Pays`:
  a nonce or signed payment of one item, a batch of several. What `Pays` writes
  is described once, item by item, by induction over the recursive functions the
  model uses (`OrdersFor`, the partial sums), as functions and never as
  recursive operators. A sum over receipts then grows by the sum over the items;
  a volume is the clamped sum of what was paid, for every `MaxTotal`, since
  adding to what was clamped before gives the same as clamping at the end. The
  hard case is the batch, whose transfers are grouped by merchant and token
  while its receipts are not: the balance is followed over the pairs already
  served, and equals what the items of those pairs come to. The strengthenings
  are `FeeHasRecipient` (whoever sets a fee names who gets it; the
  reconciliation needs it), `NoncesNumbered` (the nonces of a payer run from 0
  and those of a merchant from 1, up to the stored one, each once) and
  `RateCounts` (the counter of a window is what the receipts of that window
  say).
* `LifecycleProofs`, on `Orders`: `OrdersTypeCorrect`, `RequestsListed`,
  `PaymentsAlwaysKept`, `OnlyMultisigsUnindexed`, `MultisigAlwaysPaysOnce`. A
  request missing from the index means that the index it was entered in is gone.
  The strengthening, `Fresh`, says that no request outlives what would be
  entered now, and that where one lives as long, the index lives too. For the
  histories, `Recorded`: a stored payment stands for the last receipt of its
  order, and is listed unless that receipt came from an agreement. An agreement
  pays once since `PaysOnce` ties every such receipt to one completed agreement,
  and `SignedOnce` says that the signatures counted are of different signers.
* `LifecycleProofs`, on `Refunds`: `RefundsTypesCorrect`, `StatusAlwaysMatches`,
  `RefundsAlwaysIndexed`, `RefundsAlwaysCapped`, `RefundsAlwaysReconciled`,
  `StatsAlwaysMatchRepaid`, `RefundedAlwaysMatchesRepaid`. All rest on
  `RefundsSound`, of which `Backed` is the part that is not a type: a payment
  record stands for the last receipt of its order, with the same parties and
  token, and every refund paid names a receipt there is. `RefundsCapped` needs
  `Capped`: on a regular order at most one refund may still be paid, that one
  fits, and a refund in an open dispute was rejected and is in no second one
  (`OneByOne`); and a stored refund is of an order that was paid at some time
  (`RefundsOfReceipts`), so that an order paid for the first time has none. That
  invariant is what `execute_refund` and `resolve_dispute` rely on when they pay
  without looking at the remaining amount; the condition "regular" is needed, as
  the run `overdraft` shows. `RefundedMatchesRepaid` needs `Matched`, the same
  statement about the last receipt of an order rather than the one chosen, so
  that a second payment under the id starts from nothing.
* `SubscriptionsProofs`: `SubscriptionsTypeCorrect`, `ReserveAlwaysExact`,
  `AllowanceAlwaysAccounted`, `AlwaysBilledAsPlanned`. Not even the types are
  inductive alone: that a reserve stays a natural number needs it to be exact,
  and that needs `RecordsAgree` (a subscription's plan exists, and it is
  completed exactly when all cycles are charged). `IInv` is the conjunction; each
  handler has a lemma for the records and one for the two totals. For billing,
  `BooksKept` says that every balance is what the charges come to, and
  `Punctual` that a whole interval lies before each cycle charged.
* `GovernanceProofs`: `GovernanceTypeCorrect`, `PauseStateAlwaysAgrees`,
  `TimelockAlwaysHolds`, `AuditAlwaysTellsAdmin`, `QueryAlwaysComplete`. The
  strengthening is `VotesFresh`: while a timelock runs, every approval kept was
  cast after it was set. For the log, `LogInv`: it is ordered by ledger, which the
  reader's filter rests on, and there is an administrator exactly when there is
  a first entry.
* `RecordsProofs`, on `Registry`: `MerchantsAgree`, `MerchantsRead` and
  `CommitmentsHonoured`. The count of referrals needs `Referrers` (who refers
  and who is referred is registered); the reader needs `SeenFirst` (what it has
  seen is a prefix of the list, up to its cursor). The last one holds for any
  two times to live: it needs that an entry lives for the longer of them and is
  dropped in the ledger after its last (`Lapses`), so it outlives the time in
  which it may be revealed.
* `RecordsProofs`, on `Histories`: `PagesAlwaysComplete` and
  `HistoriesTypeCorrect`. The sort comes first: places of the index are in a
  strict total order (`PrecedesOrder`), and a sort that is stable puts the
  candidates in it (`SortedPlaces`). A page is then exactly what lies between
  its cursor and the next one (`PagesExact`). The strengthening is `Placed`: as
  long as the cursor's payment is stored, whether or not it matches, nothing
  seen comes after it, and everything due comes after it or was seen. Why a
  payment may leave the filter and come back, by an override, without harm: what
  it is sorted by never changes as long as it is the same payment (`OrderKept`),
  so it comes back on the side of the cursor it was on. A payment that is new
  under its id, wherever the id stands in the index, is neither due nor seen.
  `Evolves` sums up what paying, agreeing, refunding, overriding and archiving
  have in common, and one lemma (`MeanwhileInv`) serves all of them.
* `OperationsProofs`, on `Webhook`: `MemoryOncePerRun`, `EventsNeverOverlooked`
  and `WebhookTypeCorrect`. The strengthenings are `Recorded` (with the memory
  store, an event handed on in this run is in the store, and no handler is
  between looking and adding), `Stored` (what the store holds is settled or
  being delivered, and a handler that saves has delivered or given up) and
  `Reached`: up to the stream, up to the cursor, and up to the event of every
  handler, whose cursor it may become, each event is settled or at work. A
  handler that ends settles its event or finds it in the store, an ended run
  lets go what its cursor and its store have passed, and a stream that starts
  from now lets go the rest (`EndAccounted`, `StopInv`, `ConnectInv`).
* `OperationsProofs`, on `Rollout`: `RoutingAlwaysSound` and
  `RollbackAlwaysReverts`. The count of ledgers that went to the canary has a
  closed form (`CanaryLedgers`): each whole cycle gives the weight, the rest of
  one at most the weight. `CountExact` says that the count is always the
  difference of two values of it, one ledger adds what `CanaryStep` says, and
  two values a cycle apart differ by the weight wherever the cycle starts
  (`CanaryCycles`). A rollback reverts because of `FileKnown`: as long as it is
  known what a rollback should undo, the file says so or was emptied, and a
  rollback that has read the file goes there.

Assumptions are the named ones of the modules (`EnvAssumption`,
`LedgerAssumption`, `RefundsAssumption`, `EscrowAssumption`, `ClaimAssumption`,
`SubscriptionsAssumption`, `GovernanceAssumption`, `OrdersAssumption`,
`RegistryAssumption`, `HistoriesAssumption`, `RolloutAssumption`,
`WebhookAssumption`): the contract is no account, merchants are accounts, bounds
are naturals, and the marker of an absent entry is no record. TLC evaluates them
in the runs.

Only model-checked:

* `EventuallySettled`, `WalkEnds` and `EventuallyHandled`, which are liveness
  under fairness: beyond the prover.
* What a recursive definition computes for every input is proved only as far as
  a function goes that is defined by recursion on the naturals; an operator
  defined by recursion would be beyond the prover, so none is used below a
  theorem.
* What the theorem on pages leaves out, by `Undisturbed`: a reader whose cursor
  stopped matching or was replaced by another payment, whose index names an id
  twice, or for which more than 20 payments matched of which two compare equal
  (`lib.rs:3334`), may see payments twice or miss some (`NoPaymentTwice` above).
  And a page may hold payments of other accounts, since `lib.rs:3310-3313` does
  not ask whose payment it loads.

## Not modelled

* The settings that only set a value (the lengths of periods, minimum amounts,
  limits other than fee and rate): each is a constant of a run. Two hazards rest
  on them and have no property: the two windows that share one storage key
  (`lib.rs:629`) and the saturating product of `lib.rs:3799`.
* The storage-key migration and the upgrade call: one-shot operations that
  nothing interleaves with.
* The rest of the SDK (building and encoding of calls, `retry.ts`,
  `eventPoller.ts`), the command-line client and the web pages: they make single
  calls and keep no state of the protocol.
* The monitoring exporter, which reads; the other scripts and the
  infrastructure, which drive external services.
* The expiry of Redis keys after seven days, which is longer than any run of the
  webhook model.
