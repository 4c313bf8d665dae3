------------------------------ MODULE Histories ------------------------------
(***************************************************************************)
(* A payment history, page by page: what get_merchant_payment_history and  *)
(* get_payer_payment_history return from one account's index, the SDK's    *)
(* loop that reads all pages (fetchAllPages), and what others do to the    *)
(* payments between two pages.                                             *)
(*                                                                         *)
(* The two handlers differ in the index they read only; `ids` is either.   *)
(* An id that is in it stays, and build_page loads whatever is stored      *)
(* under it: the payment it was entered for, that payment's successor      *)
(* under the same id, made to this account or to another, or nothing.      *)
(* A filter's token and tag select like its amounts: on a field that only  *)
(* a new payment changes.                                                  *)
(***************************************************************************)
EXTENDS Pages

CONSTANTS
    Orders,         \* order ids
    Amounts,        \* amounts paid
    Filters,        \* filters a reader may give
    Sorts,          \* the <<sort_field, sort_order>> pairs a reader may give
    RefundStatuses, \* bound of the model: what a refund may leave of a payment
    MaxPages,       \* options.maxPages of the loop
    Guarded,        \* whether the reader is fetchAllPages or a loop without its checks
    MaxIds,         \* MAX_PAYMENT_IDS_PER_ACCOUNT
    SmallSort,      \* how many elements sort_unstable_by sorts by insertion: 20
    MaxTime         \* bound of the model on the ledger timestamp

VARIABLES
    now,     \* env.ledger().timestamp()
    payment, \* DataKey::Payment(order_id)
    ids,     \* DataKey::MP(merchant) or DataKey::PP(payer)
    reader   \* the reader: its query, its cursor, what it has and how it ended

historiesVars == <<now, payment, ids, reader>>

PaymentStatus == {"Completed", "PartiallyRefunded", "FullyRefunded"}

PaymentOrder == [amount : Amounts, status : PaymentStatus, paid_at : 0..MaxTime]

PaymentFilter ==
    [date_start : Nat \cup {NoEntry}, date_end : Nat \cup {NoEntry},
     amount_min : Int \cup {NoEntry}, amount_max : Int \cup {NoEntry},
     status : PaymentStatus \cup {"Any"}]

SortField == {"Date", "Amount"}

SortOrder == {"Ascending", "Descending"}

ASSUME HistoriesAssumption ==
    /\ Amounts \subseteq Nat \ {0}
    /\ Filters \subseteq PaymentFilter
    /\ Sorts \subseteq SortField \X SortOrder
    /\ RefundStatuses \subseteq PaymentStatus
    /\ Limits \subseteq Nat
    /\ {MAX_PAGE_LIMIT, MaxPages, MaxIds, SmallSort, MaxTime} \subseteq Nat
    /\ Guarded \in BOOLEAN
    /\ NoEntry \notin Orders \cup PaymentOrder

NotStarted == [state |-> "idle"]

HistoriesInit ==
    /\ now = 0
    /\ payment = [o \in Orders |-> NoEntry]
    /\ ids = <<>>
    /\ reader = NotStarted

-----------------------------------------------------------------------------
(* The contract's page *)

matches_filter(p, f) ==
    /\ f.date_start # NoEntry => p.paid_at >= f.date_start
    /\ f.date_end # NoEntry => p.paid_at <= f.date_end
    /\ f.amount_min # NoEntry => p.amount >= f.amount_min
    /\ f.amount_max # NoEntry => p.amount <= f.amount_max
    /\ f.status \in {"Any", p.status}

\* The places of the index whose payment passes the filter.
Candidates(filter) ==
    {i \in 1..Len(ids) : payment[ids[i]] # NoEntry /\ matches_filter(payment[ids[i]], filter)}

Matching(filter) == {ids[i] : i \in Candidates(filter)}

Key(o, field) == IF field = "Date" THEN payment[o].paid_at ELSE payment[o].amount

SameKey(i, j, sort) == Key(ids[i], sort[1]) = Key(ids[j], sort[1])

\* Payments that compare equal keep the order of the index in a list that is
\* sorted by insertion; in a longer one they come in any.
MayPrecede(i, j, filter, sort) ==
    LET a == Key(ids[i], sort[1])
        b == Key(ids[j], sort[1])
    IN  \/ IF sort[2] = "Ascending" THEN a < b ELSE a > b
        \/ SameKey(i, j, sort) /\ (Cardinality(Candidates(filter)) > SmallSort \/ i < j)

NoRepeats(s) == \A i, j \in 1..Len(s) : s[i] = s[j] => i = j

\* The orders in which sort_unstable_by may leave the candidates.
Sortings(filter, sort) ==
    {place \in [1..Cardinality(Candidates(filter)) -> Candidates(filter)] :
        /\ NoRepeats(place)
        /\ Entries(place) = Candidates(filter)
        /\ \A j, k \in 1..Len(place) : j < k => MayPrecede(place[j], place[k], filter, sort)}

SortedLists(filter, sort) ==
    {[k \in 1..Len(place) |-> ids[place[k]]] : place \in Sortings(filter, sort)}

\* How many entries come before the page: a cursor that is not found starts
\* over.
StartIndex(sorted, cursor) ==
    IF cursor \in Entries(sorted)
    THEN CHOOSE i \in 1..Len(sorted) :
            sorted[i] = cursor /\ \A j \in 1..i - 1 : sorted[j] # cursor
    ELSE 0

\* A slip: the cursor is the first payment that is left out.
build_page_next(sorted, cursor, limit) ==
    LET start == StartIndex(sorted, cursor)
        end == IF Len(sorted) - start <= limit THEN Len(sorted) ELSE start + limit
    IN  [payments |-> SubSeq(sorted, start + 1, end),
         next_cursor |-> IF end < Len(sorted) THEN sorted[end + 1] ELSE NoEntry,
         total_matching |-> Len(sorted)]

\* The page of a sorted list.  Its cursor is the last payment on it, if any is
\* left out.
build_page(sorted, cursor, limit) ==
    LET start == StartIndex(sorted, cursor)
        end == IF Len(sorted) - start <= limit THEN Len(sorted) ELSE start + limit
    IN  [payments |-> SubSeq(sorted, start + 1, end),
         next_cursor |-> IF end < Len(sorted) THEN sorted[end] ELSE NoEntry,
         total_matching |-> Len(sorted)]

-----------------------------------------------------------------------------
(* The reader *)

\* Histories of the reader: `seen` are the payments it was given, `due` those
\* that matched at the start and ever since, neither of which a new payment under
\* the same id is; `repeated` says that it was given one twice, and `lost` that
\* its place in the list is gone.
Begin(filter, sort, limit) ==
    /\ reader = NotStarted
    /\ reader' = [state |-> "reading", filter |-> filter, sort |-> sort, limit |-> limit,
                  cursor |-> NoEntry, pages |-> 0, seen |-> {}, due |-> Matching(filter),
                  repeated |-> FALSE, lost |-> FALSE]
    /\ UNCHANGED <<now, payment, ids>>

Fail == reader' = [reader EXCEPT !.state = "failed"]

\* More payments match than are sorted by insertion, and two compare equal: the
\* next page may have them the other way round.
Unstable(filter, sort) ==
    /\ Cardinality(Candidates(filter)) > SmallSort
    /\ \E i, j \in Candidates(filter) : i # j /\ SameKey(i, j, sort)

\* The page is taken, the cursor follows it.
Advance(page, counted) ==
    reader' = [reader EXCEPT
        !.seen = @ \cup Entries(page.payments),
        !.repeated = @ \/ ~NoRepeats(page.payments)
                       \/ reader.seen \cap Entries(page.payments) # {},
        !.pages = counted,
        !.cursor = page.next_cursor,
        !.lost = @ \/ reader.cursor \notin Matching(reader.filter) \cup {NoEntry}
                   \/ Unstable(reader.filter, reader.sort),
        !.state = IF page.next_cursor = NoEntry THEN "done" ELSE "reading"]

\* The loop throws at a cursor that comes back at once.
Stuck(page) == page.next_cursor # NoEntry /\ page.next_cursor = reader.cursor

\* A slip: the pages are not counted.
fetchAllPages_uncounted ==
    /\ reader.state = "reading"
    /\ require_valid_limit(reader.limit)
    /\ \E sorted \in SortedLists(reader.filter, reader.sort) :
          LET page == build_page(sorted, reader.cursor, reader.limit)
          IN  IF Stuck(page) THEN Fail ELSE Advance(page, reader.pages)
    /\ UNCHANGED <<now, payment, ids>>

\* One turn of the loop.  Without its checks it keeps no count of the pages.
fetchAllPages ==
    /\ reader.state = "reading"
    /\ require_valid_limit(reader.limit)
    /\ \E sorted \in SortedLists(reader.filter, reader.sort) :
          LET page == build_page(sorted, reader.cursor, reader.limit)
          IN  IF ~Guarded THEN Advance(page, 0)
              ELSE IF reader.pages >= MaxPages \/ Stuck(page) THEN Fail
              ELSE Advance(page, reader.pages + 1)
    /\ UNCHANGED <<now, payment, ids>>

\* The call that asks for a page fails; it always does with a limit out of range.
FetchRejected ==
    /\ reader.state = "reading"
    /\ Fail
    /\ UNCHANGED <<now, payment, ids>>

-----------------------------------------------------------------------------
(* The payments meanwhile *)

\* What the payments' new state, in which those of `stored` are new, leaves of
\* the reader's histories.
Meanwhile(stored) ==
    reader' = IF reader.state = "reading"
              THEN [reader EXCEPT
                       !.seen = @ \ stored,
                       !.due = {o \in @ \ stored : payment'[o] # NoEntry
                                                   /\ matches_filter(payment'[o], reader.filter)},
                       !.lost = @ \/ reader.cursor \in stored]
              ELSE reader

StorePayment(o, amount) ==
    /\ payment' = [payment EXCEPT ![o] =
            [amount |-> amount, status |-> "Completed", paid_at |-> now]]
    /\ Meanwhile({o})
    /\ UNCHANGED now

\* Any of the ways to pay an order id that is free: it may have been used and
\* archived before, by this account or by others.  Only a payment of this
\* account (`here`) enters its index, and fails if that is full.
Pay(o, amount, here) ==
    /\ payment[o] = NoEntry
    /\ here => Len(ids) < MaxIds
    /\ ids' = IF here THEN Append(ids, o) ELSE ids
    /\ StorePayment(o, amount)

\* An agreement asks nothing of its order id: a payment made under it meanwhile
\* is replaced, and an index that is full is left as it is.
execute_multisig_payment(o, amount, here) ==
    /\ ids' = IF here /\ Len(ids) < MaxIds THEN Append(ids, o) ELSE ids
    /\ StorePayment(o, amount)

\* execute_refund and resolve_dispute.
Refund(o, status) ==
    /\ payment[o] # NoEntry
    /\ <<payment[o].status, status>> \in {<<"Completed", "PartiallyRefunded">>,
                                          <<"Completed", "FullyRefunded">>,
                                          <<"PartiallyRefunded", "FullyRefunded">>}
    /\ payment' = [payment EXCEPT ![o].status = status]
    /\ Meanwhile({})
    /\ UNCHANGED <<now, ids>>

\* The override takes any amount refunded, so that a status may also go back.
update_payment_status(o, status) ==
    /\ payment[o] # NoEntry
    /\ status # "Completed"
    /\ payment' = [payment EXCEPT ![o].status = status]
    /\ Meanwhile({})
    /\ UNCHANGED <<now, ids>>

\* archive_payment_record: the id stays in the index.
Archive(o) ==
    /\ payment[o] # NoEntry
    /\ payment' = [payment EXCEPT ![o] = NoEntry]
    /\ Meanwhile({})
    /\ UNCHANGED <<now, ids>>

Tick ==
    /\ now < MaxTime
    /\ now' = now + 1
    /\ UNCHANGED <<payment, ids, reader>>

HistoriesNext ==
    \/ \E f \in Filters, s \in Sorts, l \in Limits : Begin(f, s, l)
    \/ fetchAllPages
    \/ FetchRejected
    \/ \E o \in Orders, a \in Amounts, here \in BOOLEAN : Pay(o, a, here)
    \/ \E o \in Orders, a \in Amounts, here \in BOOLEAN : execute_multisig_payment(o, a, here)
    \/ \E o \in Orders, s \in RefundStatuses : Refund(o, s)
    \/ \E o \in Orders, s \in RefundStatuses : update_payment_status(o, s)
    \/ \E o \in Orders : Archive(o)
    \/ Tick

\* The loop goes on as long as it neither returns nor throws: every call it
\* makes is answered, with a page or with an error.
HistoriesSpec ==
    HistoriesInit /\ [][HistoriesNext]_historiesVars /\ WF_historiesVars(FetchRejected \/ fetchAllPages)

-----------------------------------------------------------------------------
(* Properties *)

Reader ==
    [state : {"reading", "done", "failed"}, filter : Filters, sort : Sorts, limit : Limits,
     cursor : Orders \cup {NoEntry}, pages : 0..MaxPages, seen : SUBSET Orders,
     due : SUBSET Orders, repeated : BOOLEAN, lost : BOOLEAN]

HistoriesTypeOK ==
    /\ now \in 0..MaxTime
    /\ payment \in [Orders -> PaymentOrder \cup {NoEntry}]
    /\ ids \in Seq(Orders)
    /\ Len(ids) <= MaxIds
    /\ reader \in Reader \cup {NotStarted}

\* The reader's query met none of the things that upset it: an id that was
\* entered twice, and the loss of its place, because the cursor's payment stopped
\* matching, was replaced by another, or was one of too many that compare equal.
Undisturbed == NoRepeats(ids) /\ ~reader.lost

\* Whatever is paid, agreed, refunded, overridden and archived between two pages,
\* to this account and to others, in any order and with any filter, sort and page
\* size: an undisturbed reader is given no payment twice, and when it reaches the
\* end it was given every payment that matched all the while (build_page's
\* cursor).
PagesComplete ==
    (reader.state \in {"reading", "done"} /\ Undisturbed) =>
        /\ ~reader.repeated
        /\ reader.state = "done" => reader.due \subseteq reader.seen

\* The reader ends, even if ids used twice lead its cursor in a circle.
WalkEnds == reader.state = "reading" ~> reader.state \in {"done", "failed"}

-----------------------------------------------------------------------------
(* What the documentation says and the code does not do *)

\* docs/merchant-payout-reporting.md: sorting ascending by date guarantees
\* stable, monotonic cursor progress.  A cursor that is archived, or refunded
\* out of the filter, starts the list again.
NoPaymentTwice ==
    (reader.state \in {"reading", "done"} /\ reader.sort = <<"Date", "Ascending">>
        /\ NoRepeats(ids)) => ~reader.repeated

=============================================================================
