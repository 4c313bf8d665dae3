----------------------------- MODULE MCHistories -----------------------------
(* One filter that a payment passes after its first refund only, so that     *)
(* refunds and overrides move payments into it and out, and back.  Two ids    *)
(* are enough for a cursor and a payment that it skips or repeats, and for an  *)
(* id that stands in the index twice; MCMoved.cfg has three, one more than    *)
(* is sorted by insertion, and no liveness property.                         *)
EXTENDS Histories, TLC

PartlyRefunded ==
    [date_start |-> 0, date_end |-> NoEntry, amount_min |-> 1, amount_max |-> NoEntry,
     status |-> "PartiallyRefunded"]

MCFilters == {PartlyRefunded}

MCSorts == {<<"Date", "Ascending">>, <<"Date", "Descending">>}

Refunded == {"PartiallyRefunded", "FullyRefunded"}

Symmetry == Permutations(Orders)
=============================================================================
