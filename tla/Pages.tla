-------------------------------- MODULE Pages --------------------------------
(* What the contract's paged queries and their readers share.                *)
EXTENDS Integers, Sequences, FiniteSets

CONSTANTS
    Limits,         \* page sizes a caller asks for
    MAX_PAGE_LIMIT,
    NoEntry

require_valid_limit(limit) == limit # 0 /\ limit <= MAX_PAGE_LIMIT

Entries(s) == {s[i] : i \in 1..Len(s)}

=============================================================================
