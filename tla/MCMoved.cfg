SPECIFICATION HistoriesSpec
CONSTANTS
    Orders = {o1, o2, o3}
    Amounts = {1}
    Filters <- MCFilters
    Sorts <- MCSorts
    RefundStatuses <- Refunded
    Limits = {0, 1, 2}
    MAX_PAGE_LIMIT = 2
    MaxPages = 3
    Guarded = TRUE
    MaxIds = 3
    SmallSort = 2
    MaxTime = 1
    NoEntry = none
SYMMETRY Symmetry
INVARIANT PagesComplete
CHECK_DEADLOCK FALSE
