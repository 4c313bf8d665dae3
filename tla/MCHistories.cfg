SPECIFICATION HistoriesSpec
CONSTANTS
    Orders = {o1, o2}
    Amounts = {1}
    Filters <- MCFilters
    Sorts <- MCSorts
    RefundStatuses <- Refunded
    Limits = {0, 1, 2}
    MAX_PAGE_LIMIT = 2
    MaxPages = 3
    Guarded = TRUE
    MaxIds = 3
    SmallSort = 2
    MaxTime = 2
    NoEntry = none
INVARIANT PagesComplete
PROPERTY WalkEnds
CHECK_DEADLOCK FALSE
