SPECIFICATION PaymentsSpec
CONSTANTS
    Accounts = {shop, stall}
    Contract = contract
    Merchants = {shop, stall}
    Tokens = {xlm}
    Funds = 2
    MaxTime = 1
    Switches = {}
    Orders = {o1, o2}
    Amounts = {0, 1, 2}
    FeeRates = {5000}
    RateLimits = {1, 2}
    WindowLedgers = 1
    ExpiryWindow = 0
    MaxBatchSize = 2
    MaxIds = 2
    MaxTotal = 3
    MaxPayments = 2
    Admin = admin
    NoEntry = none
SYMMETRY Symmetric
INVARIANTS LedgerTypeOK Reconciled PaymentIndexed NoncesUsedOnce StatsMatchReceipts
PROPERTY RateLimitKept
