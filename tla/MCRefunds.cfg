SPECIFICATION RefundsSpec
CONSTANTS
    Accounts = {buyer, shop}
    Contract = contract
    Merchants = {shop}
    Tokens = {xlm}
    Funds = 3
    MaxTime = 2
    Switches = {}
    Orders = {o1}
    Amounts = {2}
    FeeRates = {}
    RateLimits = {1}
    WindowLedgers = 1
    ExpiryWindow = 1
    MaxBatchSize = 1
    MaxIds = 2
    MaxTotal = 9
    MaxPayments = 1
    NoEntry = none
    RefundIds = {r1, r2}
    DisputeIds = {d1}
    Admin = admin
    RefundAmounts = {0, 1, 2}
    MinRefund = 1
    RefundWindow = 1
    CleanupPeriod = 0
    RetentionPeriod = 0
    MaxRefunds = 3
    MaxVersion = 1
SYMMETRY Symmetric
INVARIANTS RefundsTypeOK RefundsReconciled StatusMatchesAmount RefundsCapped
