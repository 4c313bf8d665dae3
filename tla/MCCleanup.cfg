SPECIFICATION RefundsSpec
CONSTANTS
    Accounts = {buyer, shop}
    Contract = contract
    Merchants = {shop}
    Tokens = {xlm}
    Funds = 3
    MaxTime = 1
    Switches = {}
    Orders = {o1, o2}
    Amounts = {2}
    FeeRates = {}
    RateLimits = {1}
    WindowLedgers = 1
    ExpiryWindow = 1
    MaxBatchSize = 1
    MaxIds = 2
    MaxTotal = 9
    MaxPayments = 2
    NoEntry = none
    RefundIds = {r1}
    DisputeIds = {d1}
    Admin = admin
    RefundAmounts = {1, 2}
    MinRefund = 1
    RefundWindow = 1
    CleanupPeriod = 0
    RetentionPeriod = 0
    MaxRefunds = 3
    MaxVersion = 0
PROPERTY CleanupSparesOthers
