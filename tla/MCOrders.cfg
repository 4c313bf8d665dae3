SPECIFICATION Spec
CONSTANTS
    buyer = buyer
    shop = shop
    Accounts = {buyer, shop}
    Contract = contract
    Merchants = {shop}
    Tokens = {xlm}
    Funds = 1
    MaxTime = 2
    Switches = {}
    Orders = {o1, o2}
    Amounts = {0, 1}
    FeeRates = {}
    RateLimits = {1}
    WindowLedgers = 1
    ExpiryWindow = 0
    MaxBatchSize = 0
    MaxIds = 1
    MaxTotal = 3
    MaxPayments = 2
    NoEntry = none
    Payees = {buyer}
    RequestTTLs = {1}
    TempTTL = 1
    SignerLists <- Lists
    Thresholds = {2}
    Expiries = {none}
    MaxSigners = 2
    ExpiryDuration = 1
    Admin = admin
    MaxMultisigs = 1
SYMMETRY Symmetric
INVARIANTS TypeOK MultisigPaysOnce OnlyMultisigUnindexed OutstandingListed
