SPECIFICATION Spec
CONSTANTS
    Accounts = {buyer, shop}
    Contract = contract
    Merchants = {shop}
    Tokens = {xlm}
    Funds = 2
    MaxTime = 3
    Switches = {"merchant"}
    PlanIds = {gold, basic}
    NumSubs = 2
    Amounts = {0, 1}
    Intervals = {0, 1}
    CycleLimits = {0, 1, 2}
    MaxTTL = 1
    NoEntry = none
SYMMETRY Symmetric
INVARIANTS TypeOK ReserveExact AllowanceAccounted BilledAsPlanned
