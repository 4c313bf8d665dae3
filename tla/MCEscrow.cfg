SPECIFICATION FairSpec
CONSTANTS
    Accounts = {buyer, shop}
    Contract = contract
    Merchants = {shop}
    Tokens = {xlm}
    Funds = 2
    MaxTime = 2
    Switches = {"pause", "merchant", "token"}
    NumEscrows = 1
    NumHolds = 1
    Amounts = {0, 1, 2}
    NoEntry = none
INVARIANTS TypeOK Solvency
PROPERTIES ImplementsCustody EventuallySettled
