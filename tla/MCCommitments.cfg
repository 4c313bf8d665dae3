SPECIFICATION Spec
CONSTANTS
    Addresses = {a1, a2}
    Committers = {a1}
    Names = {shop}
    Nonces = {n}
    CommitmentTTL = 1
    MinTempTTL = 2
    Limits = {0, 1, 2}
    MAX_PAGE_LIMIT = 2
    MaxLedger = 3
    NoEntry = none
INVARIANT NoStaleCommitment
