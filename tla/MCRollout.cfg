SPECIFICATION RolloutSpec
CONSTANTS
    Admins = {operator, other}
    Operator = operator
    Contracts = {v1, v2}
    Weights = {0, 1, 2, 3}
    Buckets = 2
    Outputs = {"bare", "quoted"}
    MaxLedger = 3
    Unset = none
SYMMETRY Symmetric
INVARIANT RoutingSound
PROPERTY RollbackReverts
