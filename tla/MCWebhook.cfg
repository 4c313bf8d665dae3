SPECIFICATION Spec
CONSTANTS
    Handlers = {h1, h2}
    MAX_RETRIES = 2
    Stores = {"memory", "redis"}
    FromNow = FALSE
    MaxEvents = 2
    MaxFaults = 2
    NoEntry = none
INVARIANTS OncePerRun NothingOverlooked
PROPERTY EventuallyHandled
CHECK_DEADLOCK FALSE
