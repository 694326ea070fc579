CONSTANTS
    Users = {"ann", "bob"}
    Nobody = Nobody
    Orders <- Limits
    StartCash = 300
    StartShares = 2
    Quotes <- Earlier
    Retries = 3
    Faults = 0
SPECIFICATION Spec
INVARIANT CancelReturnsFunds
CHECK_DEADLOCK FALSE
