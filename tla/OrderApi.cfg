CONSTANTS
    Users = {"ann", "bob"}
    Nobody = Nobody
    Orders <- Mixed
    StartCash = 301
    StartShares = 2
    Quotes <- Earlier
    Retries = 2
    Faults = 2
SPECIFICATION Spec
INVARIANTS TypeOK HoldsExact AnsweredFunded 
PROPERTIES ImplementsReservations
CHECK_DEADLOCK FALSE
