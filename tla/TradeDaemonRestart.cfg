SPECIFICATION Spec
CONSTANTS
    Users = {"ann", "bob"}
    NoDaemon = NoDaemon
    StartCash = 9
    StartShares = 3
    Daemons = {d1, d2}
    Trades <- One
    MaxLen = 1
    Faults = 2
    Restarts = 1
    Logins = 1
SYMMETRY Alike
INVARIANTS HoldsCover
PROPERTIES ImplementsLedger
