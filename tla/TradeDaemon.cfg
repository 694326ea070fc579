SPECIFICATION FairSpec
CONSTANTS
    Users = {"ann", "bob"}
    NoDaemon = NoDaemon
    StartCash = 9
    StartShares = 3
    Daemons = {d1, d2}
    Trades <- Opposite
    MaxLen = 1
    Faults = 2
    Restarts = 0
    Logins = 0
INVARIANTS TypeOK AckOnlySettled AvailableBacked
PROPERTIES ImplementsLedger DaemonsReturn EventuallySettled CacheCatchesUp
