SPECIFICATION Spec
CONSTANTS
    Users = {"ann", "bob"}
    NoDaemon = NoDaemon
    StartCash = 9
    StartShares = 3
    Daemons = {d1}
    Trades <- OwnSell
    MaxLen = 9
    Faults = 0
    Restarts = 0
    Logins = 0
INVARIANTS BooksBalance
