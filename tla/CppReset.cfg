CONSTANTS
    Tickers = {"APP", "AMD"}
    ResetTicker = "APP"
    Ids <- TwoIds
    Prices <- OnePrice
    Lots <- MCLots
    Funds <- MCFunds
    PM = 3
    Word = 64
SPECIFICATION Spec
PROPERTY TickersApart
CONSTRAINT Bounded
CHECK_DEADLOCK FALSE
