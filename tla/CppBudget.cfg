CONSTANTS
    Tickers = {"APP"}
    ResetTicker = "APP"
    Ids <- TwoIds
    Prices <- OnePrice
    Lots <- LargeLots
    Funds <- ThreeUnits
    PM = 2
    Word = 64
SPECIFICATION Spec
INVARIANT NeverOverfilled
CHECK_DEADLOCK FALSE
