CONSTANTS
    Tickers = {"APP", "AMD"}
    ResetTicker = "APP"
    Ids <- ThreeIds
    Prices <- MCPrices
    Lots <- MCLots
    Funds <- MCFunds
    PM = 3
    Word = 64
SPECIFICATION Spec
INVARIANTS TypeOK SlotsOwned IndexAgrees Uncrossed TradesAccount MakerPrice
PROPERTIES CanceledNeverTrades PriceTimePriority BBOExact ImplementsExchange
CONSTRAINT Bounded
CHECK_DEADLOCK FALSE
