SPECIFICATION Spec
CONSTANTS
    Ids <- ThreeIds
    Prices <- MCPrices
    Lots <- MCLots
    Funds <- MCFunds
    Ticks <- Steady
    PM = 2
INVARIANTS TypeOK IndexAgrees Uncrossed TakerTrades TradesAccount MakerPrice BudgetHeld
PROPERTIES CanceledNeverTrades BBOExact PriceTimePriority ImplementsExchange CallsReturn
CONSTRAINT IdsInOrder
