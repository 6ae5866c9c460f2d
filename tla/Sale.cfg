SPECIFICATION Spec
CONSTANTS
    c1 = c1  c2 = c2  NoCore = NoCore
    olga = olga  ann = ann  bob = bob
    sword = sword  shield = shield  ring = ring  NoItem = NoItem
    Cores = {c1, c2}  Host = c1  Owner = olga  Customers = {ann, bob}
    Home <- MCHome
    NumPos = 2  Items = {sword, shield}  Spare = {}  Perishable = {}
    Stock <- TwoItems
    StockPrice = 1  Prices = {1}  GoldMax = 9
    Purse <- Poor
    Limit <- SaleLimit
INVARIANTS TypeOK OfferIsHeld HoldsAreDistinct
PROPERTIES HoldEndsByOwnAnswer KeepsContract
