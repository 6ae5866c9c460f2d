SPECIFICATION Spec
CONSTANTS
    c1 = c1  c2 = c2  NoCore = NoCore
    olga = olga  ann = ann  bob = bob
    sword = sword  shield = shield  ring = ring  NoItem = NoItem
    Cores = {c1, c2}  Host = c1  Owner = olga  Customers = {ann}
    Home <- MCHome
    NumPos = 2  Items = {sword}  Spare = {}  Perishable = {}
    Stock <- OneItem
    StockPrice = 1  Prices = {1}  GoldMax = 9
    Purse <- Rich
    Limit <- ReopenLimit
INVARIANTS NoDuplicate
