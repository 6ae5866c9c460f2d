SPECIFICATION Spec
CONSTANTS
    ann = ann  bob = bob
    arrows = arrows  bolts = bolts  sword = sword
    NoTrade = NoTrade  NoShop = NoShop  Keeper = Keeper
    Chars = {ann, bob}  Items = {arrows, bolts, sword}
    Kind <- MCKind  Perishable = {sword}
    Cells = 2  StackMax = 2  GoldMax = 3  Amounts = {1}
    Purse <- MCPurse  Bags <- MCBags  Pieces <- MCPieces
    Limit <- TradeLimit
INVARIANTS TradeTypeOK OneWindow OffersAreHeld Conserved PayerIsSaved ListedIsHeld
PROPERTIES FairTrade
CHECK_DEADLOCK FALSE
