-------------------------------- MODULE Trade --------------------------------
(***************************************************************************)
(* Everything on one core that moves items and gold between characters:    *)
(* exchange, safebox, shops, the ground, and what ends them all: death and *)
(* disconnection.                                                          *)
(***************************************************************************)
EXTENDS Exchange, Safebox, Stalls

CONSTANTS
    Purse,      \* gold at the start
    Bags,       \* what is in the inventories
    Pieces      \* and how much of it

ASSUME TradeAssumption ==
    /\ Purse \in [Chars -> 0 .. GoldMax - 1] /\ Bags \in [Chars -> SUBSET Items]
    /\ Pieces \in [Items -> 0 .. StackMax] /\ \A c \in Chars : Cardinality(Bags[c]) <= Cells
    /\ \A c, d \in Chars : c # d => Bags[c] \cap Bags[d] = {}
    /\ \A i \in Items : Pieces[i] > 0 <=> i \in UNION {Bags[c] : c \in Chars}

Init ==
    /\ on = Chars /\ gold = Purse /\ row = Purse /\ delayed = {} /\ bag = Bags
    /\ store = [c \in Chars |-> {}] /\ ground = {} /\ lost = {} /\ coins = 0
    /\ count = Pieces /\ exchanging = {}
    /\ trade = [c \in Chars |-> NoTrade] /\ box = {} /\ opening = {} /\ recent = {}
    /\ shop = [c \in Chars |-> NoShop] /\ stand = {} /\ list = [c \in Chars |-> NoSale] /\ cube = {}
    /\ seen = [c \in Chars |-> NoTrade] /\ burnt = 0 /\ till = 0 /\ made = 0 /\ budget = Limit

-----------------------------------------------------------------------------
\* What CExchange::Cancel does when there may be no exchange.
Part(c) == IF trade[c] = NoTrade THEN UNCHANGED <<trade, seen, exchanging>> ELSE Over(c)
\* His guests leave and he leaves the shop he is in.
Leave(c) == shop' = [g \in Chars |-> IF g = c \/ shop[g] = c THEN NoShop ELSE shop[g]]

\* CHARACTER::ItemDropPenalty: some of the inventory falls to the ground, what is
\* offered as well, but not while the character has a shop.
ItemDropPenalty(c, landed, missed) ==
    /\ c \in stand => landed \cup missed = {}
    /\ bag' = [bag EXCEPT ![c] = @ \ (landed \cup missed)] /\ Drop(landed, missed)

\* CHARACTER::Dead.  The penalty comes first, then the exchange is cancelled.
Dead(c, landed, missed) ==
    /\ c \in on /\ Spend("item") /\ ItemDropPenalty(c, landed, missed)
    /\ Part(c) /\ Leave(c) /\ Unstand({c}) /\ Shut(c) /\ cube' = cube \ {c}
    /\ UNCHANGED <<on, gold, row, coins, burnt, till, store, count, made>>

\* CHARACTER::Disconnect and Destroy: the character is saved first, and what
\* follows cannot save any more.
\* Mutant: the exchange is left to the other side.
MutDisconnect(c) ==
    /\ c \in on /\ Spend("item") /\ UNCHANGED <<trade, seen, exchanging>> /\ Leave(c) /\ Unstand({c})
    /\ on' = on \ {c} /\ row' = [row EXCEPT ![c] = gold[c]] /\ delayed' = delayed \ {c}
    /\ box' = box \ {c} /\ opening' = opening \ {c} /\ recent' = recent \ {c} /\ cube' = cube \ {c}
    /\ UNCHANGED <<gold, coins, burnt, till, bag, store, ground, lost, count, made>>
Disconnect(c) ==
    /\ c \in on /\ Spend("item") /\ Part(c) /\ Leave(c) /\ Unstand({c})
    /\ on' = on \ {c} /\ row' = [row EXCEPT ![c] = gold[c]] /\ delayed' = delayed \ {c}
    /\ box' = box \ {c} /\ opening' = opening \ {c} /\ recent' = recent \ {c} /\ cube' = cube \ {c}
    /\ UNCHANGED <<gold, coins, burnt, till, bag, store, ground, lost, count, made>>

Login(c) ==
    /\ c \in Chars \ on /\ on' = on \cup {c} /\ UNCHANGED <<made, budget>>
    /\ UNCHANGED things /\ UNCHANGED money /\ UNCHANGED windows

Next ==
    \/ ItemStep \/ ExchangeStep \/ SafeboxStep \/ StallStep
    \/ \E c \in Chars : \/ Disconnect(c) \/ Login(c)
                        \/ \E landed \in SUBSET bag[c] : \E missed \in SUBSET (bag[c] \ landed) :
                              Dead(c, landed, missed)

Spec == Init /\ [][Next]_vars

-----------------------------------------------------------------------------
\* A purse stays under GOLD_MAX, and so does what it was saved as.  Who does not
\* play has no save put off.
MoneyTypeOK ==
    /\ on \subseteq Chars /\ delayed \subseteq on
    /\ gold \in [Chars -> 0 .. GoldMax - 1] /\ row \in [Chars -> 0 .. GoldMax - 1]
    /\ coins \in Nat /\ burnt \in Nat /\ till \in Int

\* Stacks stay under ITEM_MAX_COUNT, inventories in their cells.
ThingsTypeOK ==
    /\ bag \in [Chars -> SUBSET Items] /\ store \in [Chars -> SUBSET Items]
    /\ ground \subseteq Items /\ lost \subseteq Items
    /\ count \in [Items -> 0 .. StackMax] /\ made \in Int
    /\ \A c \in Chars : Cardinality(bag[c]) <= Cells

Sights == [get : UNION {[S -> 0 .. StackMax] : S \in SUBSET Items}, receive : 0 .. GoldMax - 1,
           give : SUBSET Items, pay : 0 .. GoldMax - 1]
Sales == UNION {[S -> [count : 1 .. StackMax, price : Amounts]] : S \in SUBSET Items}

\* Who does not play has no window.
WindowsTypeOK ==
    /\ trade \in [Chars -> Offers \cup {NoTrade}] /\ seen \in [Chars -> Sights \cup {NoTrade}]
    /\ \A c \in Chars : trade[c] # NoTrade \/ shop[c] # NoShop => c \in on
    /\ box \subseteq opening /\ opening \subseteq on /\ recent \subseteq on /\ cube \subseteq on
    /\ stand \subseteq on /\ shop \in [Chars -> stand \cup {Keeper, NoShop}]
    /\ list \in [Chars -> Sales] /\ \A c \in Chars \ stand : list[c] = NoSale

\* Types.
TradeTypeOK == MoneyTypeOK /\ ThingsTypeOK /\ WindowsTypeOK

\* No character has two of the windows at once, however late the safebox's answer
\* comes; only the owner of a shop may be a guest of it.  (PREVENT_TRADE_WINDOW: each
\* window looks at the others in a place of its own.)
OneWindow ==
    \A c \in Chars :
       /\ trade[c] # NoTrade => ~OtherWindow(c)
       /\ c \in box => shop[c] = NoShop /\ c \notin stand /\ c \notin cube
       /\ c \in cube => shop[c] = NoShop /\ c \notin stand
       /\ c \in stand => shop[c] \in {NoShop, c}

\* An exchange has two sides that know each other.  What one offers he holds, as
\* long as it exists, and exactly what is offered is marked (SetExchanging): no
\* window, no death and no disconnection leaves a mark behind.
OffersAreHeld ==
    /\ \A c \in Chars : trade[c] # NoTrade =>
          /\ trade[With(c)] # NoTrade /\ With(With(c)) = c /\ With(c) # c
          /\ Offer(c).items \cap Somewhere \subseteq bag[c]
    /\ exchanging = Somewhere \cap UNION {IF trade[c] = NoTrade THEN {} ELSE Offer(c).items : c \in Chars}

GoldKept == SumFunction(gold) + coins + burnt + till = SumFunction(Purse)
PiecesKept == SumFunction(count) = SumFunction(Pieces) + made
InOnePlace ==
    /\ \A i \in Items : count[i] > 0 <=> i \in Somewhere
    /\ ground \cap lost = {}
    /\ \A c, d \in Chars :
          /\ bag[c] \cap store[d] = {} /\ (bag[c] \cup store[c]) \cap (ground \cup lost) = {}
          /\ c # d => bag[c] \cap bag[d] = {} /\ store[c] \cap store[d] = {}

\* Whatever trades, moves, deaths and disconnections come together, an item is in
\* one place and pieces and gold add up: nothing is doubled.  It is not that all is
\* kept.  Pieces are lost (lost) when a drop or a death does not put them on the
\* ground, and destroyed (made) by the timers of the ground and of perishable items, by
\* stacking in a safebox and by a sale to an NPC; gold is lost (burnt) on the ground
\* and above GOLD_MAX.  An NPC makes pieces (made) and takes and gives gold (till).
Conserved == GoldKept /\ PiecesKept /\ InOnePlace

\* Who has spent gold is going to be saved (CHARACTER::Save): the gold the DB
\* process would give back after a crash is more than the purse for a moment only.
PayerIsSaved == \A c \in Chars : row[c] > gold[c] => c \in delayed

\* What a character's shop shows is in his inventory, all of it, until it is bought
\* or its time is over: nothing takes it away while the shop is open.
ListedIsHeld ==
    \A c \in Chars : \A i \in DOMAIN list[c] :
       \/ (i \in bag[c] /\ count[i] >= list[c][i].count)
       \/ i \in Perishable \ Somewhere

\* The exchange c accepted first is carried out as he saw it.
AsSeen(c) ==
    LET s == seen[c]
    IN /\ bag'[c] = (bag[c] \ s.give) \cup DOMAIN s.get
       /\ \A i \in DOMAIN s.get : count'[i] >= s.get[i]
       /\ \/ gold'[c] = gold[c] - s.pay + s.receive
          \/ (gold'[c] = gold[c] - s.pay /\ burnt' > burnt)
NothingGot ==
    /\ gold' = gold
    /\ \A d \in Chars : bag'[d] \subseteq bag[d] /\ bag[d] \ bag'[d] \subseteq ground' \cup lost'

\* When the exchange of whoever accepted it first is over, he has got all he saw
\* offered then (a stack may have grown) and given the items and the gold he offered
\* then, where only PointChange may refuse the gold; or it was not carried out and
\* nobody has got anything (things of who dies may have fallen).
FairTrade == [][\A c \in Chars : seen[c] # NoTrade /\ trade'[c] = NoTrade => AsSeen(c) \/ NothingGot]_vars
=============================================================================
