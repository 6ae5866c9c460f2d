-------------------------------- MODULE Stalls --------------------------------
(***************************************************************************)
(* Shops that need their keeper (CShop): those of NPCs, here one, and      *)
(* those characters open where they stand, whose items stay in the         *)
(* inventory.  The private shops that outlive their owner's session are    *)
(* the other modules' subject.  The cube is here as a window only.         *)
(***************************************************************************)
EXTENDS Inventory

NoSale == [i \in {} |-> 0]

\* CShopManager::StartShopping, at an NPC.  A guest of another shop stays there.
StartShopping(c) ==
    /\ c \in on /\ ~OtherWindow(c) /\ trade[c] = NoTrade /\ Spend("window")
    /\ shop' = [shop EXCEPT ![c] = Keeper]
    /\ UNCHANGED <<on, trade, box, opening, recent, stand, list, cube, seen, made>>
    /\ UNCHANGED things /\ UNCHANGED money

StopShopping(c) ==
    /\ c \in on /\ shop[c] # NoShop /\ shop' = [shop EXCEPT ![c] = NoShop]
    /\ UNCHANGED <<on, trade, box, opening, recent, stand, list, cube, seen, made, budget>>
    /\ UNCHANGED things /\ UNCHANGED money

\* CShopManager::Sell: m pieces for n of gold.  The character is not saved.
Sell(c, i, m, n) ==
    /\ shop[c] = Keeper /\ CanHandleItem(c) /\ i \in bag[c] /\ m \in 1 .. count[i]
    /\ Takes(gold[c], n) /\ Spend("item")
    /\ count' = [count EXCEPT ![i] = @ - m] /\ made' = made - m
    /\ bag' = IF m = count[i] THEN [bag EXCEPT ![c] = @ \ {i}] ELSE bag
    /\ exchanging' = IF m = count[i] THEN exchanging \ {i} ELSE exchanging
    /\ gold' = [gold EXCEPT ![c] = @ + n] /\ till' = till - n
    /\ UNCHANGED <<on, store, ground, lost, row, delayed, coins, burnt>> /\ UNCHANGED windows

\* CShop::Buy at an NPC: it makes the item, here of one piece.
BuyFromKeeper(c, i, n) ==
    /\ shop[c] = Keeper /\ c \in on /\ i \in Unborn /\ HasCell(c) /\ gold[c] >= n /\ Spend("item")
    /\ count' = [count EXCEPT ![i] = 1] /\ made' = made + 1 /\ bag' = [bag EXCEPT ![c] = @ \cup {i}]
    /\ gold' = [gold EXCEPT ![c] = @ - n] /\ till' = till + n /\ Save({c})
    /\ UNCHANGED <<on, store, ground, lost, exchanging, row, coins, burnt>> /\ UNCHANGED windows

-----------------------------------------------------------------------------
\* CInputMain::MyShop, then CHARACTER::OpenMyShop: the prices and the purse
\* together stay under the maximum.  It needs a bundle, of which one of
\* three kinds is used up; the model leaves bundles out.
\* Mutant: an exchange does not keep the shop from opening.
MutMayOpenMyShop(c) == c \in on /\ c \notin box /\ shop[c] = NoShop /\ c \notin cube
MayOpenMyShop(c) ==
    /\ c \in on /\ trade[c] = NoTrade /\ c \notin box /\ shop[c] = NoShop /\ c \notin cube

OpenMyShop(c, price) ==
    /\ MayOpenMyShop(c) /\ c \notin stand
    /\ DOMAIN price # {} /\ DOMAIN price \subseteq bag[c]
    /\ Takes(gold[c], SumFunction(price)) /\ Spend("window")
    /\ stand' = stand \cup {c}
    /\ list' = [list EXCEPT ![c] = [i \in DOMAIN price |-> [count |-> count[i], price |-> price[i]]]]
    /\ UNCHANGED <<on, trade, box, opening, recent, shop, cube, seen, made>>
    /\ UNCHANGED things /\ UNCHANGED money

\* What CHARACTER::CloseMyShop does, for a set of characters: the guests leave.
Unstand(S) ==
    /\ stand' = stand \ S /\ list' = [c \in Chars |-> IF c \in S THEN NoSale ELSE list[c]]

\* /close_shop; CInputMain::MyShop does the same under MayOpenMyShop.
CloseMyShop(c) ==
    /\ c \in stand /\ Unstand({c})
    /\ shop' = [g \in Chars |-> IF shop[g] = c THEN NoShop ELSE shop[g]]
    /\ UNCHANGED <<on, trade, box, opening, recent, cube, seen, made, budget>>
    /\ UNCHANGED things /\ UNCHANGED money

\* CHARACTER::OnClick by g on c, who has a shop.  The owner may be his own guest.
MayEnter(g, c) ==
    /\ g \in on /\ trade[g] = NoTrade /\ trade[c] = NoTrade
    /\ box \cap {g, c} = {} /\ cube \cap {g, c} = {} /\ shop[g] = NoShop
    /\ g = c \/ g \notin stand

OnClick(g, c) ==
    /\ c \in stand /\ MayEnter(g, c) /\ Spend("window") /\ shop' = [shop EXCEPT ![g] = c]
    /\ UNCHANGED <<on, trade, box, opening, recent, stand, list, cube, seen, made>>
    /\ UNCHANGED things /\ UNCHANGED money

\* CShop::Buy at a character's shop.  The seller's gold is not looked at and the
\* seller is not saved.
\* Mutant: the item may have left the seller's inventory.
MutStillThere(c, i) == TRUE
StillThere(c, i) == i \in bag[c]

BuyFromShop(g, c, i) ==
    LET price == list[c][i].price
        paid == [gold EXCEPT ![g] = @ - price]
    IN /\ shop[g] = c /\ i \in DOMAIN list[c] /\ StillThere(c, i)
       /\ gold[g] >= price /\ HasCell(g) /\ Spend("item")
       /\ bag' = [[bag EXCEPT ![c] = @ \ {i}] EXCEPT ![g] = @ \cup {i}]
       /\ gold' = [paid EXCEPT ![c] = Paid(@, price)] /\ burnt' = burnt + Lost(paid[c], price)
       /\ Save({g}) /\ list' = [list EXCEPT ![c] = [j \in DOMAIN @ \ {i} |-> @[j]]]
       /\ UNCHANGED <<on, store, ground, lost, count, exchanging, row, coins, till, made>>
       /\ UNCHANGED <<trade, box, opening, recent, shop, stand, cube, seen>>

-----------------------------------------------------------------------------
CubeOpen(c) ==
    /\ c \in on /\ ~OtherWindow(c) /\ trade[c] = NoTrade /\ Spend("window") /\ cube' = cube \cup {c}
    /\ UNCHANGED <<on, trade, box, opening, recent, shop, stand, list, seen, made>>
    /\ UNCHANGED things /\ UNCHANGED money

CubeClose(c) ==
    /\ c \in cube /\ cube' = cube \ {c}
    /\ UNCHANGED <<on, trade, box, opening, recent, shop, stand, list, seen, made, budget>>
    /\ UNCHANGED things /\ UNCHANGED money

StallStep ==
    \E c \in Chars :
       \/ StartShopping(c) \/ StopShopping(c) \/ CloseMyShop(c) \/ CubeOpen(c) \/ CubeClose(c)
       \/ \E n \in Amounts : \/ \E i \in Items : BuyFromKeeper(c, i, n)
                            \/ \E i \in bag[c] : \E m \in 1 .. count[i] : Sell(c, i, m, n)
       \/ \E S \in SUBSET bag[c] : \E price \in [S -> Amounts] : OpenMyShop(c, price)
       \/ \E g \in Chars : OnClick(g, c) \/ \E i \in DOMAIN list[c] : BuyFromShop(g, c, i)
=============================================================================
