------------------------------ MODULE Inventory ------------------------------
(***************************************************************************)
(* The characters of one core, what they carry, and the windows that give  *)
(* others a hold on it: the exchange of two characters, the safebox, the   *)
(* shops of NPCs, a character's own shop, the cube.  This module has the   *)
(* state, the guards the windows share, and the handling of items and gold *)
(* outside of them.  Exchange, Safebox and Stalls have the windows.        *)
(*                                                                         *)
(* Items take one cell; cells are not told apart.  A character is one the  *)
(* core has loaded; the cells of equipment are left out.                   *)
(***************************************************************************)
EXTENDS Integers, SequencesExt

CONSTANTS
    Chars,      \* characters, all near each other
    Items,      \* item ids
    Kind,       \* the vnum of an item; items of a kind stack
    Perishable, \* items with a real time limit
    Cells,      \* INVENTORY_MAX_NUM
    StackMax,   \* ITEM_MAX_COUNT
    GoldMax,    \* GOLD_MAX
    NoTrade,    \* no m_pkExchange
    NoShop,     \* no m_pkShop
    Keeper,     \* the shop of an NPC
    Amounts,    \* amounts of gold offered, dropped or asked for
    Limit       \* how many events of each kind may happen (Events)

Events == {"window", "item"}

\* What a CExchange keeps of its side.
Offers == [with : Chars, accept : BOOLEAN, items : SUBSET Items, gold : 0 .. GoldMax - 1]

ASSUME InventoryAssumption ==
    /\ IsFiniteSet(Chars) /\ IsFiniteSet(Items) /\ NoTrade \notin Offers
    /\ Cells \in Nat /\ StackMax \in Nat \ {0} /\ GoldMax \in Nat /\ Amounts \subseteq Nat \ {0}
    /\ Perishable \subseteq Items
    /\ NoShop \notin Chars /\ Keeper \notin Chars /\ NoShop # Keeper
    /\ Limit \in [Events -> Nat]

VARIABLES
    on,         \* characters that play
    gold,       \* POINT_GOLD
    row,        \* the gold in the character's last PLAYER_SAVE
    delayed,    \* m_set_pkChrForDelayedSave
    bag,        \* items in the inventory
    store,      \* items in the safebox
    ground,     \* items on the ground
    lost,       \* items taken from a character and put nowhere, their rows deleted
    coins,      \* gold on the ground, one pile
    count,      \* how many pieces an item is
    exchanging, \* m_bExchanging
    trade,      \* m_pkExchange: whom with, accepted, offered items and gold
    box,        \* m_pkSafebox: characters whose safebox is open
    opening,    \* m_bOpeningSafebox
    recent,     \* GetSafeboxLoadTime() is less than ten seconds ago
    shop,       \* m_pkShop: the shop a character is a guest of
    stand,      \* characters with m_pkMyShop
    list,       \* m_itemVector of it: item, count and price
    cube,       \* characters with the cube open
    seen,       \* what a character saw offered when he accepted
    burnt,      \* gold refused by PointChange, or left on the ground, and lost
    till,       \* gold NPCs have taken less what they paid
    made,       \* pieces made less pieces destroyed
    budget      \* what is left of Limit

things == <<bag, store, ground, lost, count, exchanging>>
money == <<gold, row, delayed, coins, burnt, till>>
windows == <<trade, box, opening, recent, shop, stand, list, cube, seen>>
vars == <<on, gold, row, delayed, bag, store, ground, lost, coins, count, exchanging, trade, box,
          opening, recent, shop, stand, list, cube, seen, burnt, till, made, budget>>

Spend(k) == budget[k] > 0 /\ budget' = [budget EXCEPT ![k] = @ - 1]
Least(m, n) == IF m < n THEN m ELSE n

-----------------------------------------------------------------------------
\* CHARACTER::CanHandleItem.
CanHandleItem(c) == c \in on /\ c \notin stand /\ c \notin cube

\* The windows other than the exchange that keep a character from trading.
OtherWindow(c) == c \in box \/ shop[c] # NoShop \/ c \in stand \/ c \in cube

\* GetEmptyInventory(1).
HasCell(c) == Cardinality(bag[c]) < Cells
Somewhere == ground \cup lost \cup UNION {bag[c] \cup store[c] : c \in Chars}
Referred == UNION {IF trade[c] = NoTrade THEN DOMAIN list[c] ELSE DOMAIN list[c] \cup trade[c].items :
                      c \in Chars}
\* An id not in use yet; one nothing refers to any more stands for a new one.
Unborn == Items \ (Somewhere \cup Referred)
Alike(i, j) == i # j /\ Kind[i] = Kind[j]

\* PointChange(POINT_GOLD, n) of a positive amount: above the maximum nothing
\* happens and whoever paid has paid.
Takes(g, n) == g + n < GoldMax
Paid(g, n) == IF Takes(g, n) THEN g + n ELSE g
Lost(g, n) == IF Takes(g, n) THEN 0 ELSE n

\* DelayedSave.
Save(S) == delayed' = delayed \cup S

-----------------------------------------------------------------------------
\* CHARACTER::MoveItem onto another stack: the one moved must not be offered,
\* the other one may be.
\* Mutant: an item that is offered can be moved.
MutMovable(c, i) == CanHandleItem(c) /\ i \in bag[c]
Movable(c, i) == CanHandleItem(c) /\ i \in bag[c] /\ i \notin exchanging

MoveItem(c, i, j, n) ==
    LET m == Least(StackMax - count[j], n)
    IN /\ Movable(c, i) /\ j \in bag[c] /\ Alike(i, j) /\ n \in 1 .. count[i] /\ m > 0
       /\ Spend("item")
       /\ count' = [count EXCEPT ![i] = @ - m, ![j] = @ + m]
       /\ bag' = IF m = count[i] THEN [bag EXCEPT ![c] = @ \ {i}] ELSE bag
       /\ UNCHANGED <<on, store, ground, lost, exchanging, made>> /\ UNCHANGED money /\ UNCHANGED windows

\* The same onto an empty cell: n pieces become a new item.
SplitItem(c, i, k, n) ==
    /\ Movable(c, i) /\ k \in Unborn /\ Alike(i, k) /\ n \in 1 .. count[i] - 1 /\ HasCell(c)
    /\ Spend("item")
    /\ count' = [count EXCEPT ![i] = @ - n, ![k] = n]
    /\ bag' = [bag EXCEPT ![c] = @ \cup {k}]
    /\ UNCHANGED <<on, store, ground, lost, exchanging, made>> /\ UNCHANGED money /\ UNCHANGED windows

\* What is dropped lands on the ground, or it is lost: AddToGround fails where the
\* map has no sector.
Drop(landed, missed) == ground' = ground \cup landed /\ lost' = lost \cup missed

\* CHARACTER::DropItem, of a whole item or of n pieces.  They have left the inventory
\* when the fifth drop within a second is taken for a hack: the connection is closed
\* (Disconnect, later) and they are lost too.
DropItem(c, i, lands) ==
    /\ Movable(c, i) /\ Spend("item") /\ bag' = [bag EXCEPT ![c] = @ \ {i}]
    /\ IF lands THEN Drop({i}, {}) ELSE Drop({}, {i})
    /\ UNCHANGED <<on, store, count, exchanging, made>> /\ UNCHANGED money /\ UNCHANGED windows

DropPieces(c, i, k, n, lands) ==
    /\ Movable(c, i) /\ k \in Unborn /\ Alike(i, k) /\ n \in 1 .. count[i] - 1 /\ Spend("item")
    /\ count' = [count EXCEPT ![i] = @ - n, ![k] = n]
    /\ IF lands THEN Drop({k}, {}) ELSE Drop({}, {k})
    /\ UNCHANGED <<on, bag, store, exchanging, made>> /\ UNCHANGED money /\ UNCHANGED windows

\* Gold that does not land is not taken.
DropGold(c, n, lands) ==
    /\ CanHandleItem(c) /\ coins = 0 /\ n \in 1 .. gold[c] /\ Spend("item") /\ Save({c})
    /\ IF lands THEN gold' = [gold EXCEPT ![c] = @ - n] /\ coins' = n ELSE UNCHANGED <<gold, coins>>
    /\ UNCHANGED <<on, row, burnt, till, made>> /\ UNCHANGED things /\ UNCHANGED windows

\* item_destroy_event: what nobody has picked up in time is destroyed.  Of what is
\* lost some has the timer as well; it is out of reach with or without.
ItemDestroyEvent(i) ==
    /\ i \in ground /\ Spend("item") /\ ground' = ground \ {i}
    /\ made' = made - count[i] /\ count' = [count EXCEPT ![i] = 0]
    /\ UNCHANGED <<on, bag, store, lost, exchanging>> /\ UNCHANGED money /\ UNCHANGED windows

GoldDestroyEvent ==
    /\ coins > 0 /\ Spend("item") /\ coins' = 0 /\ burnt' = burnt + coins
    /\ UNCHANGED <<on, gold, row, delayed, till, made>> /\ UNCHANGED things /\ UNCHANGED windows

\* CHARACTER::PickupItem does not ask CanHandleItem.  Pieces go to the stacks of
\* the kind in the order of their cells, whether offered or listed or not; what is
\* left needs a cell, or stays where it is.
Fill(i, order) ==
    FoldLeft(LAMBDA n, j : LET m == Least(StackMax - n[j], n[i])
                           IN [n EXCEPT ![j] = @ + m, ![i] = @ - m], count, order)

PickupItem(c, i) ==
    /\ c \in on /\ i \in ground /\ Spend("item")
    /\ \E order \in SetToSeqs({j \in bag[c] : Alike(i, j)}) :
           LET rest == Fill(i, order)[i]
           IN /\ count' = Fill(i, order)
              /\ ground' = IF rest = 0 \/ HasCell(c) THEN ground \ {i} ELSE ground
              /\ bag' = IF rest > 0 /\ HasCell(c) THEN [bag EXCEPT ![c] = @ \cup {i}] ELSE bag
    /\ UNCHANGED <<on, store, lost, exchanging, made>> /\ UNCHANGED money /\ UNCHANGED windows

PickupGold(c) ==
    /\ c \in on /\ coins > 0 /\ Spend("item")
    /\ gold' = [gold EXCEPT ![c] = Paid(@, coins)] /\ burnt' = burnt + Lost(gold[c], coins)
    /\ coins' = 0 /\ Save({c})
    /\ UNCHANGED <<on, row, till, made>> /\ UNCHANGED things /\ UNCHANGED windows

\* real_time_expire_event: the item is destroyed wherever it is loaded; a CExchange
\* keeps its pointer.
Expire(i) ==
    /\ i \in ground \cup lost \cup UNION ({bag[c] : c \in on} \cup {store[c] : c \in box})
    /\ i \in Perishable /\ Spend("item")
    /\ bag' = [c \in Chars |-> bag[c] \ {i}] /\ store' = [c \in Chars |-> store[c] \ {i}]
    /\ ground' = ground \ {i} /\ lost' = lost \ {i} /\ exchanging' = exchanging \ {i}
    /\ made' = made - count[i] /\ count' = [count EXCEPT ![i] = 0]
    /\ UNCHANGED on /\ UNCHANGED money /\ UNCHANGED windows

-----------------------------------------------------------------------------
\* save_event, and the saves put off, written once a second.
SaveEvent(c) ==
    /\ c \in on \ delayed /\ Spend("item") /\ Save({c})
    /\ UNCHANGED <<on, gold, row, coins, burnt, till, made>> /\ UNCHANGED things /\ UNCHANGED windows

ProcessDelayedSave ==
    /\ delayed # {} /\ delayed' = {}
    /\ row' = [c \in Chars |-> IF c \in delayed THEN gold[c] ELSE row[c]]
    /\ UNCHANGED <<on, gold, coins, burnt, till, made, budget>> /\ UNCHANGED things /\ UNCHANGED windows

ItemStep ==
    \/ \E c \in Chars, lands \in BOOLEAN :
          \/ \E i \in bag[c] :
                \/ DropItem(c, i, lands)
                \/ \E k \in Items \ {i}, n \in 1 .. count[i] : DropPieces(c, i, k, n, lands)
          \/ \E n \in Amounts : DropGold(c, n, lands)
    \/ \E c \in Chars :
          \/ \E i \in bag[c] : \E j \in Items \ {i}, n \in 1 .. count[i] :
                MoveItem(c, i, j, n) \/ SplitItem(c, i, j, n)
          \/ \E i \in ground : PickupItem(c, i)
          \/ PickupGold(c) \/ SaveEvent(c)
    \/ \E i \in ground : ItemDestroyEvent(i)
    \/ \E i \in Perishable : Expire(i)
    \/ GoldDestroyEvent \/ ProcessDelayedSave
=============================================================================
