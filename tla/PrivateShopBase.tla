--------------------------- MODULE PrivateShopBase ---------------------------
(***************************************************************************)
(* One premium private shop: its authoritative instance in the DB process, *)
(* the copy its host core shows, the owner's panel, the customers, and the *)
(* TCP connections between the game cores and the DB process.  This module *)
(* declares the constants, the variables and the helpers; the handlers are *)
(* in PrivateShopDB and PrivateShopGame, the specification in PrivateShop. *)
(*                                                                         *)
(* A connection is FIFO in both directions.  A core whose connection is    *)
(* lost stays lost, so a peer handle is the name of its core.              *)
(***************************************************************************)
EXTENDS Naturals, FiniteSets, SequencesExt

CONSTANTS
    Cores,      \* the game cores connected to the DB process
    NoCore,     \* peer handle 0: no core
    Host,       \* the core on whose map the shop stands
    Owner,      \* the shop's owner
    Customers,  \* the other characters that buy
    Home,       \* the core each customer plays on
    NumPos,     \* shop positions 1 .. NumPos, one grid cell each
    Items,      \* the items that can be in the shop
    NoItem,     \* an unoccupied position
    Stock,      \* position -> item on sale when the shop has just been built
    Spare,      \* items in the owner's inventory at that moment
    Perishable, \* items with a limited lifetime
    StockPrice, \* the price of every item of Stock
    Prices,     \* the prices the owner and the customers may name
    Purse,      \* the gold of every character at that moment
    GoldMax,    \* GOLD_MAX
    Limit       \* how often each kind of event may happen (Kinds)

Positions == 1 .. NumPos
Chars == Customers \cup {Owner}
Kinds == {"buy", "leave", "modify", "close", "withdraw", "price", "move", "checkin",
          "checkout", "login", "deadline", "itemTimeout", "crash", "cancel", "edits"}

ASSUME ShopAssumption ==
    /\ IsFiniteSet(Cores) /\ Host \in Cores /\ NoCore \notin Cores
    /\ IsFiniteSet(Customers) /\ NoCore \notin Chars
    /\ Owner \notin Customers /\ Home \in [Customers -> Cores]
    /\ NumPos \in Nat /\ NoItem \notin Items \cup Chars
    /\ Spare \subseteq Items /\ Perishable \subseteq Items
    /\ Prices \subseteq Nat \ {0} /\ StockPrice \in Prices /\ GoldMax \in Nat \ {0}
    /\ Stock \in [Positions -> (Items \ Spare) \cup {NoItem}]
    /\ \A i \in Items \ Spare : \E p \in Positions : \A q \in Positions : Stock[q] = i <=> q = p
    /\ Purse \in [Chars -> Nat] /\ Limit \in [Kinds -> Nat]

VARIABLES
    \* DB process
    state,      \* m_table.bState, "none" when there is no instance
    gold,       \* m_table.llGold, the balance not yet withdrawn
    slot,       \* m_vec_privateShopItem by position
    owner,      \* owner peer and session handle, 0 when detached
    reservation,\* nextReservation
    expired,    \* the premium deadline has passed
    row,        \* item table: whose inventory row an item has
    loads,      \* owner sessions whose shop query has not returned yet
    playing,    \* the core the owner's account is logged on at
    peers,      \* m_peerList
    \* game cores
    host,       \* the CPrivateShop of the host core
    panel,      \* the owner's m_privateShopTable and m_vec_privateShopItem
    ownerAt,    \* the owner's character: its core and session, 0 when offline
    lastSess,   \* sessions of the owner so far
    locked,     \* items of the owner locked by a check-in request
    bag,        \* inventory of every character
    purse,      \* gold of every character
    online,     \* customers that are logged on
    crashed,    \* cores whose process is gone
    \* connections and bounds
    toDB, toGame,
    budget      \* what is left of Limit

dbVars   == <<state, gold, slot, owner, reservation, expired, row, loads, playing, peers>>
gameVars == <<host, panel, ownerAt, lastSess, locked, bag, purse, online, crashed>>
vars     == <<dbVars, gameVars, toDB, toGame, budget>>

-----------------------------------------------------------------------------
\* DB: the shop instance.
ShopStates == {"none", "UNAVAILABLE", "CLOSED", "OPEN", "MODIFY", "RECOVERY"}
Detached == [core |-> NoCore, sess |-> 0]

\* SetItem zero-initialises the reservation fields.
FreshSlot(i, price) == [item |-> i, price |-> price, avail |-> TRUE, token |-> 0,
                        buyer |-> NoCore, due |-> FALSE]
EmptySlot == FreshSlot(NoItem, 0)

Occupied(s) == {p \in Positions : s[p].item # NoItem}
Reserved(s) == {p \in Occupied(s) : ~s[p].avail}
Clear(s, p) == [s EXCEPT ![p] = EmptySlot]

-----------------------------------------------------------------------------
\* Connections.  What a handler sends is a function from cores to messages;
\* what is sent to a core that is gone is lost.
Nothing == [c \in Cores |-> <<>>]
To(c, m) == [k \in Cores |-> IF k = c THEN <<m>> ELSE <<>>]
Notify(c, m) == IF c \in peers THEN To(c, m) ELSE Nothing
f ++ g == [c \in Cores |-> f[c] \o g[c]]
Post(out) == toGame' = [c \in Cores |-> IF c \in crashed THEN <<>> ELSE toGame[c] \o out[c]]
NoPost == UNCHANGED toGame

\* The packets of one kind under way in one direction, and the edits under way.
Wire(q, k) == UNION {{q[c][n] : n \in {j \in DOMAIN q[c] : q[c][j].kind = k}} : c \in Cores}
EditKinds == {"Price", "Move", "CheckinRequest", "Checkin", "CheckinUpdate", "CheckoutRequest",
              "Checkout", "CheckoutUpdate"}
Edits == UNION {Wire(toDB, k) \cup Wire(toGame, k) : k \in EditKinds}

Spend(k) == budget[k] > 0 /\ budget' = [budget EXCEPT ![k] = @ - 1]

-----------------------------------------------------------------------------
\* Game: the host's copy and the owner's panel.
NoStall == [p \in Positions |-> [item |-> NoItem, price |-> 0]]
NoHost  == [up |-> FALSE, state |-> "none", items |-> NoStall]
NoPanel == [loaded |-> FALSE, state |-> "none", gold |-> 0, items |-> <<>>]

Stall(s) == [p \in Positions |-> [item |-> s[p].item, price |-> s[p].price]]
\* The snapshot ITEM_LOAD carries, in some order.
Listing(s) == SetToSeq({[pos |-> p, item |-> s[p].item, price |-> s[p].price] : p \in Occupied(s)})

\* Index of the first panel entry at a position, 0 when there is none.
PanelAt(p) == SelectInSeq(panel.items, LAMBDA e : e.pos = p)
DropEntry(n) == [panel EXCEPT !.items = RemoveAt(@, n)]
PanelTotal == FoldLeft(LAMBDA sum, e : sum + e.price, panel.gold, panel.items)

\* The descriptor a packet names is still the owner's character on core c.
Present(c, sess) == sess # 0 /\ ownerAt = [core |-> c, sess |-> sess]
=============================================================================
