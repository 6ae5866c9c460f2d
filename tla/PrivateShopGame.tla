--------------------------- MODULE PrivateShopGame ---------------------------
(***************************************************************************)
(* The game cores: what a core does with each packet of the DB process     *)
(* (CInputDB::PrivateShop and the CPrivateShopManager and CHARACTER        *)
(* functions it calls), what the owner's and the customers' clients may    *)
(* ask for (CInputMain), logging in and out, and the loss of a core.       *)
(* c is the core, m the packet.                                            *)
(***************************************************************************)
EXTENDS PrivateShopBase

Send(c, ms) == toDB' = [toDB EXCEPT ![c] = @ \o ms]
NoSend == UNCHANGED toDB
Unstall(p) == [host EXCEPT !.items[p] = NoStall[p]]

-----------------------------------------------------------------------------
\* Mutants: the gold is not looked at again, a refusal is not sent.
MutCanBuy(m) == m.cust \in online
MutRefuse(c, m) == NoSend

CanBuy(m) == m.cust \in online /\ purse[m.cust] >= m.price
Refuse(c, m) == Send(c, <<[kind |-> "FailedBuy", pos |-> m.pos, token |-> m.token]>>)
Delivery(m) == <<[kind |-> "ItemSave", item |-> m.item, who |-> m.cust],
                 [kind |-> "Buy", pos |-> m.pos, item |-> m.item, price |-> m.price,
                  token |-> m.token]>>

\* ItemTransaction: the customer must still be there, have room and the gold.
\* The host's copy is updated at once when the shop stands on this core.
GameBuyRequest(c, m) ==
    /\ m.kind = "BuyRequest"
    /\ \/ /\ CanBuy(m)
          /\ bag' = [bag EXCEPT ![m.cust] = @ \cup {m.item}]
          /\ purse' = [purse EXCEPT ![m.cust] = @ - m.price]
          /\ host' = IF c = Host /\ host.up THEN Unstall(m.pos) ELSE host
          /\ Send(c, Delivery(m))
          /\ UNCHANGED <<panel, ownerAt, lastSess, locked, online, crashed>>
       \/ \* no such character, no room for the item, or no longer the gold
          /\ Refuse(c, m) /\ UNCHANGED gameVars

\* A cancellation is confirmed, after any purchase handled before it.
GameCancel(c, m) ==
    /\ m.kind = "Cancel"
    /\ Send(c, <<[m EXCEPT !.kind = "FailedBuy"]>>)
    /\ UNCHANGED gameVars

-----------------------------------------------------------------------------
\* The host's copy.
GameRemoveItem(c, m) ==
    /\ m.kind = "RemoveItem" /\ NoSend
    /\ host' = IF host.up THEN Unstall(m.pos) ELSE host
    /\ UNCHANGED <<panel, ownerAt, lastSess, locked, bag, purse, online, crashed>>

GameAddItem(c, m) ==
    /\ m.kind = "AddItem" /\ NoSend
    /\ host' = IF host.up /\ host.items[m.pos].item = NoItem
               THEN [host EXCEPT !.items[m.pos] = [item |-> m.item, price |-> m.price]]
               ELSE host
    /\ UNCHANGED <<panel, ownerAt, lastSess, locked, bag, purse, online, crashed>>

GameSpawn(c, m) ==
    /\ m.kind = "Spawn" /\ NoSend
    /\ host' = [up |-> TRUE, state |-> IF expired THEN "RECOVERY" ELSE m.state, items |-> m.stall]
    /\ UNCHANGED <<panel, ownerAt, lastSess, locked, bag, purse, online, crashed>>

\* STATE_UPDATE goes to the owner's panel and to the shop of this core.
GameStateUpdate(c, m) ==
    /\ m.kind = "State" /\ NoSend
    /\ panel' = IF Present(c, m.sess) THEN [panel EXCEPT !.state = m.state] ELSE panel
    /\ host' = IF c # Host \/ ~host.up THEN host
               ELSE IF m.state = "CLOSED" THEN NoHost
               ELSE [host EXCEPT !.state = m.state]
    /\ UNCHANGED <<ownerAt, lastSess, locked, bag, purse, online, crashed>>

-----------------------------------------------------------------------------
\* The owner's panel.
GamePriceChange(c, m) ==
    LET n == PanelAt(m.pos)
    IN /\ m.kind = "Price" /\ NoSend
       /\ panel' = IF Present(c, m.sess) /\ n # 0
                   THEN [panel EXCEPT !.items[n].price = m.price] ELSE panel
       /\ host' = IF c = Host /\ host.up /\ host.items[m.pos].item # NoItem
                  THEN [host EXCEPT !.items[m.pos].price = m.price] ELSE host
       /\ UNCHANGED <<ownerAt, lastSess, locked, bag, purse, online, crashed>>

GameItemMove(c, m) ==
    LET n == PanelAt(m.pos)
    IN /\ m.kind = "Move" /\ NoSend
       /\ panel' = IF Present(c, m.sess) /\ n # 0
                   THEN [panel EXCEPT !.items[n].pos = m.dst] ELSE panel
       /\ host' = IF /\ c = Host /\ host.up /\ host.items[m.pos].item # NoItem
                     /\ host.items[m.dst].item = NoItem
                  THEN [host EXCEPT !.items[m.dst] = host.items[m.pos],
                                    !.items[m.pos] = NoStall[m.pos]]
                  ELSE host
       /\ UNCHANGED <<ownerAt, lastSess, locked, bag, purse, online, crashed>>

GameSaleUpdate(c, m) ==
    LET n == PanelAt(m.pos)
    IN /\ m.kind = "Sale" /\ NoSend
       /\ panel' = IF Present(c, m.sess) /\ n # 0
                   THEN [DropEntry(n) EXCEPT !.gold = @ + m.price] ELSE panel
       /\ UNCHANGED <<host, ownerAt, lastSess, locked, bag, purse, online, crashed>>

GameItemExpire(c, m) ==
    LET n == PanelAt(m.pos)
    IN /\ m.kind = "ItemExpire" /\ NoSend
       /\ panel' = IF Present(c, m.sess) /\ n # 0 THEN DropEntry(n) ELSE panel
       /\ UNCHANGED <<host, ownerAt, lastSess, locked, bag, purse, online, crashed>>

GameClosed(c, m) ==
    /\ m.kind = "Close" /\ NoSend
    /\ panel' = IF Present(c, m.sess) THEN NoPanel ELSE panel
    /\ UNCHANGED <<host, ownerAt, lastSess, locked, bag, purse, online, crashed>>

\* ITEM_LOAD and LOAD.  A session that has left meanwhile is logged out.
GameLoad(c, m) ==
    /\ m.kind = "Load"
    /\ \/ /\ Present(c, m.sess) /\ NoSend
          /\ panel' = [loaded |-> TRUE, state |-> m.state, gold |-> m.gold,
                       items |-> panel.items \o m.items]
          /\ UNCHANGED <<host, ownerAt, lastSess, locked, bag, purse, online, crashed>>
       \/ /\ ~Present(c, m.sess)
          /\ Send(c, <<[kind |-> "Logout", sess |-> m.sess]>>)
          /\ UNCHANGED gameVars

\* Mutant: the item stays in the inventory.
MutTakeFromBag(i) == bag
TakeFromBag(i) == [bag EXCEPT ![Owner] = @ \ {i}]

\* ItemCheckin: the item leaves the inventory without its row being touched.
GameCheckin(c, m) ==
    LET can == Present(c, m.sess) /\ m.item \in bag[Owner]
    IN /\ m.kind = "Checkin"
       /\ \/ ~can /\ NoSend /\ UNCHANGED gameVars
          \/ /\ can
             /\ panel' = [panel EXCEPT !.items = Append(@, [pos |-> m.pos, item |-> m.item,
                                                            price |-> m.price])]
             /\ bag' = TakeFromBag(m.item)
             /\ locked' = locked \ {m.item}
             /\ Send(c, <<[m EXCEPT !.kind = "CheckinUpdate"]>>)
             /\ UNCHANGED <<host, ownerAt, lastSess, purse, online, crashed>>

\* ItemCheckout: the panel's item is put into the inventory, if there is room.
GameCheckout(c, m) ==
    LET n == PanelAt(m.pos)
    IN /\ m.kind = "Checkout"
       /\ \/ NoSend /\ UNCHANGED gameVars
          \/ /\ Present(c, m.sess) /\ n # 0
             /\ bag' = [bag EXCEPT ![Owner] = @ \cup {panel.items[n].item}]
             /\ panel' = DropEntry(n)
             /\ Send(c, <<[kind |-> "CheckoutUpdate", pos |-> m.pos,
                           item |-> panel.items[n].item]>>)
             /\ UNCHANGED <<host, ownerAt, lastSess, locked, purse, online, crashed>>

\* Mutant: the panel is not consulted.
MutPanelShows(m) == TRUE
PanelShows(m) == m.gold = panel.gold

\* WithdrawPrivateShop: only the amount the panel shows, and only what the
\* purse still holds below GOLD_MAX.
GameWithdraw(c, m) ==
    LET room == IF purse[Owner] < GoldMax - 1 THEN GoldMax - 1 - purse[Owner] ELSE 0
        paid == IF m.gold <= room THEN m.gold ELSE room
        can == Present(c, m.sess) /\ PanelShows(m) /\ paid > 0
    IN /\ m.kind = "Withdraw"
       /\ \/ ~can /\ NoSend /\ UNCHANGED gameVars
          \/ /\ can
             /\ purse' = [purse EXCEPT ![Owner] = @ + paid]
             /\ panel' = [panel EXCEPT !.gold = @ - paid]
             /\ Send(c, <<[kind |-> "WithdrawDone", gold |-> paid]>>)
             /\ UNCHANGED <<host, ownerAt, lastSess, locked, bag, online, crashed>>

\* ClosePrivateShop: near the shop and with room for everything, all items of
\* the host's copy are handed back, the shop is deleted and the panel cleared.
GameDestroy(c, m) ==
    LET back == {host.items[p].item : p \in Positions} \ {NoItem}
    IN /\ m.kind = "Destroy"
       /\ \/ NoSend /\ UNCHANGED gameVars
          \/ /\ Present(c, m.sess) /\ c = Host /\ host.up
             /\ bag' = [bag EXCEPT ![Owner] = @ \cup back]
             /\ Send(c, SetToSeq({[kind |-> "ItemTransfer", item |-> i] : i \in back})
                        \o <<[kind |-> "Delete"]>>)
             /\ host' = NoHost /\ panel' = NoPanel
             /\ UNCHANGED <<ownerAt, lastSess, locked, purse, online, crashed>>

\* CInputDB::PrivateShop: the next packet for core c.
Receive(c) ==
    /\ c \notin crashed /\ toGame[c] # <<>>
    /\ toGame' = [toGame EXCEPT ![c] = Tail(@)]
    /\ LET m == Head(toGame[c]) IN
         \/ GameBuyRequest(c, m)   \/ GameCancel(c, m)      \/ GameRemoveItem(c, m)
         \/ GameAddItem(c, m)      \/ GameSpawn(c, m)       \/ GameStateUpdate(c, m)
         \/ GamePriceChange(c, m)  \/ GameItemMove(c, m)    \/ GameSaleUpdate(c, m)
         \/ GameItemExpire(c, m)   \/ GameClosed(c, m)      \/ GameLoad(c, m)
         \/ GameCheckin(c, m)      \/ GameCheckout(c, m)    \/ GameWithdraw(c, m)
         \/ GameDestroy(c, m)

-----------------------------------------------------------------------------
\* Client requests.  A customer buys from the shop window or, on any core,
\* from a search result; position and price are those the client was shown.
PrivateShopBuyClient(cust, p, price) ==
    /\ cust \in online /\ Spend("buy")
    /\ Send(Home[cust], <<[kind |-> "BuyRequest", cust |-> cust, pos |-> p, price |-> price,
                           purse |-> purse[cust]]>>)
    /\ UNCHANGED gameVars

CustomerLeaves(cust) ==
    /\ cust \in online /\ Spend("leave")
    /\ online' = online \ {cust} /\ NoSend
    /\ UNCHANGED <<host, panel, ownerAt, lastSess, locked, bag, purse, crashed>>

\* What the owner sends, from the core the session is on.  Edits are at least a
\* second apart (LastPrivateShopModifyTime): Limit["edits"] bounds how many a
\* slow connection can have under way at once.
Ask(k, m) == /\ panel.loaded /\ Spend(k)
             /\ Send(ownerAt.core, <<m>>)

AskEdit(k, m) == Cardinality(Edits) < Limit["edits"] /\ Ask(k, m)

\* The panel's button, or closing the panel while modifying.
OwnerModify == /\ Ask("modify", [kind |-> "Modify", sess |-> ownerAt.sess])
               /\ UNCHANGED gameVars

OwnerClose == /\ Ask("close", [kind |-> "Close", sess |-> ownerAt.sess])
              /\ UNCHANGED gameVars

OwnerWithdraw == /\ panel.gold > 0 /\ purse[Owner] < GoldMax - 1
                 /\ Ask("withdraw", [kind |-> "WithdrawRequest", sess |-> ownerAt.sess])
                 /\ UNCHANGED gameVars

OwnerPriceChange(p, price) ==
    LET n == PanelAt(p)
    IN /\ panel.state = "MODIFY" /\ n # 0
       /\ PanelTotal + purse[Owner] + price < GoldMax + panel.items[n].price
       /\ AskEdit("price", [kind |-> "Price", sess |-> ownerAt.sess, pos |-> p, price |-> price])
       /\ UNCHANGED gameVars

OwnerMove(p, q) ==
    /\ panel.state = "MODIFY"
    /\ AskEdit("move", [kind |-> "Move", sess |-> ownerAt.sess, pos |-> p, dst |-> q])
    /\ UNCHANGED gameVars

\* The item stays locked until the answer; a refusal does not unlock it.
OwnerCheckin(i, p, price) ==
    /\ panel.state = "MODIFY" /\ i \in bag[Owner] \ locked
    /\ PanelTotal + purse[Owner] + price < GoldMax
    /\ AskEdit("checkin", [kind |-> "CheckinRequest", sess |-> ownerAt.sess, pos |-> p, item |-> i,
                       price |-> price])
    /\ locked' = locked \cup {i}
    /\ UNCHANGED <<host, panel, ownerAt, lastSess, bag, purse, online, crashed>>

OwnerCheckout(p) ==
    /\ panel.state \in {"MODIFY", "RECOVERY"} /\ PanelAt(p) # 0
    /\ AskEdit("checkout", [kind |-> "CheckoutRequest", sess |-> ownerAt.sess, pos |-> p])
    /\ UNCHANGED gameVars

-----------------------------------------------------------------------------
\* Disconnect: the shop's LOGOUT goes out only when the panel was loaded; the
\* account's logout follows on the same connection.
OwnerLogout ==
    /\ ownerAt.sess # 0 /\ UNCHANGED budget
    /\ Send(ownerAt.core,
            (IF panel.loaded THEN <<[kind |-> "Logout", sess |-> ownerAt.sess]>> ELSE <<>>)
            \o <<[kind |-> "AccountLogout"]>>)
    /\ ownerAt' = Detached /\ panel' = NoPanel /\ locked' = {}
    /\ UNCHANGED <<host, lastSess, bag, purse, online, crashed>>

\* The item cache is loaded into the inventory and the shop query is queued.
OwnerLogin(c) ==
    /\ ownerAt.sess = 0 /\ playing = NoCore /\ c \in peers \ crashed /\ Spend("login")
    /\ lastSess' = lastSess + 1
    /\ ownerAt' = [core |-> c, sess |-> lastSess']
    /\ bag' = [bag EXCEPT ![Owner] = {i \in Items : row[i] = Owner}]
    /\ playing' = c /\ loads' = Append(loads, ownerAt')
    /\ NoSend
    /\ UNCHANGED <<host, panel, locked, purse, online, crashed,
                   state, gold, slot, owner, reservation, expired, row, peers>>

\* An item with a limited lifetime runs out while it is on sale.
SendItemExpire(p) ==
    /\ host.up /\ host.items[p].item \in Perishable /\ Spend("itemTimeout")
    /\ host' = Unstall(p)
    /\ Send(Host, <<[kind |-> "ItemExpire", pos |-> p]>>)
    /\ UNCHANGED <<panel, ownerAt, lastSess, locked, bag, purse, online, crashed>>

\* The process of a core is gone.  What it had sent arrives up to some packet,
\* what was on its way to it and its memory are lost: inventories are what the
\* item rows say, gold is what the last save of the character has.
CoreCrash(c) ==
    /\ c \notin crashed /\ Spend("crash")
    /\ crashed' = crashed \cup {c}
    /\ \E n \in 0 .. Len(toDB[c]) : toDB' = [toDB EXCEPT ![c] = SubSeq(@, 1, n)]
    /\ toGame' = [toGame EXCEPT ![c] = <<>>]
    /\ host' = IF c = Host THEN NoHost ELSE host
    /\ online' = {k \in online : Home[k] # c}
    /\ IF ownerAt.core = c THEN ownerAt' = Detached /\ panel' = NoPanel /\ locked' = {}
       ELSE UNCHANGED <<ownerAt, panel, locked>>
    /\ LET lost == {k \in Customers : Home[k] = c} \cup (IF ownerAt.core = c THEN {Owner} ELSE {})
       IN /\ bag' = [k \in Chars |-> IF k \in lost THEN {i \in Items : row[i] = k} ELSE bag[k]]
          /\ \E unsaved \in SUBSET lost :
               purse' = [k \in Chars |-> IF k \in unsaved THEN Purse[k] ELSE purse[k]]
    /\ UNCHANGED lastSess
=============================================================================
