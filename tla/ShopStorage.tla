----------------------------- MODULE ShopStorage -----------------------------
(***************************************************************************)
(* What the DB process keeps of one private shop, and where: the instance, *)
(* the write-behind caches of the shop and of its items, the statements    *)
(* under way to the SQL server, and the rows a restart starts from.  Cores *)
(* come and go, the owner logs on and off, the DB process is stopped and   *)
(* started again.                                                          *)
(*                                                                         *)
(* Prices are 1, so gold counts sales.  Customers play on one core other   *)
(* than the host.  A character whose core is lost is no longer logged on.  *)
(***************************************************************************)
EXTENDS Naturals, SequencesExt

CONSTANTS
    Items,      \* what can be in the shop; the owner has all of it at first
    NoItem,     \* in a statement that is not about an item
    Host,       \* the core on whose map the shop is built
    Mart,       \* the core of the customers
    Off,        \* where a character is that is not logged on
    SlowSQL,    \* statements overtake each other and are late for a core's start
    AnyStop,    \* the DB process is stopped while cores are connected
    Limit       \* how often each kind of event may happen (Kinds)

Kinds == {"build", "buy", "edit", "logon", "lose", "deadline", "stop"}

ASSUME StorageAssumption ==
    /\ NoItem \notin Items /\ IsFiniteSet(Items)
    /\ Host # Mart /\ Off \notin {Host, Mart}
    /\ SlowSQL \in BOOLEAN /\ AnyStop \in BOOLEAN /\ Limit \in [Kinds -> Nat]

VARIABLES
    up,         \* the DB process: "up", "quitting" (waits for the SQL threads), "down"
    peers,      \* m_peerList
    owner,      \* the core the owner plays on, or Off
    db,         \* the DB process's memory, and its SQL connections (EmptyDB)
    table,      \* the rows: shop row, private_shop_item, item
    expired,    \* the deadline has passed
    whose,      \* who has an item: the owner, the shop or a buyer
    owed,       \* sales recorded and not yet withdrawn
    take,       \* how far the purchase of an item is
    stray,      \* items whose BUY was lost or not accepted
    away,       \* the owner has asked for his shop while it had no host
    budget      \* what is left of Limit

vars == <<up, peers, owner, db, table, expired, whose, owed, take, stray, away, budget>>

Cores == {Host, Mart}
Spend(k) == budget[k] > 0 /\ budget' = [budget EXCEPT ![k] = @ - 1]

-----------------------------------------------------------------------------
\* Memory.  st is m_table.bState, "none" when there is no instance or no cache
\* (a deleted cache answers like none).  held: reserved items.
NoShop == [st |-> "none", gold |-> 0, items |-> {}, held |-> {}]
NoCache == [st |-> "none", gold |-> 0, need |-> FALSE]
EmptyDB == [mem |-> NoShop, hosted |-> FALSE, cache |-> NoCache, set |-> FALSE,
            item |-> [i \in Items |-> "none"], inv |-> [i \in Items |-> "none"], sql |-> <<>>]

Exists == db.mem.st # "none"
Cached(d) == {i \in Items : d.item[i] # "none"}
Dirty(d) == {i \in Items : d.item[i] = "dirty"}
In(c) == {i \in Items : whose[i] = c}

-----------------------------------------------------------------------------
\* SQL: ReturnQuery and AsyncQuery have a connection and a thread each; a
\* statement applies to the rows when its thread gets to it.
Say(conn, op, i, st, gold) == [conn |-> conn, op |-> op, item |-> i, st |-> st, gold |-> gold]
Send(d, s) == [d EXCEPT !.sql = Append(@, s)]
SendEach(d, op, S) ==
    LET f == SetToSeq(S) IN [d EXCEPT !.sql = @ \o [n \in 1 .. Len(f) |-> Say("main", op, f[n], "none", 0)]]

\* REPLACE writes the whole row, UPDATE a column of an existing one.
Apply(t, s) ==
    CASE s.op = "ShopPut" -> [t EXCEPT !.st = s.st, !.gold = s.gold]
      [] s.op = "ShopDel" -> [t EXCEPT !.st = "none", !.gold = 0]
      [] s.op = "SetState" -> IF t.st = "none" THEN t ELSE [t EXCEPT !.st = s.st]
      [] s.op = "SetGold" -> IF t.st = "none" THEN t ELSE [t EXCEPT !.gold = s.gold]
      [] s.op = "ItemPut" -> [t EXCEPT !.items = @ \cup {s.item}]
      [] s.op = "ItemDel" -> [t EXCEPT !.items = @ \ {s.item}]
      [] s.op = "ItemsDel" -> [t EXCEPT !.items = {}]
      [] s.op = "InvPut" -> [t EXCEPT !.inv = @ \cup {s.item}]
      [] s.op = "InvDel" -> [t EXCEPT !.inv = @ \ {s.item}]

\* The first of its connection; of the other one nothing older unless SlowSQL.
ChildLoop ==
    \E n \in DOMAIN db.sql :
        /\ \A m \in 1 .. n - 1 : SlowSQL /\ db.sql[m].conn # db.sql[n].conn
        /\ table' = Apply(table, db.sql[n])
        /\ db' = [db EXCEPT !.sql = RemoveAt(@, n)]
        /\ UNCHANGED <<up, peers, owner, expired, whose, owed, take, stray, away, budget>>

-----------------------------------------------------------------------------
\* The caches.
FlushCache(d) ==
    IF ~d.cache.need THEN d
    ELSE [Send(d, Say("main", "ShopPut", NoItem, d.cache.st, d.cache.gold)) EXCEPT !.cache.need = FALSE]
PutCache(d, st, gold) == [d EXCEPT !.cache = [st |-> st, gold |-> gold, need |-> TRUE]]

Write(d, S) == [SendEach(d, "ItemPut", S) EXCEPT
                   !.item = [i \in Items |-> IF i \in S THEN "clean" ELSE @[i]]]
UpdatePrivateShopItemCacheSet(d) == IF d.set THEN Write(d, Dirty(d)) ELSE d

DropItemCaches(d) == [d EXCEPT !.set = FALSE, !.item = [i \in Items |-> "none"]]
FlushPrivateShopItemCacheSet(d) == DropItemCaches(Write(d, Dirty(d)))
FlushPrivateShopCache(d) == [FlushCache(d) EXCEPT !.cache = NoCache]

-----------------------------------------------------------------------------
\* CPrivateShop: through the cache when there is one, otherwise by AsyncQuery.
ChangeState(d, st) ==
    LET e == [d EXCEPT !.mem.st = st]
    IN IF d.cache.st # "none" THEN FlushCache(PutCache(e, st, d.cache.gold))
       ELSE Send(e, Say("async", "SetState", NoItem, st, 0))

\* Mutant: the cache is not marked for writing.
MutUpdateBalance(d) ==
    LET e == [d EXCEPT !.mem.gold = @ + 1]
    IN IF d.cache.st # "none" THEN [e EXCEPT !.cache.gold = @ + 1]
       ELSE Send(e, Say("async", "SetGold", NoItem, "none", e.mem.gold))
UpdateBalance(d) ==
    LET e == [d EXCEPT !.mem.gold = @ + 1]
    IN IF d.cache.st # "none" THEN PutCache(e, d.cache.st, d.cache.gold + 1)
       ELSE Send(e, Say("async", "SetGold", NoItem, "none", e.mem.gold))

\* Mutant: only the instance forgets the gold.
MutWithdraw(d) == [d EXCEPT !.mem.gold = 0]
Withdraw(d) ==
    LET e == [d EXCEPT !.mem.gold = 0]
    IN IF d.cache.st # "none" THEN FlushCache(PutCache(e, d.cache.st, 0))
       ELSE Send(e, Say("async", "SetGold", NoItem, "none", 0))

\* Deleting a cached item deletes its row at once.
\* Mutant: a removed item stays reserved.
MutHoldStays(d, i) ==
    LET e == [d EXCEPT !.mem.items = @ \ {i}]
    IN IF d.item[i] # "none"
       THEN [Send(e, Say("main", "ItemDel", i, "none", 0)) EXCEPT !.item[i] = "dead"]
       ELSE Send(e, Say("async", "ItemDel", i, "none", 0))
\* Mutant: the row of a cached item is left to the next flush.
MutRemoveItem(d, i) ==
    LET e == [d EXCEPT !.mem.items = @ \ {i}, !.mem.held = @ \ {i}]
    IN IF d.item[i] # "none" THEN [e EXCEPT !.item[i] = "dead"]
       ELSE Send(e, Say("async", "ItemDel", i, "none", 0))
RemoveItem(d, i) ==
    LET e == [d EXCEPT !.mem.items = @ \ {i}, !.mem.held = @ \ {i}]
    IN IF d.item[i] # "none"
       THEN [Send(e, Say("main", "ItemDel", i, "none", 0)) EXCEPT !.item[i] = "dead"]
       ELSE Send(e, Say("async", "ItemDel", i, "none", 0))

PutItemCache(d, i) == [d EXCEPT !.inv[i] = "dirty"]

\* PrivateShopGameDespawn, PrivateShopDestroy.
GameDespawn(d) == UpdatePrivateShopItemCacheSet(ChangeState(d, "CLOSED"))
Destroy(d) ==
    LET e == IF d.cache.st # "none" THEN Send(d, Say("main", "ShopDel", NoItem, "none", 0))
             ELSE Send(d, Say("async", "ShopDel", NoItem, "none", 0))
        f == IF d.set THEN SendEach(e, "ItemDel", {i \in Cached(d) : d.item[i] # "dead"})
             ELSE Send(e, Say("async", "ItemsDel", NoItem, "none", 0))
    IN DropItemCaches([f EXCEPT !.cache = NoCache, !.mem = NoShop, !.hosted = FALSE])

\* PrivateShopGameSpawn; PrivateShopSpawn when the instance is in memory.
GameSpawn(d) == IF expired /\ d.mem.st # "CLOSED" THEN ChangeState(d, "RECOVERY") ELSE d
Spawn(d, hosts) == IF Host \in hosts THEN GameSpawn([d EXCEPT !.hosted = TRUE]) ELSE d

-----------------------------------------------------------------------------
\* Requests from the cores.

\* BUILD: the shop row is written at once, the inventory rows are deleted, the
\* item rows wait in their caches.
Built(d, S) == [SendEach(d, "InvDel", S) EXCEPT
                   !.inv = [i \in Items |-> IF i \in S THEN "dead" ELSE @[i]],
                   !.item = [i \in Items |-> IF i \in S THEN "dirty" ELSE @[i]],
                   !.set = TRUE]

PrivateShopBuild ==
    /\ up = "up" /\ owner = Host /\ In("shop") = {} /\ owed = 0 /\ Spend("build")
    /\ ~Exists /\ Cached(db) = {}
    /\ \E S \in SUBSET In("owner") :
           LET shop == [st |-> "OPEN", gold |-> 0, items |-> S, held |-> {}]
           IN /\ S # {}
              /\ db' = Built(FlushCache(PutCache([db EXCEPT !.mem = shop, !.hosted = TRUE], "OPEN", 0)), S)
              /\ whose' = [i \in Items |-> IF i \in S THEN "shop" ELSE whose[i]]
    /\ expired' = FALSE
    /\ UNCHANGED <<up, peers, owner, table, owed, take, stray, away>>

PrivateShopBuyRequest(i) ==
    /\ up = "up" /\ Mart \in peers /\ take[i] = "no" /\ i \notin stray /\ Spend("buy")
    /\ db.mem.st = "OPEN" /\ ~expired /\ db.hosted /\ i \in db.mem.items \ db.mem.held
    /\ db' = [db EXCEPT !.mem.held = @ \cup {i}]
    /\ take' = [take EXCEPT ![i] = "held"]
    /\ UNCHANGED <<up, peers, owner, table, expired, whose, owed, stray, away>>

\* The customer's core gives the item and saves it, and sends BUY behind that.
QueryItemSave(i) ==
    /\ up = "up" /\ take[i] = "held"
    /\ db' = PutItemCache(db, i)
    /\ take' = [take EXCEPT ![i] = "paid"] /\ whose' = [whose EXCEPT ![i] = "buyer"]
    /\ UNCHANGED <<up, peers, owner, table, expired, owed, stray, away, budget>>

PrivateShopBuy(i) ==
    /\ up = "up" /\ take[i] = "paid" /\ take' = [take EXCEPT ![i] = "no"]
    /\ \/ /\ i \notin db.mem.held
          /\ stray' = stray \cup {i} /\ UNCHANGED <<db, owed>>
       \/ /\ i \in db.mem.held
          /\ LET d == RemoveItem(UpdateBalance(db), i)
             IN db' = IF d.mem.items = {} THEN GameDespawn(d) ELSE d
          /\ owed' = owed + 1 /\ UNCHANGED stray
    /\ UNCHANGED <<up, peers, owner, table, expired, whose, away, budget>>

PrivateShopFailedBuy(i) ==
    /\ up = "up" /\ take[i] = "held"
    /\ db' = [db EXCEPT !.mem.held = @ \ {i}]
    /\ take' = [take EXCEPT ![i] = "no"]
    /\ UNCHANGED <<up, peers, owner, table, expired, whose, owed, stray, away, budget>>

PrivateShopModifyRequest ==
    /\ up = "up" /\ owner # Off /\ Spend("edit")
    /\ db.mem.st \in {"OPEN", "MODIFY"} /\ db.hosted /\ db.mem.held = {} /\ ~expired
    /\ db' = ChangeState(db, IF db.mem.st = "OPEN" THEN "MODIFY" ELSE "OPEN")
    /\ UNCHANGED <<up, peers, owner, table, expired, whose, owed, take, stray, away>>

\* The request and its update in one step: PrivateShopDB has what happens in between.
PrivateShopItemCheckoutUpdate(i) ==
    /\ up = "up" /\ owner # Off /\ Spend("edit")
    /\ db.mem.st \in {"MODIFY", "RECOVERY"} /\ db.hosted /\ i \in db.mem.items \ db.mem.held
    /\ LET d == PutItemCache(RemoveItem(db, i), i)
       IN db' = IF d.mem.items # {} THEN d
                ELSE IF d.mem.gold > 0 THEN GameDespawn(d) ELSE Destroy(GameDespawn(d))
    /\ whose' = [whose EXCEPT ![i] = "owner"]
    /\ UNCHANGED <<up, peers, owner, table, expired, owed, take, stray, away>>

PrivateShopWithdraw ==
    /\ up = "up" /\ owner # Off /\ Exists /\ db.mem.gold > 0 /\ Spend("edit")
    /\ LET d == Withdraw(db) IN db' = IF d.mem.items = {} THEN Destroy(d) ELSE d
    /\ owed' = 0
    /\ UNCHANGED <<up, peers, owner, table, expired, whose, take, stray, away>>

-----------------------------------------------------------------------------
\* Once a second: overdue holds, the deadline, the caches.
Deadline == /\ ~expired /\ In("shop") # {} /\ Spend("deadline") /\ expired' = TRUE
            /\ UNCHANGED <<up, peers, owner, db, table, whose, owed, take, stray, away>>

\* A hold whose core is gone is released.
ReleaseHold(i) ==
    /\ up = "up" /\ i \in db.mem.held /\ Mart \notin peers
    /\ db' = [db EXCEPT !.mem.held = @ \ {i}]
    /\ UNCHANGED <<up, peers, owner, table, expired, whose, owed, take, stray, away, budget>>

Overdue(d) == expired /\ d.mem.st \notin {"none", "CLOSED"}
Recover(d) ==
    LET e == IF d.mem.st = "RECOVERY" THEN d
             ELSE UpdatePrivateShopItemCacheSet(ChangeState(d, "RECOVERY"))
    IN IF e.mem.items = {} /\ e.mem.gold = 0 THEN Destroy(e) ELSE e

UpdatePrivateShopPremiumEvent ==
    /\ up = "up" /\ Overdue(db) /\ db' = Recover(db) /\ db' # db
    /\ UNCHANGED <<up, peers, owner, table, expired, whose, owed, take, stray, away, budget>>

UpdatePrivateShopCache ==
    /\ up = "up" /\ db.cache.need /\ db' = FlushCache(db)
    /\ UNCHANGED <<up, peers, owner, table, expired, whose, owed, take, stray, away, budget>>

UpdatePrivateShopItemCache(i) ==
    /\ up = "up" /\ db.item[i] = "dirty" /\ db' = Write(db, {i})
    /\ UNCHANGED <<up, peers, owner, table, expired, whose, owed, take, stray, away, budget>>

Save(d, S) == [SendEach(d, "InvPut", S) EXCEPT
                  !.inv = [i \in Items |-> IF i \in S THEN "clean" ELSE @[i]]]
Unsaved == {i \in Items : db.inv[i] = "dirty"}
UpdateItemCache(i) ==
    /\ up = "up" /\ i \in Unsaved /\ db' = Save(db, {i})
    /\ UNCHANGED <<up, peers, owner, table, expired, whose, owed, take, stray, away, budget>>

-----------------------------------------------------------------------------
\* The owner logs on: RESULT_ITEM_LOAD, RESULT_PRIVATE_SHOP_ITEM_LOAD and
\* RESULT_PRIVATE_SHOP_LOAD.  Their SELECTs queue behind the statements on the
\* same connection.
\* The item caches are filled from the rows unless there are some already.
ItemLoad(d) ==
    IF d.mem.st # "none" \/ d.set THEN d
    ELSE [d EXCEPT !.set = TRUE,
                   !.item = [i \in Items |-> IF i \in table.items THEN "clean" ELSE "none"]]
Loaded(d) ==
    LET c == IF d.cache.st # "none" THEN d.cache ELSE table
    IN IF d.mem.st # "none" THEN d.mem
       ELSE [st |-> c.st, gold |-> c.gold, held |-> {},
             items |-> {i \in Items : d.item[i] \in {"clean", "dirty"}}]

\* Closed or expired stock comes back for recovery only.
PrivateShopLoad(d) ==
    LET old == d.mem
        t == Loaded(d)
        recovery == t.items # {} /\ (t.st = "CLOSED" \/ expired)
        e == IF recovery /\ old.st # "none" THEN ChangeState(d, "RECOVERY") ELSE d
        m == IF recovery THEN [t EXCEPT !.st = "RECOVERY"] ELSE t
        f == [PutCache(e, m.st, m.gold) EXCEPT !.mem = m]
    IN IF t.st = "none" THEN d
       ELSE IF m.st # "CLOSED" /\ (old.st \in {"none", "CLOSED"} \/ ~d.hosted) THEN Spawn(f, peers)
       ELSE f

Logon(c) ==
    /\ up = "up" /\ owner = Off /\ c \in peers /\ Spend("logon")
    /\ \A n \in DOMAIN db.sql : SlowSQL /\ db.sql[n].conn = "async"
    /\ Overdue(db) => Recover(db) = db
    /\ owner' = c
    /\ LET d == PrivateShopLoad(ItemLoad(db))
       IN /\ db' = [d EXCEPT !.inv = [i \in Items |-> IF @[i] = "none" /\ i \in table.inv
                                                     THEN "clean" ELSE @[i]]]
          /\ away' = (away \/ (d.mem.st \notin {"none", "CLOSED"} /\ ~d.hosted))
    /\ UNCHANGED <<up, peers, table, expired, whose, owed, take, stray>>

\* LOGOUT: PrivateShopStartPremiumEvent.
StartPremiumEvent(d) == IF d.mem.st \in {"none", "CLOSED"} THEN d ELSE FlushCache(d)
Logout ==
    /\ up = "up" /\ owner # Off /\ owner' = Off /\ db' = StartPremiumEvent(db)
    /\ UNCHANGED <<up, peers, table, expired, whose, owed, take, stray, away, budget>>

-----------------------------------------------------------------------------
\* A core is lost: its characters are gone, the shop it hosts is written and
\* forgotten by the caches.
Unhost(d) ==
    LET e == IF d.set THEN FlushPrivateShopItemCacheSet(d) ELSE d
    IN [FlushPrivateShopCache(e) EXCEPT !.hosted = FALSE, !.mem.st = "UNAVAILABLE"]

RemovePeer(c) ==
    /\ up = "up" /\ c \in peers /\ Spend("lose") /\ peers' = peers \ {c}
    /\ owner' = (IF owner = c THEN Off ELSE owner)
    /\ db' = IF c = Host /\ db.hosted THEN Unhost(db) ELSE db
    /\ IF c # Mart THEN UNCHANGED <<take, stray>>
       ELSE /\ stray' = stray \cup {i \in Items : take[i] = "paid"}
            /\ take' = [i \in Items |-> "no"]
    /\ UNCHANGED <<up, table, expired, whose, owed, away>>

\* PrivateShopPeerSpawn, of the instances in memory: a shop in recovery gets its
\* host back, an UNAVAILABLE one is reopened for an owner that plays and is
\* otherwise erased, whichever core it is that connects.
Revive(d, c) ==
    CASE d.mem.st = "RECOVERY" /\ c = Host /\ ~d.hosted -> Spawn(d, {Host})
      [] d.mem.st = "UNAVAILABLE" /\ (c # Host \/ owner = Off) -> [d EXCEPT !.mem = NoShop, !.hosted = FALSE]
      [] d.mem.st = "UNAVAILABLE" /\ c = Host /\ owner # Off /\ d.mem.items # {} ->
            Spawn(ChangeState(d, IF expired THEN "RECOVERY" ELSE "OPEN"), {Host})
      [] OTHER -> d

\* Then of the rows, by DirectQuery.
\* Mutant: a shop in MODIFY is not looked for.
MutSelected(d) == ~expired /\ table.st \in {"OPEN", "RECOVERY"} /\ d.mem.st \in {"none", "UNAVAILABLE"}
Selected(d) == /\ ~expired /\ table.st \in {"OPEN", "MODIFY", "RECOVERY"}
               /\ d.mem.st \in {"none", "UNAVAILABLE"}
FromRows == [st |-> table.st, gold |-> table.gold, items |-> table.items, held |-> {}]
FetchData(d) == IF d.mem.st # "none" THEN d ELSE [d EXCEPT !.mem = FromRows]

PrivateShopPeerSpawn(d, c) ==
    LET e == Revive(d, c)
    IN IF c = Host /\ Selected(e) THEN StartPremiumEvent(Spawn(FetchData(e), {Host})) ELSE e

QuerySetup(c) ==
    /\ up = "up" /\ c \notin peers /\ (SlowSQL \/ db.sql = <<>>)
    /\ peers' = peers \cup {c} /\ db' = PrivateShopPeerSpawn(db, c)
    /\ UNCHANGED <<up, owner, table, expired, whose, owed, take, stray, away, budget>>

-----------------------------------------------------------------------------
\* The end of MainLoop writes the item caches, not those of the shop.
MainLoopExit ==
    /\ up = "up" /\ (AnyStop \/ peers = {}) /\ Spend("stop")
    /\ up' = "quitting" /\ peers' = {} /\ owner' = Off
    /\ db' = [EmptyDB EXCEPT !.sql = Save(db, Unsaved).sql]
    /\ take' = [i \in Items |-> "no"] /\ stray' = stray \cup {i \in Items : take[i] = "paid"}
    /\ UNCHANGED <<table, expired, whose, owed, away>>

Quit == /\ up = "quitting" /\ db.sql = <<>> /\ up' = "down"
        /\ UNCHANGED <<peers, owner, db, table, expired, whose, owed, take, stray, away, budget>>

Start == /\ up = "down" /\ up' = "up"
         /\ UNCHANGED <<peers, owner, db, table, expired, whose, owed, take, stray, away, budget>>

-----------------------------------------------------------------------------
Init ==
    /\ up = "up" /\ peers = Cores /\ owner = Host
    /\ db = [EmptyDB EXCEPT !.inv = [i \in Items |-> "clean"]]
    /\ table = [st |-> "none", gold |-> 0, items |-> {}, inv |-> Items]
    /\ expired = FALSE /\ away = FALSE /\ owed = 0
    /\ whose = [i \in Items |-> "owner"] /\ take = [i \in Items |-> "no"] /\ stray = {}
    /\ budget = Limit

Next ==
    \/ PrivateShopBuild \/ PrivateShopModifyRequest \/ PrivateShopWithdraw
    \/ \E i \in Items : \/ PrivateShopBuyRequest(i) \/ QueryItemSave(i) \/ PrivateShopBuy(i)
                        \/ PrivateShopFailedBuy(i) \/ PrivateShopItemCheckoutUpdate(i)
                        \/ ReleaseHold(i) \/ UpdatePrivateShopItemCache(i) \/ UpdateItemCache(i)
    \/ Deadline \/ UpdatePrivateShopPremiumEvent \/ UpdatePrivateShopCache \/ ChildLoop
    \/ Logout \/ \E c \in Cores : Logon(c) \/ RemovePeer(c) \/ QuerySetup(c)
    \/ MainLoopExit \/ Quit \/ Start

Spec == Init /\ [][Next]_vars

-----------------------------------------------------------------------------
\* Type correctness; only what is in the shop is reserved.
StorageTypeOK ==
    /\ up \in {"up", "quitting", "down"} /\ peers \subseteq Cores /\ owner \in Cores \cup {Off}
    /\ db.mem.st \in {"none", "OPEN", "MODIFY", "CLOSED", "RECOVERY", "UNAVAILABLE"}
    /\ db.mem.items \subseteq Items /\ db.mem.held \subseteq db.mem.items /\ db.mem.gold \in Nat
    /\ db.item \in [Items -> {"none", "clean", "dirty", "dead"}]
    /\ db.inv \in [Items -> {"none", "clean", "dirty", "dead"}]
    /\ table.items \subseteq Items /\ table.inv \subseteq Items /\ table.gold \in Nat
    /\ whose \in [Items -> {"owner", "shop", "buyer"}] /\ take \in [Items -> {"no", "held", "paid"}]
    /\ stray \subseteq Items /\ owed \in Nat

\* The rows never give an item to two at once for good: one that has a row in an
\* inventory and one in the shop is being bought, or one of the rows is about to
\* be deleted.  The two rows are written by different caches at different times.
TakenOnce ==
    \A i \in table.items \cap table.inv :
        \/ i \in stray \/ take[i] = "paid"
        \/ \E n \in DOMAIN db.sql : db.sql[n].item = i /\ db.sql[n].op \in {"ItemDel", "InvDel"}

\* When the DB process is down, the rows hold every item once, where it belongs,
\* and the gold of every sale: nothing was only in memory, though the end of the
\* main loop does not write the caches of shops.  (Not so for gold when the owner
\* logged on while his shop had no host: the balance is then in a shop cache that
\* nothing writes before the stop.)
StopKeepsAll ==
    up = "down" =>
        /\ \A i \in Items \ stray : IF whose[i] = "shop" THEN i \in table.items \ table.inv
                                                         ELSE i \in table.inv \ table.items
        /\ table.gold = owed \/ away
        /\ table.items # {} => table.st # "none"

\* Once the host is back, after a loss or a restart, a shop that has stock and
\* time left is on the map again, unless it is closed.  (Not so when the owner
\* logged on while it had no host: the row then says UNAVAILABLE and no start of
\* a core looks for it.)
NoneLeftBehind ==
    up = "up" /\ Host \in peers /\ ~expired /\ In("shop") # {} /\ stray = {}
        => db.hosted \/ db.mem.st = "CLOSED" \/ away

\* The instance always has the stock and the gold of the sales made: what is
\* read back from rows or caches is not older than what was forgotten, so that a
\* respawned shop sells nothing twice and pays no gold twice.
MemoryIsCurrent ==
    Exists => /\ \A i \in Items \ stray : take[i] # "paid" => (i \in db.mem.items <=> whose[i] = "shop")
              /\ db.mem.gold = owed \/ away
=============================================================================
