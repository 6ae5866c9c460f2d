# Private shops of the Metin2 server: a TLA+ development

The repository is the server of an MMO: several game cores (`src/server/game`), one
process that owns the database (`src/server/db`), and the libraries they share. This
directory specifies the parts of it where most can go wrong at once:

- the **premium offline private shop**, a shop that goes on selling while its owner is
  logged out, on another core, or while a core is lost: items and gold cross three
  processes there, with no transaction around them;
- how such a shop is **built**, while its owner may leave before the answer;
- what the DB process **stores** of such a shop, through write-behind caches and queued
  statements, and what a restart or a returning core makes of it;
- the windows by which characters of one core **trade**: exchange, safebox, stalls;
- **logins**: which connection, on which core, an account's character belongs to, and that
  its saves and loads do not overtake each other.

Paths below are relative to the repository's root; `db/...` and `game/...` stand for
`src/server/db/src/...` and `src/server/game/src/...`.

## 1. The system

### Processes and how they talk

| process | state that matters here | talks to |
| --- | --- | --- |
| DB process (`db/`) | the authoritative shops, the item and player caches, who is logged on where, the SQL queue | every core, over one TCP connection each; the SQL server, through a query thread |
| game core (`game/`), one per channel and map set | the characters on it, their inventories and gold, the shops standing on its maps | the DB process; clients; other cores (p2p) |
| client | what its panel shows | one core |

All processes are single-threaded event loops; only the SQL queries run on a thread of
their own (`src/server/libsql/AsyncSQL.cpp`), and their results come back through a queue.
Inside a process a handler is atomic. Between processes there is nothing but the order
of each TCP connection: every request that needs both sides is a chain of packets, and
the state it was checked against may have changed when the next link arrives.

### Components

| component | state | operations | what makes it correct | here |
| --- | --- | --- | --- | --- |
| private shop, DB side (`db/ClientManagerPrivateShop.cpp`, `db/PrivateShop.cpp`) | one `CPrivateShop` per owner: state, balance, items with a reservation each, owner and host peers | buy, refusal, modify, price, move, check-in, check-out, withdraw, close, expire, logout, the update once per second, load at login, loss of a peer | no sale twice, no item or gold lost or duplicated, holds end, expired shops stop | `PrivateShopDB` |
| private shop, game side (`game/private_shop.cpp`, `game/private_shop_manager.cpp`, shop functions of `game/char.cpp`, dispatch in `game/input_db.cpp`, requests in `game/input_main.cpp`) | the host's copy, the owner's panel, inventories, purses | one handler per DB packet, one per client request | same; the copies follow the authority | `PrivateShopGame` |
| build handshake (`game/private_shop_manager.cpp`, pending builds) | snapshot of the items of an unanswered BUILD | build, result, disconnect in between | the items are in the shop or in the inventory, once; a refusal gives everything back | `ShopBuild` (one step of `ShopStorage`) |
| shop caches and respawn (`db/Cache.cpp`, `PrivateShopPeerSpawn`, `PrivateShopSpawn`) | write-behind rows of shop and items | flush, direct and queued statements, respawn when a core connects, stop and start | what a restart restores is what was sold, withdrawn and taken out | `ShopStorage` |
| item and player caches (`db/ClientManager.cpp`, `db/ClientManagerPlayer.cpp`) | rows not yet written | save, flush, load | last save wins, loads see it | `ShopStorage` (items), `Logins` (the character), `Inventory` (what is saved when) |
| accounts and logins (`db/ClientManagerLogin.cpp`, `db/LoginData.cpp`, `game/input_login.cpp`, `game/desc*.cpp`) | login data by key, logons, descriptors, delayed disconnects | authentication, login by key, character load, logout, change of channel, kick, loss of a core | one session per account, no load before the last save, nobody locked out | `Logins` |
| exchange (`game/exchange.cpp`) | two offers that point to each other, marks on offered items | start, add, remove, accept, check, carry out, cancel | both sides get what they saw, marks do not outlive offers | `Exchange` |
| safebox (`game/safebox.cpp`, its requests and answers) | items, open flag, request flag | ask, answer, check-in, check-out, stack, close | never open beside another window | `Safebox` |
| vendor shops, my-shops (`game/shop.cpp`, `game/shop_manager.cpp`) | guests, listed items | open, enter, buy, sell, close | what is listed is there; payment and item change hands together | `Stalls` |
| characters' items (`game/char_item.cpp`, item parts of `game/char.cpp`) | inventory, locks, purse, delayed save | move, stack, split, drop, pick up, decay, expire, save, die, disconnect | nothing is doubled, and what is lost or destroyed is so where the code says; who pays is saved | `Inventory` |
| shop grid (`db/grid.cpp`) | cells of a page | place, move, remove items 1 to 3 cells tall | no overlap, no leaked cell | positions are single cells |
| peers (`db/Peer.cpp`, `db/PeerBase.cpp`, `libthecore/src/buffer.c`) | sockets and buffers | packet framing | FIFO, complete packets | as FIFO queues |
| asynchronous SQL (`libsql/AsyncSQL.cpp`) | query and result queues, one thread per connection | push, run, pop | statements of one connection in order, every query answered | `ShopStorage`, `Logins` |
| core to core messages (`game/p2p.cpp`, `game/input_p2p.cpp`) | presence of characters on other cores | relay, disconnect | | DISCONNECT, in `Logins` |
| item identifiers (`db/ItemIDRangeManager.cpp`, `game/item_manager_idrange.cpp`) | ranges handed to cores | take, spare range | disjoint | not modelled |
| guilds and wars, parties, messenger, marriage, monarch, castle | membership replicated through the DB process | join, leave, war, score | replicas agree | not modelled |
| auction house | | | | compiled out (`common/service.h`) |
| event queue and heart beat (`libthecore/src/heart.c`, `game/event*.cpp`) | timers | create, cancel, process | fire once | as free choice |
| battle, skills, maps, quests, configuration, cryptography | | sequential game rules, static data, vendored code | | not modelled |

`PROJECT.json` has the same list with the files, and the hazards this code is exposed to,
each at its line, with the properties that would notice it going wrong.

### A purchase, since everything turns on it

1. A customer's client asks its core; the core sends `BUY_REQUEST` to the DB process.
2. The DB marks the item unavailable under a fresh token for 30 seconds and sends the
   offer back (`PrivateShopBuyRequest`).
3. The customer's core checks room and gold again, gives the item, takes the gold, saves
   the item and sends `BUY`; otherwise it sends a refusal (`ItemTransaction`).
4. The DB credits the owner and tells the owner's core, the host core, and closes the
   host's copy when nothing is left (`PrivateShopBuy`).
5. If the 30 seconds run out the DB does **not** release the item: it asks the core to
   confirm the cancellation, on the connection on which a payment would arrive first.

Check-in, check-out, withdrawal and closing are two-phase as well, but without a token:
the DB answers a request with a permission and forgets it. Most hazards come from there.

## 2. The modules

| module | what it is |
| --- | --- |
| `PrivateShopBase` | constants, variables, helpers, connections |
| `PrivateShopDB` | the DB process: one operator per packet handler, the update event, the load result, the loss of a peer |
| `PrivateShopGame` | the cores: one operator per packet of the DB, one per client request, login, logout, loss of a core |
| `PrivateShop` | `Init`, `Next`, `Spec`, `FairSpec`, types, properties, the refinement mapping |
| `SaleContract` | the abstract specification: what a shop promises, without processes or packets |
| `SaleContractProofs` | TLAPS: the contract keeps its promises |
| `ShopStorage` | one shop in the DB process: instance, caches, SQL queues, rows; the owner's logons, the loss and return of cores, stop and start of the process |
| `ShopBuild` | one owner building a shop: his sessions, the pending build, the connections, the rows |
| `Inventory` | characters of one core: items, purse, locks, delayed saves, and the state of every window |
| `Exchange`, `Safebox`, `Stalls` | the windows, each with its handlers, over `Inventory` |
| `Trade` | their composition: disconnection, death, a new login; types, properties |
| `Logins` | one account, one character: clients, descriptors of the cores, DB process, SQL |
| `PrivateShopProofs` | TLAPS: types of the detailed specification, one lemma per handler; its holds, its deadline, the answer each hold waits for, its offers; what a step puts on which connection |
| `PrivateShopSales` | TLAPS: its gold and items, that it implements the contract, and the host core's copy with what is on its way to it |
| `DataLemmas` | TLAPS: finite sets, sums over them, queues |
| `TradeProofs` | TLAPS: windows, marks, conservation, the fair exchange |
| `ShopStorageProofs` | TLAPS: memory, caches, statements and rows agree |
| `ShopBuildProofs` | TLAPS: one place per item, the locks of a build, the copies of a shop |
| `LoginsProofs` | TLAPS: one session, its character, its saves |
| `MCPrivateShop`, `MCShopStorage`, `MCShopBuild`, `MCTrade`, `MCLogins` | instances for TLC |

The five models overlap where the code does, each at the grain its question needs. What
`PrivateShop` has as a loaded shop and an item row, `ShopStorage` has as caches, statements
and rows; its requests and updates, which `PrivateShop` takes apart into packets, are one
step there; a build, which is one step of both, is taken apart in `ShopBuild`. `Logins` has the character that both take as given.

### The shop (`PrivateShop*`)

`state`, `gold`, `slot`, `owner`, `reservation` are the members of `CPrivateShop` (and the
static `nextReservation`); `expired` is `PrivateShopDeadlinePassed`; `row` is the item cache;
`loads` is the queue of shop queries made at login; `peers` is `m_peerList`; `host` is the
`CPrivateShop` of the host core, `panel` the owner's `m_privateShopTable` and
`m_vec_privateShopItem`; `toDB` and `toGame` are the connections. An action is a whole
handler with everything it sends; `PROJECT.json` maps each definition to its lines.
Abstractions, all of them deliberate:

- one shop, one owner; several shops do not interact except through a core's life;
- a peer handle is the name of its core: a core that is lost stays lost (`ShopStorage`
  has cores that return);
- a position is one grid cell;
- the second currency (Won) is compiled out; prices are always valid; titles,
  decoration, search, chat replies and the client's own windows are left out. A request
  that is only answered with a chat line is the `Refused` disjunct of its handler;
- buying in the shop window and from a search result send the same packet and are one
  action; throttles in seconds are dropped (any latency is possible), except that
  `Limit["edits"]` bounds how many of the owner's edits are under way at once, which is
  what the one-second throttle of edits amounts to on a connection faster than that;
- `ItemTransaction`'s reasons to refuse are one disjunct that is always possible;
- the owner's warp to another core is a logout followed by a login;
- after the loss of a core the inventories of its characters are what the item rows say;
  their gold is what they had or what they began with.

### Building (`ShopBuild`)

`here` is the owner's character (its core and descriptor), `bag`, `locked`, `skip` and `stack` its
items with `m_isLocked` and `m_bSkipSave` and its bundles, `dirty` the delayed saves, `pend` and
`stall` `m_pendingBuilds` and `m_map_privateShop` of each core, `row` and `bundleRow` what the DB
process last has of the inventory, `shop` the instance with its bindings, `playing` the logon.
Left out: grid, prices and titles (checked on both sides, and nothing has happened when a
check of the core fails), several stacks of bundles and the bundle that is not used up
(71221), closing the shop again, the return of a lost core, the deadline, the SQL behind the
rows, and parts of a stack on sale. That only one character of the owner plays at a time is taken
from `Logins`.

### What is stored (`ShopStorage`)

`db` is the memory of the DB process: the instance (`mem`, `hosted`), the shop's cache and
its flush mark, the set of item caches (`clean`, `dirty`, or `dead`: deleted but still in the
set), the item caches of the inventory rows, and the statements under way on its two
connections. `table` is what SQL has. `whose` and `owed` are the truth that memory and rows are
compared with. Each flush is an action of its own, so the flush limits per second are any
order and any delay. Left out: positions, prices, titles, the UNIQUE key of owner and
position; a repeated DELETE of an item cache that is already `dead`; that the inventory
cache set is dropped at logout (its rows are flushed or not; the cache is read through
either way). Two constants keep known trouble out of the run: `SlowSQL` lets statements of
the second connection overtake and be late for a core's start, `AnyStop` lets the DB process
stop while cores are connected. Both are FALSE in `restart`; section 3 has what happens
otherwise.

### Trading (`Inventory`, `Exchange`, `Safebox`, `Stalls`, `Trade`)

One core, so every handler is atomic; what makes it hard is the number of windows that
each check the others in a place of their own, the locks on items they share, answers that
come back late, and saves that are put off. `exchanging` is the mark on an item,
`trade` the two `CExchange` objects, `opening` and `recent` the request flag and the ten
seconds of the safebox, `stand` and `list` a character's own shop, `row` and `delayed` what the
DB process was last told of a purse and who is about to be saved. `seen`, `burnt`, `till` and
`made` are history: what a character saw when he accepted, gold refused at `GOLD_MAX` or left
on the ground for too long, what NPCs took or gave, pieces made or destroyed.

What is dropped has left the inventory before the code knows whether it will lie on the
ground. On the fifth drop within a second it does not, nor where `AddToGround` finds no
sector (`game/char_item.cpp:5484-5510`); what falls at a death goes the same way
(`ItemDropPenalty`). Such items are in `lost`: in nobody's inventory, on no ground, in no row.
Each drop and each item that falls may end there (`lands`, `missed`), and what does lie on the
ground may be destroyed by its timer at any time (`ItemDestroyEvent`, `GoldDestroyEvent`). That
the fifth drop also closes the connection is the `Disconnect` that may come at any time. Gold is
on the ground in one pile at a time, which is a bound. A death happens to anybody who plays,
and the checks of `IsDead` that refuse a request are left out: they only forbid.

Left out: equipment, the mall, party shares,
quest items, cube recipes, refining, taxes, `AutoGiveItem`, the bundle that `OpenMyShop` asks for and
uses up (`game/char.cpp:776-828`), and the private shop's part of `CanHandleItem`. The exchange waits for `g_nPortalLimitTime` after a safebox, which is
configured and longer than ten seconds by default; the model lets it start after the ten.

### Logins (`Logins`)

`conn` is a descriptor with the client behind it, `name` is `m_map_loginName` of each core, `key`
the latest authentication, `login` the `CLoginData`, `logon` `m_map_kLogonAccount`, `cache`, `row` and
`leaving` the cached character, its row and `m_map_logout`. A character's worth is the set of
changes made to it, so that an older state is a smaller set. Nothing makes the
client or the servers wait: a client has one connection at a time with a key, and having hung up
it may be back, with the same key or another, on the same core or another, before the cores and the
DB process have dealt with what it left; the account may be authenticated anew while a login is looked up; and the
two packets of a change of channel may have any packet of another core between them. Two
races come of that which the code leaves open, and two history variables say when one has
happened: `dropped` counts how often `LOGIN_BY_KEY` took the logon of a session that was not over
(told of its logon, bound, or with its last save or logout under way), `overtaken` is set when a load
is answered while a change of channel has had its LOGOUT read and its save not. `Orderly` is
that neither has happened. No action looks at them. Left
out: the old login by password, billing, `DELETE_LOGINKEY`, the player limit, a link to the DB
process that is lost and set up again without a crash (`QUERY_SETUP` registers the
connected players again), a restart of the DB process, several characters per account,
the presence tables of the cores, and the periodic flush of the player cache.

`Limit` bounds how often each kind of event happens in every model; everything else is
unbounded. It is part of the guards, so a run with all its events spent goes on
delivering, updating and loading.

### Properties

| property | says |
| --- | --- |
| `OfferIsHeld` | an offer or a payment under way has its item and price held under its own token |
| `HoldIsAnswered` | a hold whose buyer's core is alive has an offer, a payment or a refusal under way |
| `HoldsAreDistinct` | tokens are not reused; MODIFY and a hold exclude each other |
| `HoldEndsByOwnAnswer` | a hold ends by its own payment or refusal, or with its buyer's core |
| `NoDuplicate`, `NoLoss` | an item is in one place, and in some place |
| `GoldConserved`, `WithdrawalsCovered` | gold is neither created nor lost; the DB can honour every withdrawal paid out |
| `PanelAgrees`, `HostAgrees` | when nothing is under way the panel and the host's copy show the shop as it is |
| `ExpiredNeverSells`, `ExpiryEndsSale` | an expired shop takes no new hold, never opens again, and ends up closed, in recovery or gone |
| `HoldEnds` | every hold ends |
| `KeepsContract` | every run is a run of `SaleContract`: a purchase with all its packets, refusals and timeouts is one sale or none |
| `OnePlace` | while a shop is built, an item is in the shop's rows or in somebody's inventory rows, never in both or neither, and is locked where it is still seen |
| `HeldWhilePending` | what is locked and unsaved is what the pending build of this very connection has |
| `CopiesAgree` | when nothing is under way the built shop stands on its host alone, is bound to the session that plays and to no other, and its owner knows it |
| `BundleKept` | a shop costs one bundle, a refusal none, whether or not the owner stayed |
| `BuildEnds` | every build is answered or its core is lost |
| `StorageTypeOK`, `TakenOnce` | the rows give an item to nobody twice, except while a statement that ends it is queued |
| `StopKeepsAll` | when the DB process is down, rows alone hold every item once and the gold of every sale |
| `NoneLeftBehind` | a shop with stock and time left is on the map again once its host is back |
| `MemoryIsCurrent` | what is reloaded is never older than what was forgotten |
| `OneWindow` | nobody has two windows at once, however late the safebox answers |
| `OffersAreHeld` | exactly what is offered is marked, and who offers it has it |
| `Conserved` | nothing is doubled: an item is in one place, on the ground, or lost; pieces and gold add up with what was made, destroyed, lost and burnt |
| `PayerIsSaved` | who spent gold is about to be saved |
| `ListedIsHeld` | what a character's shop shows is in his inventory, all of it |
| `FairTrade` | who accepted first gets at least what he saw and gives exactly what he offered, or nobody gets anything |
| `OneSession` | the character is on one connection at a time, and on one more for each logon that `LOGIN_BY_KEY` took from a session that was not over |
| `PlaysLatest`, `SavesGrow` | who plays has every change not lost with a core; the DB never goes back to an older character; both as long as neither of the two races has happened (`Orderly`) |
| `SameKeySameSession` | a logon that `LOGIN_BY_KEY` takes is that of a connection with the same key (what a comment says; violated) |
| `LogonEnds`, `AlreadyEnds` | no logon outlives its connections; ALREADY ends the session in the way, as long as no logon has been taken |

The refinement mapping puts a sale at the moment the customer's core hands over the item:
an item is where its inventory is, otherwise with the shop; the owner is owed the balance
plus the payments under way minus the withdrawals under way; an item is held from its
reservation until then.

## 3. The runs

| run | events allowed | distinct states | shows |
| --- | --- | --- | --- |
| `sale` | two purchases, too little gold for two, a customer leaving, timeouts | 51,534 | races between offers, refusals, cancellations and payments; refinement |
| `relog` | two purchases, two withdrawals, two logins; a purse near `GOLD_MAX` | 403,194 | gold is conserved and never overdrawn across sessions; stale logouts and late loads do not unbind the owner |
| `edit` | price, move, check-in, two modify requests, login, a purchase | 375,187 | no edit touches a held item; the panel follows; a sold-out shop is restored with what was added |
| `expiry` | the deadline, an item's lifetime, two check-outs at once, withdrawal, login, modify, a purchase | 2,179,415 | an expired shop sells nothing more and gives everything back once |
| `recovery` | a purchase, the loss of a core, the deadline, a check-out, closing, modify; fairness | 70,512 | no hold without an answer and none for ever, nothing lost, also in the race that `closeRace` shows to duplicate; expired shops stop selling |
| `build` | two builds, two sessions, a change to an item, an item given away, the loss of a core; fairness | 133,581 | items, locks, bundle, host copy and binding after a build that was left, refused or cut off |
| `restart` | a build, a purchase, an edit, a logon, three losses of a core, the deadline, a stop | 3,348,685 | rows, caches and memory agree through a loss, a return and a restart |
| `trade` | five steps at windows, two others (a drop that may miss, a death at which things fall, decay, and the rest) | 957,936 | every pair of windows excludes each other; locks, where everything is, and the promise of an exchange |
| `login` | two authentications, two connections, two loads, a save, a hang-up or a change of channel, a crash; fairness | 535,543 | one session unless a logon is taken, no lost save but by the two races, nobody locked out |
| `reopen`, `closeRace`, `takeover` | | | violations, see below |

**Bounds of the shop runs.** Two cores: the shop stands on one, a customer plays on the
other and (where there are two) another on the host; the owner logs on at either. Two
positions, at most two items. This is enough for every distinction the handlers make:
buyer on the host or not, owner on the host or not, owner and buyer on the same core or
not, last item or not, two tokens for one position, a session that has been replaced.

**`expiry`, `recovery`.** The lifetime of an item is in `expiry`, where nothing is edited; the loss
of a core in `recovery`, with one item and one customer, since fairness is what makes it large.

**`build`.** Two cores and two sessions: the second build of an owner whose first is unanswered
needs the other core. With three sessions the same properties hold (921,559 states); with
three builds and three bundles `BundleKept` does not, see below.

**`restart`.** Two items (a shop that is sold out, or not), one core for the host and one for
the customers. Three losses are what it takes to lose both cores before a stop and the
host once more after it.

**`trade`.** Two characters, `ann` with two arrows and `bob` with a sword that perishes; a spare id for
a split stack; two cells and stacks of two, so that inventories and stacks fill up. Five
window steps are what an exchange of one item from each side takes (start, two
offers, two acceptances), or one window attempted from within another.
The same properties hold with decay at any time besides (1,590,867 states).

**`login`.** Two cores, two keys, two connections, one of which may hang up or change channel:
the other is the client that comes back, too early or not, with the old key or the
new one. Both races happen in it (`dropped` = 1, and `overtaken`). The safety properties were explored
further, without a violation: with two departures (a hang-up and a change of channel, or two of either)
1,827,187 states; with three connections and three departures 6,146,643 states, where `dropped` is more than 1;
with three connections, two departures, two loads and a change to the character, no crash, 6,599,489.
Fairness is what keeps the run itself smaller.

### Known gaps

Some properties are checked only where they hold. In the shop runs:

- a core lost between `ITEM_SAVE` and `BUY` leaves the item in the customer's row and on
  sale (`NoDuplicate`, `GoldConserved` fail with crashes);
- an item whose lifetime ends while it is held is paid for all the same (`OfferIsHeld`,
  `GoldConserved` fail with such items);
- closing and buying race (`OfferIsHeld`, `GoldConserved`, `HoldEndsByOwnAnswer` and
  `NoDuplicate` fail; run `closeRace` keeps one of them);
- a check-in that the DB process has allowed before it answers a close lands after the host
  has listed the items to give back; `DELETE` then removes it with the shop (`NoLoss` fails
  with `checkin`, `modify` and `close` together). `ITEM_EXPIRE` names a position only: after a check-out and
  a move it takes another item (`NoLoss` fails with `checkout`, `move` and `itemTimeout`);
- two edits under way, one of them a check-in, may meet on one position: the check-in is
  dropped and its item is out of sight until the next login (`PanelAgrees` fails with
  `Limit["edits"]` above one in `edit`); so may `ITEM_EXPIRE` and a check-in or a move
  (`PanelAgrees` is not checked with lifetimes).

In `ShopBuild`:

- a build that is refused after its owner has left writes back the stack of bundles as it
  was before (`game/private_shop_manager.cpp:325`), over what he has made of it in another session;
  with three bundles, three sessions and three builds one is lost (`BundleKept`);
- a core lost between CREATE and the save of the bundle gives a shop for nothing, one lost
  between the refusal and the refund loses the bundle (`up = Cores` in `BundleKept`);
- outside the model: picking up and using items do not look at `isLocked`
  (`game/char_item.cpp`), so a stack may change under a pending build, and that change is not
  saved (`m_bSkipSave`); a refused BUILD removes the host's copy (`DeletePrivateShop`), also one that a
  SPAWN has put in the place of the empty one; a BUILD that comes before the result of the
  shop query finds no instance although SQL may have the shop.

In `ShopStorage`:

- a stop of the DB process while cores are connected loses what the shop caches have not
  written, since the end of the main loop writes item caches only (`AnyStop`);
- statements of the second connection may overtake, and `PrivateShopPeerSpawn` reads rows
  directly, ahead of what is queued (`SlowSQL`);
- `PrivateShopPeerSpawn` erases an UNAVAILABLE shop whichever core connects; a payment
  under way for it is dropped, and the customer has the item for nothing (`stray`);
- an owner who logs on while the host is down leaves UNAVAILABLE in the row, which no later
  start of a core looks for, and a balance in a cache that nothing writes before a stop
  (`away` is the exception in three properties);
- outside the model: two shop rows may collide on UNIQUE (owner, position) while a move is
  flushed item by item, and `ItemIDRangeManager.cpp:76` looks for used ids in the table
  `item` alone, not among the items of shops.

In `Trade`:

- a stack may grow after it was offered and accepted, or listed (`PickupItem` and
  `MoveItem` look at the mark of the stack moved only); `FairTrade` and `ListedIsHeld` say "at
  least";
- a dropped item is gone when the drop is taken for a hack, or where the map has no sector:
  it has left the inventory, and nothing puts it back (`lost`); so is what misses the ground at a death;
- what is offered in an exchange may fall to the ground when its owner dies, before the
  exchange is cancelled;
- gold paid to a purse near `GOLD_MAX` vanishes (`burnt`);
- an exchange saves its items at once and the payer with the next delayed save, a shop
  never saves the seller: a crash in between doubles or loses gold. `PayerIsSaved` says how
  long that can be;
- a `CExchange` keeps the pointer to an item that expired while it was offered;
- stacking in a safebox destroys the pieces that do not fit.

In `Logins` (all of it happens in the run `login`, where `dropped` and `overtaken` say so):

- `LOGIN_BY_KEY` takes whatever logon it finds for that of the same client's change of channel, and deletes it if the core agrees
  (`db/ClientManagerLogin.cpp:116-122`), although the session that has it may not be over: a client that hung up
  and came back before its core noticed; or, after an AUTH_LOGIN between LOGIN_BY_KEY and its
  result, the session of another client altogether (`takeover`). Two sessions play then, with a
  copy of the character each, and the later save wins;
- a late LOGOUT of an old connection deletes the logon of a new one on the same core
  (`:50`): the DB knows a logon's core, not its connection. The new one
  can have got it only because it was taken from the old one before, so that is counted already;
- `change_channel_event` sends LOGOUT before the save (`game/input_main.cpp:4433`), so the load
  of the next session can come between the two and get the older character;
- with two sessions on a core, `m_map_loginName` knows one of them only, and ALREADY ends that one
  (`AlreadyEnds` promises nothing once a logon has been taken);
- a load that completes after its session has logged out marks the login data as playing
  (`db/ClientManagerPlayer.cpp:684`); only a fresh authentication cures it.

### Fairness and deadlock

`FairSpec` of `PrivateShop`, used by `recovery`: weak fairness of reading each connection at both
ends, of the update event, of query results, of noticing a lost connection, and of a
reservation's thirty seconds. `FairSpec` of `Logins`, used by `login`: weak fairness of reading each
connection at both ends, of query results, of delivering a DISCONNECT between cores, of
noticing a lost core or client, and of the five-second timer that ends a replaced session.
`FairSpec` of `ShopBuild`, used by `build`: reading each connection at both ends, the result of the
shop query, noticing a lost core; not the delayed saves, and nothing the owner does.
Each is a loop or a timer of a process that runs for ever; nothing is assumed of clients.
`Limit["cancel"]` bounds the cancellations and refusals under way, so that a DB process that
keeps asking does not make the queues grow without end; it does not stop a hold from
becoming due again once an answer has arrived.

The shop runs check deadlock too (the update event is always enabled, so it says only
that no guard is left undefined). In `restart`, `build`, `trade` and `login` the steps run out
when the bounded events are spent and everything is delivered, and their configurations
say so.

### What the runs found

- `reopen`: a check-out that the DB has allowed is not remembered. The owner reopens the
  shop (the check is for reservations only), a customer reserves the item, and
  `CHECKOUT_UPDATE` removes it without a look at the reservation
  (`db/ClientManagerPrivateShop.cpp:1040`): owner and customer both have it.
- `closeRace`: `PrivateShopClose` answers `DESTROY` and leaves the shop open; a purchase
  between that and `DELETE` completes on the customer's core while the host hands the
  same item to the owner.

Both contradict `tests/PRIVATE_SHOP_DEPLOY.md:74` (no item duplicated or lost).

- `takeover`: `QUERY_LOGIN_BY_KEY` deletes the logon it finds "Same key = same session (channel
  change)" (`db/ClientManagerLogin.cpp:118`). An account authenticated anew between `LOGIN_BY_KEY` and its
  result is logged on under the later login data, since `InsertLogonAccount` looks it up by name; the client with the later key
  then finds its own login data logged on, and takes the logon from a session with another key.

While modelling: the same notes say at line 10 that stock of a closed or expired shop comes back
in mode MODIFY; the code restores it as `STATE_RECOVERY`
(`db/ClientManagerPrivateShop.cpp:53`), in which it can be taken out but not edited.

## 4. Proofs

The theorems hold for every number of cores, customers, characters, connections, keys,
positions and items, every limit and every price, from assumptions on the modules'
constants: `ShopAssumption` (the constants have their types, the host is a core, cores and
customers are finite, nobody is his own customer, an item of the first stock is at one position), `ContractConstants`, `InventoryAssumption` and `TradeAssumption` (characters and
items are finite sets, sums over them are needed; limits are numbers), `BuildAssumption` (items
are finite, the bundle is none of them, and no shop is not the same as an empty one),
`StorageAssumption` (items are finite; the host, the core of the customers and `Off` are three) and
`LoginAssumption` (nothing cached is not a character). `ContractConstants` is a hypothesis of the
theorems on the contract; TLC evaluates all others in the runs. Nothing else is assumed of `Trade`, `Logins` and
`ShopBuild`. The theorems
over `ShopStorage` have hypotheses, those under which its run checks the
same properties: `~SlowSQL` and `~AnyStop`. Those of `PrivateShopSales`, and the two of `PrivateShopProofs` about offers, have
hypotheses on `Limit`, the number of events of each kind; the kinds they do not name may happen
any number of times, and logins, edits, check-ins, withdrawals, refusals, timeouts of a reservation and the
deadline are never excluded. `NothingTaken` is: nobody closes the shop, takes an item out
of it or has one whose lifetime ends. The runs `sale`, `relog` and `edit` satisfy all of them. `Items # Spare` is that the
shop was built with an item in it, as `BuildPrivateShop` demands. Where the hypotheses on closing, check-outs
and lost cores do not hold, some of these properties are false: see `reopen`, `closeRace` and "Known gaps".

| theorem | says |
| --- | --- |
| `SaleContractProofs!ContractTypes` | `[]ContractTypeOK` |
| `SaleContractProofs!HeldStaysInShop` | what is held for a customer is in the shop |
| `SaleContractProofs!SalesAreFinal` | what a customer has bought stays the customer's |
| `PrivateShopProofs!TypeInvariant` | `[]TypeOK`: every variable and every packet under way |
| `PrivateShopProofs!HoldsStayDistinct` | `[]HoldsAreDistinct` |
| `PrivateShopProofs!NoSaleAfterDeadline` | `ExpiredNeverSells` |
| `PrivateShopProofs!HoldsAreAnswered` | `[]HoldIsAnswered` |
| `PrivateShopProofs!OffersAreHeld` | `[]OfferIsHeld`, with `NothingTaken`; cores may be lost |
| `PrivateShopProofs!HoldsEndByOwnAnswer` | `HoldEndsByOwnAnswer`, with `NothingTaken`; cores may be lost |
| `PrivateShopSales!WithdrawalsAreCovered` | `[]WithdrawalsCovered`, if nobody closes the shop; cores may be lost, items taken out and expire |
| `PrivateShopSales!NothingIsLost` | `[]NoLoss`, with `NothingTaken`; cores may be lost |
| `PrivateShopSales!GoldIsConserved` | `[]GoldConserved`, with `NothingTaken` and no loss of a core |
| `PrivateShopSales!NothingIsDuplicated` | `[]NoDuplicate`, with `NothingTaken` and no loss of a core |
| `PrivateShopSales!ShopKeepsContract` | `KeepsContract`: the shop implements `SaleContract`, with `NothingTaken` and no loss of a core |
| `PrivateShopSales!HostCopyAgrees` | `[]HostAgrees`, with `NothingTaken` and `Items # Spare`; cores may be lost |
| `TradeProofs!TradeTyped` | `[]TradeTypeOK`: purses under `GOLD_MAX`, stacks under `ITEM_MAX_COUNT`, inventories in their cells |
| `TradeProofs!WindowsExclusive` | `[]OneWindow` |
| `TradeProofs!OffersHold` | `[]OffersAreHeld` |
| `TradeProofs!AllAccountedFor` | `[]Conserved`: nothing doubled, and what is lost, destroyed or burnt accounted for |
| `TradeProofs!PayersSaved` | `[]PayerIsSaved` |
| `TradeProofs!ListedHeld` | `[]ListedIsHeld` |
| `TradeProofs!TradesAreFair` | `FairTrade` |
| `ShopStorageProofs!TypesHold` | `[]StorageTypeOK`, with `~SlowSQL` and `~AnyStop` like the next four |
| `ShopStorageProofs!TwoRowsOnlyForAWhile` | `[]TakenOnce` |
| `ShopStorageProofs!StopLosesNothing` | `[]StopKeepsAll` |
| `ShopStorageProofs!HostedAgain` | `[]NoneLeftBehind` |
| `ShopStorageProofs!NothingStale` | `[]MemoryIsCurrent` |
| `ShopBuildProofs!ItemsInOnePlace` | `[]OnePlace` |
| `ShopBuildProofs!LockedForTheBuild` | `[]HeldWhilePending` |
| `ShopBuildProofs!ShopCopiesAgree` | `[]CopiesAgree` |
| `LoginsProofs!LoginsInvariant` | the inductive invariant of the next three |
| `LoginsProofs!OneSessionAtATime` | `[]OneSession` |
| `LoginsProofs!PlayerHasLatest` | `[]PlaysLatest` |
| `LoginsProofs!SavesOnlyGrow` | `SavesGrow` |

**Types.** `TypeOK` is inductive as it stands, because it types the packets under way as
well: a handler may use the position or the item of its packet only because the sender
wrote one. There is one lemma per handler, in two groups: a handler of the DB process
keeps `DBTypeOK` and, except for the offer, sends only notices and cancellations of overdue
holds (`DBHandlerGoal`); a handler of a core keeps `GameTypeOK` and, except for the answer
to an offer or a cancellation, sends only reports (`GameHandlerGoal`). The lemmas before
them are about sequences made of finite sets (a cancellation for each overdue hold, an
entry for each occupied position) and about the least free position.

**Holds.** `HoldsAreDistinct` is inductive together with `TypeOK`. Its three parts need each
other: a move takes the token of a position along, and could give two positions the same
one, were it not that a move happens in MODIFY and that MODIFY excludes holds; a new token
differs from the others because the counter is an upper bound of all of them. The proof
sorts the steps by what they do to holds: all handlers satisfy `KeepsHolds` (every hold
after the step was there before it, same core, same token, same item) except
`PrivateShopBuyRequest`, which satisfies `MakesHold`. `ExpiredNeverSells` follows from the
same two: a shop that makes a hold sells, and one that sells has not expired.

**Answers.** `HoldIsAnswered` is not inductive: the DB process drops a payment or a refusal
that does not match, and a dropped answer would leave its hold with none. `AnswersInv` adds
what makes every answer match. `TokensName`: a packet that carries the token of a hold goes
to or comes from its buyer's core and names its position and item; this needs
`HoldsAreDistinct`, for a cancellation is made from the position and must not carry the
token of another one. `GoneIsEmpty`: a shop that does not exist holds nothing, since a
payment is dropped then. `HeldByCores`: holds are for cores. The proof follows the packet:
an accepted request makes the hold and its offer in one step (`OfferKeeps`); reading the
offer puts its payment or its refusal on the connection (`Answered`); reading that ends the
hold (`AnswerEnds`); every other step leaves both on their way (`ToldKeeps`, `CoreKeeps`),
and the loss of a core takes only what its own holds were waiting for (`CrashKeeps`).
Without fairness that is the whole of it; that the answer also arrives is `HoldEnds`.

**Offers.** `OfferIsHeld` is the converse of `HoldIsAnswered`: what is under way is held. `OffersInv` is
inductive. `AnsweredOnce`: nothing that will be read before a payment answers the same
hold, and an offer that has not been read is not answered; so the hold of a payment is there
until the payment itself is read. `SessionsInv` (in `PrivateShopProofs`) says which core has the
owner, that the account's logout is the last packet of the core that had it, that nothing
is under way to a lost core, and that sessions only grow. `CloseUnasked` and `TakeUnasked` carry the
hypothesis to the packets: what nobody asked for is not under way. `CustomersAlive` and
`GoneIsRead` are for the loss of a core: its customers are gone with it, and it leaves the
DB process's list only when all it had sent has been read, which is why releasing its holds then
takes none from a payment. `HoldEndsByOwnAnswer` is a step property of the same invariant.

**Withdrawals and gold.** A withdrawal is asked for what the owner's panel shows, and the panel is
a copy. `PanelCovered` says of the balance that it covers three things together: what is being
withdrawn, what the panel shows, and what the packets of the owner's session will yet tell it
(`Coming`). Packets of an older session do not count, so a new login must find nothing: `NothingShown`,
`PlaysThere` and `Sessions` say that while its query is under way nothing has been shown or withdrawn. Gold
is then a sum over purses, balance and connections (`Conserved`); a step moves a weight
from one place to another, and a lemma per kind of step gives the difference.

**Items.** `NoLoss` and `NoDuplicate` are about three copies that are never changed together: the position
in the DB process, the row, and the inventory of a core. `StoreInv` relates position and row
and holds through the loss of a core: a payment is preceded on its connection by the save
of the buyer's row or that row is written (`SavedFirst`), such a save is for a hold of that
core and no answer to the hold comes before it (`SavesHeld`, `SavesBefore`), and what is being checked
in is in the owner's row, once (`CheckinsOwned`, `CheckinsOnce`, `CarriesOwn`). `HandoverInv` adds the
inventories of customers and needs that no core is lost: what a customer has got is still at
a position only while its payment is under way (`AwaitsPayment`), which is the window that a
crash between `ITEM_SAVE` and `BUY` turns into a duplicate.

**Contract.** `ShopKeepsContract` is a step simulation under the mapping of section 2, with `HandoverInv` and the
books (`Books`: what the owner is owed and what is in the purses is what there was). Each
step of the shop is one step of the contract or a stutter: an accepted `BUY_REQUEST` is
`Hold`; the customer's core handing over the item is `Sell`; the end of a hold is `Release`, or a
stutter if the item was handed over before; the owner's core taking an item for check-in is `PutUp`; paying out a
withdrawal is `Withdraw`; a login of the owner, whose inventory is then read from the rows, is
`TakeBack` of what the rows return to him, or a stutter; the deadline is `Deadline`. The hard case is the payment: DB process and cores
disagree about the sale from the hand-over until it is read, and the mapping must not move
when it is (`AwaitsPayment` and `Conserved` say that it does not).

**The host's copy.** `HostAgrees` is about the moments when nothing is under way; the invariant has to say what holds at
all others. `After` is what the host makes of one packet, `Shows(q, u, v)` that reading all of `q` turns the copy
`u` into `v`, and `HostInv` that what is on its way to the host turns its copy into `Truth`: the shop as the DB process
has it, less what customers on the host have paid for, which the host's core takes off the copy when it hands over
the item, before the DB process knows. A handler of the DB process adds to one end of the connection what turns the old
`Truth` into the new one (`Brings`, with a lemma per handler: `BuyShows`, `MoveShows`, `OfferShows` and so on); the host's
core reads from the other end (`ShowsTail`); and the hand-over takes the item off both ends at once, which is sound
because no packet behind an offer replaces the copy or touches the offer's position (`Beside`, `ShowsWithout`). That
in turn rests on `OffersInv`: the position is held, so nothing is edited, nothing is put there, and no shop is
spawned. A packet that arrives before the copy exists, or after it is gone, changes nothing, which is why a state
update to a closed shop is harmless and a restored one needs `Spawn`.

**Trade.** What the runs check is inductive together (`TradeInv`) with one conjunct more:
`SeenIsOffered`, that what a character saw when he accepted is still what is offered, on
both sides, for as long as his acceptance stands. `FairTrade` is then a step property: the step
that ends the exchange hands over what is offered, which is what was
seen, or gives nobody anything; a death is of the second kind, though things fall at it (`DeadDrops`), offered ones too, and it is
the cancelling in the same handler that takes the marks off what lies on the ground. Most steps disturb a part only, so the proofs are sorted by the part: a step that
touches no window, one that touches no purse, one that only moves things between places
(`WindowsInv`, `MoneyInv`, `ThingsInv`). The marks need the other parts: an item is given up only
by a handler that asks for its mark, or by expiry, which takes it out of the offer.

**Sums.** `Conserved` speaks of sums over characters and items. A theorem of induction over
finite sets takes its predicate as a parameter and cannot be instantiated here; `DataLemmas`
does without: a fold over a finite set is followed along the sizes of its subsets, and the
set of sizes at which a claim fails has a least element (`WFMin`), which the step from one
size to the next contradicts. From that come the equation of a fold, the sum of a function
changed at one or two points, and what a whole fold keeps when each of its steps does. A
handler's proof then says only which purse or stack changes by how much.

**Storage.** The hard part is that the rows are never up to date: statements queue before them and
caches before those. The invariant speaks of the rows as they will be. `Ends(table, db.sql, e)` says that
executing all statements under way, in order, turns the rows into `e`; one lemma adds a
statement at the end, one takes the first away, and from them every operator of the model has
a lemma of what it does to memory and to `e` at once (`FlushCacheIs` to `RemoveItemIs`), whatever the
queue is. `StorageInv` is then `Sound(e)` for such an `e`, and its parts say how memory and `e` agree:
`Kept` (the instance's stock is what the item caches have, or `e` if there are none; a dirty item
cache belongs to a hosted shop whose state is the same in instance, cache and row), `Lies` (an item is
in the stock or in an inventory's rows, as its owner says), and, until the owner has logged on to a
shop without a host, `Paid` (every copy of the gold is what is owed, or is about to be
overwritten), `Placed` and `Hosting` (a state that no start of a core looks for has no stock). There is
one lemma per action; those that go through several operators chain them (`Stays`). The
theorems are about items without a lost payment (`stray`). What their hypotheses exclude is
false without them, see "Known gaps"; `restart` runs under the same two.

The proof found a fault of the model: an UNAVAILABLE shop that is erased when the other core
connects stayed `hosted`, though the handle of its host is a member of the instance that is gone. No run
had broken a property through it.

**Building a shop.** `OnePlace`, `HeldWhilePending` and `CopiesAgree` are not inductive: they depend on
what is under way. `BuildInv` says what each connection carries and what may follow what on it
(`OutOrder`, `InOrder`): nothing of a session follows its logout, no save of an item follows the
CREATE that names it, an answer is the only one. `HereInv` and `CoreInv` tie the owner's session
and the cores to that: a pending build has its CREATE or its answer under way, never both, and
items that the owner and the shop both seem to have are those of an acceptance he has not read.
`OutInv` and `InInv` say what a message finds when it is read: an acceptance finds the pending
build it is for, a `PLAYER_LOAD` nobody playing and none of the shop's items in it. `BindInv` says to
which connection the shop is bound and what is on its way to change that; `CopiesAgree` is what
is left of it when nothing is under way. Cores may be lost at any time in it, and the proof of that step
(everything the core had sent is still read, nothing it was sent is) is the longest.

**Logins.** The argument for one session counts. A session is not over (`Unfinished`) from the moment
`LOGIN_SUCCESS` is sent until its `LOGOUT` is read, whether or not the DB process still knows of it. `Claimants` are the
sessions that are not over, `Strangers` those of them that cannot have the logon, because there is none or it is on
another core. `CountInv`: there is one claimant for the logon, if there is one, and one for each
logon that was taken; and no more strangers than were taken. A logon is given only
when there is none, which adds one claimant and one logon; it goes when it is taken from somebody, which
is counted, or when nobody has it, and then all that are left are strangers; and a stray LOGOUT, which deletes
the logon of the next session on its core, is the last word of a claimant and takes one away. `SoloInv`
says that a login under way is all there is of its connection, so it can be refused or dropped
without a trace. `OneSession` follows, since a bound session is a claimant.

For the character the invariant says less: `Orderly => CharInv`. While no logon has been taken there is one claimant at most
and it has the logon (`OneClaim`). Then the saves under way are a chain in the order in which they
will be read, each having all that the DB process has (`Order`, `ChainInv`); nothing made is nowhere
(`HeldInv`); a load under way to who waits for it has everything (`LoadInv`); and while a change of channel is half read
nobody plays and no load is under way to anybody who could (`HalfInv`), which is what makes `overtaken` the
only way to an older character there. That both are needed is no weakness of the proof: after either race an older character is
loaded, and saved over a newer one. There is one lemma
per action, over those about kinds of steps: steps that concern nobody's logon (`PlainStep`), ends of connections
(`EndKeeps`), and what any step does to the count, the chain and what is held (`CountStep`, `CharStep`, `HeldStep`).

Only model-checked, on the instances above:

- liveness, which rests on fairness (`HoldEnds`, `ExpiryEndsSale`, `BuildEnds`, `LogonEnds`, `AlreadyEnds`);
- `PanelAgrees` and `BundleKept`, which hold for small limits only (see the gaps above): a
  theorem would have to bound the number of edits or of sessions;
- `NoLoss` with check-outs and closing, which run `recovery` checks within its bounds, and the other shop
  properties beyond the hypotheses of their theorems.

## 5. Plan

1. `NoLoss`, `OfferIsHeld` and `HostAgrees` as theorems with check-outs as well, with what is false then excluded by name.
2. `ShopBuild` with a shop that is closed and built again, and with cores that return.
3. Guild wars: declaration, reservation, start and end replicated through the DB process.

## 6. Not modelled

The repository has 211,000 lines of implementation; what is modelled are the protocols
between its processes and the windows between characters that move items, gold and
sessions. The rest is left out because a model checker has little to say of it:

- battle, skills, monsters, movement, maps, sectors, horses, fishing, refining, polymorph:
  sequential computations of one core over game tables; the questions there are of
  balance and arithmetic, and one would transliterate the code to ask them;
- quests: coroutines in Lua driven by scripts that are not part of the repository's logic;
- GM commands, chat, logging, configuration, table readers, string tables;
- cryptography, packet framing, vendored libraries (`libs`, `lzo`, `lua`), tools;
- the auction house, which is compiled out;
- messenger, marriage, monarch, castle, empire privileges: small request and reply
  protocols like those that are modelled, with less at stake;
- parties: membership is broadcast by the DB process and changed by each core before the
  broadcast returns. Read for modelling and left out: almost every agreement between the
  replicas is broken by a race (a kick and a quit at once, a second deletion, roles that
  remote cores never record), so there is no property that the code keeps;
- the shop's grid, titles, search and decoration; the mall; NPC shops with other
  currencies.
