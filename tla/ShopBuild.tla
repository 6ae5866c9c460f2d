------------------------------ MODULE ShopBuild ------------------------------
(***************************************************************************)
(* Building a shop.  The core of the owner locks the items, takes a bundle *)
(* and asks the DB process; the items stay in the inventory, and in their  *)
(* rows, until the answer.  In the meantime the owner may leave and play   *)
(* on another core, or the core may be lost.                               *)
(*                                                                         *)
(* One owner, one kind of bundle in one stack; the shop is not closed      *)
(* again, and a core that is lost does not come back.                      *)
(***************************************************************************)
EXTENDS Naturals, SequencesExt

CONSTANTS
    Cores, NoCore,
    Items,      \* what the owner has at first, each with a row
    Bundle,     \* the item that is a stack of bundles
    Bundles,    \* how many it is at first
    Limit       \* how often each kind of event may happen (Kinds)

Kinds == {"login", "build", "change", "give", "crash"}
NoStall == {"no stall"}

ASSUME BuildAssumption ==
    /\ NoCore \notin Cores /\ Bundle \notin Items /\ Bundles \in Nat
    /\ IsFiniteSet(Items) /\ NoStall \notin SUBSET Items
    /\ Limit \in [Kinds -> Nat]

VARIABLES
    here,       \* the owner's character: its core and descriptor
    bag,        \* items in the inventory
    locked,     \* items with m_isLocked
    skip,       \* items with m_bSkipSave
    stack,      \* bundles in the inventory
    dirty,      \* m_set_pkItemForDelayedSave
    panel,      \* m_privateShopTable is set
    pend,       \* m_pendingBuilds of each core
    stall,      \* m_map_privateShop of each core: what it shows, or NoStall
    up,         \* the cores that run
    peers,      \* m_peerList
    row,        \* whose inventory each item's row is in, or "none"
    bundleRow,  \* bundles in the owner's rows
    shop,       \* the instance in the DB process
    loads,      \* shop queries under way
    playing,    \* the core of the logon, or NoCore
    last,       \* the descriptor of the last login
    out,        \* from each core to the DB process
    in,         \* from the DB process to each core
    budget      \* what is left of Limit

client == <<here, bag, locked, skip, stack, dirty, panel>>
core == <<pend, stall, up>>
database == <<peers, row, bundleRow, shop, loads, playing, last>>
vars == <<client, core, database, out, in, budget>>

Away == [core |-> NoCore, desc |-> 0]
NoPend == [items |-> {}, desc |-> 0, bundle |-> 0, left |-> FALSE]
NoShop == [items |-> {}, host |-> NoCore, owner |-> Away]

Spend(k) == budget[k] > 0 /\ budget' = [budget EXCEPT ![k] = @ - 1]
Send(c, ms) == out' = [out EXCEPT ![c] = @ \o ms]
\* A core that is gone reads nothing.
Tell(c, m) == in' = IF c \in up THEN [in EXCEPT ![c] = Append(@, m)] ELSE in

Pending(c) == pend[c] # NoPend
Exists == shop # NoShop

-----------------------------------------------------------------------------
SaveOf(x) == [op |-> "ITEM_SAVE", item |-> x, who |-> "owner", count |-> IF x = Bundle THEN stack ELSE 1]
Saves(xs) == SetToSeq({SaveOf(x) : x \in xs})

\* Save of an item with SkipSave does nothing.
Dirtied(x) == dirty \cup ({x} \ skip)

Change(i) ==
    /\ i \in bag /\ Dirtied(i) # dirty /\ Spend("change")
    /\ dirty' = Dirtied(i)
    /\ UNCHANGED <<here, bag, locked, skip, stack, panel, core, database, out, in>>

\* ITEM_MANAGER::Update: the delayed saves.
Update ==
    /\ dirty # {}
    /\ Send(here.core, Saves(dirty)) /\ dirty' = {}
    /\ UNCHANGED <<here, bag, locked, skip, stack, panel, core, database, in, budget>>

\* An exchange or a drop takes no locked item.
MayGive(i) == i \in bag \ locked
Give(i) ==
    /\ MayGive(i) /\ Spend("give")
    /\ bag' = bag \ {i} /\ dirty' = dirty \ {i}
    /\ Send(here.core, <<[op |-> "ITEM_SAVE", item |-> i, who |-> "other", count |-> 1]>>)
    /\ UNCHANGED <<here, locked, skip, stack, panel, core, database, in>>

-----------------------------------------------------------------------------
\* CHARACTER::BuildPrivateShop and CPrivateShopManager::BuildPrivateShop: the
\* items are saved and from then on not saved any more, the build is noted with
\* the stack as it was, and a bundle is taken after CREATE is sent.
\* Mutant: the delayed saves are left to Update.
MutFlushed(S) == {}
Flushed(S) == dirty \cap S
BuildPrivateShop(S) ==
    LET c == here.core
        kept == dirty \ Flushed(S)
    IN /\ here # Away /\ S # {} /\ S \subseteq bag \ locked
       /\ stack > 0 /\ ~panel /\ stall[c] = NoStall /\ Spend("build")
       /\ locked' = locked \cup S /\ skip' = skip \cup S
       /\ stall' = [stall EXCEPT ![c] = {}]
       /\ pend' = [pend EXCEPT ![c] = [items |-> S, desc |-> here.desc, bundle |-> stack, left |-> FALSE]]
       /\ stack' = stack - 1
       /\ dirty' = IF stack' > 0 THEN kept \cup {Bundle} ELSE kept \ {Bundle}
       /\ Send(c, Saves(Flushed(S)) \o <<[op |-> "CREATE", desc |-> here.desc, items |-> S]>>
                  \o IF stack' > 0 THEN <<>> ELSE <<[op |-> "ITEM_DESTROY", item |-> Bundle]>>)
       /\ UNCHANGED <<here, bag, panel, up, database, in>>

\* CHARACTER::Disconnect, PreservePendingBuild first: the pending items are
\* destroyed without a word, then the shop's LOGOUT, the saves, the account's.
Pended == IF Pending(here.core) THEN pend[here.core].items \cap bag ELSE {}
Disconnect ==
    LET c == here.core
    IN /\ here # Away
       /\ pend' = IF Pending(c) THEN [pend EXCEPT ![c].left = TRUE] ELSE pend
       /\ Send(c, (IF panel THEN <<[op |-> "LOGOUT", desc |-> here.desc]>> ELSE <<>>)
                  \o Saves(dirty \ Pended) \o <<[op |-> "ACCOUNT_LOGOUT"]>>)
       /\ here' = Away /\ bag' = {} /\ locked' = {} /\ skip' = {} /\ stack' = 0
       /\ dirty' = {} /\ panel' = FALSE
       /\ UNCHANGED <<stall, up, database, in, budget>>

-----------------------------------------------------------------------------
\* CPrivateShopManager::BuildPrivateShopResult.
\* Mutants: a refusal leaves the items locked; the shop of an owner who has left
\* keeps him; the bundle comes back anyway.
MutUnlocked(m) == IF m.ok THEN locked \ pend[here.core].items ELSE locked
MutLogoutFor(c, m) == <<>>
MutRefund(c, m) == <<[SaveOf(Bundle) EXCEPT !.count = pend[c].bundle]>>
Online(c) == ~pend[c].left /\ here = [core |-> c, desc |-> pend[c].desc]
Unlocked(m) == locked \ pend[here.core].items
LogoutFor(c, m) == IF m.ok THEN <<[op |-> "LOGOUT", desc |-> pend[c].desc]>> ELSE <<>>
Refund(c, m) == IF m.ok THEN <<>> ELSE <<[SaveOf(Bundle) EXCEPT !.count = pend[c].bundle]>>
BuildPrivateShopResult(c, m) ==
    /\ m.op = "CREATE_RESULT"
    /\ \/ ~Pending(c) /\ UNCHANGED <<client, core, out>>
       \/ /\ Pending(c) /\ Online(c)
          /\ locked' = Unlocked(m) /\ skip' = skip \ pend[c].items
          /\ IF m.ok
             THEN /\ bag' = bag \ pend[c].items /\ panel' = TRUE
                  /\ UNCHANGED <<stack, dirty>>
             ELSE /\ stack' = stack + 1 /\ dirty' = dirty \cup {Bundle}
                  /\ UNCHANGED <<bag, panel>>
          /\ stall' = [stall EXCEPT ![c] = IF m.ok THEN pend[c].items ELSE NoStall]
          /\ pend' = [pend EXCEPT ![c] = NoPend]
          /\ UNCHANGED <<here, up, out>>
       \/ /\ Pending(c) /\ ~Online(c)
          /\ Send(c, Refund(c, m) \o LogoutFor(c, m))
          /\ stall' = [stall EXCEPT ![c] = IF m.ok THEN pend[c].items ELSE NoStall]
          /\ pend' = [pend EXCEPT ![c] = NoPend]
          /\ UNCHANGED <<client, up>>

\* The character is loaded; the shop follows, or finds its owner gone.
PlayerLoad(c, m) ==
    /\ m.op = "PLAYER_LOAD"
    /\ here' = [core |-> c, desc |-> m.desc] /\ bag' = m.items /\ stack' = m.bundles
    /\ UNCHANGED <<locked, skip, dirty, panel, core, out>>
GameLoad(c, m) ==
    /\ m.op = "LOAD"
    /\ \/ /\ here = [core |-> c, desc |-> m.desc] /\ panel' = TRUE
          /\ UNCHANGED <<here, bag, locked, skip, stack, dirty, out>>
       \/ /\ here # [core |-> c, desc |-> m.desc] /\ Send(c, <<[op |-> "LOGOUT", desc |-> m.desc]>>)
          /\ UNCHANGED client
    /\ UNCHANGED core

ReadDB(c) ==
    /\ c \in up /\ in[c] # <<>>
    /\ in' = [in EXCEPT ![c] = Tail(@)]
    /\ LET m == Head(in[c])
       IN BuildPrivateShopResult(c, m) \/ PlayerLoad(c, m) \/ GameLoad(c, m)
    /\ UNCHANGED <<database, budget>>

-----------------------------------------------------------------------------
\* The DB process.
QUERY_ITEM_SAVE(m) ==
    /\ m.op = "ITEM_SAVE"
    /\ IF m.item = Bundle THEN bundleRow' = m.count /\ UNCHANGED row
       ELSE row' = [row EXCEPT ![m.item] = m.who] /\ UNCHANGED bundleRow
    /\ UNCHANGED <<shop, playing, in>>

QUERY_ITEM_DESTROY(m) ==
    /\ m.op = "ITEM_DESTROY"
    /\ IF m.item = Bundle THEN bundleRow' = 0 /\ UNCHANGED row
       ELSE row' = [row EXCEPT ![m.item] = "none"] /\ UNCHANGED bundleRow
    /\ UNCHANGED <<shop, playing, in>>

\* There is a shop already, or the items go from their rows into a new one.
\* Mutant: a refusal is not told.
MutRefused(c) == UNCHANGED in
Refused(c) == Tell(c, [op |-> "CREATE_RESULT", ok |-> FALSE])
PrivateShopBuild(c, m) ==
    /\ m.op = "CREATE"
    /\ \/ Exists /\ Refused(c) /\ UNCHANGED <<row, shop>>
       \/ /\ ~Exists
          /\ shop' = [items |-> m.items, host |-> c, owner |-> [core |-> c, desc |-> m.desc]]
          /\ row' = [i \in Items |-> IF i \in m.items THEN "none" ELSE row[i]]
          /\ Tell(c, [op |-> "CREATE_RESULT", ok |-> TRUE])
    /\ UNCHANGED <<bundleRow, playing>>

Bound(c, m) == Exists /\ shop.owner = [core |-> c, desc |-> m.desc]
PrivateShopLogout(c, m) ==
    /\ m.op = "LOGOUT"
    /\ shop' = IF Bound(c, m) THEN [shop EXCEPT !.owner = Away] ELSE shop
    /\ UNCHANGED <<row, bundleRow, playing, in>>

QUERY_LOGOUT(m) ==
    /\ m.op = "ACCOUNT_LOGOUT" /\ playing' = NoCore
    /\ UNCHANGED <<row, bundleRow, shop, in>>

ReadCore(c) ==
    /\ c \in peers /\ out[c] # <<>>
    /\ out' = [out EXCEPT ![c] = Tail(@)]
    /\ LET m == Head(out[c])
       IN \/ QUERY_ITEM_SAVE(m) \/ QUERY_ITEM_DESTROY(m) \/ PrivateShopBuild(c, m)
          \/ PrivateShopLogout(c, m) \/ QUERY_LOGOUT(m)
    /\ UNCHANGED <<client, core, peers, loads, last, budget>>

\* QUERY_PLAYER_LOAD of a cached character: answered at once, but for the shop.
QUERY_PLAYER_LOAD(c) ==
    /\ playing = NoCore /\ c \in peers \cap up /\ Spend("login")
    /\ playing' = c /\ last' = last + 1
    /\ loads' = Append(loads, [core |-> c, desc |-> last'])
    /\ Tell(c, [op |-> "PLAYER_LOAD", desc |-> last', items |-> {i \in Items : row[i] = "owner"},
                bundles |-> bundleRow])
    /\ UNCHANGED <<client, core, peers, row, bundleRow, shop, out>>

\* The session that asked is bound, if its core is there; the host has its copy.
RESULT_PRIVATE_SHOP_LOAD ==
    /\ loads # <<>> /\ loads' = Tail(loads)
    /\ LET q == Head(loads)
       IN IF Exists /\ q.core \in peers
          THEN shop' = [shop EXCEPT !.owner = q] /\ Tell(q.core, [op |-> "LOAD", desc |-> q.desc])
          ELSE UNCHANGED <<shop, in>>
    /\ UNCHANGED <<client, core, peers, row, bundleRow, playing, last, out, budget>>

-----------------------------------------------------------------------------
\* A core is lost with its memory, what was on its way to it and the end of
\* what it had sent; the DB process notices when it has read the rest.
Crash(c) ==
    /\ c \in up /\ Spend("crash")
    /\ up' = up \ {c} /\ pend' = [pend EXCEPT ![c] = NoPend] /\ stall' = [stall EXCEPT ![c] = NoStall]
    /\ \E n \in 0 .. Len(out[c]) : out' = [out EXCEPT ![c] = SubSeq(@, 1, n)]
    /\ in' = [in EXCEPT ![c] = <<>>]
    /\ IF here.core = c
       THEN /\ here' = Away /\ bag' = {} /\ locked' = {} /\ skip' = {} /\ stack' = 0
            /\ dirty' = {} /\ panel' = FALSE
       ELSE UNCHANGED client
    /\ UNCHANGED database

RemovePeer(c) ==
    /\ c \in peers \ up /\ out[c] = <<>>
    /\ peers' = peers \ {c}
    /\ playing' = IF playing = c THEN NoCore ELSE playing
    /\ shop' = IF Exists /\ shop.host = c /\ shop.owner.core = c THEN [shop EXCEPT !.owner = Away] ELSE shop
    /\ UNCHANGED <<client, core, row, bundleRow, loads, last, out, in, budget>>

-----------------------------------------------------------------------------
Init ==
    /\ here = Away /\ bag = {} /\ locked = {} /\ skip = {} /\ stack = 0 /\ dirty = {} /\ panel = FALSE
    /\ pend = [c \in Cores |-> NoPend] /\ stall = [c \in Cores |-> NoStall] /\ up = Cores
    /\ peers = Cores /\ row = [i \in Items |-> "owner"] /\ bundleRow = Bundles
    /\ shop = NoShop /\ loads = <<>> /\ playing = NoCore /\ last = 0
    /\ out = [c \in Cores |-> <<>>] /\ in = [c \in Cores |-> <<>>] /\ budget = Limit

Next ==
    \/ \E i \in Items : Change(i) \/ Give(i)
    \/ \E S \in SUBSET Items : BuildPrivateShop(S)
    \/ Update \/ Disconnect \/ RESULT_PRIVATE_SHOP_LOAD
    \/ \E c \in Cores : ReadDB(c) \/ ReadCore(c) \/ QUERY_PLAYER_LOAD(c) \/ Crash(c) \/ RemovePeer(c)

Spec == Init /\ [][Next]_vars

\* The processes run and the connections deliver; the owner need do nothing.
Fairness ==
    /\ WF_vars(RESULT_PRIVATE_SHOP_LOAD)
    /\ \A c \in Cores : WF_vars(ReadDB(c)) /\ WF_vars(ReadCore(c)) /\ WF_vars(RemovePeer(c))
FairSpec == Spec /\ Fairness

-----------------------------------------------------------------------------
\* An item is either in the shop's rows or in somebody's inventory rows, never
\* in both and never in neither; while the owner's inventory still shows what
\* the shop already has, it is locked.  BuildPrivateShop, PrivateShopBuild.
OnePlace ==
    /\ \A i \in Items : (i \in shop.items) # (row[i] # "none")
    /\ bag \cap shop.items \subseteq locked

\* The items that are locked and not saved are those of the pending build of
\* this very connection: an answer that was missed, or meant for an earlier
\* one, would leave them so.  BuildPrivateShopResult, PreservePendingBuild.
HeldWhilePending ==
    here # Away =>
        LET p == pend[here.core]
        IN locked = skip /\ locked = IF p.desc = here.desc THEN p.items ELSE {}

Quiet == loads = <<>> /\ peers = up /\ \A c \in Cores : out[c] = <<>> /\ in[c] = <<>>

\* When nothing is under way the shop stands on its host as the DB process has
\* it and nowhere else, is bound to the owner who plays and to no connection
\* that is over, and its owner knows it, however the build and the sessions
\* were interleaved.  PrivateShopLogout, CInputDB::PrivateShop (LOAD).
CopiesAgree ==
    Quiet =>
        /\ \A c \in up : /\ ~Pending(c)
                         /\ stall[c] = IF shop.host = c THEN shop.items ELSE NoStall
        /\ shop.owner.core \in up => shop.owner = here
        /\ here # Away => /\ panel = Exists
                          /\ Exists => shop.owner = here

\* One bundle is spent for the shop that was built, none for a build that was
\* refused, also when its owner left before the answer (no core being lost).
BundleKept ==
    Quiet /\ up = Cores /\ dirty = {} => bundleRow = IF Exists THEN Bundles - 1 ELSE Bundles

\* Every build is answered, or its core is lost.
BuildEnds == \A c \in Cores : Pending(c) ~> ~Pending(c)
=============================================================================
