------------------------------ MODULE PrivateShop ------------------------------
(***************************************************************************)
(* The private shop as a whole: the DB process, the game cores and the     *)
(* connections between them, from the moment a shop has been built and its *)
(* owner stands next to it.  Every step is one handler of one process; the *)
(* order in which processes run and connections deliver is arbitrary.      *)
(***************************************************************************)
EXTENDS PrivateShopDB, PrivateShopGame

Init ==
    /\ state = "OPEN" /\ gold = 0
    /\ slot = [p \in Positions |-> IF Stock[p] = NoItem THEN EmptySlot
                                   ELSE FreshSlot(Stock[p], StockPrice)]
    /\ owner = [core |-> Host, sess |-> 1] /\ reservation = 0 /\ expired = FALSE
    /\ row = [i \in Items |-> IF i \in Spare THEN Owner ELSE NoItem]
    /\ loads = <<>> /\ playing = Host /\ peers = Cores
    /\ host = [up |-> TRUE, state |-> "OPEN", items |-> Stall(slot)]
    /\ panel = [loaded |-> TRUE, state |-> "OPEN", gold |-> 0, items |-> Listing(slot)]
    /\ ownerAt = owner /\ lastSess = 1 /\ locked = {}
    /\ bag = [k \in Chars |-> IF k = Owner THEN Spare ELSE {}]
    /\ purse = Purse /\ online = Customers /\ crashed = {}
    /\ toDB = Nothing /\ toGame = Nothing /\ budget = Limit

\* Thirty seconds pass since the reservation or the last cancellation.
\* Limit["cancel"] bounds the cancellations and refusals under way at once.
ReservationDue(p) ==
    /\ p \in Reserved(slot) /\ ~slot[p].due
    /\ Cardinality(Wire(toGame, "Cancel")) + Cardinality(Wire(toDB, "FailedBuy")) < Limit["cancel"]
    /\ slot' = [slot EXCEPT ![p].due = TRUE]
    /\ UNCHANGED <<state, gold, owner, reservation, expired, row, loads, playing, peers>>

\* The persisted deadline of the shop is reached.
DeadlinePasses ==
    /\ ~expired /\ Spend("deadline") /\ expired' = TRUE
    /\ UNCHANGED <<state, gold, slot, owner, reservation, row, loads, playing, peers>>

DBStep ==
    \/ (\E c \in Cores : Process(c)) /\ UNCHANGED <<gameVars, budget>>
    \/ UpdatePrivateShopPremiumEvent /\ UNCHANGED <<gameVars, toDB, budget>>
    \/ RESULT_PRIVATE_SHOP_LOAD /\ UNCHANGED <<gameVars, toDB, budget>>
    \/ (\E c \in Cores : RemovePeer(c)) /\ UNCHANGED <<gameVars, toDB, budget>>

GameStep == (\E c \in Cores : Receive(c)) /\ UNCHANGED <<dbVars, budget>>

ClientStep ==
    /\ UNCHANGED <<dbVars, toGame>>
    /\ \/ \E cust \in Customers :
            \/ \E p \in Positions, price \in Prices : PrivateShopBuyClient(cust, p, price)
            \/ CustomerLeaves(cust)
       \/ OwnerModify \/ OwnerClose \/ OwnerWithdraw \/ OwnerLogout
       \/ \E p \in Positions : \/ OwnerCheckout(p) \/ SendItemExpire(p)
                               \/ \E q \in Positions : OwnerMove(p, q)
                               \/ \E price \in Prices : OwnerPriceChange(p, price)
                               \/ \E i \in Items, price \in Prices : OwnerCheckin(i, p, price)

EnvStep ==
    \/ (\E p \in Positions : ReservationDue(p)) /\ UNCHANGED <<gameVars, toDB, toGame, budget>>
    \/ DeadlinePasses /\ UNCHANGED <<gameVars, toDB, toGame>>
    \/ (\E c \in Cores : OwnerLogin(c)) /\ UNCHANGED toGame
    \/ (\E c \in Cores : CoreCrash(c)) /\ UNCHANGED dbVars

Next == DBStep \/ GameStep \/ ClientStep \/ EnvStep

Spec == Init /\ [][Next]_vars

\* The processes run, connections deliver, a lost connection is noticed and a
\* reservation's thirty seconds pass; nobody is obliged to ask for anything.
Fairness ==
    /\ \A c \in Cores :
         /\ WF_vars(Process(c) /\ UNCHANGED <<gameVars, budget>>)
         /\ WF_vars(Receive(c) /\ UNCHANGED <<dbVars, budget>>)
         /\ WF_vars(RemovePeer(c) /\ UNCHANGED <<gameVars, toDB, budget>>)
    /\ WF_vars(UpdatePrivateShopPremiumEvent /\ UNCHANGED <<gameVars, toDB, budget>>)
    /\ WF_vars(RESULT_PRIVATE_SHOP_LOAD /\ UNCHANGED <<gameVars, toDB, budget>>)
    /\ \A p \in Positions :
         WF_vars(ReservationDue(p) /\ UNCHANGED <<gameVars, toDB, toGame, budget>>)

FairSpec == Spec /\ Fairness

-----------------------------------------------------------------------------
\* Types.
Slot == [item : Items \cup {NoItem}, price : Nat, avail : BOOLEAN, token : Nat,
         buyer : Cores \cup {NoCore}, due : BOOLEAN]
Session == [core : Cores \cup {NoCore}, sess : Nat]
Entry == [pos : Positions, item : Items, price : Nat]
StallType == [Positions -> [item : Items \cup {NoItem}, price : Nat]]

MsgToDB ==
    [kind : {"BuyRequest"}, cust : Customers, pos : Positions, price : Nat, purse : Nat]
    \cup [kind : {"Buy"}, pos : Positions, item : Items, price : Nat, token : Nat]
    \cup [kind : {"FailedBuy"}, pos : Positions, token : Nat]
    \cup [kind : {"ItemSave"}, item : Items, who : Chars]
    \cup [kind : {"Modify", "Close", "WithdrawRequest", "Logout"}, sess : Nat]
    \cup [kind : {"Price"}, sess : Nat, pos : Positions, price : Nat]
    \cup [kind : {"Move"}, sess : Nat, pos : Positions, dst : Positions]
    \cup [kind : {"CheckinRequest", "CheckinUpdate"}, sess : Nat, pos : Positions, item : Items,
          price : Nat]
    \cup [kind : {"CheckoutRequest"}, sess : Nat, pos : Positions]
    \cup [kind : {"CheckoutUpdate"}, pos : Positions, item : Items]
    \cup [kind : {"ItemExpire"}, pos : Positions]
    \cup [kind : {"WithdrawDone"}, gold : Nat]
    \cup [kind : {"ItemTransfer"}, item : Items]
    \cup [kind : {"Delete", "AccountLogout"}]

MsgToGame ==
    [kind : {"BuyRequest"}, cust : Customers, pos : Positions, item : Items, price : Nat,
     token : Nat]
    \cup [kind : {"Cancel"}, pos : Positions, token : Nat]
    \cup [kind : {"RemoveItem"}, pos : Positions]
    \cup [kind : {"AddItem"}, pos : Positions, item : Items, price : Nat]
    \cup [kind : {"Spawn"}, state : ShopStates, stall : StallType]
    \cup [kind : {"State"}, sess : Nat, state : ShopStates]
    \cup [kind : {"Price"}, sess : Nat, pos : Positions, price : Nat]
    \cup [kind : {"Move"}, sess : Nat, pos : Positions, dst : Positions]
    \cup [kind : {"Sale"}, sess : Nat, pos : Positions, price : Nat]
    \cup [kind : {"ItemExpire", "Checkout"}, sess : Nat, pos : Positions]
    \cup [kind : {"Close", "Destroy"}, sess : Nat]
    \cup [kind : {"Load"}, sess : Nat, state : ShopStates, gold : Nat, items : Seq(Entry)]
    \cup [kind : {"Checkin"}, sess : Nat, pos : Positions, item : Items, price : Nat]
    \cup [kind : {"Withdraw"}, sess : Nat, gold : Nat]

DBTypeOK ==
    /\ state \in ShopStates /\ gold \in Nat /\ slot \in [Positions -> Slot]
    /\ owner \in Session /\ reservation \in Nat /\ expired \in BOOLEAN
    /\ row \in [Items -> Chars \cup {NoItem}] /\ loads \in Seq(Session)
    /\ playing \in Cores \cup {NoCore} /\ peers \subseteq Cores

GameTypeOK ==
    /\ host \in [up : BOOLEAN, state : ShopStates, items : StallType]
    /\ panel \in [loaded : BOOLEAN, state : ShopStates, gold : Nat, items : Seq(Entry)]
    /\ ownerAt \in Session /\ lastSess \in Nat /\ locked \subseteq Items
    /\ bag \in [Chars -> SUBSET Items] /\ purse \in [Chars -> Nat]
    /\ online \subseteq Customers /\ crashed \subseteq Cores

WireTypeOK ==
    /\ toDB \in [Cores -> Seq(MsgToDB)] /\ toGame \in [Cores -> Seq(MsgToGame)]
    /\ budget \in [Kinds -> Nat]

\* Every variable and every packet under way has its type.
TypeOK == DBTypeOK /\ GameTypeOK /\ WireTypeOK

-----------------------------------------------------------------------------
\* Purchases.
HeldFor(c, m) == /\ slot[m.pos].item = m.item /\ slot[m.pos].price = m.price
                 /\ ~slot[m.pos].avail /\ slot[m.pos].token = m.token /\ slot[m.pos].buyer = c

\* An offer on its way to a customer, or a payment on its way back, has its item
\* and price held in the shop under its own token: a customer who pays is always
\* credited to the owner, and no answer, cancellation, timeout or expiry in
\* between gives the item to anybody else (PrivateShopBuyRequest, PrivateShopBuy,
\* PrivateShopFailedBuy, UpdatePrivateShopPremiumEvent, ItemTransaction).
OfferIsHeld ==
    \A c \in Cores :
        /\ \A n \in DOMAIN toGame[c] :
             toGame[c][n].kind = "BuyRequest" => HeldFor(c, toGame[c][n])
        /\ \A n \in DOMAIN toDB[c] : toDB[c][n].kind = "Buy" => HeldFor(c, toDB[c][n])

\* A held item whose buyer's core is alive has an answer under way: the offer,
\* the payment, or a refusal with its token.  Without it only the timeout
\* could give the item back, and the timeout asks the same core.
HoldIsAnswered ==
    \A p \in Reserved(slot) :
        LET c == slot[p].buyer
            Mine(q, ks) == \E n \in DOMAIN q[c] : /\ q[c][n].kind \in ks
                                                  /\ q[c][n].pos = p /\ q[c][n].token = slot[p].token
        IN c \notin crashed =>
               Mine(toGame, {"BuyRequest"}) \/ Mine(toDB, {"Buy", "FailedBuy"})

\* Tokens are never reused, so an answer can match one hold only, and MODIFY is
\* entered and left without a hold: the owner never edits what a customer is
\* paying for (nextReservation, PrivateShopModifyRequest).
HoldsAreDistinct ==
    /\ \A p \in Positions : slot[p].token <= reservation
    /\ \A p, q \in Reserved(slot) : slot[p].token = slot[q].token => p = q
    /\ state = "MODIFY" => Reserved(slot) = {}

-----------------------------------------------------------------------------
\* Items and gold.
Buying(i) == \E c \in Cores : \E n \in DOMAIN toDB[c] :
                toDB[c][n].kind = "Buy" /\ toDB[c][n].item = i
Returning(i) == \E c \in Cores : \E n \in DOMAIN toDB[c] :
                   toDB[c][n].kind \in {"CheckoutUpdate", "ItemTransfer"} /\ toDB[c][n].item = i

\* No item is duplicated: it is in one inventory at most and at one position at
\* most, and it is in an inventory and on a position only while the packet that
\* takes it off the position (a payment, a check-out, a hand-back) is under way.
NoDuplicate ==
    \A i \in Items :
        /\ \A k, l \in Chars : i \in bag[k] \cap bag[l] => k = l
        /\ \A p, q \in Occupied(slot) : slot[p].item = i /\ slot[q].item = i => p = q
        /\ \A k \in Chars, p \in Positions :
             i \in bag[k] /\ slot[p].item = i => Buying(i) \/ Returning(i)

\* No item is lost: unless its own lifetime ends it is in the shop, in an inventory,
\* or in an inventory row of the database from which the next login loads it.
NoLoss == \A i \in Items \ Perishable :
    \/ \E p \in Positions : slot[p].item = i
    \/ \E k \in Chars : i \in bag[k]
    \/ row[i] # NoItem

\* What the packets of one kind still under way to the DB amount to.
Worth(q, k, f) == SumFunction([n \in DOMAIN q |-> IF q[n].kind = k THEN q[n][f] ELSE 0])
Sum(k, f) == SumFunction([c \in Cores |-> Worth(toDB[c], k, f)])

\* Gold is conserved: what customers paid is in the balance of the shop or under
\* way to it, what the owner withdrew leaves the balance once (PrivateShopBuy,
\* WithdrawPrivateShop, PrivateShopWithdraw).
GoldConserved ==
    SumFunction(purse) + gold + Sum("Buy", "price")
        = SumFunction(Purse) + Sum("WithdrawDone", "gold")

\* The DB never has to refuse a withdrawal that the game has paid out.
WithdrawalsCovered == Sum("WithdrawDone", "gold") <= gold

-----------------------------------------------------------------------------
\* The three copies of the shop.
Quiet == loads = <<>> /\ \A c \in Cores : toDB[c] = <<>> /\ toGame[c] = <<>>

\* Once everything is delivered the DB has the owner's session bound, if there
\* is one, and the panel shows the state, the balance and the items of the shop.
PanelAgrees ==
    Quiet =>
        /\ state # "none" => owner = ownerAt
        /\ panel.loaded = (ownerAt.sess # 0 /\ state # "none")
        /\ panel.loaded => /\ panel.state = state /\ panel.gold = gold
                           /\ Range(panel.items) = Range(Listing(slot))
                           /\ Len(panel.items) = Cardinality(Occupied(slot))

\* Once everything is delivered the host shows exactly the stock of the shop.
HostAgrees ==
    Quiet /\ Host \notin crashed =>
        /\ host.up = (state \notin {"none", "CLOSED"})
        /\ host.up => host.state = state /\ host.items = Stall(slot)

-----------------------------------------------------------------------------
\* The contract.  An item is where its inventory is, and in the shop otherwise;
\* the owner is owed the balance, the payments under way to it, and not what a
\* withdrawal under way will take off it.  A sale takes effect when the game
\* core hands the item over, a check-out when the owner's inventory gets it.
CharAt(i) == {k \in Chars : i \in bag[k]}
PlaceOf == [i \in Items |-> IF CharAt(i) = {} THEN NoCore ELSE CHOOSE k \in CharAt(i) : TRUE]

C == INSTANCE SaleContract WITH
        Shop   <- NoCore,
        OnSale <- Items \ Spare,
        place  <- PlaceOf,
        held   <- {slot[p].item : p \in Reserved(slot)} \ UNION {bag[k] : k \in Chars},
        owed   <- gold + Sum("Buy", "price") - Sum("WithdrawDone", "gold"),
        over   <- expired

\* Every run of the shop is a run of the contract: all the packets, refusals,
\* timeouts, relogs and retries of a purchase amount to one sale or to none.
KeepsContract == C!Contract

-----------------------------------------------------------------------------
\* Steps.
\* A hold ends only by its own payment or refusal, or when its buyer's core is
\* gone: never by a stale answer to an earlier hold of the same position.
HoldEndsByOwnAnswer ==
    [][\A p \in Reserved(slot) :
         (slot'[p].avail \/ slot'[p].token # slot[p].token) =>
             \/ slot[p].buyer \notin peers
             \/ \E c \in Cores : /\ toDB[c] # <<>> /\ toDB' = [toDB EXCEPT ![c] = Tail(@)]
                                 /\ c = slot[p].buyer /\ Head(toDB[c]).kind \in {"Buy", "FailedBuy"}
                                 /\ Head(toDB[c]).token = slot[p].token]_vars

\* After the deadline nothing is reserved any more, and a shop that has been
\* closed or moved to recovery is never opened for sale again.
ExpiredNeverSells ==
    [][/\ expired => \A p \in Reserved(slot') : slot'[p].token = slot[p].token
       /\ expired /\ state \in {"none", "CLOSED", "RECOVERY"} => state' \notin {"OPEN", "MODIFY"}]_vars

-----------------------------------------------------------------------------
\* Progress.
\* Every hold ends, also when the buyer's core is lost while it is offered.
HoldEnds == \A p \in Positions, t \in 1 .. Limit["buy"] :
               (p \in Reserved(slot) /\ slot[p].token = t)
                   ~> ~(p \in Reserved(slot) /\ slot[p].token = t)

\* An expired shop ends up, and stays, closed, in recovery or gone.
ExpiryEndsSale == <>[](expired => state \in {"none", "CLOSED", "RECOVERY"})
=============================================================================
