---------------------------- MODULE PrivateShopDB ----------------------------
(***************************************************************************)
(* The DB process: CClientManager's private-shop handlers, one action per  *)
(* packet, the once-per-second update, the query result that loads a shop  *)
(* and the loss of a peer.  c is the peer a packet came from, m the packet.*)
(* A refused request is answered with a chat line and changes nothing:     *)
(* every handler has one disjunct for it.                                  *)
(***************************************************************************)
EXTENDS PrivateShopBase

Exists == state # "none"
NoItems(s) == Occupied(s) = {}
ToOwner(m) == Notify(owner.core, m)
StateMsg(sess, st) == [kind |-> "State", sess |-> sess, state |-> st]

\* Mutant: only the owner is told.
MutTellOwner(st) == ToOwner(StateMsg(owner.sess, st))

\* The owner, and the host when it is another peer, are told the new state.
TellState(st) == ToOwner(StateMsg(owner.sess, st)) ++
                 (IF owner.core = Host THEN Nothing ELSE Notify(Host, StateMsg(0, st)))

Vanish == /\ state' = "none" /\ gold' = 0 /\ owner' = Detached
          /\ slot' = [p \in Positions |-> EmptySlot]

\* Removing the last item hides the shop; with no balance left it is destroyed.
AfterRemoval(rest, out) ==
    /\ UNCHANGED gold
    /\ \/ /\ ~NoItems(rest) /\ slot' = rest /\ Post(out) /\ UNCHANGED <<state, owner>>
       \/ /\ NoItems(rest) /\ gold > 0 /\ slot' = rest /\ UNCHANGED owner
          /\ state' = "CLOSED" /\ Post(out ++ TellState("CLOSED"))
       \/ /\ NoItems(rest) /\ gold = 0 /\ Vanish
          /\ Post(out ++ TellState("CLOSED") ++ ToOwner([kind |-> "Close", sess |-> owner.sess]))

Refused == UNCHANGED <<dbVars, toGame>>

-----------------------------------------------------------------------------
\* Purchases.
\* Mutants: selling goes on while the owner edits, or after the deadline.
MutSellsInModify == state \in {"OPEN", "MODIFY"} /\ ~expired
MutSellsLate == state = "OPEN"

Selling == state = "OPEN" /\ ~expired
Sellable(m) == /\ Selling /\ slot[m.pos].item # NoItem /\ slot[m.pos].avail
               /\ slot[m.pos].price = m.price /\ m.purse >= slot[m.pos].price
               /\ Host \in peers

\* Mutant: the counter is not advanced.
MutStuckToken == 1
NextToken == reservation + 1

PrivateShopBuyRequest(c, m) ==
    /\ m.kind = "BuyRequest"
    /\ \/ ~Sellable(m) /\ Refused
       \/ /\ Sellable(m)
          /\ reservation' = NextToken
          /\ slot' = [slot EXCEPT ![m.pos] = [@ EXCEPT !.avail = FALSE, !.token = reservation',
                                                       !.buyer = c, !.due = FALSE]]
          /\ Post(To(c, [kind |-> "BuyRequest", cust |-> m.cust, pos |-> m.pos,
                         item |-> slot[m.pos].item, price |-> slot[m.pos].price,
                         token |-> reservation']))
          /\ UNCHANGED <<state, gold, owner, expired, row, loads, playing, peers>>

Holds(c, m) == /\ Exists /\ slot[m.pos].item = m.item /\ ~slot[m.pos].avail
               /\ slot[m.pos].token = m.token /\ slot[m.pos].buyer = c

\* The owner's panel, and the host when it is not the buyer's core.
SaleNotice(c, m) == ToOwner([kind |-> "Sale", sess |-> owner.sess, pos |-> m.pos,
                             price |-> m.price]) ++
                    (IF c = Host THEN Nothing
                     ELSE Notify(Host, [kind |-> "RemoveItem", pos |-> m.pos]))

PrivateShopBuy(c, m) ==
    /\ m.kind = "Buy"
    /\ \/ ~Holds(c, m) /\ Refused
       \/ /\ Holds(c, m)
          /\ gold' = gold + slot[m.pos].price
          /\ slot' = Clear(slot, m.pos)
          /\ \/ ~NoItems(slot') /\ Post(SaleNotice(c, m)) /\ UNCHANGED state
             \/ /\ NoItems(slot') /\ state' = "CLOSED"
                /\ Post(SaleNotice(c, m) ++ TellState("CLOSED"))
          /\ UNCHANGED <<owner, reservation, expired, row, loads, playing, peers>>

\* Mutant: a refusal releases whatever hold the position has.
MutAnswersAnyToken(m) == m.pos \in Reserved(slot)
Answers(m) == m.pos \in Reserved(slot) /\ slot[m.pos].token = m.token

PrivateShopFailedBuy(c, m) ==
    /\ m.kind = "FailedBuy"
    /\ \/ ~Answers(m) /\ Refused
       \/ /\ Answers(m)
          /\ slot' = [slot EXCEPT ![m.pos] = [@ EXCEPT !.avail = TRUE, !.due = FALSE]]
          /\ UNCHANGED <<state, gold, owner, reservation, expired, row, loads, playing, peers,
                         toGame>>

QueryItemSave(c, m) ==
    /\ m.kind = "ItemSave"
    /\ row' = [row EXCEPT ![m.item] = m.who]
    /\ UNCHANGED <<state, gold, slot, owner, reservation, expired, loads, playing, peers, toGame>>

-----------------------------------------------------------------------------
\* The owner's management of the shop.
MayModify == /\ state \notin {"none", "CLOSED", "RECOVERY"} /\ Host \in peers
             /\ Reserved(slot) = {} /\ ~expired

PrivateShopModifyRequest(c, m) ==
    LET next == CASE state = "OPEN" -> "MODIFY" [] state = "MODIFY" -> "OPEN" [] OTHER -> state
    IN /\ m.kind = "Modify"
       /\ \/ ~MayModify /\ Refused
          \/ /\ MayModify
             /\ state' = next
             /\ Post(To(c, StateMsg(m.sess, next)) ++
                     (IF c = Host THEN Nothing ELSE To(Host, StateMsg(0, next))))
             /\ UNCHANGED <<gold, slot, owner, reservation, expired, row, loads, playing, peers>>

\* An edit needs MODIFY and a live host; its echo goes to the owner and the host.
Editable == state = "MODIFY" /\ Host \in peers
Echo(c, m) == Post(To(c, m) ++ (IF c = Host THEN Nothing ELSE To(Host, [m EXCEPT !.sess = 0])))

PrivateShopItemPriceChangeRequest(c, m) ==
    LET may == Editable /\ slot[m.pos].item # NoItem
    IN /\ m.kind = "Price"
       /\ \/ ~may /\ Refused
          \/ /\ may
             /\ slot' = [slot EXCEPT ![m.pos].price = m.price]
             /\ Echo(c, m)
             /\ UNCHANGED <<state, gold, owner, reservation, expired, row, loads, playing, peers>>

PrivateShopItemMoveRequest(c, m) ==
    LET may == Editable /\ slot[m.pos].item # NoItem /\ Clear(slot, m.pos)[m.dst] = EmptySlot
    IN /\ m.kind = "Move"
       /\ \/ ~may /\ Refused
          \/ /\ may
             /\ slot' = [Clear(slot, m.pos) EXCEPT ![m.dst] = slot[m.pos]]
             /\ Echo(c, m)
             /\ UNCHANGED <<state, gold, owner, reservation, expired, row, loads, playing, peers>>

\* Mutant: the requested position is taken for granted.
MutBlankFor(p) == p
\* The requested position when it is free, otherwise the first blank one.
Free == Positions \ Occupied(slot)
BlankFor(p) == IF p \in Free THEN p ELSE CHOOSE q \in Free : \A r \in Free : q <= r

PrivateShopItemCheckinRequest(c, m) ==
    LET may == Editable /\ Free # {}
    IN /\ m.kind = "CheckinRequest" /\ UNCHANGED dbVars
       /\ \/ ~may /\ NoPost
          \/ may /\ Post(To(c, [m EXCEPT !.kind = "Checkin", !.pos = BlankFor(m.pos)]))

PrivateShopItemCheckinUpdate(c, m) ==
    LET may == Exists /\ slot[m.pos].item = NoItem
    IN /\ m.kind = "CheckinUpdate"
       /\ \/ ~may /\ Refused
          \/ /\ may
             /\ slot' = [slot EXCEPT ![m.pos] = FreshSlot(m.item, m.price)]
             /\ row' = [row EXCEPT ![m.item] = NoItem]
             /\ Post(Notify(Host, [kind |-> "AddItem", pos |-> m.pos, item |-> m.item,
                                   price |-> m.price]))
             /\ UNCHANGED <<state, gold, owner, reservation, expired, loads, playing, peers>>

PrivateShopItemCheckoutRequest(c, m) ==
    LET may == /\ state \in {"MODIFY", "RECOVERY"} /\ Host \in peers
               /\ slot[m.pos].item # NoItem /\ slot[m.pos].avail
    IN /\ m.kind = "CheckoutRequest" /\ UNCHANGED dbVars
       /\ \/ ~may /\ NoPost
          \/ may /\ Post(To(c, [kind |-> "Checkout", sess |-> m.sess, pos |-> m.pos]))

\* Mutant: the row in the owner's inventory is not written.
MutReturnRow(i) == UNCHANGED row
ReturnRow(i) == row' = [row EXCEPT ![i] = Owner]

\* Whatever is at the position is removed, without a look at its reservation.
PrivateShopItemCheckoutUpdate(c, m) ==
    /\ m.kind = "CheckoutUpdate"
    /\ \/ ~Exists /\ Refused
       \/ /\ Exists
          /\ ReturnRow(m.item)
          /\ AfterRemoval(Clear(slot, m.pos), Notify(Host, [kind |-> "RemoveItem", pos |-> m.pos]))
          /\ UNCHANGED <<reservation, expired, loads, playing, peers>>

PrivateShopItemExpire(c, m) ==
    /\ m.kind = "ItemExpire"
    /\ \/ ~Exists /\ Refused
       \/ /\ Exists
          /\ AfterRemoval(Clear(slot, m.pos),
                          ToOwner([kind |-> "ItemExpire", sess |-> owner.sess, pos |-> m.pos]))
          /\ UNCHANGED <<reservation, expired, row, loads, playing, peers>>

-----------------------------------------------------------------------------
\* Withdrawal: the request is answered with the balance, the game confirms
\* what it paid out, and only then is the balance reduced.
PrivateShopWithdrawRequest(c, m) ==
    /\ m.kind = "WithdrawRequest" /\ UNCHANGED dbVars
    /\ \/ gold = 0 /\ NoPost
       \/ gold > 0 /\ Post(To(c, [kind |-> "Withdraw", sess |-> m.sess, gold |-> gold]))

\* Mutant: a partial withdrawal empties the balance.
MutRest(m) == 0
Rest(m) == gold - m.gold

PrivateShopWithdraw(c, m) ==
    /\ m.kind = "WithdrawDone"
    /\ \/ ~(Exists /\ m.gold <= gold) /\ Refused
       \/ /\ Exists /\ m.gold <= gold
          /\ \/ /\ ~(NoItems(slot) /\ gold = m.gold)
                /\ gold' = Rest(m) /\ NoPost /\ UNCHANGED <<state, slot, owner>>
             \/ /\ NoItems(slot) /\ gold = m.gold /\ Vanish
                /\ Post(ToOwner([kind |-> "Close", sess |-> owner.sess]))
          /\ UNCHANGED <<reservation, expired, row, loads, playing, peers>>

-----------------------------------------------------------------------------
\* Closing: the check is answered with a permission to close, the game hands
\* the items back one by one and then has the shop deleted.
PrivateShopClose(c, m) ==
    LET may == Exists /\ Reserved(slot) = {} /\ gold = 0
    IN /\ m.kind = "Close" /\ UNCHANGED dbVars
       /\ \/ ~may /\ NoPost
          \/ may /\ Post(To(c, [kind |-> "Destroy", sess |-> m.sess]))

PrivateShopItemTransfer(c, m) ==
    /\ m.kind = "ItemTransfer"
    /\ \/ ~Exists /\ Refused
       \/ /\ Exists
          /\ slot' = [p \in Positions |-> IF slot[p].item = m.item THEN EmptySlot ELSE slot[p]]
          /\ ReturnRow(m.item)
          /\ UNCHANGED <<state, gold, owner, reservation, expired, loads, playing, peers, toGame>>

PrivateShopDelete(c, m) ==
    /\ m.kind = "Delete"
    /\ Vanish
    /\ UNCHANGED <<reservation, expired, row, loads, playing, peers, toGame>>

-----------------------------------------------------------------------------
IsBound(c, m) == Exists /\ owner = [core |-> c, sess |-> m.sess]

\* Sessions.  A logout that is not the bound session's is ignored.
PrivateShopLogout(c, m) ==
    /\ m.kind = "Logout"
    /\ owner' = IF IsBound(c, m) THEN Detached ELSE owner
    /\ UNCHANGED <<state, gold, slot, reservation, expired, row, loads, playing, peers, toGame>>

AccountLogout(c, m) ==
    /\ m.kind = "AccountLogout"
    /\ playing' = NoCore
    /\ UNCHANGED <<state, gold, slot, owner, reservation, expired, row, loads, peers, toGame>>

\* UpdatePrivateShopPremiumEvent, on the instance as it is: overdue
\* reservations are released when the buyer's peer is gone, otherwise a
\* cancellation is requested and the timer armed again; then an expired shop
\* goes to RECOVERY, and is destroyed when nothing is left in it.
Overdue == {p \in Reserved(slot) : slot[p].due}
\* Mutants: an overdue hold is released without asking, or asked about for ever.
MutReleased == [p \in Positions |-> IF p \notin Overdue THEN slot[p]
                                    ELSE [slot[p] EXCEPT !.avail = TRUE]]
MutRearmed == [p \in Positions |-> IF p \notin Overdue THEN slot[p]
                                   ELSE [slot[p] EXCEPT !.due = FALSE]]
UpdatedSlot == [p \in Positions |->
                   IF p \notin Overdue THEN slot[p]
                   ELSE IF slot[p].buyer \in peers THEN [slot[p] EXCEPT !.due = FALSE]
                   ELSE [slot[p] EXCEPT !.avail = TRUE]]
Cancels == [c \in Cores |->
               SetToSeq({[kind |-> "Cancel", pos |-> p, token |-> slot[p].token] :
                            p \in {q \in Overdue : slot[q].buyer = c /\ c \in peers}})]
\* Mutant: only a shop that sells lapses.
MutLapsed == expired /\ state = "OPEN"
Lapsed == expired /\ state \notin {"none", "CLOSED"}
Emptied == Lapsed /\ NoItems(slot) /\ gold = 0
UpdatedState == IF Lapsed THEN "RECOVERY" ELSE state
UpdateOut == Cancels ++ (IF Lapsed /\ state # "RECOVERY" THEN TellState("RECOVERY") ELSE Nothing)
                     ++ (IF Emptied THEN ToOwner([kind |-> "Close", sess |-> owner.sess])
                         ELSE Nothing)

UpdatePrivateShopPremiumEvent ==
    /\ Post(UpdateOut)
    /\ \/ Emptied /\ Vanish
       \/ /\ ~Emptied /\ slot' = UpdatedSlot /\ state' = UpdatedState
          /\ UNCHANGED <<gold, owner>>
    /\ UNCHANGED <<reservation, expired, row, loads, playing, peers>>

\* A shop that was CLOSED and has stock again.
Restored == Occupied(slot) # {} /\ UpdatedState = "CLOSED"
LoadState == IF Restored THEN "RECOVERY" ELSE UpdatedState

\* RESULT_PRIVATE_SHOP_LOAD: the update runs first, then the session that
\* asked is bound and sent the shop, stock of a closed or expired one as
\* RECOVERY; a restored shop is spawned again.
RESULT_PRIVATE_SHOP_LOAD ==
    LET q == Head(loads)
        items == Listing(UpdatedSlot)
    IN /\ loads # <<>>
       /\ loads' = Tail(loads)
       /\ \/ q.core \notin peers /\ UNCHANGED <<state, gold, slot, owner, toGame>>
          \/ /\ q.core \in peers /\ (~Exists \/ Emptied)
             /\ Post(UpdateOut)
             /\ IF Emptied THEN Vanish ELSE UNCHANGED <<state, gold, slot, owner>>
          \/ /\ q.core \in peers /\ Exists /\ ~Emptied
             /\ owner' = q /\ slot' = UpdatedSlot /\ state' = LoadState
             /\ Post(UpdateOut ++
                     To(q.core, [kind |-> "Load", sess |-> q.sess, state |-> LoadState, gold |-> gold,
                                 items |-> items]) ++
                     (IF Restored THEN Notify(Host, [kind |-> "Spawn", state |-> LoadState,
                                                     stall |-> Stall(UpdatedSlot)])
                      ELSE Nothing))
             /\ UNCHANGED gold
       /\ UNCHANGED <<reservation, expired, row, playing, peers>>

\* RemovePeer, once everything the core had sent has been read.
RemovePeer(c) ==
    /\ c \in peers /\ c \in crashed /\ toDB[c] = <<>>
    /\ peers' = peers \ {c}
    /\ state' = IF Exists /\ c = Host THEN "UNAVAILABLE" ELSE state
    /\ owner' = IF Exists /\ c = Host /\ owner.core = c THEN Detached ELSE owner
    /\ playing' = IF playing = c THEN NoCore ELSE playing
    /\ UNCHANGED <<gold, slot, reservation, expired, row, loads, toGame>>

-----------------------------------------------------------------------------
\* ProcessPrivateShopPacket: the next packet of peer c.
Process(c) ==
    /\ c \in peers /\ toDB[c] # <<>>
    /\ toDB' = [toDB EXCEPT ![c] = Tail(@)]
    /\ LET m == Head(toDB[c]) IN
         \/ PrivateShopBuyRequest(c, m)          \/ PrivateShopBuy(c, m)
         \/ PrivateShopFailedBuy(c, m)           \/ QueryItemSave(c, m)
         \/ PrivateShopModifyRequest(c, m)       \/ PrivateShopItemPriceChangeRequest(c, m)
         \/ PrivateShopItemMoveRequest(c, m)     \/ PrivateShopItemCheckinRequest(c, m)
         \/ PrivateShopItemCheckinUpdate(c, m)   \/ PrivateShopItemCheckoutRequest(c, m)
         \/ PrivateShopItemCheckoutUpdate(c, m)  \/ PrivateShopItemExpire(c, m)
         \/ PrivateShopWithdrawRequest(c, m)     \/ PrivateShopWithdraw(c, m)
         \/ PrivateShopClose(c, m)               \/ PrivateShopItemTransfer(c, m)
         \/ PrivateShopDelete(c, m)              \/ PrivateShopLogout(c, m)
         \/ AccountLogout(c, m)
=============================================================================
