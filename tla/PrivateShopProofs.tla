---------------------------- MODULE PrivateShopProofs ----------------------------
(***************************************************************************)
(* What is proved of the private shop, for every number of cores,          *)
(* customers, positions and items and for every bound.                     *)
(*                                                                         *)
(* First TypeOK: one lemma per handler, which keeps the variables of its   *)
(* process in their types and sends packets of the right kind.             *)
(*                                                                         *)
(* Then the holds: tokens are never reused, the owner never edits a shop   *)
(* with a hold, an expired shop never sells again, and what is held for a  *)
(* customer has its offer, its payment or its refusal under way as long as *)
(* the core of its buyer lives.                                            *)
(*                                                                         *)
(* The argument is about what one step does to the holds.  KeepsHolds says *)
(* that a step makes none: every position held after it was held before,   *)
(* for the same core and under the same token.  All handlers of the DB     *)
(* process keep the holds but one, PrivateShopBuyRequest, which makes one  *)
(* under a new token; the game cores do not touch the shop.                *)
(*                                                                         *)
(* The packet that ends a hold has to be recognised: the DB process drops  *)
(* a payment or a refusal that does not match.  So that every hold is      *)
(* answered needs TokensName: a packet that carries the token of a hold    *)
(* was made for it, comes from or goes to its buyer's core and names its   *)
(* position and item.                                                      *)
(*                                                                         *)
(* Then the converse, for which the rest prepares: an offer or a payment   *)
(* under way has its item held (OffersInv).  It needs what each handler    *)
(* puts on which connection, what a step does to a connection as a         *)
(* sequence, who is bound to the shop and plays where (SessionsInv), and   *)
(* that nothing that was read earlier can have ended the hold.             *)
(*                                                                         *)
(* PrivateShopSales goes on from there.                                    *)
(***************************************************************************)
EXTENDS PrivateShop, DataLemmas, FiniteSetTheorems, SequenceTheorems, TLAPS

MailToGame == [Cores -> Seq(MsgToGame)]
MailToDB == [Cores -> Seq(MsgToDB)]

\* What the DB process sends to core c, offers aside: notices, and cancellations of
\* overdue holds of that core.
Notices == {m \in MsgToGame : m.kind \notin {"BuyRequest", "Cancel"}}
CancelsFor(c) == {[kind |-> "Cancel", pos |-> p, token |-> slot[p].token] :
                    p \in {q \in Overdue : slot[q].buyer = c}}
OutMsg(c) == Notices \cup CancelsFor(c)
OutMail == {f \in MailToGame : \A c \in Cores : f[c] \in Seq(OutMsg(c))}
Told == UNCHANGED toGame \/ \E out \in OutMail : Post(out)

\* What a core sends, answers to offers and cancellations aside.
Reports == {m \in MsgToDB : m.kind \notin {"Buy", "FailedBuy"}}
Said == NoSend \/ \E c : \E ms \in Seq(Reports) : Send(c, ms)

-----------------------------------------------------------------------------
\* Sequences.

LEMMA SeqOfSet == ASSUME NEW T, NEW S, S \subseteq T, IsFiniteSet(S)
                  PROVE  SetToSeq(S) \in Seq(T)
<1>1. PICK n \in Nat : ExistsBijection(1 .. n, S)
  BY FS_NatBijection
<1>2. Cardinality(S) = n
  BY <1>1, FS_CountingElements
<1>3. PICK f \in Bijection(1 .. n, S) : TRUE
  BY <1>1 DEF ExistsBijection
<1>4. f \in [1 .. Cardinality(S) -> S] /\ IsInjective(f)
  BY <1>2, <1>3 DEF Bijection, Injection, IsInjective
<1>5. SetToSeq(S) \in [1 .. Cardinality(S) -> S]
  BY <1>4 DEF SetToSeq
<1>. QED BY <1>2, <1>5

\* What a function makes of finitely many things is finite.
LEMMA FiniteImage == ASSUME NEW S, IsFiniteSet(S), NEW f, DOMAIN f = S
                     PROVE  IsFiniteSet({f[x] : x \in S})
<1> DEFINE T == {f[x] : x \in S}
<1>1. [x \in S |-> f[x]] \in Surjection(S, T)
  BY DEF Surjection
<1>. QED BY <1>1, FS_Surjection

LEMMA FinitePositions == ASSUME NEW S \in SUBSET Positions
                         PROVE  IsFiniteSet(S)
<1>1. IsFiniteSet(Positions)
  BY FS_Interval, ShopAssumption DEF Positions
<1>. QED BY <1>1, FS_Subset

LEMMA RemoveAtType == ASSUME NEW T, NEW s \in Seq(T), NEW n \in 1 .. Len(s)
                      PROVE  RemoveAt(s, n) \in Seq(T)
<1>1. SubSeq(s, 1, n - 1) \in Seq(T)
  BY SubSeqProperties, LenProperties, ElementOfSeq
<1>2. SubSeq(s, n + 1, Len(s)) \in Seq(T)
  BY SubSeqProperties, LenProperties, ElementOfSeq
<1>. QED BY <1>1, <1>2, ConcatProperties DEF RemoveAt

\* A set of natural numbers that is not empty has a least element.
LEMMA LeastNat == ASSUME NEW I \in SUBSET Nat, I # {}
                  PROVE  Min(I) \in I /\ \A n \in I : Min(I) <= n
<1>1. PICK x \in I : \A y \in I : ~(<<y, x>> \in OpToRel(<, Nat))
  BY NatLessThanWellFounded, WFMin
<1>2. \A y \in I : ~(y < x)
  <2> TAKE y \in I
  <2>1. y \in Nat /\ x \in Nat
    OBVIOUS
  <2>2. <<y, x>> \in Nat \X Nat /\ <<y, x>>[1] = y /\ <<y, x>>[2] = x
    BY <2>1
  <2>3. OpToRel(<, Nat) = {ss \in Nat \X Nat : ss[1] < ss[2]}
    BY Zenon DEF OpToRel
  <2>4. y < x => <<y, x>> \in {ss \in Nat \X Nat : ss[1] < ss[2]}
    BY <2>2
  <2>. QED BY <1>1, <2>3, <2>4, Zenon
<1>3. \A y \in I : x <= y
  BY <1>2
<1>. QED BY <1>3 DEF Min

\* The panel's index of a position is an index.
LEMMA PanelAtType == ASSUME NEW p, panel.items \in Seq(Entry), PanelAt(p) # 0
                     PROVE  PanelAt(p) \in 1 .. Len(panel.items)
<1> DEFINE I == {i \in 1 .. Len(panel.items) : panel.items[i].pos = p}
<1>1. PanelAt(p) = IF I # {} THEN Min(I) ELSE 0
  BY DEF PanelAt, SelectInSeq
<1>2. Len(panel.items) \in Nat /\ I \in SUBSET Nat
  BY LenProperties
<1>3. I # {}
  BY <1>1
<1>. QED BY <1>1, <1>2, <1>3, LeastNat

-----------------------------------------------------------------------------
\* What the DB process sends.

LEMMA MailTypes ==
    /\ Nothing \in OutMail
    /\ \A c, m : m \in Notices => To(c, m) \in OutMail /\ Notify(c, m) \in OutMail
    /\ \A f, g : f \in OutMail /\ g \in OutMail => (f ++ g) \in OutMail
<1>1. Nothing \in OutMail
  <2>1. \A T : <<>> \in Seq(T)
    OBVIOUS
  <2>2. Nothing \in [Cores -> Seq(MsgToGame)] /\ \A c \in Cores : Nothing[c] = <<>>
    BY <2>1 DEF Nothing
  <2>. QED BY <2>1, <2>2 DEF OutMail, MailToGame
<1>2. ASSUME NEW c, NEW m \in Notices
      PROVE  To(c, m) \in OutMail
  <2>1. m \in MsgToGame /\ \A k \in Cores : m \in OutMsg(k)
    BY DEF Notices, OutMsg
  <2>2. ASSUME NEW k \in Cores
        PROVE  To(c, m)[k] \in Seq(MsgToGame) /\ To(c, m)[k] \in Seq(OutMsg(k))
    <3>1. To(c, m)[k] = IF k = c THEN <<m>> ELSE <<>>
      BY DEF To
    <3>2. <<m>> \in Seq(MsgToGame) /\ <<m>> \in Seq(OutMsg(k))
      BY <2>1
    <3>. QED BY <3>1, <3>2
  <2>3. To(c, m) \in [Cores -> Seq(MsgToGame)]
    <3>1. To(c, m) = [k \in Cores |-> To(c, m)[k]]
      BY DEF To
    <3> HIDE DEF To
    <3>. QED BY <2>2, <3>1
  <2>. QED BY <2>2, <2>3 DEF OutMail, MailToGame
<1>3. ASSUME NEW c, NEW m \in Notices
      PROVE  Notify(c, m) \in OutMail
  BY <1>1, <1>2 DEF Notify
<1>4. ASSUME NEW f \in OutMail, NEW g \in OutMail
      PROVE  (f ++ g) \in OutMail
  <2>1. ASSUME NEW k \in Cores
        PROVE  f[k] \o g[k] \in Seq(MsgToGame) /\ f[k] \o g[k] \in Seq(OutMsg(k))
    <3>1. /\ f[k] \in Seq(MsgToGame) /\ g[k] \in Seq(MsgToGame)
          /\ f[k] \in Seq(OutMsg(k)) /\ g[k] \in Seq(OutMsg(k))
      BY DEF OutMail, MailToGame
    <3>. QED BY <3>1, ConcatProperties
  <2>2. (f ++ g) = [k \in Cores |-> f[k] \o g[k]]
    BY DEF ++
  <2>. QED BY <2>1, <2>2 DEF OutMail, MailToGame
<1>. QED BY <1>1, <1>2, <1>3, <1>4

LEMMA PostType == ASSUME NEW out \in OutMail, Post(out)
                  PROVE  Told
BY DEF Told

LEMMA NoPostType == UNCHANGED toGame => Told
BY DEF Told

LEMMA ToMail == ASSUME NEW c, NEW m \in MsgToGame
               PROVE  To(c, m) \in MailToGame
BY DEF To, MailToGame

LEMMA PostedMail == ASSUME toGame \in MailToGame, NEW out \in MailToGame, Post(out)
                    PROVE  toGame' \in MailToGame
BY DEF Post, MailToGame

LEMMA ToldType == ASSUME toGame \in MailToGame, Told
                  PROVE  toGame' \in MailToGame
BY PostedMail DEF Told, OutMail

LEMMA StateMsgType == \A sess \in Nat, st \in ShopStates : StateMsg(sess, st) \in Notices
BY DEF StateMsg, MsgToGame, Notices

LEMMA ToOwnerType == \A m \in Notices : ToOwner(m) \in OutMail
BY MailTypes DEF ToOwner

LEMMA TellStateType == ASSUME owner \in Session, NEW st \in ShopStates
                       PROVE  TellState(st) \in OutMail
<1>1. StateMsg(owner.sess, st) \in Notices /\ StateMsg(0, st) \in Notices
  BY StateMsgType DEF Session
<1>. QED BY <1>1, MailTypes, ToOwnerType DEF TellState

-----------------------------------------------------------------------------
\* The shop instance.

LEMMA SlotTypes ==
    /\ EmptySlot \in Slot
    /\ \A i \in Items, price \in Nat : FreshSlot(i, price) \in Slot
    /\ \A s, p : s \in [Positions -> Slot] => Clear(s, p) \in [Positions -> Slot]
BY ShopAssumption DEF Slot, EmptySlot, FreshSlot, Clear

LEMMA VanishTypes == ASSUME Vanish
                     PROVE  /\ state' \in ShopStates /\ gold' \in Nat /\ owner' \in Session
                            /\ slot' \in [Positions -> Slot]
BY SlotTypes DEF Vanish, ShopStates, Session, Detached

LEMMA AfterRemovalTypes ==
    ASSUME DBTypeOK, NEW rest \in [Positions -> Slot],
           NEW out \in OutMail, AfterRemoval(rest, out)
    PROVE  /\ state' \in ShopStates /\ gold' \in Nat /\ owner' \in Session
           /\ slot' \in [Positions -> Slot] /\ Told
<1>1. TellState("CLOSED") \in OutMail /\ (out ++ TellState("CLOSED")) \in OutMail
  BY TellStateType, MailTypes DEF DBTypeOK, ShopStates
<1>2. ToOwner([kind |-> "Close", sess |-> owner.sess]) \in OutMail
  <2>1. [kind |-> "Close", sess |-> owner.sess] \in Notices
    BY DEF DBTypeOK, Session, MsgToGame, Notices
  <2>. QED BY <2>1, ToOwnerType
<1>3. CASE ~NoItems(rest)
  BY <1>3, PostType DEF AfterRemoval, DBTypeOK
<1>4. CASE NoItems(rest) /\ gold > 0
  <2>1. state' = "CLOSED" /\ Post(out ++ TellState("CLOSED")) /\ slot' = rest
        /\ UNCHANGED <<owner, gold>>
    BY <1>4 DEF AfterRemoval, DBTypeOK
  <2>. QED BY <2>1, <1>1, PostType DEF DBTypeOK, ShopStates
<1>5. CASE NoItems(rest) /\ gold = 0
  <2>1. Vanish /\ UNCHANGED gold
        /\ Post(out ++ TellState("CLOSED") ++ ToOwner([kind |-> "Close", sess |-> owner.sess]))
    BY <1>5 DEF AfterRemoval, DBTypeOK
  <2>. QED BY <2>1, <1>1, <1>2, MailTypes, PostType, VanishTypes
<1>. QED BY <1>3, <1>4, <1>5 DEF DBTypeOK

-----------------------------------------------------------------------------
\* The handlers of the DB process.

\* What a handler of the DB process owes: its variables typed, and no packets but
\* notices and cancellations of overdue holds.
DBHandlerGoal == DBTypeOK' /\ Told

LEMMA DBMsgFields ==
    ASSUME NEW m \in MsgToDB
    PROVE  /\ m.kind \in {"BuyRequest", "Buy", "FailedBuy", "Price", "Move", "CheckinRequest",
                          "CheckinUpdate", "CheckoutRequest", "CheckoutUpdate", "ItemExpire"}
                => m.pos \in Positions
           /\ m.kind \in {"Buy", "ItemSave", "CheckinRequest", "CheckinUpdate", "CheckoutUpdate",
                          "ItemTransfer"} => m.item \in Items
           /\ m.kind \in {"BuyRequest", "Buy", "Price", "CheckinRequest", "CheckinUpdate"}
                => m.price \in Nat
           /\ m.kind \in {"Modify", "Close", "WithdrawRequest", "Logout", "Price", "Move",
                          "CheckinRequest", "CheckoutRequest"} => m.sess \in Nat
           /\ m.kind = "BuyRequest" => m.cust \in Customers
           /\ m.kind = "Move" => m.dst \in Positions
           /\ m.kind = "ItemSave" => m.who \in Chars
           /\ m.kind = "WithdrawDone" => m.gold \in Nat
BY DEF MsgToDB

LEMMA RefusedTypes == ASSUME DBTypeOK, Refused
                      PROVE  DBHandlerGoal
BY NoPostType DEF Refused, dbVars, DBTypeOK, DBHandlerGoal

\* An update of one position.
LEMMA SlotUpdate == ASSUME DBTypeOK, NEW p \in Positions, NEW r \in Slot
                    PROVE  [slot EXCEPT ![p] = r] \in [Positions -> Slot]
BY DEF DBTypeOK

LEMMA PrivateShopBuyRequestTypes ==
    ASSUME DBTypeOK, toGame \in MailToGame, NEW c \in Cores, NEW m \in MsgToDB,
           PrivateShopBuyRequest(c, m)
    PROVE  DBTypeOK' /\ toGame' \in MailToGame
<1> DEFINE r == [slot[m.pos] EXCEPT !.avail = FALSE, !.token = reservation', !.buyer = c,
                                    !.due = FALSE]
           offer == [kind |-> "BuyRequest", cust |-> m.cust, pos |-> m.pos,
                     item |-> slot[m.pos].item, price |-> slot[m.pos].price,
                     token |-> reservation']
<1>1. CASE Refused
  BY <1>1 DEF Refused, dbVars, DBTypeOK
<1>2. CASE Sellable(m)
  <2>1. m.pos \in Positions /\ m.cust \in Customers
    BY DBMsgFields DEF PrivateShopBuyRequest
  <2>2. reservation' \in Nat
    BY <1>2 DEF PrivateShopBuyRequest, NextToken, DBTypeOK
  <2>3. slot[m.pos] \in Slot /\ slot[m.pos].item # NoItem
    BY <1>2, <2>1 DEF DBTypeOK, Sellable
  <2>4. r \in Slot
    BY <2>2, <2>3 DEF Slot
  <2>5. slot' = [slot EXCEPT ![m.pos] = r]
    BY <1>2, <2>1 DEF PrivateShopBuyRequest
  <2>6. slot' \in [Positions -> Slot]
    BY <2>1, <2>4, <2>5, SlotUpdate
  <2>7. offer \in MsgToGame
    BY <2>1, <2>2, <2>3 DEF MsgToGame, Slot
  <2>8. toGame' \in MailToGame
    BY <1>2, <2>7, ToMail, PostedMail DEF PrivateShopBuyRequest
  <2>. QED BY <1>2, <2>2, <2>6, <2>8 DEF PrivateShopBuyRequest, DBTypeOK
<1>. QED BY <1>1, <1>2 DEF PrivateShopBuyRequest

LEMMA SaleNoticeType == ASSUME DBTypeOK, NEW c \in Cores, NEW m \in MsgToDB, m.kind = "Buy"
                        PROVE  SaleNotice(c, m) \in OutMail
<1>1. m.pos \in Positions /\ m.price \in Nat
  BY DBMsgFields
<1>2. [kind |-> "Sale", sess |-> owner.sess, pos |-> m.pos, price |-> m.price] \in Notices
  BY <1>1 DEF MsgToGame, Notices, DBTypeOK, Session
<1>3. [kind |-> "RemoveItem", pos |-> m.pos] \in Notices
  BY <1>1 DEF MsgToGame, Notices
<1>. QED BY <1>2, <1>3, MailTypes, ToOwnerType DEF SaleNotice

LEMMA PrivateShopBuyTypes ==
    ASSUME DBTypeOK, NEW c \in Cores, NEW m \in MsgToDB,
           PrivateShopBuy(c, m)
    PROVE  DBHandlerGoal
<1>1. CASE Refused
  BY <1>1, RefusedTypes
<1>2. CASE Holds(c, m)
  <2>1. m.kind = "Buy" /\ m.pos \in Positions /\ SaleNotice(c, m) \in OutMail
    BY DBMsgFields, SaleNoticeType DEF PrivateShopBuy
  <2>2. gold' \in Nat /\ slot' \in [Positions -> Slot]
    <3>1. slot[m.pos] \in Slot
      BY <2>1 DEF DBTypeOK
    <3>2. slot[m.pos].price \in Nat
      BY <3>1 DEF Slot
    <3>3. gold' = gold + slot[m.pos].price /\ slot' = Clear(slot, m.pos)
      BY <1>2, <2>1 DEF PrivateShopBuy
    <3>. QED BY <3>2, <3>3, SlotTypes DEF DBTypeOK
  <2>3. (SaleNotice(c, m) ++ TellState("CLOSED")) \in OutMail
    BY <2>1, TellStateType, MailTypes DEF DBTypeOK, ShopStates
  <2>4. state' \in ShopStates /\ Told
    BY <1>2, <2>1, <2>3, PostType DEF PrivateShopBuy, DBTypeOK, ShopStates
  <2>. QED BY <1>2, <2>2, <2>4 DEF PrivateShopBuy, DBTypeOK, DBHandlerGoal
<1>. QED BY <1>1, <1>2 DEF PrivateShopBuy

LEMMA PrivateShopFailedBuyTypes ==
    ASSUME DBTypeOK, NEW c \in Cores, NEW m \in MsgToDB,
           PrivateShopFailedBuy(c, m)
    PROVE  DBHandlerGoal
<1>1. CASE Refused
  BY <1>1, RefusedTypes
<1>2. CASE Answers(m)
  <2>1. m.pos \in Positions
    BY DBMsgFields DEF PrivateShopFailedBuy
  <2>2. slot[m.pos] \in Slot
    BY <2>1 DEF DBTypeOK
  <2>3. [slot[m.pos] EXCEPT !.avail = TRUE, !.due = FALSE] \in Slot
    BY <2>2 DEF Slot
  <2>4. slot' \in [Positions -> Slot]
    BY <1>2, <2>1, <2>3, SlotUpdate DEF PrivateShopFailedBuy
  <2>. QED BY <1>2, <2>4, NoPostType DEF PrivateShopFailedBuy, DBTypeOK, DBHandlerGoal
<1>. QED BY <1>1, <1>2 DEF PrivateShopFailedBuy

LEMMA QueryItemSaveTypes ==
    ASSUME DBTypeOK, NEW c \in Cores, NEW m \in MsgToDB,
           QueryItemSave(c, m)
    PROVE  DBHandlerGoal
<1>1. m.item \in Items /\ m.who \in Chars
  BY DBMsgFields DEF QueryItemSave
<1>. QED BY <1>1, NoPostType DEF QueryItemSave, DBTypeOK, DBHandlerGoal

LEMMA PrivateShopModifyRequestTypes ==
    ASSUME DBTypeOK, NEW c \in Cores, NEW m \in MsgToDB,
           PrivateShopModifyRequest(c, m)
    PROVE  DBHandlerGoal
<1>1. CASE Refused
  BY <1>1, RefusedTypes
<1>2. CASE MayModify
  <2>1. m.sess \in Nat
    BY DBMsgFields DEF PrivateShopModifyRequest
  <2>2. state' \in ShopStates
    BY <1>2 DEF PrivateShopModifyRequest, DBTypeOK, ShopStates
  <2>3. Post(To(c, StateMsg(m.sess, state')) ++
             (IF c = Host THEN Nothing ELSE To(Host, StateMsg(0, state'))))
    BY <1>2 DEF PrivateShopModifyRequest
  <2>4. StateMsg(m.sess, state') \in Notices /\ StateMsg(0, state') \in Notices
    BY <2>1, <2>2, StateMsgType
  <2>5. Told
    BY <2>3, <2>4, MailTypes, PostType
  <2>. QED BY <1>2, <2>2, <2>5 DEF PrivateShopModifyRequest, DBTypeOK, DBHandlerGoal
<1>. QED BY <1>1, <1>2 DEF PrivateShopModifyRequest

LEMMA EchoType ==
    ASSUME NEW c \in Cores, NEW m \in MsgToDB,
           m.kind \in {"Price", "Move"}, Echo(c, m)
    PROVE  Told
<1>1. m \in Notices /\ [m EXCEPT !.sess = 0] \in Notices
  BY DEF MsgToDB, MsgToGame, Notices
<1>. QED BY <1>1, MailTypes, PostType DEF Echo

LEMMA PrivateShopItemPriceChangeRequestTypes ==
    ASSUME DBTypeOK, NEW c \in Cores, NEW m \in MsgToDB,
           PrivateShopItemPriceChangeRequest(c, m)
    PROVE  DBHandlerGoal
<1>1. CASE Refused
  BY <1>1, RefusedTypes
<1>2. CASE ~Refused
  <2>1. m.kind = "Price" /\ m.pos \in Positions /\ m.price \in Nat
    BY DBMsgFields DEF PrivateShopItemPriceChangeRequest
  <2>2. [slot[m.pos] EXCEPT !.price = m.price] \in Slot
    <3>1. slot[m.pos] \in Slot
      BY <2>1 DEF DBTypeOK
    <3>. QED BY <2>1, <3>1 DEF Slot
  <2>3. slot' \in [Positions -> Slot]
    BY <1>2, <2>1, <2>2, SlotUpdate DEF PrivateShopItemPriceChangeRequest
  <2>4. Told
    BY <1>2, <2>1, EchoType DEF PrivateShopItemPriceChangeRequest
  <2>. QED BY <1>2, <2>3, <2>4 DEF PrivateShopItemPriceChangeRequest, DBTypeOK, DBHandlerGoal
<1>. QED BY <1>1, <1>2

LEMMA PrivateShopItemMoveRequestTypes ==
    ASSUME DBTypeOK, NEW c \in Cores, NEW m \in MsgToDB,
           PrivateShopItemMoveRequest(c, m)
    PROVE  DBHandlerGoal
<1>1. CASE Refused
  BY <1>1, RefusedTypes
<1>2. CASE ~Refused
  <2>1. m.kind = "Move" /\ m.pos \in Positions /\ m.dst \in Positions
    BY DBMsgFields DEF PrivateShopItemMoveRequest
  <2>2. slot' = [Clear(slot, m.pos) EXCEPT ![m.dst] = slot[m.pos]]
    BY <1>2 DEF PrivateShopItemMoveRequest
  <2>3. slot' \in [Positions -> Slot]
    BY <2>1, <2>2, SlotTypes DEF DBTypeOK
  <2>4. Told
    BY <1>2, <2>1, EchoType DEF PrivateShopItemMoveRequest
  <2>. QED BY <1>2, <2>3, <2>4 DEF PrivateShopItemMoveRequest, DBTypeOK, DBHandlerGoal
<1>. QED BY <1>1, <1>2

LEMMA BlankForType == ASSUME DBTypeOK, Free # {}, NEW p
                      PROVE  BlankFor(p) \in Positions
<1>1. Free \in SUBSET Nat /\ Free \subseteq Positions
  BY ShopAssumption DEF Free, Positions
<1>2. \E q \in Free : \A r \in Free : q <= r
  BY <1>1, LeastNat
<1>. QED BY <1>1, <1>2 DEF BlankFor

LEMMA PrivateShopItemCheckinRequestTypes ==
    ASSUME DBTypeOK, NEW c \in Cores, NEW m \in MsgToDB,
           PrivateShopItemCheckinRequest(c, m)
    PROVE  DBHandlerGoal
<1>1. CASE Free # {} /\ Post(To(c, [m EXCEPT !.kind = "Checkin", !.pos = BlankFor(m.pos)]))
  <2>1. BlankFor(m.pos) \in Positions
    BY <1>1, BlankForType
  <2>2. [m EXCEPT !.kind = "Checkin", !.pos = BlankFor(m.pos)] \in Notices
    BY <2>1 DEF PrivateShopItemCheckinRequest, MsgToDB, MsgToGame, Notices
  <2>3. Told
    BY <1>1, <2>2, MailTypes, PostType
  <2>. QED BY <2>3 DEF PrivateShopItemCheckinRequest, dbVars, DBTypeOK, DBHandlerGoal
<1>2. CASE NoPost
  BY <1>2, NoPostType DEF PrivateShopItemCheckinRequest, NoPost, dbVars, DBTypeOK, DBHandlerGoal
<1>. QED BY <1>1, <1>2 DEF PrivateShopItemCheckinRequest

LEMMA PrivateShopItemCheckinUpdateTypes ==
    ASSUME DBTypeOK, NEW c \in Cores, NEW m \in MsgToDB,
           PrivateShopItemCheckinUpdate(c, m)
    PROVE  DBHandlerGoal
<1>1. CASE Refused
  BY <1>1, RefusedTypes
<1>2. CASE ~Refused
  <2>1. m.pos \in Positions /\ m.item \in Items /\ m.price \in Nat
    BY DBMsgFields DEF PrivateShopItemCheckinUpdate
  <2>2. slot' \in [Positions -> Slot]
    BY <1>2, <2>1, SlotTypes, SlotUpdate DEF PrivateShopItemCheckinUpdate
  <2>3. [kind |-> "AddItem", pos |-> m.pos, item |-> m.item, price |-> m.price] \in Notices
    BY <2>1 DEF MsgToGame, Notices
  <2>4. Told
    BY <1>2, <2>3, MailTypes, PostType DEF PrivateShopItemCheckinUpdate
  <2>5. row' \in [Items -> Chars \cup {NoItem}]
    BY <1>2, <2>1 DEF PrivateShopItemCheckinUpdate, DBTypeOK
  <2>. QED BY <1>2, <2>2, <2>4, <2>5 DEF PrivateShopItemCheckinUpdate, DBTypeOK, DBHandlerGoal
<1>. QED BY <1>1, <1>2

LEMMA PrivateShopItemCheckoutRequestTypes ==
    ASSUME DBTypeOK, NEW c \in Cores, NEW m \in MsgToDB,
           PrivateShopItemCheckoutRequest(c, m)
    PROVE  DBHandlerGoal
<1>1. [kind |-> "Checkout", sess |-> m.sess, pos |-> m.pos] \in Notices
  BY DBMsgFields DEF PrivateShopItemCheckoutRequest, MsgToGame, Notices
<1>2. Told
  BY <1>1, MailTypes, PostType, NoPostType DEF PrivateShopItemCheckoutRequest, NoPost
<1>. QED BY <1>2 DEF PrivateShopItemCheckoutRequest, dbVars, DBTypeOK, DBHandlerGoal

LEMMA ReturnRowType == ASSUME DBTypeOK, NEW i \in Items, ReturnRow(i)
                       PROVE  row' \in [Items -> Chars \cup {NoItem}]
BY DEF ReturnRow, DBTypeOK, Chars

LEMMA PrivateShopItemCheckoutUpdateTypes ==
    ASSUME DBTypeOK, NEW c \in Cores, NEW m \in MsgToDB,
           PrivateShopItemCheckoutUpdate(c, m)
    PROVE  DBHandlerGoal
<1>1. CASE Refused
  BY <1>1, RefusedTypes
<1>2. CASE ~Refused
  <2>1. m.pos \in Positions /\ m.item \in Items
    BY DBMsgFields DEF PrivateShopItemCheckoutUpdate
  <2>2. Notify(Host, [kind |-> "RemoveItem", pos |-> m.pos]) \in OutMail
    BY <2>1, MailTypes DEF MsgToGame, Notices
  <2>3. Clear(slot, m.pos) \in [Positions -> Slot]
    BY SlotTypes DEF DBTypeOK
  <2>4. /\ state' \in ShopStates /\ gold' \in Nat /\ owner' \in Session
        /\ slot' \in [Positions -> Slot] /\ Told
    BY <1>2, <2>2, <2>3, AfterRemovalTypes DEF PrivateShopItemCheckoutUpdate
  <2>5. row' \in [Items -> Chars \cup {NoItem}]
    BY <1>2, <2>1, ReturnRowType DEF PrivateShopItemCheckoutUpdate
  <2>. QED BY <1>2, <2>4, <2>5 DEF PrivateShopItemCheckoutUpdate, DBTypeOK, DBHandlerGoal
<1>. QED BY <1>1, <1>2

LEMMA PrivateShopItemExpireTypes ==
    ASSUME DBTypeOK, NEW c \in Cores, NEW m \in MsgToDB,
           PrivateShopItemExpire(c, m)
    PROVE  DBHandlerGoal
<1>1. CASE Refused
  BY <1>1, RefusedTypes
<1>2. CASE ~Refused
  <2>1. m.pos \in Positions
    BY DBMsgFields DEF PrivateShopItemExpire
  <2>2. [kind |-> "ItemExpire", sess |-> owner.sess, pos |-> m.pos] \in Notices
    BY <2>1 DEF MsgToGame, Notices, DBTypeOK, Session
  <2>3. ToOwner([kind |-> "ItemExpire", sess |-> owner.sess, pos |-> m.pos]) \in OutMail
    BY <2>2, ToOwnerType
  <2>4. Clear(slot, m.pos) \in [Positions -> Slot]
    BY SlotTypes DEF DBTypeOK
  <2>5. /\ state' \in ShopStates /\ gold' \in Nat /\ owner' \in Session
        /\ slot' \in [Positions -> Slot] /\ Told
    BY <1>2, <2>3, <2>4, AfterRemovalTypes DEF PrivateShopItemExpire
  <2>. QED BY <1>2, <2>5 DEF PrivateShopItemExpire, DBTypeOK, DBHandlerGoal
<1>. QED BY <1>1, <1>2

LEMMA PrivateShopWithdrawRequestTypes ==
    ASSUME DBTypeOK, NEW c \in Cores, NEW m \in MsgToDB,
           PrivateShopWithdrawRequest(c, m)
    PROVE  DBHandlerGoal
<1>1. [kind |-> "Withdraw", sess |-> m.sess, gold |-> gold] \in Notices
  BY DBMsgFields DEF PrivateShopWithdrawRequest, MsgToGame, Notices, DBTypeOK
<1>2. Told
  BY <1>1, MailTypes, PostType, NoPostType DEF PrivateShopWithdrawRequest, NoPost
<1>. QED BY <1>2 DEF PrivateShopWithdrawRequest, dbVars, DBTypeOK, DBHandlerGoal

LEMMA CloseMsgType == ASSUME DBTypeOK
                      PROVE  ToOwner([kind |-> "Close", sess |-> owner.sess]) \in OutMail
<1>1. [kind |-> "Close", sess |-> owner.sess] \in Notices
  BY DEF DBTypeOK, Session, MsgToGame, Notices
<1>. QED BY <1>1, ToOwnerType

LEMMA PrivateShopWithdrawTypes ==
    ASSUME DBTypeOK, NEW c \in Cores, NEW m \in MsgToDB,
           PrivateShopWithdraw(c, m)
    PROVE  DBHandlerGoal
<1>1. CASE Refused
  BY <1>1, RefusedTypes
<1>2. CASE m.gold <= gold /\ gold' = Rest(m) /\ NoPost /\ UNCHANGED <<state, slot, owner>>
  <2>1. gold' \in Nat
    BY <1>2, DBMsgFields DEF PrivateShopWithdraw, Rest, DBTypeOK
  <2>. QED BY <1>2, <2>1, NoPostType
           DEF PrivateShopWithdraw, NoPost, DBTypeOK, DBHandlerGoal, Refused, dbVars
<1>3. CASE Vanish /\ Post(ToOwner([kind |-> "Close", sess |-> owner.sess]))
  <2>1. Told
    BY <1>3, CloseMsgType, PostType
  <2>. QED BY <1>3, <2>1, VanishTypes DEF PrivateShopWithdraw, DBTypeOK, DBHandlerGoal, Refused,
                                          dbVars
<1>. QED BY <1>1, <1>2, <1>3 DEF PrivateShopWithdraw

LEMMA PrivateShopCloseTypes ==
    ASSUME DBTypeOK, NEW c \in Cores, NEW m \in MsgToDB,
           PrivateShopClose(c, m)
    PROVE  DBHandlerGoal
<1>1. [kind |-> "Destroy", sess |-> m.sess] \in Notices
  BY DBMsgFields DEF PrivateShopClose, MsgToGame, Notices
<1>2. Told
  BY <1>1, MailTypes, PostType, NoPostType DEF PrivateShopClose, NoPost
<1>. QED BY <1>2 DEF PrivateShopClose, dbVars, DBTypeOK, DBHandlerGoal

LEMMA PrivateShopItemTransferTypes ==
    ASSUME DBTypeOK, NEW c \in Cores, NEW m \in MsgToDB,
           PrivateShopItemTransfer(c, m)
    PROVE  DBHandlerGoal
<1>1. CASE Refused
  BY <1>1, RefusedTypes
<1>2. CASE ~Refused
  <2>1. m.item \in Items
    BY DBMsgFields DEF PrivateShopItemTransfer
  <2>2. slot' \in [Positions -> Slot]
    BY <1>2, SlotTypes DEF PrivateShopItemTransfer, DBTypeOK
  <2>3. row' \in [Items -> Chars \cup {NoItem}]
    BY <1>2, <2>1, ReturnRowType DEF PrivateShopItemTransfer
  <2>. QED BY <1>2, <2>2, <2>3, NoPostType DEF PrivateShopItemTransfer, DBTypeOK, DBHandlerGoal
<1>. QED BY <1>1, <1>2

LEMMA PrivateShopDeleteTypes ==
    ASSUME DBTypeOK, NEW c \in Cores, NEW m \in MsgToDB,
           PrivateShopDelete(c, m)
    PROVE  DBHandlerGoal
BY VanishTypes, NoPostType DEF PrivateShopDelete, DBTypeOK, DBHandlerGoal

LEMMA LogoutTypes ==
    ASSUME DBTypeOK, NEW c \in Cores, NEW m \in MsgToDB,
           PrivateShopLogout(c, m) \/ AccountLogout(c, m)
    PROVE  DBHandlerGoal
BY NoPostType DEF PrivateShopLogout, AccountLogout, Detached, Session, DBTypeOK, DBHandlerGoal

-----------------------------------------------------------------------------
\* The DB process on its own: the update, a query's result, a lost peer.

LEMMA UpdatedSlotType == ASSUME DBTypeOK
                         PROVE  UpdatedSlot \in [Positions -> Slot]
<1>1. ASSUME NEW p \in Positions
      PROVE  /\ slot[p] \in Slot /\ [slot[p] EXCEPT !.due = FALSE] \in Slot
             /\ [slot[p] EXCEPT !.avail = TRUE] \in Slot
  <2>1. slot[p] \in Slot
    BY DEF DBTypeOK
  <2>. QED BY <2>1 DEF Slot
<1>. QED BY <1>1 DEF UpdatedSlot

LEMMA CancelsType == ASSUME DBTypeOK
                     PROVE  Cancels \in OutMail
<1> SUFFICES ASSUME NEW c \in Cores
             PROVE  Cancels[c] \in Seq(MsgToGame) /\ Cancels[c] \in Seq(OutMsg(c))
  BY DEF Cancels, OutMail, MailToGame
<1> DEFINE due == {q \in Overdue : slot[q].buyer = c /\ c \in peers}
           cancel == [p \in due |-> [kind |-> "Cancel", pos |-> p, token |-> slot[p].token]]
<1>1. due \subseteq Positions
  BY DEF Overdue, Reserved, Occupied
<1>2. \A p \in due : cancel[p] \in MsgToGame /\ cancel[p] \in CancelsFor(c)
  <2> TAKE p \in due
  <2>1. p \in Positions /\ slot[p] \in Slot
    BY <1>1 DEF DBTypeOK
  <2>2. slot[p].token \in Nat
    BY <2>1 DEF Slot
  <2>. QED BY <2>1, <2>2 DEF MsgToGame, CancelsFor
<1>3. IsFiniteSet({cancel[p] : p \in due})
  <2>1. IsFiniteSet(due) /\ DOMAIN cancel = due
    BY <1>1, FinitePositions
  <2> HIDE DEF cancel
  <2>. QED BY <2>1, FiniteImage, Zenon
<1>4. {cancel[p] : p \in due} =
        {[kind |-> "Cancel", pos |-> p, token |-> slot[p].token] : p \in due}
  OBVIOUS
<1>5. Cancels[c] = SetToSeq({cancel[p] : p \in due})
  BY <1>4 DEF Cancels
<1> HIDE DEF cancel, due
<1>6. {cancel[p] : p \in due} \subseteq MsgToGame
      /\ {cancel[p] : p \in due} \subseteq OutMsg(c)
  BY <1>2 DEF OutMsg
<1>. QED BY <1>3, <1>5, <1>6, SeqOfSet

LEMMA ListingType == ASSUME NEW s \in [Positions -> Slot]
                     PROVE  Listing(s) \in Seq(Entry)
<1> DEFINE entry == [p \in Occupied(s) |-> [pos |-> p, item |-> s[p].item, price |-> s[p].price]]
<1>1. Occupied(s) \subseteq Positions
  BY DEF Occupied
<1>2. \A p \in Occupied(s) : entry[p] \in Entry
  <2> TAKE p \in Occupied(s)
  <2>1. p \in Positions /\ s[p] \in Slot /\ s[p].item # NoItem
    BY <1>1 DEF Occupied
  <2>. QED BY <2>1 DEF Slot, Entry
<1>3. IsFiniteSet({entry[p] : p \in Occupied(s)})
  <2>1. IsFiniteSet(Occupied(s)) /\ DOMAIN entry = Occupied(s)
    BY <1>1, FinitePositions
  <2> HIDE DEF entry
  <2>. QED BY <2>1, FiniteImage, Zenon
<1>4. SetToSeq({entry[p] : p \in Occupied(s)}) \in Seq(Entry)
  BY <1>2, <1>3, SeqOfSet
<1>5. {entry[p] : p \in Occupied(s)} =
        {[pos |-> p, item |-> s[p].item, price |-> s[p].price] : p \in Occupied(s)}
  OBVIOUS
<1>. QED BY <1>4, <1>5 DEF Listing

LEMMA StallOfSlots == ASSUME NEW s \in [Positions -> Slot]
                      PROVE  Stall(s) \in StallType
<1>1. \A p \in Positions : s[p] \in Slot
  OBVIOUS
<1>. QED BY <1>1 DEF Stall, StallType, Slot

LEMMA UpdateTypes == ASSUME DBTypeOK
                     PROVE  UpdateOut \in OutMail /\ UpdatedState \in ShopStates
<1>1. TellState("RECOVERY") \in OutMail
  BY TellStateType DEF DBTypeOK, ShopStates
<1>2. UpdateOut \in OutMail
  BY <1>1, CancelsType, CloseMsgType, MailTypes DEF UpdateOut
<1>3. UpdatedState \in ShopStates
  BY DEF UpdatedState, DBTypeOK, ShopStates
<1>. QED BY <1>2, <1>3

LEMMA UpdatePrivateShopPremiumEventTypes ==
    ASSUME DBTypeOK, UpdatePrivateShopPremiumEvent
    PROVE  DBHandlerGoal
<1>1. Told
  BY UpdateTypes, PostType DEF UpdatePrivateShopPremiumEvent
<1>2. /\ state' \in ShopStates /\ gold' \in Nat /\ owner' \in Session
      /\ slot' \in [Positions -> Slot]
  BY VanishTypes, UpdateTypes, UpdatedSlotType DEF UpdatePrivateShopPremiumEvent, DBTypeOK
<1>. QED BY <1>1, <1>2 DEF UpdatePrivateShopPremiumEvent, DBTypeOK, DBHandlerGoal

LEMMA ResultPrivateShopLoadTypes ==
    ASSUME DBTypeOK, RESULT_PRIVATE_SHOP_LOAD
    PROVE  DBHandlerGoal
<1> DEFINE q == Head(loads)
           load == [kind |-> "Load", sess |-> q.sess, state |-> LoadState, gold |-> gold,
                    items |-> Listing(UpdatedSlot)]
           spawn == [kind |-> "Spawn", state |-> LoadState, stall |-> Stall(UpdatedSlot)]
           again == IF Restored THEN Notify(Host, spawn) ELSE Nothing
<1>1. q \in Session /\ loads' \in Seq(Session)
  BY DEF RESULT_PRIVATE_SHOP_LOAD, DBTypeOK
<1>2. LoadState \in ShopStates
  BY UpdateTypes DEF LoadState, ShopStates
<1>3. load \in Notices
  BY <1>1, <1>2, ListingType, UpdatedSlotType DEF MsgToGame, Notices, Session, DBTypeOK
<1>4. spawn \in Notices
  BY <1>2, StallOfSlots, UpdatedSlotType DEF MsgToGame, Notices
<1>5. again \in OutMail
  BY <1>4, MailTypes
<1>6. (UpdateOut ++ To(q.core, load) ++ again) \in OutMail
  <2>1. To(q.core, load) \in OutMail
    BY <1>3, MailTypes
  <2>2. (UpdateOut ++ To(q.core, load)) \in OutMail
    BY <2>1, UpdateTypes, MailTypes
  <2>. QED BY <2>2, <1>5, MailTypes
<1>7. CASE UNCHANGED <<state, gold, slot, owner, toGame>>
  BY <1>1, <1>7, NoPostType DEF RESULT_PRIVATE_SHOP_LOAD, DBTypeOK, DBHandlerGoal
<1>8. CASE Post(UpdateOut) /\ (Vanish \/ UNCHANGED <<state, gold, slot, owner>>)
  <2>1. Told
    BY <1>8, UpdateTypes, PostType
  <2>2. /\ state' \in ShopStates /\ gold' \in Nat /\ owner' \in Session
        /\ slot' \in [Positions -> Slot]
    BY <1>8, VanishTypes DEF DBTypeOK
  <2>. QED BY <1>1, <2>1, <2>2 DEF RESULT_PRIVATE_SHOP_LOAD, DBTypeOK, DBHandlerGoal
<1>9. CASE /\ owner' = q /\ slot' = UpdatedSlot /\ state' = LoadState /\ gold' = gold
           /\ Post(UpdateOut ++ To(q.core, load) ++ again)
  <2>1. Told
    BY <1>6, <1>9, PostType
  <2>2. /\ state' \in ShopStates /\ gold' \in Nat /\ owner' \in Session
        /\ slot' \in [Positions -> Slot]
    BY <1>1, <1>2, <1>9, UpdatedSlotType DEF DBTypeOK
  <2>. QED BY <1>1, <2>1, <2>2 DEF RESULT_PRIVATE_SHOP_LOAD, DBTypeOK, DBHandlerGoal
<1>. QED BY <1>7, <1>8, <1>9 DEF RESULT_PRIVATE_SHOP_LOAD

LEMMA RemovePeerTypes ==
    ASSUME DBTypeOK, NEW c \in Cores, RemovePeer(c)
    PROVE  DBHandlerGoal
BY NoPostType DEF RemovePeer, DBTypeOK, DBHandlerGoal, ShopStates, Session, Detached

LEMMA ProcessTells ==
    ASSUME DBTypeOK, toDB \in MailToDB, NEW c \in Cores, Process(c)
    PROVE  PrivateShopBuyRequest(c, Head(toDB[c])) \/ DBHandlerGoal
<1> DEFINE m == Head(toDB[c])
<1>1. m \in MsgToDB
  BY DEF Process, MailToDB
<1>2. CASE PrivateShopBuyRequest(c, m)
  BY <1>2
<1>3. CASE PrivateShopBuy(c, m)
  BY <1>1, <1>3, PrivateShopBuyTypes
<1>4. CASE PrivateShopFailedBuy(c, m)
  BY <1>1, <1>4, PrivateShopFailedBuyTypes
<1>5. CASE QueryItemSave(c, m)
  BY <1>1, <1>5, QueryItemSaveTypes
<1>6. CASE PrivateShopModifyRequest(c, m)
  BY <1>1, <1>6, PrivateShopModifyRequestTypes
<1>7. CASE PrivateShopItemPriceChangeRequest(c, m)
  BY <1>1, <1>7, PrivateShopItemPriceChangeRequestTypes
<1>8. CASE PrivateShopItemMoveRequest(c, m)
  BY <1>1, <1>8, PrivateShopItemMoveRequestTypes
<1>9. CASE PrivateShopItemCheckinRequest(c, m)
  BY <1>1, <1>9, PrivateShopItemCheckinRequestTypes
<1>10. CASE PrivateShopItemCheckinUpdate(c, m)
  BY <1>1, <1>10, PrivateShopItemCheckinUpdateTypes
<1>11. CASE PrivateShopItemCheckoutRequest(c, m)
  BY <1>1, <1>11, PrivateShopItemCheckoutRequestTypes
<1>12. CASE PrivateShopItemCheckoutUpdate(c, m)
  BY <1>1, <1>12, PrivateShopItemCheckoutUpdateTypes
<1>13. CASE PrivateShopItemExpire(c, m)
  BY <1>1, <1>13, PrivateShopItemExpireTypes
<1>14. CASE PrivateShopWithdrawRequest(c, m)
  BY <1>1, <1>14, PrivateShopWithdrawRequestTypes
<1>15. CASE PrivateShopWithdraw(c, m)
  BY <1>1, <1>15, PrivateShopWithdrawTypes
<1>16. CASE PrivateShopClose(c, m)
  BY <1>1, <1>16, PrivateShopCloseTypes
<1>17. CASE PrivateShopItemTransfer(c, m)
  BY <1>1, <1>17, PrivateShopItemTransferTypes
<1>18. CASE PrivateShopDelete(c, m)
  BY <1>1, <1>18, PrivateShopDeleteTypes
<1>19. CASE PrivateShopLogout(c, m) \/ AccountLogout(c, m)
  BY <1>1, <1>19, LogoutTypes
<1>. QED BY <1>1, <1>2, <1>3, <1>4, <1>5, <1>6, <1>7, <1>8, <1>9, <1>10, <1>11, <1>12, <1>13,
            <1>14, <1>15, <1>16, <1>17, <1>18, <1>19, Zenon DEF Process

LEMMA ProcessTypes ==
    ASSUME DBTypeOK, toGame \in MailToGame, toDB \in MailToDB, NEW c \in Cores, Process(c)
    PROVE  DBTypeOK' /\ toGame' \in MailToGame /\ toDB' \in MailToDB
<1>1. Head(toDB[c]) \in MsgToDB /\ toDB' \in MailToDB
  BY DEF Process, MailToDB
<1>. QED BY <1>1, ProcessTells, ToldType, PrivateShopBuyRequestTypes DEF DBHandlerGoal

-----------------------------------------------------------------------------
\* The handlers of the game cores.

\* What a handler of a core owes: its variables typed, and no packets but reports.
GameHandlerGoal == GameTypeOK' /\ Said

PanelType == [loaded : BOOLEAN, state : ShopStates, gold : Nat, items : Seq(Entry)]
HostType == [up : BOOLEAN, state : ShopStates, items : StallType]

LEMMA SendType == ASSUME NEW c, NEW ms \in Seq(Reports), Send(c, ms)
                  PROVE  Said
BY DEF Said

LEMMA NoSendType == NoSend => Said
BY DEF Said

LEMMA SentType == ASSUME toDB \in MailToDB, NEW c, NEW ms \in Seq(MsgToDB), Send(c, ms)
                  PROVE  toDB' \in MailToDB
<1>1. ASSUME NEW k \in Cores
      PROVE  toDB[k] \o ms \in Seq(MsgToDB) /\ toDB[k] \in Seq(MsgToDB)
  BY DEF MailToDB
<1>2. toDB' = [k \in Cores |-> IF k = c THEN toDB[k] \o ms ELSE toDB[k]]
  BY DEF Send, MailToDB
<1>. QED BY <1>1, <1>2 DEF MailToDB

LEMMA SaidType == ASSUME toDB \in MailToDB, Said
                  PROVE  toDB' \in MailToDB
<1>1. \A ms \in Seq(Reports) : ms \in Seq(MsgToDB)
  BY DEF Reports
<1>. QED BY <1>1, SentType DEF Said, NoSend

LEMMA GameMsgFields ==
    ASSUME NEW m \in MsgToGame
    PROVE  /\ m.kind \in {"BuyRequest", "Cancel", "RemoveItem", "AddItem", "Price", "Move", "Sale",
                          "ItemExpire", "Checkout", "Checkin"} => m.pos \in Positions
           /\ m.kind \in {"BuyRequest", "AddItem", "Checkin"} => m.item \in Items
           /\ m.kind \in {"BuyRequest", "AddItem", "Price", "Sale", "Checkin"} => m.price \in Nat
           /\ m.kind \in {"BuyRequest", "Cancel"} => m.token \in Nat
           /\ m.kind \in {"Load", "Close", "Destroy", "Withdraw"} => m.sess \in Nat
           /\ m.kind \in {"State", "Spawn", "Load"} => m.state \in ShopStates
           /\ m.kind \in {"Load", "Withdraw"} => m.gold \in Nat
           /\ m.kind = "BuyRequest" => m.cust \in Customers
           /\ m.kind = "Move" => m.dst \in Positions
           /\ m.kind = "Spawn" => m.stall \in StallType
           /\ m.kind = "Load" => m.items \in Seq(Entry)
BY DEF MsgToGame

LEMMA HostTypes ==
    /\ NoHost \in HostType /\ NoStall \in StallType
    /\ \A h \in HostType, s \in StallType : [h EXCEPT !.items = s] \in HostType
    /\ \A h \in HostType, st \in ShopStates : [h EXCEPT !.state = st] \in HostType
    /\ \A s \in StallType, p \in Positions :
         /\ s[p].item \in Items \cup {NoItem} /\ s[p].price \in Nat
         /\ \A i \in Items \cup {NoItem}, price \in Nat :
              [s EXCEPT ![p] = [item |-> i, price |-> price]] \in StallType
         /\ \A price \in Nat : [s EXCEPT ![p].price = price] \in StallType
BY DEF HostType, NoHost, NoStall, StallType, ShopStates

LEMMA UnstallType == ASSUME host \in HostType, NEW p \in Positions
                     PROVE  Unstall(p) \in HostType
BY DEF Unstall, NoStall, HostType, StallType

LEMMA PanelTypes ==
    /\ NoPanel \in PanelType
    /\ \A q \in PanelType, st \in ShopStates : [q EXCEPT !.state = st] \in PanelType
    /\ \A q \in PanelType, g \in Nat : [q EXCEPT !.gold = g] \in PanelType
    /\ \A q \in PanelType, s \in Seq(Entry) : [q EXCEPT !.items = s] \in PanelType
BY DEF PanelType, NoPanel, ShopStates

LEMMA DropEntryType == ASSUME panel \in PanelType, NEW p, PanelAt(p) # 0
                       PROVE  DropEntry(PanelAt(p)) \in PanelType
<1>1. panel.items \in Seq(Entry)
  BY DEF PanelType
<1>2. RemoveAt(panel.items, PanelAt(p)) \in Seq(Entry)
  BY <1>1, PanelAtType, RemoveAtType
<1>3. DropEntry(PanelAt(p)) = [panel EXCEPT !.items = RemoveAt(panel.items, PanelAt(p))]
  BY DEF DropEntry, PanelType
<1>. QED BY <1>2, <1>3, PanelTypes

\* A handler that changes only the host's copy and the panel, and sends nothing.
LEMMA ViewsOnly == ASSUME GameTypeOK, NoSend,
                          host' \in HostType, panel' \in PanelType,
                          UNCHANGED <<ownerAt, lastSess, locked, bag, purse, online, crashed>>
                   PROVE  GameHandlerGoal
BY NoSendType DEF GameTypeOK, GameHandlerGoal, HostType, PanelType

LEMMA Views == ASSUME GameTypeOK
               PROVE  host \in HostType /\ panel \in PanelType
BY DEF GameTypeOK, HostType, PanelType

LEMMA GameUnchanged == ASSUME GameTypeOK, UNCHANGED gameVars
                       PROVE  GameTypeOK'
BY DEF GameTypeOK, gameVars

LEMMA GameBuyRequestTypes ==
    ASSUME GameTypeOK, toDB \in MailToDB, NEW c \in Cores, NEW m \in MsgToGame,
           GameBuyRequest(c, m)
    PROVE  GameTypeOK' /\ toDB' \in MailToDB
<1>1. /\ m.pos \in Positions /\ m.item \in Items /\ m.price \in Nat /\ m.token \in Nat
      /\ m.cust \in Customers
  BY GameMsgFields DEF GameBuyRequest
<1>2. CASE /\ CanBuy(m) /\ Send(c, Delivery(m))
           /\ bag' = [bag EXCEPT ![m.cust] = @ \cup {m.item}]
           /\ purse' = [purse EXCEPT ![m.cust] = @ - m.price]
           /\ host' = IF c = Host /\ host.up THEN Unstall(m.pos) ELSE host
           /\ UNCHANGED <<panel, ownerAt, lastSess, locked, online, crashed>>
  <2>1. [kind |-> "ItemSave", item |-> m.item, who |-> m.cust] \in MsgToDB
    BY <1>1 DEF MsgToDB, Chars
  <2>2. [kind |-> "Buy", pos |-> m.pos, item |-> m.item, price |-> m.price,
         token |-> m.token] \in MsgToDB
    BY <1>1 DEF MsgToDB
  <2>3. Delivery(m) \in Seq(MsgToDB)
    BY <2>1, <2>2 DEF Delivery
  <2>4. toDB' \in MailToDB
    BY <1>2, <2>3, SentType
  <2>5. bag' \in [Chars -> SUBSET Items]
    BY <1>1, <1>2 DEF GameTypeOK
  <2>6. purse' \in [Chars -> Nat]
    <3>1. m.cust \in Chars /\ purse[m.cust] \in Nat /\ purse[m.cust] >= m.price
      BY <1>1, <1>2 DEF GameTypeOK, Chars, CanBuy
    <3>2. purse[m.cust] - m.price \in Nat
      BY <1>1, <3>1
    <3>. QED BY <1>2, <3>1, <3>2 DEF GameTypeOK
  <2>7. host' \in HostType
    BY <1>1, <1>2, UnstallType, Views
  <2>. QED BY <1>2, <2>4, <2>5, <2>6, <2>7 DEF GameTypeOK, HostType
<1>3. CASE Refuse(c, m) /\ UNCHANGED gameVars
  <2>1. <<[kind |-> "FailedBuy", pos |-> m.pos, token |-> m.token]>> \in Seq(MsgToDB)
    BY <1>1 DEF MsgToDB
  <2>. QED BY <1>3, <2>1, SentType, GameUnchanged DEF Refuse
<1>. QED BY <1>2, <1>3 DEF GameBuyRequest

LEMMA GameCancelTypes ==
    ASSUME GameTypeOK, toDB \in MailToDB, NEW c \in Cores, NEW m \in MsgToGame, GameCancel(c, m)
    PROVE  GameTypeOK' /\ toDB' \in MailToDB
<1>1. [m EXCEPT !.kind = "FailedBuy"] \in MsgToDB
  BY DEF GameCancel, MsgToGame, MsgToDB
<1>2. <<[m EXCEPT !.kind = "FailedBuy"]>> \in Seq(MsgToDB)
  BY <1>1
<1>. QED BY <1>2, SentType, GameUnchanged DEF GameCancel

LEMMA GameHostTypes ==
    ASSUME GameTypeOK, NEW c \in Cores, NEW m \in MsgToGame,
           GameRemoveItem(c, m) \/ GameAddItem(c, m) \/ GameSpawn(c, m)
    PROVE  GameHandlerGoal
<1>1. CASE GameRemoveItem(c, m)
  <2>1. m.pos \in Positions
    BY <1>1, GameMsgFields DEF GameRemoveItem
  <2>2. host' \in HostType
    BY <1>1, <2>1, UnstallType, Views DEF GameRemoveItem
  <2>. QED BY <1>1, <2>2, Views, ViewsOnly DEF GameRemoveItem
<1>2. CASE GameAddItem(c, m)
  <2>1. m.pos \in Positions /\ m.item \in Items /\ m.price \in Nat
    BY <1>2, GameMsgFields DEF GameAddItem
  <2>2. [host EXCEPT !.items[m.pos] = [item |-> m.item, price |-> m.price]] \in HostType
    BY <2>1, Views DEF HostType, StallType
  <2>3. host' \in HostType
    BY <1>2, <2>2, Views DEF GameAddItem
  <2>. QED BY <1>2, <2>3, Views, ViewsOnly DEF GameAddItem
<1>3. CASE GameSpawn(c, m)
  <2>1. m.state \in ShopStates /\ m.stall \in StallType
    BY <1>3, GameMsgFields DEF GameSpawn
  <2>2. host' \in HostType
    BY <1>3, <2>1 DEF GameSpawn, HostType, ShopStates
  <2>. QED BY <1>3, <2>2, Views, ViewsOnly DEF GameSpawn
<1>. QED BY <1>1, <1>2, <1>3

LEMMA GameStateUpdateTypes ==
    ASSUME GameTypeOK, NEW c \in Cores, NEW m \in MsgToGame,
           GameStateUpdate(c, m)
    PROVE  GameHandlerGoal
<1>1. m.state \in ShopStates
  BY GameMsgFields DEF GameStateUpdate
<1>2. panel' \in PanelType
  BY <1>1, PanelTypes, Views DEF GameStateUpdate
<1>3. host' \in HostType
  BY <1>1, HostTypes, Views DEF GameStateUpdate
<1>. QED BY <1>2, <1>3, ViewsOnly DEF GameStateUpdate

LEMMA GamePriceChangeTypes ==
    ASSUME GameTypeOK, NEW c \in Cores, NEW m \in MsgToGame,
           GamePriceChange(c, m)
    PROVE  GameHandlerGoal
<1> DEFINE n == PanelAt(m.pos)
<1>1. m.pos \in Positions /\ m.price \in Nat
  BY GameMsgFields DEF GamePriceChange
<1>2. panel' \in PanelType
  <2>1. CASE n # 0
    <3>1. n \in 1 .. Len(panel.items) /\ panel.items \in Seq(Entry)
      BY <2>1, PanelAtType, Views DEF PanelType
    <3>2. panel.items[n] \in Entry
      BY <3>1
    <3>3. [panel.items[n] EXCEPT !.price = m.price] \in Entry
      BY <1>1, <3>2 DEF Entry
    <3>4. [panel.items EXCEPT ![n] = [panel.items[n] EXCEPT !.price = m.price]] \in Seq(Entry)
      BY <3>1, <3>3
    <3>5. [panel EXCEPT !.items[n].price = m.price] =
            [panel EXCEPT !.items = [panel.items EXCEPT ![n] =
                                       [panel.items[n] EXCEPT !.price = m.price]]]
      OBVIOUS
    <3>. QED BY <3>4, <3>5, PanelTypes, Views DEF GamePriceChange
  <2>2. CASE n = 0
    BY <2>2, Views DEF GamePriceChange
  <2>. QED BY <2>1, <2>2
<1>3. host' \in HostType
  <2>1. [host EXCEPT !.items[m.pos].price = m.price] \in HostType
    BY <1>1, Views DEF HostType, StallType
  <2>. QED BY <2>1, Views DEF GamePriceChange
<1>. QED BY <1>2, <1>3, ViewsOnly DEF GamePriceChange

LEMMA GameItemMoveTypes ==
    ASSUME GameTypeOK, NEW c \in Cores, NEW m \in MsgToGame,
           GameItemMove(c, m)
    PROVE  GameHandlerGoal
<1> DEFINE n == PanelAt(m.pos)
<1>1. m.pos \in Positions /\ m.dst \in Positions
  BY GameMsgFields DEF GameItemMove
<1>2. panel' \in PanelType
  <2>1. CASE n # 0
    <3>1. n \in 1 .. Len(panel.items) /\ panel.items \in Seq(Entry)
      BY <2>1, PanelAtType, Views DEF PanelType
    <3>2. panel.items[n] \in Entry
      BY <3>1
    <3>3. [panel.items[n] EXCEPT !.pos = m.dst] \in Entry
      BY <1>1, <3>2 DEF Entry
    <3>4. [panel.items EXCEPT ![n] = [panel.items[n] EXCEPT !.pos = m.dst]] \in Seq(Entry)
      BY <3>1, <3>3
    <3>5. [panel EXCEPT !.items[n].pos = m.dst] =
            [panel EXCEPT !.items = [panel.items EXCEPT ![n] =
                                       [panel.items[n] EXCEPT !.pos = m.dst]]]
      OBVIOUS
    <3>. QED BY <3>4, <3>5, PanelTypes, Views DEF GameItemMove
  <2>2. CASE n = 0
    BY <2>2, Views DEF GameItemMove
  <2>. QED BY <2>1, <2>2
<1>3. host' \in HostType
  <2>1. [host EXCEPT !.items[m.dst] = host.items[m.pos], !.items[m.pos] = NoStall[m.pos]]
          \in HostType
    <3> DEFINE s == [host.items EXCEPT ![m.dst] = host.items[m.pos]]
    <3>1. host.items \in StallType /\ s \in StallType
      BY <1>1, Views DEF HostType, StallType
    <3>2. [s EXCEPT ![m.pos] = NoStall[m.pos]] \in StallType
      BY <1>1, <3>1 DEF StallType, NoStall
    <3>3. [host EXCEPT !.items = [s EXCEPT ![m.pos] = NoStall[m.pos]]] \in HostType
      BY <3>2, HostTypes, Views
    <3>4. [host EXCEPT !.items[m.dst] = host.items[m.pos], !.items[m.pos] = NoStall[m.pos]] =
            [host EXCEPT !.items = [s EXCEPT ![m.pos] = NoStall[m.pos]]]
      BY Views DEF HostType
    <3>. QED BY <3>3, <3>4
  <2>. QED BY <2>1, Views DEF GameItemMove
<1>. QED BY <1>2, <1>3, ViewsOnly DEF GameItemMove

LEMMA GamePanelTypes ==
    ASSUME GameTypeOK, NEW c \in Cores, NEW m \in MsgToGame,
           GameSaleUpdate(c, m) \/ GameItemExpire(c, m) \/ GameClosed(c, m)
    PROVE  GameHandlerGoal
<1> DEFINE n == PanelAt(m.pos)
<1>1. n # 0 => DropEntry(n) \in PanelType
  BY DropEntryType, Views
<1>2. CASE GameSaleUpdate(c, m)
  <2>1. m.price \in Nat
    BY <1>2, GameMsgFields DEF GameSaleUpdate
  <2>2. n # 0 => [DropEntry(n) EXCEPT !.gold = @ + m.price] \in PanelType
    BY <1>1, <2>1 DEF PanelType
  <2>3. panel' \in PanelType
    BY <1>2, <2>2, Views DEF GameSaleUpdate
  <2>. QED BY <1>2, <2>3, Views, ViewsOnly DEF GameSaleUpdate
<1>3. CASE GameItemExpire(c, m)
  <2>1. panel' \in PanelType
    BY <1>1, <1>3, Views DEF GameItemExpire
  <2>. QED BY <1>3, <2>1, Views, ViewsOnly DEF GameItemExpire
<1>4. CASE GameClosed(c, m)
  <2>1. panel' \in PanelType
    BY <1>4, PanelTypes, Views DEF GameClosed
  <2>. QED BY <1>4, <2>1, Views, ViewsOnly DEF GameClosed
<1>. QED BY <1>2, <1>3, <1>4

LEMMA GameLoadTypes ==
    ASSUME GameTypeOK, NEW c \in Cores, NEW m \in MsgToGame, GameLoad(c, m)
    PROVE  GameHandlerGoal
<1>1. m.sess \in Nat /\ m.state \in ShopStates /\ m.gold \in Nat /\ m.items \in Seq(Entry)
  BY GameMsgFields DEF GameLoad
<1>2. CASE Present(c, m.sess)
  <2>1. panel.items \o m.items \in Seq(Entry)
    BY <1>1, Views DEF PanelType
  <2>2. panel' = [loaded |-> TRUE, state |-> m.state, gold |-> m.gold,
                  items |-> panel.items \o m.items]
    BY <1>2 DEF GameLoad
  <2>3. panel' \in PanelType
    BY <1>1, <2>1, <2>2 DEF PanelType
  <2>. QED BY <1>2, <2>3, Views, ViewsOnly DEF GameLoad
<1>3. CASE ~Present(c, m.sess)
  <2>1. <<[kind |-> "Logout", sess |-> m.sess]>> \in Seq(Reports)
    BY <1>1 DEF MsgToDB, Reports
  <2>. QED BY <1>3, <2>1, SendType, GameUnchanged DEF GameLoad, GameHandlerGoal
<1>. QED BY <1>2, <1>3

LEMMA GameCheckinTypes ==
    ASSUME GameTypeOK, NEW c \in Cores, NEW m \in MsgToGame, GameCheckin(c, m)
    PROVE  GameHandlerGoal
<1>1. m.kind = "Checkin" /\ m.pos \in Positions /\ m.item \in Items /\ m.price \in Nat
  BY GameMsgFields DEF GameCheckin
<1>2. CASE NoSend /\ UNCHANGED gameVars
  BY <1>2, GameUnchanged, NoSendType DEF GameHandlerGoal
<1>3. CASE ~(NoSend /\ UNCHANGED gameVars)
  <2>1. [m EXCEPT !.kind = "CheckinUpdate"] \in Reports
    BY <1>1 DEF MsgToGame, MsgToDB, Reports
  <2>2. <<[m EXCEPT !.kind = "CheckinUpdate"]>> \in Seq(Reports)
    BY <2>1
  <2>3. Said
    BY <1>3, <2>2, SendType DEF GameCheckin
  <2>4. [pos |-> m.pos, item |-> m.item, price |-> m.price] \in Entry
    BY <1>1 DEF Entry
  <2>5. Append(panel.items, [pos |-> m.pos, item |-> m.item, price |-> m.price]) \in Seq(Entry)
    BY <2>4, Views DEF PanelType
  <2>6. panel' \in PanelType
    BY <1>3, <2>5, PanelTypes, Views DEF GameCheckin
  <2>7. bag' \in [Chars -> SUBSET Items] /\ locked' \subseteq Items
    BY <1>3 DEF GameCheckin, TakeFromBag, GameTypeOK, Chars
  <2>. QED BY <1>3, <2>3, <2>6, <2>7 DEF GameCheckin, GameTypeOK, GameHandlerGoal, PanelType
<1>. QED BY <1>2, <1>3

LEMMA GameCheckoutTypes ==
    ASSUME GameTypeOK, NEW c \in Cores, NEW m \in MsgToGame,
           GameCheckout(c, m)
    PROVE  GameHandlerGoal
<1> DEFINE n == PanelAt(m.pos)
           done == [kind |-> "CheckoutUpdate", pos |-> m.pos, item |-> panel.items[n].item]
<1>1. CASE NoSend /\ UNCHANGED gameVars
  BY <1>1, GameUnchanged, NoSendType DEF GameHandlerGoal
<1>2. CASE /\ n # 0 /\ Send(c, <<done>>) /\ panel' = DropEntry(n)
           /\ bag' = [bag EXCEPT ![Owner] = @ \cup {panel.items[n].item}]
           /\ UNCHANGED <<host, ownerAt, lastSess, locked, purse, online, crashed>>
  <2>1. n \in 1 .. Len(panel.items) /\ panel.items \in Seq(Entry)
    BY <1>2, PanelAtType, Views DEF PanelType
  <2>2. panel.items[n] \in Entry
    BY <2>1
  <2>3. panel.items[n].item \in Items /\ m.pos \in Positions
    BY <2>2, GameMsgFields DEF Entry, GameCheckout
  <2>4. done \in Reports
    BY <2>3 DEF MsgToDB, Reports
  <2>5. Said
    <3>1. <<done>> \in Seq(Reports)
      BY <2>4
    <3>. QED BY <1>2, <3>1, SendType
  <2>6. panel' \in PanelType
    BY <1>2, DropEntryType, Views
  <2>7. bag' \in [Chars -> SUBSET Items]
    BY <1>2, <2>3 DEF GameTypeOK
  <2>. QED BY <1>2, <2>5, <2>6, <2>7 DEF GameTypeOK, GameHandlerGoal, PanelType
<1>. QED BY <1>1, <1>2 DEF GameCheckout

LEMMA GameWithdrawTypes ==
    ASSUME GameTypeOK, NEW c \in Cores, NEW m \in MsgToGame, GameWithdraw(c, m)
    PROVE  GameHandlerGoal
<1> DEFINE room == IF purse[Owner] < GoldMax - 1 THEN GoldMax - 1 - purse[Owner] ELSE 0
           paid == IF m.gold <= room THEN m.gold ELSE room
           done == [kind |-> "WithdrawDone", gold |-> paid]
<1>1. CASE NoSend /\ UNCHANGED gameVars
  BY <1>1, GameUnchanged, NoSendType DEF GameHandlerGoal
<1>2. CASE /\ PanelShows(m) /\ Send(c, <<done>>)
           /\ purse' = [purse EXCEPT ![Owner] = @ + paid]
           /\ panel' = [panel EXCEPT !.gold = @ - paid]
           /\ UNCHANGED <<host, ownerAt, lastSess, locked, bag, online, crashed>>
  <2>1. m.gold \in Nat /\ Owner \in Chars /\ purse[Owner] \in Nat /\ GoldMax \in Nat
    BY GameMsgFields, ShopAssumption DEF GameWithdraw, GameTypeOK, Chars
  <2>2. paid \in Nat /\ paid <= m.gold
    BY <2>1
  <2> HIDE DEF paid
  <2>3. done \in Reports
    BY <2>2 DEF MsgToDB, Reports
  <2>4. Said
    <3>1. <<done>> \in Seq(Reports)
      BY <2>3
    <3>. QED BY <1>2, <3>1, SendType
  <2>5. panel.gold - paid \in Nat
    BY <1>2, <2>1, <2>2, Views DEF PanelShows, PanelType
  <2>6. panel' \in PanelType
    BY <1>2, <2>5, PanelTypes, Views DEF PanelType
  <2>7. purse' \in [Chars -> Nat]
    BY <1>2, <2>1, <2>2 DEF GameTypeOK
  <2>. QED BY <1>2, <2>4, <2>6, <2>7 DEF GameTypeOK, GameHandlerGoal, PanelType
<1>. QED BY <1>1, <1>2 DEF GameWithdraw

LEMMA GameDestroyTypes ==
    ASSUME GameTypeOK, NEW c \in Cores, NEW m \in MsgToGame, GameDestroy(c, m)
    PROVE  GameHandlerGoal
<1> DEFINE back == {host.items[p].item : p \in Positions} \ {NoItem}
           hand == [i \in back |-> [kind |-> "ItemTransfer", item |-> i]]
           sent == SetToSeq({[kind |-> "ItemTransfer", item |-> i] : i \in back})
                     \o <<[kind |-> "Delete"]>>
<1>1. CASE NoSend /\ UNCHANGED gameVars
  BY <1>1, GameUnchanged, NoSendType DEF GameHandlerGoal
<1>2. CASE /\ bag' = [bag EXCEPT ![Owner] = @ \cup back] /\ Send(c, sent)
           /\ host' = NoHost /\ panel' = NoPanel
           /\ UNCHANGED <<ownerAt, lastSess, locked, purse, online, crashed>>
  <2>1. back \subseteq Items
    BY Views DEF HostType, StallType
  <2>2. IsFiniteSet(back)
    <3> DEFINE shown == [p \in Positions |-> host.items[p].item]
    <3>1. IsFiniteSet(Positions) /\ DOMAIN shown = Positions
      BY FinitePositions
    <3>2. {shown[p] : p \in Positions} = {host.items[p].item : p \in Positions}
      OBVIOUS
    <3> HIDE DEF shown
    <3>3. IsFiniteSet({shown[p] : p \in Positions})
      BY <3>1, FiniteImage, Zenon
    <3>. QED BY <3>2, <3>3, FS_Subset
  <2> HIDE DEF back
  <2>3. \A i \in back : hand[i] \in Reports
    BY <2>1 DEF MsgToDB, Reports
  <2>4. {hand[i] : i \in back} = {[kind |-> "ItemTransfer", item |-> i] : i \in back}
    OBVIOUS
  <2>5. DOMAIN hand = back
    OBVIOUS
  <2> HIDE DEF hand
  <2>6. IsFiniteSet({hand[i] : i \in back})
    BY <2>2, <2>5, FiniteImage, Zenon
  <2>7. SetToSeq({hand[i] : i \in back}) \in Seq(Reports)
    BY <2>3, <2>6, SeqOfSet
  <2>8. <<[kind |-> "Delete"]>> \in Seq(Reports)
    BY DEF MsgToDB, Reports
  <2>9. Said
    <3> DEFINE transfers == SetToSeq({[kind |-> "ItemTransfer", item |-> i] : i \in back})
    <3>1. transfers \in Seq(Reports)
      BY <2>4, <2>7, Zenon
    <3>2. sent = transfers \o <<[kind |-> "Delete"]>>
      BY DEF sent
    <3> HIDE DEF transfers, sent
    <3>3. sent \in Seq(Reports)
      BY <2>8, <3>1, <3>2, ConcatProperties
    <3>. QED BY <1>2, <3>3, SendType DEF sent
  <2>10. bag' \in [Chars -> SUBSET Items]
    BY <1>2, <2>1 DEF GameTypeOK, Chars
  <2>. QED BY <1>2, <2>9, <2>10, HostTypes, PanelTypes
           DEF GameTypeOK, GameHandlerGoal, HostType, PanelType
<1>. QED BY <1>1, <1>2 DEF GameDestroy

LEMMA ReceiveSays ==
    ASSUME GameTypeOK, toGame \in MailToGame, NEW c \in Cores, Receive(c)
    PROVE  \/ GameBuyRequest(c, Head(toGame[c])) \/ GameCancel(c, Head(toGame[c]))
           \/ GameHandlerGoal
<1> DEFINE m == Head(toGame[c])
<1>1. m \in MsgToGame
  BY DEF Receive, MailToGame
<1>2. CASE GameBuyRequest(c, m)
  BY <1>2
<1>3. CASE GameCancel(c, m)
  BY <1>3
<1>4. CASE GameRemoveItem(c, m) \/ GameAddItem(c, m) \/ GameSpawn(c, m)
  BY <1>1, <1>4, GameHostTypes
<1>5. CASE GameStateUpdate(c, m)
  BY <1>1, <1>5, GameStateUpdateTypes
<1>6. CASE GamePriceChange(c, m)
  BY <1>1, <1>6, GamePriceChangeTypes
<1>7. CASE GameItemMove(c, m)
  BY <1>1, <1>7, GameItemMoveTypes
<1>8. CASE GameSaleUpdate(c, m) \/ GameItemExpire(c, m) \/ GameClosed(c, m)
  BY <1>1, <1>8, GamePanelTypes
<1>9. CASE GameLoad(c, m)
  BY <1>1, <1>9, GameLoadTypes
<1>10. CASE GameCheckin(c, m)
  BY <1>1, <1>10, GameCheckinTypes
<1>11. CASE GameCheckout(c, m)
  BY <1>1, <1>11, GameCheckoutTypes
<1>12. CASE GameWithdraw(c, m)
  BY <1>1, <1>12, GameWithdrawTypes
<1>13. CASE GameDestroy(c, m)
  BY <1>1, <1>13, GameDestroyTypes
<1>. QED BY <1>1, <1>2, <1>3, <1>4, <1>5, <1>6, <1>7, <1>8, <1>9, <1>10, <1>11, <1>12, <1>13, Zenon
         DEF Receive

LEMMA ReceiveTypes ==
    ASSUME GameTypeOK, toDB \in MailToDB, toGame \in MailToGame, NEW c \in Cores, Receive(c)
    PROVE  GameTypeOK' /\ toDB' \in MailToDB /\ toGame' \in MailToGame
<1>1. Head(toGame[c]) \in MsgToGame /\ toGame' \in MailToGame
  BY DEF Receive, MailToGame
<1>. QED BY <1>1, ReceiveSays, SaidType, GameBuyRequestTypes, GameCancelTypes DEF GameHandlerGoal

-----------------------------------------------------------------------------
\* The clients and the environment.

BudgetType == [Kinds -> Nat]

LEMMA SpendType == ASSUME budget \in BudgetType, NEW k \in Kinds, Spend(k)
                   PROVE  budget' \in BudgetType
<1>1. budget[k] \in Nat /\ budget[k] > 0
  BY DEF BudgetType, Spend
<1>2. budget[k] - 1 \in Nat
  BY <1>1
<1>. QED BY <1>2 DEF BudgetType, Spend

LEMMA AskType == ASSUME budget \in BudgetType, NEW k \in Kinds,
                        NEW m \in Reports, Ask(k, m)
                 PROVE  budget' \in BudgetType /\ Said
<1>1. <<m>> \in Seq(Reports)
  OBVIOUS
<1>. QED BY <1>1, SpendType, SendType DEF Ask

\* What a request of a client owes: the same, and its bound typed.
ClientGoal == GameTypeOK' /\ Said /\ budget' \in BudgetType

LEMMA AskOnly == ASSUME GameTypeOK, budget \in BudgetType, NEW k \in Kinds,
                        NEW m \in Reports, Ask(k, m), UNCHANGED gameVars
                 PROVE  ClientGoal
BY AskType, GameUnchanged DEF ClientGoal

LEMMA CustomerTypes ==
    ASSUME GameTypeOK, budget \in BudgetType, NEW cust \in Customers,
           \/ \E p \in Positions, price \in Prices : PrivateShopBuyClient(cust, p, price)
           \/ CustomerLeaves(cust)
    PROVE  ClientGoal
<1>1. ASSUME NEW p \in Positions, NEW price \in Prices, PrivateShopBuyClient(cust, p, price)
      PROVE  ClientGoal
  <2> DEFINE m == [kind |-> "BuyRequest", cust |-> cust, pos |-> p, price |-> price,
                   purse |-> purse[cust]]
  <2>1. price \in Nat /\ purse[cust] \in Nat
    BY ShopAssumption DEF GameTypeOK, Chars
  <2>2. m \in Reports
    BY <2>1 DEF MsgToDB, Reports
  <2>3. <<m>> \in Seq(Reports)
    BY <2>2
  <2>4. Send(Home[cust], <<m>>) /\ Spend("buy") /\ UNCHANGED gameVars
    BY <1>1 DEF PrivateShopBuyClient
  <2>. QED BY <2>3, <2>4, SendType, SpendType, GameUnchanged DEF ClientGoal, Kinds
<1>2. CASE CustomerLeaves(cust)
  <2>1. budget' \in BudgetType
    BY <1>2, SpendType DEF CustomerLeaves, Kinds
  <2>. QED BY <1>2, <2>1, NoSendType DEF CustomerLeaves, GameTypeOK, ClientGoal
<1>. QED BY <1>1, <1>2

LEMMA OwnerRequestTypes ==
    ASSUME GameTypeOK, budget \in BudgetType,
           OwnerModify \/ OwnerClose \/ OwnerWithdraw
    PROVE  ClientGoal
<1>1. ownerAt.sess \in Nat
  BY DEF GameTypeOK, Session
<1>2. CASE OwnerModify
  <2>1. [kind |-> "Modify", sess |-> ownerAt.sess] \in Reports
    BY <1>1 DEF MsgToDB, Reports
  <2>. QED BY <1>2, <2>1, AskOnly DEF OwnerModify, Kinds
<1>3. CASE OwnerClose
  <2>1. [kind |-> "Close", sess |-> ownerAt.sess] \in Reports
    BY <1>1 DEF MsgToDB, Reports
  <2>. QED BY <1>3, <2>1, AskOnly DEF OwnerClose, Kinds
<1>4. CASE OwnerWithdraw
  <2>1. [kind |-> "WithdrawRequest", sess |-> ownerAt.sess] \in Reports
    BY <1>1 DEF MsgToDB, Reports
  <2>. QED BY <1>4, <2>1, AskOnly DEF OwnerWithdraw, Kinds
<1>. QED BY <1>2, <1>3, <1>4

LEMMA OwnerEditTypes ==
    ASSUME GameTypeOK, budget \in BudgetType, NEW p \in Positions,
           \/ OwnerCheckout(p)
           \/ \E q \in Positions : OwnerMove(p, q)
           \/ \E price \in Prices : OwnerPriceChange(p, price)
    PROVE  ClientGoal
<1>1. ownerAt.sess \in Nat /\ \A price \in Prices : price \in Nat
  BY ShopAssumption DEF GameTypeOK, Session
<1>2. CASE OwnerCheckout(p)
  <2>1. [kind |-> "CheckoutRequest", sess |-> ownerAt.sess, pos |-> p] \in Reports
    BY <1>1 DEF MsgToDB, Reports
  <2>. QED BY <1>2, <2>1, AskOnly DEF OwnerCheckout, AskEdit, Kinds
<1>3. ASSUME NEW q \in Positions, OwnerMove(p, q)
      PROVE  ClientGoal
  <2>1. [kind |-> "Move", sess |-> ownerAt.sess, pos |-> p, dst |-> q] \in Reports
    BY <1>1 DEF MsgToDB, Reports
  <2>. QED BY <1>3, <2>1, AskOnly DEF OwnerMove, AskEdit, Kinds
<1>4. ASSUME NEW price \in Prices, OwnerPriceChange(p, price)
      PROVE  ClientGoal
  <2>1. [kind |-> "Price", sess |-> ownerAt.sess, pos |-> p, price |-> price] \in Reports
    BY <1>1 DEF MsgToDB, Reports
  <2>. QED BY <1>4, <2>1, AskOnly DEF OwnerPriceChange, AskEdit, Kinds
<1>. QED BY <1>2, <1>3, <1>4

LEMMA OwnerCheckinTypes ==
    ASSUME GameTypeOK, budget \in BudgetType, NEW p \in Positions,
           NEW i \in Items, NEW price \in Prices, OwnerCheckin(i, p, price)
    PROVE  ClientGoal
<1> DEFINE m == [kind |-> "CheckinRequest", sess |-> ownerAt.sess, pos |-> p, item |-> i,
                 price |-> price]
<1>1. ownerAt.sess \in Nat /\ price \in Nat
  BY ShopAssumption DEF GameTypeOK, Session
<1>2. m \in Reports
  BY <1>1 DEF MsgToDB, Reports
<1>3. Ask("checkin", m)
  BY DEF OwnerCheckin, AskEdit
<1>4. budget' \in BudgetType /\ Said
  BY <1>2, <1>3, AskType DEF Kinds
<1>. QED BY <1>4 DEF OwnerCheckin, GameTypeOK, ClientGoal

LEMMA SendItemExpireTypes ==
    ASSUME GameTypeOK, budget \in BudgetType, NEW p \in Positions,
           SendItemExpire(p)
    PROVE  ClientGoal
<1>1. <<[kind |-> "ItemExpire", pos |-> p]>> \in Seq(Reports)
  BY DEF MsgToDB, Reports
<1>2. Said /\ budget' \in BudgetType
  BY <1>1, SendType, SpendType DEF SendItemExpire, Kinds
<1>3. host' \in HostType
  BY UnstallType, Views DEF SendItemExpire
<1>. QED BY <1>2, <1>3 DEF SendItemExpire, GameTypeOK, HostType, ClientGoal

LEMMA OwnerLogoutTypes ==
    ASSUME GameTypeOK, budget \in BudgetType, OwnerLogout
    PROVE  ClientGoal
<1> DEFINE first == IF panel.loaded THEN <<[kind |-> "Logout", sess |-> ownerAt.sess]>> ELSE <<>>
           sent == first \o <<[kind |-> "AccountLogout"]>>
<1>1. ownerAt.sess \in Nat
  BY DEF GameTypeOK, Session
<1>2. [kind |-> "Logout", sess |-> ownerAt.sess] \in Reports
      /\ [kind |-> "AccountLogout"] \in Reports
  BY <1>1 DEF MsgToDB, Reports
<1>3. first \in Seq(Reports) /\ <<[kind |-> "AccountLogout"]>> \in Seq(Reports)
  BY <1>2
<1>4. sent \in Seq(Reports)
  <2> HIDE DEF first
  <2>. QED BY <1>3, ConcatProperties
<1>5. Said
  <2>1. Send(ownerAt.core, sent)
    BY DEF OwnerLogout
  <2> HIDE DEF sent
  <2>. QED BY <1>4, <2>1, SendType
<1>6. panel' \in PanelType
  BY PanelTypes DEF OwnerLogout
<1>. QED BY <1>5, <1>6 DEF OwnerLogout, Detached, Session, GameTypeOK, PanelType, ClientGoal

LEMMA OwnerLoginTypes ==
    ASSUME DBTypeOK, GameTypeOK, budget \in BudgetType, NEW c \in Cores,
           OwnerLogin(c)
    PROVE  DBTypeOK' /\ ClientGoal
<1>1. ownerAt' \in Session /\ lastSess' \in Nat
  BY DEF OwnerLogin, GameTypeOK, Session
<1>2. budget' \in BudgetType
  BY SpendType DEF OwnerLogin, Kinds
<1>3. bag' \in [Chars -> SUBSET Items]
  BY DEF OwnerLogin, GameTypeOK
<1>4. loads' \in Seq(Session)
  BY <1>1 DEF OwnerLogin, DBTypeOK
<1>. QED BY <1>1, <1>2, <1>3, <1>4, NoSendType DEF OwnerLogin, DBTypeOK, GameTypeOK, ClientGoal

LEMMA CoreCrashTypes ==
    ASSUME GameTypeOK, budget \in BudgetType, toDB \in MailToDB, toGame \in MailToGame,
           NEW c \in Cores, CoreCrash(c)
    PROVE  /\ GameTypeOK' /\ toDB' \in MailToDB /\ toGame' \in MailToGame
           /\ budget' \in BudgetType
<1>1. budget' \in BudgetType
  BY SpendType DEF CoreCrash, Kinds
<1>2. toGame' \in MailToGame
  BY DEF CoreCrash, MailToGame
<1>3. toDB' \in MailToDB
  <2>1. PICK n \in 0 .. Len(toDB[c]) : toDB' = [toDB EXCEPT ![c] = SubSeq(@, 1, n)]
    BY DEF CoreCrash
  <2>2. SubSeq(toDB[c], 1, n) \in Seq(MsgToDB)
    BY SubSeqProperties, LenProperties, ElementOfSeq DEF MailToDB
  <2>. QED BY <2>1, <2>2 DEF MailToDB
<1>4. host' \in HostType
  BY HostTypes, Views DEF CoreCrash
<1>5. panel' \in PanelType /\ ownerAt' \in Session /\ locked' \subseteq Items
  BY PanelTypes, Views DEF CoreCrash, Detached, Session, GameTypeOK
<1>6. bag' \in [Chars -> SUBSET Items]
  BY DEF CoreCrash, GameTypeOK
<1>7. purse' \in [Chars -> Nat]
  <2>1. PICK unsaved : purse' = [k \in Chars |-> IF k \in unsaved THEN Purse[k] ELSE purse[k]]
    BY DEF CoreCrash
  <2>. QED BY <2>1, ShopAssumption DEF GameTypeOK
<1>8. online' \subseteq Customers /\ crashed' \subseteq Cores /\ lastSess' \in Nat
  BY DEF CoreCrash, GameTypeOK
<1>. QED BY <1>1, <1>2, <1>3, <1>4, <1>5, <1>6, <1>7, <1>8
         DEF GameTypeOK, HostType, PanelType

-----------------------------------------------------------------------------
\* The invariant.

LEMMA InitTypes == Init => TypeOK
<1> SUFFICES ASSUME Init
             PROVE  TypeOK
  OBVIOUS
<1>1. slot \in [Positions -> Slot]
  <2>1. \A p \in Positions : Stock[p] # NoItem => Stock[p] \in Items
    BY ShopAssumption
  <2>2. StockPrice \in Nat
    BY ShopAssumption
  <2>. QED BY <2>1, <2>2, SlotTypes DEF Init
<1>2. owner \in Session
  BY ShopAssumption DEF Init, Session
<1>3. DBTypeOK
  <2>1. state \in ShopStates /\ gold \in Nat /\ reservation \in Nat /\ expired \in BOOLEAN
    BY DEF Init, ShopStates
  <2>2. row \in [Items -> Chars \cup {NoItem}]
    BY DEF Init, Chars
  <2>3. loads \in Seq(Session)
    BY DEF Init
  <2>4. playing \in Cores \cup {NoCore} /\ peers \subseteq Cores
    BY ShopAssumption DEF Init
  <2>. QED BY <1>1, <1>2, <2>1, <2>2, <2>3, <2>4 DEF DBTypeOK
<1>4. host \in HostType /\ panel \in PanelType
  BY <1>1, StallOfSlots, ListingType DEF Init, HostType, PanelType, ShopStates
<1>5. GameTypeOK
  BY <1>2, <1>4, ShopAssumption DEF Init, GameTypeOK, HostType, PanelType
<1>6. WireTypeOK
  BY MailTypes, ShopAssumption DEF Init, WireTypeOK, Nothing
<1>. QED BY <1>3, <1>5, <1>6 DEF TypeOK

LEMMA NextTypes == TypeOK /\ [Next]_vars => TypeOK'
<1> SUFFICES ASSUME TypeOK, [Next]_vars
             PROVE  TypeOK'
  OBVIOUS
<1>1. /\ DBTypeOK /\ GameTypeOK
      /\ toDB \in MailToDB /\ toGame \in MailToGame /\ budget \in BudgetType
  BY DEF TypeOK, WireTypeOK, MailToDB, MailToGame, BudgetType
<1>2. ASSUME DBTypeOK', GameTypeOK', toDB' \in MailToDB, toGame' \in MailToGame,
             budget' \in BudgetType
      PROVE  TypeOK'
  BY <1>2 DEF TypeOK, WireTypeOK, MailToDB, MailToGame, BudgetType
<1>3. UNCHANGED dbVars => DBTypeOK'
  BY <1>1 DEF dbVars, DBTypeOK
<1>4. UNCHANGED gameVars => GameTypeOK'
  BY <1>1, GameUnchanged
<1>5. CASE DBStep
  <2>1. UNCHANGED gameVars /\ UNCHANGED budget
    BY <1>5 DEF DBStep
  <2>2. DBTypeOK' /\ toGame' \in MailToGame /\ toDB' \in MailToDB
    BY <1>1, <1>5, ProcessTypes, UpdatePrivateShopPremiumEventTypes, ResultPrivateShopLoadTypes,
       RemovePeerTypes, ToldType DEF DBStep, DBHandlerGoal
  <2>. QED BY <1>1, <1>2, <1>4, <2>1, <2>2
<1>6. CASE GameStep
  <2>1. UNCHANGED dbVars /\ UNCHANGED budget
    BY <1>6 DEF GameStep
  <2>2. GameTypeOK' /\ toDB' \in MailToDB /\ toGame' \in MailToGame
    BY <1>1, <1>6, ReceiveTypes DEF GameStep
  <2>. QED BY <1>1, <1>2, <1>3, <2>1, <2>2
<1>7. CASE ClientStep
  <2>1. UNCHANGED dbVars /\ UNCHANGED toGame
    BY <1>7 DEF ClientStep
  <2>2. ClientGoal
    BY <1>1, <1>7, CustomerTypes, OwnerRequestTypes, OwnerEditTypes, OwnerCheckinTypes,
       SendItemExpireTypes, OwnerLogoutTypes DEF ClientStep
  <2>. QED BY <1>1, <1>2, <1>3, <2>1, <2>2, SaidType DEF ClientGoal
<1>8. CASE EnvStep
  <2>1. ASSUME NEW p \in Positions, ReservationDue(p),
               UNCHANGED <<gameVars, toDB, toGame, budget>>
        PROVE  TypeOK'
    <3>1. slot[p] \in Slot
      BY <1>1 DEF DBTypeOK
    <3>2. [slot[p] EXCEPT !.due = TRUE] \in Slot
      BY <3>1 DEF Slot
    <3>3. slot' \in [Positions -> Slot]
      BY <1>1, <2>1, <3>2, SlotUpdate DEF ReservationDue
    <3>4. DBTypeOK'
      BY <1>1, <2>1, <3>3 DEF ReservationDue, DBTypeOK
    <3>. QED BY <1>1, <1>2, <1>4, <2>1, <3>4
  <2>2. CASE DeadlinePasses /\ UNCHANGED <<gameVars, toDB, toGame>>
    <3>1. DBTypeOK'
      BY <1>1, <2>2 DEF DeadlinePasses, DBTypeOK
    <3>2. budget' \in BudgetType
      BY <1>1, <2>2, SpendType DEF DeadlinePasses, Kinds
    <3>. QED BY <1>1, <1>2, <1>4, <2>2, <3>1, <3>2
  <2>3. ASSUME NEW c \in Cores, OwnerLogin(c), UNCHANGED toGame
        PROVE  TypeOK'
    BY <1>1, <1>2, <2>3, OwnerLoginTypes, SaidType DEF ClientGoal
  <2>4. ASSUME NEW c \in Cores, CoreCrash(c), UNCHANGED dbVars
        PROVE  TypeOK'
    BY <1>1, <1>2, <1>3, <2>4, CoreCrashTypes
  <2>. QED BY <1>8, <2>1, <2>2, <2>3, <2>4 DEF EnvStep
<1>9. CASE UNCHANGED vars
  BY <1>9, <1>1, <1>2, <1>3, <1>4 DEF vars
<1>. QED BY <1>5, <1>6, <1>7, <1>8, <1>9 DEF Next

\* Every variable of the shop and every packet under way has its type, whatever
\* the cores, customers, positions, items and bounds (PrivateShop).
THEOREM TypeInvariant == Spec => []TypeOK
BY InitTypes, NextTypes, PTL DEF Spec

-----------------------------------------------------------------------------
\* Holds.

KeepsHolds ==
    /\ reservation' = reservation
    /\ \A p \in Positions : slot'[p].token <= reservation
    /\ \A p \in Reserved(slot') : /\ p \in Reserved(slot)
                                  /\ slot'[p].token = slot[p].token
                                  /\ slot'[p].buyer = slot[p].buyer
                                  /\ slot'[p].item = slot[p].item
                                  /\ slot'[p].price = slot[p].price
    /\ state' = "MODIFY" => Reserved(slot) = {}
    /\ state' \in {"OPEN", "MODIFY"} => state \in {"OPEN", "MODIFY"}
    /\ state' = "none" => state = "none" \/ \A p \in Positions : slot'[p].avail

MakesHold ==
    /\ Selling /\ UNCHANGED state /\ reservation' = reservation + 1
    /\ \E p \in Positions :
         /\ slot[p].item # NoItem /\ slot[p].avail /\ ~slot'[p].avail
         /\ slot'[p].item = slot[p].item /\ slot'[p].token = reservation'
         /\ \A q \in Positions \ {p} : slot'[q] = slot[q]

-----------------------------------------------------------------------------
\* Operators on slots.

LEMMA ReservedIn == \A s : Reserved(s) \subseteq Positions
BY DEF Reserved, Occupied

LEMMA ReservedMember == ASSUME NEW s, NEW p \in Positions
                        PROVE  p \in Reserved(s) <=> s[p].item # NoItem /\ ~s[p].avail
BY DEF Reserved, Occupied

\* Slots untouched, and slot by slot: cleared, fresh, or as before up to being
\* released.
LEMMA SameSlots == ASSUME HoldsAreDistinct, UNCHANGED <<slot, reservation>>,
                          state' = "MODIFY" => state = "MODIFY",
                          state' = "OPEN" => state \in {"OPEN", "MODIFY"},
                          state' = "none" => state = "none"
                   PROVE  KeepsHolds
BY DEF KeepsHolds, HoldsAreDistinct

LEMMA SlotBySlot ==
    ASSUME TypeOK, HoldsAreDistinct, UNCHANGED reservation,
           state' = "MODIFY" => state = "MODIFY",
           state' = "OPEN" => state \in {"OPEN", "MODIFY"},
           state' = "none" => state = "none" \/ \A p \in Positions : slot'[p].avail,
           \A p \in Positions :
              \/ slot'[p].token = 0 /\ slot'[p].avail
              \/ /\ slot'[p].token = slot[p].token /\ slot'[p].buyer = slot[p].buyer
                 /\ slot'[p].item = slot[p].item /\ (slot[p].avail => slot'[p].avail)
                 /\ slot'[p].price = slot[p].price
    PROVE  KeepsHolds
<1>1. \A p \in Positions : slot'[p].token <= reservation
  BY DEF HoldsAreDistinct, TypeOK, DBTypeOK
<1>2. ASSUME NEW p \in Reserved(slot')
      PROVE  /\ p \in Reserved(slot) /\ slot'[p].token = slot[p].token
             /\ slot'[p].buyer = slot[p].buyer /\ slot'[p].item = slot[p].item
             /\ slot'[p].price = slot[p].price
  <2>1. p \in Positions /\ slot'[p].item # NoItem /\ ~slot'[p].avail
    BY ReservedIn, ReservedMember
  <2>. QED BY <2>1, ReservedMember
<1>. QED BY <1>1, <1>2 DEF KeepsHolds, HoldsAreDistinct

LEMMA ClearKeeps == ASSUME DBTypeOK, NEW p
                    PROVE  \A q \in Positions : \/ Clear(slot, p)[q] = EmptySlot
                                                \/ Clear(slot, p)[q] = slot[q]
BY DEF Clear, DBTypeOK

LEMMA EmptySlotFields == EmptySlot.token = 0 /\ EmptySlot.avail /\ EmptySlot.item = NoItem
BY DEF EmptySlot, FreshSlot

LEMMA VanishKeeps == ASSUME TypeOK, HoldsAreDistinct, UNCHANGED reservation, Vanish
                     PROVE  KeepsHolds
<1>1. \A p \in Positions : slot'[p] = EmptySlot
  BY DEF Vanish
<1>2. state' = "none"
  BY DEF Vanish
<1>. QED BY <1>1, <1>2, EmptySlotFields, SlotBySlot

-----------------------------------------------------------------------------
\* The handlers of the DB process.

LEMMA RefusedKeeps == ASSUME HoldsAreDistinct, Refused
                      PROVE  KeepsHolds
BY SameSlots DEF Refused, dbVars

LEMMA BuyRequestMakesHold ==
    ASSUME TypeOK, HoldsAreDistinct, NEW c \in Cores, NEW m \in MsgToDB,
           PrivateShopBuyRequest(c, m)
    PROVE  KeepsHolds \/ MakesHold
<1>1. CASE Refused
  BY <1>1, RefusedKeeps
<1>2. CASE Sellable(m)
  <2>1. m.pos \in Positions
    BY DBMsgFields DEF PrivateShopBuyRequest
  <2>2. slot' = [slot EXCEPT ![m.pos] = [@ EXCEPT !.avail = FALSE, !.token = reservation',
                                                  !.buyer = c, !.due = FALSE]]
    BY <1>2 DEF PrivateShopBuyRequest
  <2>3. slot \in [Positions -> Slot] /\ slot[m.pos] \in Slot
    BY <2>1 DEF TypeOK, DBTypeOK
  <2>4. /\ slot'[m.pos].token = reservation' /\ slot'[m.pos].item = slot[m.pos].item /\ ~slot'[m.pos].avail
        /\ \A q \in Positions \ {m.pos} : slot'[q] = slot[q]
    BY <2>1, <2>2, <2>3 DEF Slot
  <2>. QED BY <1>2, <2>1, <2>4 DEF PrivateShopBuyRequest, NextToken, MakesHold, Sellable
<1>. QED BY <1>1, <1>2 DEF PrivateShopBuyRequest

LEMMA BuyKeeps ==
    ASSUME TypeOK, HoldsAreDistinct, NEW c \in Cores, NEW m \in MsgToDB, PrivateShopBuy(c, m)
    PROVE  KeepsHolds
<1>1. CASE Refused
  BY <1>1, RefusedKeeps
<1>2. CASE Holds(c, m)
  <2>1. slot' = Clear(slot, m.pos) /\ UNCHANGED reservation /\ state' \in {state, "CLOSED"}
    BY <1>2 DEF PrivateShopBuy, Holds, Refused, dbVars
  <2>. QED BY <2>1, ClearKeeps, EmptySlotFields, SlotBySlot DEF TypeOK
<1>. QED BY <1>1, <1>2 DEF PrivateShopBuy

LEMMA FailedBuyKeeps ==
    ASSUME TypeOK, HoldsAreDistinct, NEW c \in Cores, NEW m \in MsgToDB,
           PrivateShopFailedBuy(c, m)
    PROVE  KeepsHolds
<1>1. CASE Refused
  BY <1>1, RefusedKeeps
<1>2. CASE ~Refused
  <2>1. /\ slot' = [slot EXCEPT ![m.pos] = [@ EXCEPT !.avail = TRUE, !.due = FALSE]]
        /\ UNCHANGED <<state, reservation>>
    BY <1>2 DEF PrivateShopFailedBuy
  <2>2. \A p \in Positions : slot[p] \in Slot
    BY DEF TypeOK, DBTypeOK
  <2>3. ASSUME NEW p \in Positions
        PROVE  /\ slot'[p].token = slot[p].token /\ slot'[p].buyer = slot[p].buyer
               /\ slot'[p].item = slot[p].item /\ (slot[p].avail => slot'[p].avail)
               /\ slot'[p].price = slot[p].price
    BY <2>1, <2>2 DEF TypeOK, DBTypeOK, Slot
  <2>. QED BY <2>1, <2>3, SlotBySlot
<1>. QED BY <1>1, <1>2

LEMMA ModifyKeeps ==
    ASSUME TypeOK, HoldsAreDistinct, NEW c \in Cores, NEW m \in MsgToDB,
           PrivateShopModifyRequest(c, m)
    PROVE  KeepsHolds
<1>1. CASE Refused
  BY <1>1, RefusedKeeps
<1>2. CASE MayModify /\ ~Refused
  <2>1. /\ UNCHANGED <<slot, reservation>>
        /\ state' = CASE state = "OPEN" -> "MODIFY" [] state = "MODIFY" -> "OPEN"
                      [] OTHER -> state
    BY <1>2 DEF PrivateShopModifyRequest
  <2>2. state' \in {"OPEN", "MODIFY"} => state \in {"OPEN", "MODIFY"}
    BY <2>1
  <2>. QED BY <1>2, <2>1, <2>2 DEF MayModify, KeepsHolds, HoldsAreDistinct
<1>. QED BY <1>1, <1>2 DEF PrivateShopModifyRequest

LEMMA PriceChangeKeeps ==
    ASSUME TypeOK, HoldsAreDistinct, NEW c \in Cores, NEW m \in MsgToDB,
           PrivateShopItemPriceChangeRequest(c, m)
    PROVE  KeepsHolds
<1>1. CASE Refused
  BY <1>1, RefusedKeeps
<1>2. CASE ~Refused
  <2>1. /\ slot' = [slot EXCEPT ![m.pos].price = m.price]
        /\ Editable /\ UNCHANGED <<state, reservation>>
    BY <1>2 DEF PrivateShopItemPriceChangeRequest
  <2>2. \A p \in Positions : slot[p] \in Slot
    BY DEF TypeOK, DBTypeOK
  <2>3. state = "MODIFY" /\ Reserved(slot) = {}
    BY <2>1 DEF Editable, HoldsAreDistinct
  <2>4. \A p \in Positions : /\ slot'[p].token = slot[p].token /\ slot'[p].item = slot[p].item
                             /\ slot'[p].avail = slot[p].avail
    BY <2>1, <2>2 DEF TypeOK, DBTypeOK, Slot
  <2>5. Reserved(slot') = {}
    BY <2>3, <2>4, ReservedIn, ReservedMember
  <2>. QED BY <2>1, <2>3, <2>4, <2>5 DEF KeepsHolds, HoldsAreDistinct
<1>. QED BY <1>1, <1>2

\* A move takes a position's token along; in MODIFY no position is held.
LEMMA MoveKeeps ==
    ASSUME TypeOK, HoldsAreDistinct, NEW c \in Cores, NEW m \in MsgToDB,
           PrivateShopItemMoveRequest(c, m)
    PROVE  KeepsHolds
<1>1. CASE Refused
  BY <1>1, RefusedKeeps
<1>2. CASE ~Refused
  <2>1. /\ slot' = [Clear(slot, m.pos) EXCEPT ![m.dst] = slot[m.pos]]
        /\ Editable /\ UNCHANGED <<state, reservation>>
    BY <1>2 DEF PrivateShopItemMoveRequest
  <2>2. m.pos \in Positions /\ m.dst \in Positions
    BY DBMsgFields DEF PrivateShopItemMoveRequest
  <2>3. state = "MODIFY" /\ Reserved(slot) = {}
    BY <2>1 DEF Editable, HoldsAreDistinct
  <2>4. Clear(slot, m.pos) \in [Positions -> Slot]
    BY SlotTypes DEF TypeOK, DBTypeOK
  <2>5. ASSUME NEW p \in Positions
        PROVE  slot'[p] = EmptySlot \/ \E q \in Positions : slot'[p] = slot[q]
    BY <2>1, <2>2, <2>4, ClearKeeps DEF TypeOK
  <2>6. Reserved(slot') = {}
    <3>1. ASSUME NEW p \in Positions
          PROVE  slot'[p].item = NoItem \/ slot'[p].avail
      BY <2>3, <2>5, EmptySlotFields, ReservedMember
    <3>. QED BY <3>1, ReservedIn, ReservedMember
  <2>7. \A p \in Positions : slot'[p].token <= reservation
    BY <2>5, EmptySlotFields DEF HoldsAreDistinct, TypeOK, DBTypeOK
  <2>. QED BY <2>1, <2>3, <2>6, <2>7 DEF KeepsHolds
<1>. QED BY <1>1, <1>2

LEMMA CheckinUpdateKeeps ==
    ASSUME TypeOK, HoldsAreDistinct, NEW c \in Cores, NEW m \in MsgToDB,
           PrivateShopItemCheckinUpdate(c, m)
    PROVE  KeepsHolds
<1>1. CASE Refused
  BY <1>1, RefusedKeeps
<1>2. CASE ~Refused
  <2>1. /\ slot' = [slot EXCEPT ![m.pos] = FreshSlot(m.item, m.price)]
        /\ UNCHANGED <<state, reservation>>
    BY <1>2 DEF PrivateShopItemCheckinUpdate
  <2>2. FreshSlot(m.item, m.price).token = 0 /\ FreshSlot(m.item, m.price).avail
    BY DEF FreshSlot
  <2>3. \A p \in Positions : slot'[p] = FreshSlot(m.item, m.price) \/ slot'[p] = slot[p]
    BY <2>1 DEF TypeOK, DBTypeOK
  <2>. QED BY <2>1, <2>2, <2>3, SlotBySlot
<1>. QED BY <1>1, <1>2

LEMMA RemovalKeeps ==
    ASSUME TypeOK, HoldsAreDistinct, UNCHANGED reservation, NEW p, NEW out,
           AfterRemoval(Clear(slot, p), out)
    PROVE  KeepsHolds
<1>1. CASE Vanish
  BY <1>1, VanishKeeps
<1>2. CASE slot' = Clear(slot, p) /\ state' \in {state, "CLOSED"}
  BY <1>2, ClearKeeps, EmptySlotFields, SlotBySlot DEF TypeOK
<1>. QED BY <1>1, <1>2 DEF AfterRemoval

LEMMA RemovingHandlersKeep ==
    ASSUME TypeOK, HoldsAreDistinct, NEW c \in Cores, NEW m \in MsgToDB,
           PrivateShopItemCheckoutUpdate(c, m) \/ PrivateShopItemExpire(c, m)
    PROVE  KeepsHolds
BY RefusedKeeps, RemovalKeeps DEF PrivateShopItemCheckoutUpdate, PrivateShopItemExpire

LEMMA WithdrawKeeps ==
    ASSUME TypeOK, HoldsAreDistinct, NEW c \in Cores, NEW m \in MsgToDB,
           PrivateShopWithdraw(c, m)
    PROVE  KeepsHolds
BY RefusedKeeps, VanishKeeps, SameSlots DEF PrivateShopWithdraw

LEMMA TransferKeeps ==
    ASSUME TypeOK, HoldsAreDistinct, NEW c \in Cores, NEW m \in MsgToDB,
           PrivateShopItemTransfer(c, m)
    PROVE  KeepsHolds
<1>1. CASE Refused
  BY <1>1, RefusedKeeps
<1>2. CASE ~Refused
  <2>1. UNCHANGED <<state, reservation>>
    BY <1>2 DEF PrivateShopItemTransfer
  <2>2. \A p \in Positions : slot'[p] = EmptySlot \/ slot'[p] = slot[p]
    BY <1>2 DEF PrivateShopItemTransfer
  <2>. QED BY <2>1, <2>2, EmptySlotFields, SlotBySlot
<1>. QED BY <1>1, <1>2

\* The handlers that leave the slots and the state alone, or destroy the shop.
LEMMA OtherHandlersKeep ==
    ASSUME TypeOK, HoldsAreDistinct, NEW c \in Cores, NEW m \in MsgToDB,
           \/ QueryItemSave(c, m) \/ PrivateShopItemCheckinRequest(c, m)
           \/ PrivateShopItemCheckoutRequest(c, m) \/ PrivateShopWithdrawRequest(c, m)
           \/ PrivateShopClose(c, m) \/ PrivateShopDelete(c, m) \/ PrivateShopLogout(c, m)
           \/ AccountLogout(c, m)
    PROVE  KeepsHolds
<1>1. CASE PrivateShopDelete(c, m)
  BY <1>1, VanishKeeps DEF PrivateShopDelete
<1>2. CASE UNCHANGED <<state, slot, reservation>>
  BY <1>2, SameSlots
<1>. QED BY <1>1, <1>2
         DEF QueryItemSave, PrivateShopItemCheckinRequest, PrivateShopItemCheckoutRequest,
             PrivateShopWithdrawRequest, PrivateShopClose, PrivateShopLogout, AccountLogout, dbVars

\* All but one of the handlers keep the holds.
LEMMA ProcessKeeps == ASSUME TypeOK, HoldsAreDistinct, NEW c \in Cores, Process(c)
                      PROVE  PrivateShopBuyRequest(c, Head(toDB[c])) \/ KeepsHolds
<1> DEFINE m == Head(toDB[c])
<1>1. m \in MsgToDB
  BY DEF Process, TypeOK, WireTypeOK
<1> HIDE DEF m
<1>2. \/ PrivateShopBuyRequest(c, m) \/ PrivateShopBuy(c, m) \/ PrivateShopFailedBuy(c, m)
      \/ PrivateShopModifyRequest(c, m) \/ PrivateShopItemPriceChangeRequest(c, m)
      \/ PrivateShopItemMoveRequest(c, m) \/ PrivateShopItemCheckinUpdate(c, m)
      \/ PrivateShopItemCheckoutUpdate(c, m) \/ PrivateShopItemExpire(c, m)
      \/ PrivateShopWithdraw(c, m) \/ PrivateShopItemTransfer(c, m)
      \/ QueryItemSave(c, m) \/ PrivateShopItemCheckinRequest(c, m)
      \/ PrivateShopItemCheckoutRequest(c, m) \/ PrivateShopWithdrawRequest(c, m)
      \/ PrivateShopClose(c, m) \/ PrivateShopDelete(c, m) \/ PrivateShopLogout(c, m)
      \/ AccountLogout(c, m)
  BY Zenon DEF Process, m
<1>. QED BY <1>1, <1>2, BuyKeeps, FailedBuyKeeps, ModifyKeeps, PriceChangeKeeps, MoveKeeps,
            CheckinUpdateKeeps, RemovingHandlersKeep, WithdrawKeeps, TransferKeeps,
            OtherHandlersKeep DEF m

LEMMA ProcessHolds == ASSUME TypeOK, HoldsAreDistinct, NEW c \in Cores, Process(c)
                      PROVE  KeepsHolds \/ MakesHold
<1>1. Head(toDB[c]) \in MsgToDB
  BY DEF Process, TypeOK, WireTypeOK
<1>. QED BY <1>1, ProcessKeeps, BuyRequestMakesHold

LEMMA UpdatedSlotKeeps ==
    ASSUME TypeOK
    PROVE  \A p \in Positions : /\ UpdatedSlot[p].token = slot[p].token
                                /\ UpdatedSlot[p].buyer = slot[p].buyer
                                /\ UpdatedSlot[p].item = slot[p].item
                                /\ UpdatedSlot[p].price = slot[p].price
                                /\ (slot[p].avail => UpdatedSlot[p].avail)
<1>1. \A p \in Positions : slot[p] \in Slot
  BY DEF TypeOK, DBTypeOK
<1>. QED BY <1>1 DEF UpdatedSlot, Slot

LEMMA UpdateKeeps ==
    ASSUME TypeOK, HoldsAreDistinct, UpdatePrivateShopPremiumEvent \/ RESULT_PRIVATE_SHOP_LOAD
    PROVE  KeepsHolds
<1>1. UNCHANGED reservation
  BY DEF UpdatePrivateShopPremiumEvent, RESULT_PRIVATE_SHOP_LOAD
<1>2. CASE Vanish
  BY <1>1, <1>2, VanishKeeps
<1>3. CASE UNCHANGED <<state, slot>>
  BY <1>1, <1>3, SameSlots
<1>4. CASE slot' = UpdatedSlot /\ state' \in {UpdatedState, LoadState}
  <2>1. state' \in {state, "RECOVERY"}
    BY <1>4 DEF UpdatedState, LoadState
  <2>2. \A p \in Positions :
           /\ slot'[p].token = slot[p].token /\ slot'[p].buyer = slot[p].buyer
           /\ slot'[p].item = slot[p].item /\ (slot[p].avail => slot'[p].avail)
           /\ slot'[p].price = slot[p].price
    BY <1>4, UpdatedSlotKeeps
  <2>. QED BY <1>1, <2>1, <2>2, SlotBySlot
<1>. QED BY <1>2, <1>3, <1>4 DEF UpdatePrivateShopPremiumEvent, RESULT_PRIVATE_SHOP_LOAD

LEMMA DueKeeps ==
    ASSUME TypeOK, HoldsAreDistinct, NEW p \in Positions, ReservationDue(p)
    PROVE  KeepsHolds
<1>1. slot' = [slot EXCEPT ![p].due = TRUE] /\ UNCHANGED <<state, reservation>>
  BY DEF ReservationDue
<1>2. \A q \in Positions : slot[q] \in Slot
  BY DEF TypeOK, DBTypeOK
<1>3. ASSUME NEW q \in Positions
      PROVE  /\ slot'[q].token = slot[q].token /\ slot'[q].buyer = slot[q].buyer
             /\ slot'[q].item = slot[q].item /\ slot'[q].avail = slot[q].avail
             /\ slot'[q].price = slot[q].price
  BY <1>1, <1>2 DEF TypeOK, DBTypeOK, Slot
<1>. QED BY <1>1, <1>3, SlotBySlot

\* Every step of the shop makes no hold, or makes one.
LEMMA StepHolds == ASSUME TypeOK, HoldsAreDistinct, [Next]_vars
                   PROVE  KeepsHolds \/ MakesHold
<1>1. CASE UNCHANGED <<state, slot, reservation>>
  BY <1>1, SameSlots
<1>2. CASE DBStep
  <2>1. ASSUME NEW c \in Cores, Process(c)
        PROVE  KeepsHolds \/ MakesHold
    BY <2>1, ProcessHolds
  <2>2. ASSUME NEW c \in Cores, RemovePeer(c)
        PROVE  KeepsHolds
    BY <2>2, SameSlots DEF RemovePeer
  <2>. QED BY <1>2, <2>1, <2>2, UpdateKeeps DEF DBStep
<1>3. CASE EnvStep
  BY <1>1, <1>3, DueKeeps DEF EnvStep, DeadlinePasses, OwnerLogin, dbVars
<1>. QED BY <1>1, <1>2, <1>3 DEF Next, GameStep, ClientStep, vars, dbVars

-----------------------------------------------------------------------------
\* The theorems.

LEMMA DistinctInit == Init => HoldsAreDistinct
<1> SUFFICES ASSUME Init
             PROVE  HoldsAreDistinct
  OBVIOUS
<1>1. \A p \in Positions : slot[p].token = 0 /\ slot[p].avail
  BY EmptySlotFields DEF Init, FreshSlot
<1>. QED BY <1>1, ReservedIn, ReservedMember DEF Init, HoldsAreDistinct

LEMMA DistinctStep == TypeOK /\ HoldsAreDistinct /\ [Next]_vars => HoldsAreDistinct'
<1> SUFFICES ASSUME TypeOK, HoldsAreDistinct, [Next]_vars
             PROVE  HoldsAreDistinct'
  OBVIOUS
<1>1. CASE KeepsHolds
  BY <1>1 DEF KeepsHolds, HoldsAreDistinct, Reserved
<1>2. CASE MakesHold
  <2>1. PICK p \in Positions : /\ slot'[p].token = reservation'
                               /\ \A q \in Positions \ {p} : slot'[q] = slot[q]
    BY <1>2 DEF MakesHold
  <2>2. /\ reservation \in Nat /\ reservation' = reservation + 1 /\ state' # "MODIFY"
        /\ \A q \in Positions : slot[q].token \in Nat /\ slot[q].token <= reservation
    BY <1>2 DEF MakesHold, Selling, HoldsAreDistinct, TypeOK, DBTypeOK, Slot
  <2>3. \A q \in Positions : slot'[q].token <= reservation'
    BY <2>1, <2>2
  <2>4. \A q \in Positions \ {p} : slot'[q].token # reservation'
    BY <2>1, <2>2
  <2>5. \A q \in Reserved(slot') \ {p} : q \in Reserved(slot) /\ slot'[q].token = slot[q].token
    BY <2>1, ReservedIn, ReservedMember
  <2>6. ASSUME NEW q \in Reserved(slot'), NEW r \in Reserved(slot'),
               slot'[q].token = slot'[r].token
        PROVE  q = r
    <3>1. q \in Positions /\ r \in Positions
      BY ReservedIn
    <3>. QED BY <2>1, <2>4, <2>5, <2>6, <3>1 DEF HoldsAreDistinct
  <2>. QED BY <2>2, <2>3, <2>6 DEF HoldsAreDistinct
<1>. QED BY <1>1, <1>2, StepHolds

\* Tokens are never reused and no two holds share one, and the owner never
\* edits a shop in which something is held for a customer, whatever the cores,
\* customers, requests, timeouts, crashes and bounds (PrivateShopBuyRequest,
\* PrivateShopModifyRequest).
THEOREM HoldsStayDistinct == Spec => []HoldsAreDistinct
BY TypeInvariant, DistinctInit, DistinctStep, PTL DEF Spec

LEMMA ExpiredStep ==
    ASSUME TypeOK, HoldsAreDistinct, [Next]_vars
    PROVE  /\ expired => \A p \in Reserved(slot') : slot'[p].token = slot[p].token
           /\ expired /\ state \in {"none", "CLOSED", "RECOVERY"}
                => state' \notin {"OPEN", "MODIFY"}
<1>1. CASE KeepsHolds
  BY <1>1 DEF KeepsHolds
<1>2. CASE MakesHold
  BY <1>2 DEF MakesHold, Selling
<1>. QED BY <1>1, <1>2, StepHolds

\* Once its deadline has passed a shop reserves nothing any more, and once it is
\* closed, in recovery or gone it is never open or being edited again: no
\* handler, relog or restoration sells from it (UpdatePrivateShopPremiumEvent,
\* RESULT_PRIVATE_SHOP_LOAD, PrivateShopBuyRequest).
THEOREM NoSaleAfterDeadline == Spec => ExpiredNeverSells
<1>1. TypeOK /\ HoldsAreDistinct /\ [Next]_vars =>
        [/\ expired => \A p \in Reserved(slot') : slot'[p].token = slot[p].token
         /\ expired /\ state \in {"none", "CLOSED", "RECOVERY"}
              => state' \notin {"OPEN", "MODIFY"}]_vars
  BY ExpiredStep
<1>. QED BY <1>1, TypeInvariant, HoldsStayDistinct, PTL DEF Spec, ExpiredNeverSells

-----------------------------------------------------------------------------
\* Every hold is answered.

\* What a packet that carries the token of a hold says of it.
NamesIn(s, r, c, m) ==
    /\ m.token <= r
    /\ \A p \in Reserved(s) : s[p].token = m.token =>
         /\ m.pos = p /\ s[p].buyer = c
         /\ m.kind \in {"BuyRequest", "Buy"} => m.item = s[p].item /\ m.price = s[p].price

Offering == {"BuyRequest", "Cancel"}
Answering == {"Buy", "FailedBuy"}

TokensName ==
    \A c \in Cores :
        /\ \A m \in Range(toGame[c]) : m.kind \in Offering => NamesIn(slot, reservation, c, m)
        /\ \A m \in Range(toDB[c]) : m.kind \in Answering => NamesIn(slot, reservation, c, m)

HeldByCores == \A p \in Reserved(slot) : slot[p].buyer \in Cores
GoneIsEmpty == state = "none" => Reserved(slot) = {}

\* The strengthening of HoldIsAnswered that is inductive.
AnswersInv == HoldsAreDistinct /\ TokensName /\ HeldByCores /\ GoneIsEmpty /\ HoldIsAnswered

Carries(s, ks, p, t) == \E m \in Range(s) : m.kind \in ks /\ m.pos = p /\ m.token = t
Pending(g, d, p, t) == Carries(g, {"BuyRequest"}, p, t) \/ Carries(d, Answering, p, t)

-----------------------------------------------------------------------------
\* Sequences of packets.

LEMMA RangeConcat == ASSUME NEW T, NEW s \in Seq(T), NEW u \in Seq(T)
                     PROVE  Range(s \o u) = Range(s) \cup Range(u)
<1>1. ASSUME NEW n \in DOMAIN (s \o u)
      PROVE  (s \o u)[n] \in Range(s) \cup Range(u)
  <2>1. n \in 1 .. Len(s) + Len(u)
    BY ConcatProperties, LenProperties
  <2>2. CASE n <= Len(s)
    BY <2>1, <2>2, ConcatProperties, LenProperties DEF Range
  <2>3. CASE n > Len(s)
    <3>1. n - Len(s) \in DOMAIN u /\ (s \o u)[n] = u[n - Len(s)]
      BY <2>1, <2>3, ConcatProperties, LenProperties
    <3>. QED BY <3>1 DEF Range
  <2>. QED BY <2>1, <2>2, <2>3, LenProperties
<1>2. ASSUME NEW n \in DOMAIN s
      PROVE  s[n] \in Range(s \o u)
  <2>1. n \in DOMAIN (s \o u) /\ (s \o u)[n] = s[n]
    BY ConcatProperties, LenProperties
  <2>. QED BY <2>1 DEF Range
<1>3. ASSUME NEW n \in DOMAIN u
      PROVE  u[n] \in Range(s \o u)
  <2>1. n + Len(s) \in DOMAIN (s \o u) /\ (s \o u)[n + Len(s)] = u[n]
    BY ConcatProperties, LenProperties
  <2>. QED BY <2>1 DEF Range
<1>. QED BY <1>1, <1>2, <1>3 DEF Range

LEMMA RangeTail == ASSUME NEW T, NEW s \in Seq(T), s # <<>>
                   PROVE  /\ Range(Tail(s)) \subseteq Range(s) /\ Head(s) \in Range(s)
                          /\ Range(s) \subseteq Range(Tail(s)) \cup {Head(s)}
<1>1. Len(s) \in Nat \ {0} /\ Len(Tail(s)) = Len(s) - 1 /\ DOMAIN s = 1 .. Len(s)
      /\ DOMAIN Tail(s) = 1 .. Len(s) - 1
  OBVIOUS
<1>2. Head(s) = s[1] /\ \A n \in 1 .. Len(s) - 1 : Tail(s)[n] = s[n + 1]
  OBVIOUS
<1>3. ASSUME NEW n \in DOMAIN s
      PROVE  s[n] \in Range(Tail(s)) \cup {Head(s)}
  <2>1. CASE n = 1
    BY <1>2, <2>1
  <2>2. CASE n # 1
    <3>1. n - 1 \in DOMAIN Tail(s) /\ Tail(s)[n - 1] = s[n]
      BY <1>1, <1>2, <2>2
    <3>. QED BY <3>1 DEF Range
  <2>. QED BY <2>1, <2>2
<1>4. ASSUME NEW n \in DOMAIN Tail(s)
      PROVE  Tail(s)[n] \in Range(s)
  BY <1>1, <1>2 DEF Range
<1>5. 1 \in DOMAIN s /\ s[1] \in Range(s)
  BY <1>1 DEF Range
<1>6. Range(Tail(s)) \subseteq Range(s)
  BY <1>4 DEF Range
<1>7. Range(s) \subseteq Range(Tail(s)) \cup {Head(s)}
  BY <1>3 DEF Range
<1>. QED BY <1>2, <1>5, <1>6, <1>7

LEMMA RangeTypes == \A T : /\ Range(<<>>) = {}
                           /\ \A s \in Seq(T) : Range(s) \subseteq T
                           /\ \A m \in T : Range(<<m>>) = {m}
BY DEF Range

LEMMA RangeSubSeq == ASSUME NEW T, NEW s \in Seq(T), NEW n \in 0 .. Len(s)
                     PROVE  Range(SubSeq(s, 1, n)) \subseteq Range(s)
<1>1. DOMAIN SubSeq(s, 1, n) = 1 .. n /\ \A k \in 1 .. n : SubSeq(s, 1, n)[k] = s[k]
  BY SubSeqProperties, LenProperties
<1>. QED BY <1>1, LenProperties DEF Range

-----------------------------------------------------------------------------
\* What a step does to the connections.

\* The DB process adds notices and cancellations, and what it sends arrives
\* while the core lives.
LEMMA ToldRange ==
    ASSUME toGame \in MailToGame, Told, NEW c \in Cores
    PROVE  /\ Range(toGame'[c]) \subseteq Range(toGame[c]) \cup OutMsg(c)
           /\ c \notin crashed => Range(toGame[c]) \subseteq Range(toGame'[c])
<1>1. CASE UNCHANGED toGame
  BY <1>1
<1>2. ASSUME NEW out \in OutMail, Post(out)
      PROVE  /\ Range(toGame'[c]) \subseteq Range(toGame[c]) \cup OutMsg(c)
             /\ c \notin crashed => Range(toGame[c]) \subseteq Range(toGame'[c])
  <2>1. /\ toGame[c] \in Seq(MsgToGame) /\ out[c] \in Seq(MsgToGame)
        /\ out[c] \in Seq(OutMsg(c))
    BY DEF OutMail, MailToGame
  <2>2. Range(toGame[c] \o out[c]) = Range(toGame[c]) \cup Range(out[c])
    BY <2>1, RangeConcat
  <2>3. Range(out[c]) \subseteq OutMsg(c)
    BY <2>1, RangeTypes
  <2>4. toGame'[c] = IF c \in crashed THEN <<>> ELSE toGame[c] \o out[c]
    BY <1>2 DEF Post
  <2>. QED BY <2>2, <2>3, <2>4, RangeTypes
<1>. QED BY <1>1, <1>2 DEF Told

\* A core sends on its connection behind what is under way.
LEMMA SentRange ==
    ASSUME toDB \in MailToDB, NEW d, NEW ms \in Seq(MsgToDB), Send(d, ms), NEW c \in Cores
    PROVE  Range(toDB'[c]) = IF c = d THEN Range(toDB[c]) \cup Range(ms) ELSE Range(toDB[c])
<1>1. toDB[c] \in Seq(MsgToDB)
  BY DEF MailToDB
<1>2. toDB'[c] = IF c = d THEN toDB[c] \o ms ELSE toDB[c]
  BY DEF Send, MailToDB
<1>. QED BY <1>1, <1>2, RangeConcat

LEMMA SaidRange ==
    ASSUME toDB \in MailToDB, Said, NEW c \in Cores
    PROVE  /\ Range(toDB'[c]) \subseteq Range(toDB[c]) \cup Reports
           /\ Range(toDB[c]) \subseteq Range(toDB'[c])
<1>1. CASE NoSend
  BY <1>1 DEF NoSend
<1>2. ASSUME NEW d, NEW ms \in Seq(Reports), Send(d, ms)
      PROVE  /\ Range(toDB'[c]) \subseteq Range(toDB[c]) \cup Reports
             /\ Range(toDB[c]) \subseteq Range(toDB'[c])
  <2>1. ms \in Seq(MsgToDB) /\ Range(ms) \subseteq Reports
    BY RangeTypes DEF Reports
  <2>. QED BY <1>2, <2>1, SentRange
<1>. QED BY <1>1, <1>2 DEF Said

\* Reading a packet takes it off its connection and leaves the others.
LEMMA ReadRange ==
    ASSUME NEW T, NEW q \in [Cores -> Seq(T)], NEW d \in Cores, q[d] # <<>>, NEW c \in Cores
    PROVE  LET r == [q EXCEPT ![d] = Tail(@)]
           IN /\ Range(r[c]) \subseteq Range(q[c]) /\ Head(q[d]) \in Range(q[d])
              /\ Range(q[c]) \subseteq Range(r[c]) \cup (IF c = d THEN {Head(q[d])} ELSE {})
<1>1. [q EXCEPT ![d] = Tail(@)][c] = IF c = d THEN Tail(q[c]) ELSE q[c]
  OBVIOUS
<1>2. q[c] \in Seq(T) /\ q[d] \in Seq(T)
  OBVIOUS
<1>. QED BY <1>1, <1>2, RangeTail

-----------------------------------------------------------------------------
\* Which handler reads which packet.

\* A packet is read by the handler of its kind.
LEMMA AnswerRead ==
    ASSUME NEW c \in Cores, Process(c)
    PROVE  LET m == Head(toDB[c])
           IN /\ m.kind = "Buy" => PrivateShopBuy(c, m)
              /\ m.kind = "FailedBuy" => PrivateShopFailedBuy(c, m)
              /\ m.kind = "BuyRequest" => PrivateShopBuyRequest(c, m)
              /\ m.kind = "ItemSave" => QueryItemSave(c, m)
              /\ m.kind = "Close" => PrivateShopClose(c, m)
              /\ m.kind = "CheckoutRequest" => PrivateShopItemCheckoutRequest(c, m)
              /\ m.kind = "CheckinUpdate" => PrivateShopItemCheckinUpdate(c, m)
              /\ m.kind = "WithdrawDone" => PrivateShopWithdraw(c, m)
<1> DEFINE m == Head(toDB[c])
<1>1. /\ PrivateShopModifyRequest(c, m) => m.kind = "Modify"
      /\ PrivateShopItemPriceChangeRequest(c, m) => m.kind = "Price"
      /\ PrivateShopItemMoveRequest(c, m) => m.kind = "Move"
      /\ PrivateShopItemCheckinRequest(c, m) => m.kind = "CheckinRequest"
      /\ PrivateShopItemCheckinUpdate(c, m) => m.kind = "CheckinUpdate"
      /\ PrivateShopItemCheckoutRequest(c, m) => m.kind = "CheckoutRequest"
      /\ PrivateShopItemCheckoutUpdate(c, m) => m.kind = "CheckoutUpdate"
      /\ PrivateShopItemExpire(c, m) => m.kind = "ItemExpire"
      /\ PrivateShopWithdrawRequest(c, m) => m.kind = "WithdrawRequest"
      /\ PrivateShopWithdraw(c, m) => m.kind = "WithdrawDone"
  BY Zenon DEF PrivateShopModifyRequest, PrivateShopItemPriceChangeRequest,
     PrivateShopItemMoveRequest, PrivateShopItemCheckinRequest, PrivateShopItemCheckinUpdate,
     PrivateShopItemCheckoutRequest, PrivateShopItemCheckoutUpdate, PrivateShopItemExpire,
     PrivateShopWithdrawRequest, PrivateShopWithdraw
<1>2. /\ PrivateShopClose(c, m) => m.kind = "Close"
      /\ PrivateShopItemTransfer(c, m) => m.kind = "ItemTransfer"
      /\ PrivateShopDelete(c, m) => m.kind = "Delete"
      /\ PrivateShopLogout(c, m) => m.kind = "Logout"
      /\ AccountLogout(c, m) => m.kind = "AccountLogout"
      /\ QueryItemSave(c, m) => m.kind = "ItemSave"
      /\ PrivateShopBuy(c, m) => m.kind = "Buy"
      /\ PrivateShopFailedBuy(c, m) => m.kind = "FailedBuy"
      /\ PrivateShopBuyRequest(c, m) => m.kind = "BuyRequest"
  BY Zenon DEF PrivateShopClose, PrivateShopItemTransfer, PrivateShopDelete, PrivateShopLogout,
     AccountLogout, QueryItemSave, PrivateShopBuy, PrivateShopFailedBuy, PrivateShopBuyRequest
<1>. QED BY <1>1, <1>2 DEF Process

LEMMA OfferRead ==
    ASSUME NEW c \in Cores, Receive(c), Head(toGame[c]).kind = "BuyRequest"
    PROVE  GameBuyRequest(c, Head(toGame[c]))
<1> DEFINE m == Head(toGame[c])
<1>1. /\ GameCancel(c, m) => m.kind = "Cancel"
      /\ GameRemoveItem(c, m) => m.kind = "RemoveItem"
      /\ GameAddItem(c, m) => m.kind = "AddItem"
      /\ GameSpawn(c, m) => m.kind = "Spawn"
      /\ GameStateUpdate(c, m) => m.kind = "State"
      /\ GamePriceChange(c, m) => m.kind = "Price"
      /\ GameItemMove(c, m) => m.kind = "Move"
      /\ GameSaleUpdate(c, m) => m.kind = "Sale"
      /\ GameItemExpire(c, m) => m.kind = "ItemExpire"
      /\ GameClosed(c, m) => m.kind = "Close"
  BY Zenon DEF GameCancel, GameRemoveItem, GameAddItem, GameSpawn, GameStateUpdate,
     GamePriceChange, GameItemMove, GameSaleUpdate, GameItemExpire, GameClosed
<1>2. /\ GameLoad(c, m) => m.kind = "Load"
      /\ GameCheckin(c, m) => m.kind = "Checkin"
      /\ GameCheckout(c, m) => m.kind = "Checkout"
      /\ GameWithdraw(c, m) => m.kind = "Withdraw"
      /\ GameDestroy(c, m) => m.kind = "Destroy"
  BY Zenon DEF GameLoad, GameCheckin, GameCheckout, GameWithdraw, GameDestroy
<1>. QED BY <1>1, <1>2 DEF Receive

-----------------------------------------------------------------------------
\* The names of packets.

\* A step that makes no hold leaves the packets named.
LEMMA NamesKept == ASSUME KeepsHolds, NEW c, NEW m, NamesIn(slot, reservation, c, m)
                   PROVE  NamesIn(slot', reservation', c, m)
BY DEF KeepsHolds, NamesIn

\* A step that makes one does too: its token is new.
LEMMA NamesKeptByNew ==
    ASSUME TypeOK, MakesHold, NEW c, NEW m, m.token \in Nat, NamesIn(slot, reservation, c, m)
    PROVE  NamesIn(slot', reservation', c, m)
<1>1. PICK p \in Positions : /\ slot'[p].token = reservation'
                             /\ \A q \in Positions \ {p} : slot'[q] = slot[q]
  BY DEF MakesHold
<1>2. reservation \in Nat /\ reservation' = reservation + 1 /\ m.token <= reservation
  BY DEF MakesHold, NamesIn, TypeOK, DBTypeOK
<1>3. m.token <= reservation' /\ m.token # reservation'
  BY <1>2
<1>4. ASSUME NEW q \in Reserved(slot'), slot'[q].token = m.token
      PROVE  q \in Reserved(slot) /\ slot'[q] = slot[q]
  <2>1. q \in Positions /\ q # p
    BY <1>1, <1>3, <1>4, ReservedIn
  <2>2. slot'[q] = slot[q]
    BY <1>1, <2>1
  <2>. QED BY <2>1, <2>2, ReservedMember
<1>. QED BY <1>3, <1>4 DEF NamesIn

\* A cancellation names the hold it was made for: holds have distinct tokens.
LEMMA CancelsAreNamed ==
    ASSUME TypeOK, HoldsAreDistinct, NEW c \in Cores, NEW m \in CancelsFor(c)
    PROVE  NamesIn(slot, reservation, c, m)
<1>1. PICK p \in Overdue : /\ slot[p].buyer = c
                           /\ m = [kind |-> "Cancel", pos |-> p, token |-> slot[p].token]
  BY DEF CancelsFor
<1>2. p \in Reserved(slot) /\ p \in Positions
  BY ReservedIn DEF Overdue
<1>3. m.kind = "Cancel" /\ m.pos = p /\ m.token = slot[p].token
  BY <1>1
<1>. QED BY <1>1, <1>2, <1>3 DEF NamesIn, HoldsAreDistinct

\* Tokens are natural numbers.
LEMMA TokenTypes ==
    ASSUME TypeOK, NEW c \in Cores
    PROVE  /\ \A m \in Range(toGame[c]) : m.kind \in Offering => m.token \in Nat
           /\ \A m \in Range(toDB[c]) : m.kind \in Answering => m.token \in Nat
<1>1. Range(toGame[c]) \subseteq MsgToGame /\ Range(toDB[c]) \subseteq MsgToDB
  BY RangeTypes DEF TypeOK, WireTypeOK
<1>2. \A m \in MsgToGame : m.kind \in Offering => m.token \in Nat
  BY DEF MsgToGame, Offering
<1>3. \A m \in MsgToDB : m.kind \in Answering => m.token \in Nat
  BY DEF MsgToDB, Answering
<1>. QED BY <1>1, <1>2, <1>3

-----------------------------------------------------------------------------
\* The answer to a hold ends it.

LEMMA AnswerEnds ==
    ASSUME TypeOK, AnswersInv, NEW c \in Cores, Process(c),
           NEW p \in Reserved(slot), slot[p].buyer = c, Head(toDB[c]).kind \in Answering,
           Head(toDB[c]).pos = p, Head(toDB[c]).token = slot[p].token
    PROVE  p \notin Reserved(slot')
<1> DEFINE m == Head(toDB[c])
<1>1. m \in Range(toDB[c]) /\ m \in MsgToDB
  BY RangeTail DEF Process, TypeOK, WireTypeOK
<1>2. NamesIn(slot, reservation, c, m) /\ state # "none" /\ p \in Positions
  BY <1>1, ReservedIn DEF AnswersInv, TokensName, GoneIsEmpty
<1>3. p \in Reserved(slot) /\ m.pos = p /\ slot[p].item # NoItem /\ ~slot[p].avail
  BY <1>2, ReservedMember
<1>4. CASE m.kind = "Buy"
  <2>1. m.item = slot[p].item
    BY <1>2, <1>4 DEF NamesIn
  <2>2. Holds(c, m)
    BY <1>2, <1>3, <2>1 DEF Holds, Exists
  <2>3. slot' = Clear(slot, p)
    BY <1>3, <1>4, <2>2, AnswerRead DEF PrivateShopBuy
  <2>4. slot'[p].item = NoItem
    BY <1>2, <2>3, EmptySlotFields DEF Clear, TypeOK, DBTypeOK
  <2>. QED BY <1>2, <2>4, ReservedMember
<1>5. CASE m.kind = "FailedBuy"
  <2>1. Answers(m)
    BY <1>3 DEF Answers
  <2>2. slot' = [slot EXCEPT ![p] = [@ EXCEPT !.avail = TRUE, !.due = FALSE]]
    BY <1>3, <1>5, <2>1, AnswerRead DEF PrivateShopFailedBuy
  <2>3. slot[p] \in Slot /\ slot \in [Positions -> Slot]
    BY <1>2 DEF TypeOK, DBTypeOK
  <2>4. slot'[p].avail
    BY <1>2, <2>2, <2>3 DEF Slot
  <2>. QED BY <1>2, <2>4, ReservedMember
<1>. QED BY <1>4, <1>5 DEF Answering

-----------------------------------------------------------------------------
\* What is pending for the holds after a step.

LEMMA AnsweredAs ==
    /\ HoldIsAnswered <=> \A p \in Reserved(slot) :
                             slot[p].buyer \notin crashed =>
                                Pending(toGame[slot[p].buyer], toDB[slot[p].buyer], p, slot[p].token)
    /\ HoldIsAnswered' <=> \A p \in Reserved(slot') :
                              slot'[p].buyer \notin crashed' =>
                                 Pending(toGame'[slot'[p].buyer], toDB'[slot'[p].buyer], p,
                                         slot'[p].token)
BY DEF HoldIsAnswered, Pending, Carries, Answering, Range

\* A step that makes no hold and keeps what is pending for those it keeps.
LEMMA PendingKept ==
    ASSUME AnswersInv, KeepsHolds, crashed \subseteq crashed',
           \A p \in Reserved(slot') : slot[p].buyer \notin crashed' =>
              (Pending(toGame[slot[p].buyer], toDB[slot[p].buyer], p, slot[p].token) =>
                  Pending(toGame'[slot[p].buyer], toDB'[slot[p].buyer], p, slot[p].token))
    PROVE  HoldIsAnswered'
<1>1. \A p \in Reserved(slot') : /\ p \in Reserved(slot) /\ slot'[p].token = slot[p].token
                                 /\ slot'[p].buyer = slot[p].buyer
  BY DEF KeepsHolds
<1>. QED BY <1>1, AnsweredAs DEF AnswersInv

\* Nothing is lost between the two: what is pending stays.
LEMMA PendingGrows ==
    ASSUME NEW g, NEW d, NEW gg, NEW dd, NEW p, NEW t,
           Range(g) \subseteq Range(gg), Range(d) \subseteq Range(dd), Pending(g, d, p, t)
    PROVE  Pending(gg, dd, p, t)
BY DEF Pending, Carries

-----------------------------------------------------------------------------
\* Steps of the DB process.

LEMMA TakenRange ==
    ASSUME toDB \in MailToDB, NEW c \in Cores, Process(c), NEW k \in Cores
    PROVE  /\ Range(toDB'[k]) \subseteq Range(toDB[k])
           /\ Range(toDB[k]) \subseteq Range(toDB'[k]) \cup (IF k = c THEN {Head(toDB[c])} ELSE {})
<1>1. toDB[c] # <<>> /\ toDB' = [toDB EXCEPT ![c] = Tail(@)]
  BY DEF Process
<1>. QED BY <1>1, ReadRange DEF MailToDB

\* The DB process reads a packet or none and tells no offer.
LEMMA ToldKeeps ==
    ASSUME TypeOK, AnswersInv, KeepsHolds, Told, UNCHANGED crashed,
           UNCHANGED toDB \/ \E c \in Cores : Process(c)
    PROVE  TokensName' /\ HoldIsAnswered'
<1>1. toGame \in MailToGame /\ toDB \in MailToDB
  BY DEF TypeOK, WireTypeOK, MailToGame, MailToDB
<1>2. \A k \in Cores : Range(toDB'[k]) \subseteq Range(toDB[k])
  BY <1>1, TakenRange
<1>3. \A k \in Cores : /\ Range(toGame'[k]) \subseteq Range(toGame[k]) \cup OutMsg(k)
                       /\ k \notin crashed => Range(toGame[k]) \subseteq Range(toGame'[k])
  BY <1>1, ToldRange
<1>4. TokensName'
  <2>1. ASSUME NEW k \in Cores, NEW m \in Range(toGame'[k]), m.kind \in Offering
        PROVE  NamesIn(slot', reservation', k, m)
    <3>1. m \in Range(toGame[k]) \/ m \in CancelsFor(k)
      BY <1>3, <2>1 DEF OutMsg, Notices, Offering
    <3>2. NamesIn(slot, reservation, k, m)
      BY <2>1, <3>1, CancelsAreNamed DEF AnswersInv, TokensName
    <3>. QED BY <3>2, NamesKept
  <2>2. ASSUME NEW k \in Cores, NEW m \in Range(toDB'[k]), m.kind \in Answering
        PROVE  NamesIn(slot', reservation', k, m)
    <3>1. m \in Range(toDB[k])
      BY <1>2
    <3>2. NamesIn(slot, reservation, k, m)
      BY <2>2, <3>1 DEF AnswersInv, TokensName
    <3>. QED BY <3>2, NamesKept
  <2>. QED BY <2>1, <2>2 DEF TokensName
<1>5. ASSUME NEW p \in Reserved(slot'), slot[p].buyer \notin crashed',
             Pending(toGame[slot[p].buyer], toDB[slot[p].buyer], p, slot[p].token)
      PROVE  Pending(toGame'[slot[p].buyer], toDB'[slot[p].buyer], p, slot[p].token)
  <2> DEFINE b == slot[p].buyer
             t == slot[p].token
  <2>1. p \in Reserved(slot) /\ b \in Cores
    BY DEF KeepsHolds, AnswersInv, HeldByCores
  <2>2. Range(toGame[b]) \subseteq Range(toGame'[b])
    BY <1>3, <1>5, <2>1
  <2>3. CASE UNCHANGED toDB
    BY <1>5, <2>2, <2>3, PendingGrows
  <2>4. ASSUME NEW c \in Cores, Process(c)
        PROVE  Pending(toGame'[b], toDB'[b], p, t)
    <3>1. /\ Range(toDB[b]) \subseteq Range(toDB'[b]) \cup (IF b = c THEN {Head(toDB[c])} ELSE {})
      BY <1>1, <2>1, <2>4, TakenRange
    <3>2. CASE Carries(toGame[b], {"BuyRequest"}, p, t)
      BY <2>2, <3>2 DEF Pending, Carries
    <3>3. ASSUME NEW m \in Range(toDB[b]), m.kind \in Answering, m.pos = p, m.token = t
          PROVE  m \in Range(toDB'[b])
      <4>1. ~(b = c /\ m = Head(toDB[c]))
        BY <2>1, <2>4, <3>3, AnswerEnds
      <4>. QED BY <3>1, <3>3, <4>1
    <3>4. CASE Carries(toDB[b], Answering, p, t)
      BY <3>3, <3>4 DEF Pending, Carries
    <3>. QED BY <1>5, <3>2, <3>4 DEF Pending
  <2>. QED BY <2>3, <2>4
<1>. QED BY <1>4, <1>5, PendingKept

\* The packet an accepted request is answered with.
Offer(m) == [kind |-> "BuyRequest", cust |-> m.cust, pos |-> m.pos, item |-> slot[m.pos].item,
             price |-> slot[m.pos].price, token |-> reservation']

\* What an accepted request does.
LEMMA Accepted ==
    ASSUME TypeOK, NEW c \in Cores, NEW m \in MsgToDB, PrivateShopBuyRequest(c, m), Sellable(m)
    PROVE  /\ m.pos \in Positions /\ MakesHold /\ Offer(m) \in MsgToGame /\ Post(To(c, Offer(m)))
           /\ slot'[m.pos].token = reservation' /\ slot'[m.pos].buyer = c
           /\ slot'[m.pos].item = slot[m.pos].item /\ slot'[m.pos].price = slot[m.pos].price
           /\ ~slot'[m.pos].avail
           /\ \A q \in Positions \ {m.pos} : slot'[q] = slot[q]
<1>1. m.pos \in Positions /\ m.cust \in Customers
  BY DBMsgFields DEF PrivateShopBuyRequest
<1>2. /\ slot' = [slot EXCEPT ![m.pos] = [@ EXCEPT !.avail = FALSE, !.token = reservation',
                                                   !.buyer = c, !.due = FALSE]]
      /\ reservation' = reservation + 1 /\ Post(To(c, Offer(m))) /\ UNCHANGED state
  BY DEF PrivateShopBuyRequest, NextToken, Offer
<1>3. slot \in [Positions -> Slot] /\ slot[m.pos] \in Slot /\ reservation \in Nat
  BY <1>1 DEF TypeOK, DBTypeOK
<1>4. /\ slot'[m.pos].token = reservation' /\ slot'[m.pos].buyer = c
      /\ slot'[m.pos].item = slot[m.pos].item /\ slot'[m.pos].price = slot[m.pos].price
      /\ ~slot'[m.pos].avail
      /\ \A q \in Positions \ {m.pos} : slot'[q] = slot[q]
  BY <1>1, <1>2, <1>3 DEF Slot
<1>5. MakesHold
  BY <1>1, <1>2, <1>4 DEF MakesHold, Sellable
<1>6. Offer(m) \in MsgToGame
  <2>1. slot[m.pos].item \in Items /\ slot[m.pos].price \in Nat /\ reservation' \in Nat
    BY <1>2, <1>3 DEF Sellable, Slot
  <2>. QED BY <1>1, <2>1 DEF MsgToGame, Offer
<1>. QED BY <1>1, <1>2, <1>4, <1>5, <1>6

LEMMA OfferedRange ==
    ASSUME toGame \in MailToGame, NEW c \in Cores, NEW m \in MsgToGame, Post(To(c, m)),
           NEW k \in Cores
    PROVE  /\ Range(toGame'[k]) \subseteq Range(toGame[k]) \cup (IF k = c THEN {m} ELSE {})
           /\ k \notin crashed => Range(toGame[k]) \subseteq Range(toGame'[k])
           /\ k \notin crashed /\ k = c => m \in Range(toGame'[k])
<1>1. toGame'[k] = IF k \in crashed THEN <<>> ELSE toGame[k] \o To(c, m)[k]
  BY DEF Post
<1>2. To(c, m)[k] = IF k = c THEN <<m>> ELSE <<>>
  BY DEF To
<1>3. /\ toGame[k] \in Seq(MsgToGame) /\ <<m>> \in Seq(MsgToGame)
      /\ <<>> \in Seq(MsgToGame)
  BY DEF MailToGame
<1>4. /\ Range(toGame[k] \o <<m>>) = Range(toGame[k]) \cup {m}
      /\ Range(toGame[k] \o <<>>) = Range(toGame[k])
  <2>1. /\ Range(toGame[k] \o <<m>>) = Range(toGame[k]) \cup Range(<<m>>)
        /\ Range(toGame[k] \o <<>>) = Range(toGame[k]) \cup Range(<<>>)
    BY <1>3, RangeConcat
  <2>2. Range(<<m>>) = {m} /\ Range(<<>>) = {}
    BY RangeTypes
  <2>. QED BY <2>1, <2>2
<1>. QED BY <1>1, <1>2, <1>4, RangeTypes

\* An accepted request makes a hold and tells its buyer's core.
LEMMA OfferKeeps ==
    ASSUME TypeOK, AnswersInv, NEW c \in Cores, Process(c), UNCHANGED crashed,
           PrivateShopBuyRequest(c, Head(toDB[c])), Sellable(Head(toDB[c]))
    PROVE  TokensName' /\ HoldIsAnswered'
<1> DEFINE m == Head(toDB[c])
<1>1. toGame \in MailToGame /\ toDB \in MailToDB
  BY DEF TypeOK, WireTypeOK, MailToGame, MailToDB
<1>2. m \in MsgToDB /\ m.kind = "BuyRequest"
  <2>1. m \in MsgToDB
    BY <1>1 DEF Process, MailToDB
  <2>. QED BY <2>1 DEF PrivateShopBuyRequest
<1>3. /\ m.pos \in Positions /\ MakesHold /\ Offer(m) \in MsgToGame /\ Post(To(c, Offer(m)))
      /\ slot'[m.pos].token = reservation' /\ slot'[m.pos].buyer = c
      /\ slot'[m.pos].item = slot[m.pos].item /\ slot'[m.pos].price = slot[m.pos].price
      /\ \A q \in Positions \ {m.pos} : slot'[q] = slot[q]
  BY <1>2, Accepted
<1>4. /\ Offer(m).kind = "BuyRequest" /\ Offer(m).pos = m.pos
      /\ Offer(m).token = reservation' /\ Offer(m).item = slot[m.pos].item
      /\ Offer(m).price = slot[m.pos].price
  BY DEF Offer
<1>5. \A k \in Cores :
         /\ Range(toGame'[k]) \subseteq Range(toGame[k]) \cup (IF k = c THEN {Offer(m)} ELSE {})
         /\ k \notin crashed => Range(toGame[k]) \subseteq Range(toGame'[k])
         /\ k \notin crashed /\ k = c => Offer(m) \in Range(toGame'[k])
  BY <1>1, <1>3, OfferedRange
<1>6. \A k \in Cores : /\ Range(toDB'[k]) \subseteq Range(toDB[k])
                       /\ Range(toDB[k]) \subseteq Range(toDB'[k]) \cup {m}
  BY <1>1, TakenRange
<1>7. /\ reservation \in Nat /\ reservation' = reservation + 1
      /\ \A q \in Positions : slot[q].token <= reservation /\ slot[q].token \in Nat
  <2>1. reservation \in Nat /\ reservation' = reservation + 1
    BY <1>3 DEF MakesHold, TypeOK, DBTypeOK
  <2>2. \A q \in Positions : slot[q].token <= reservation
    BY DEF AnswersInv, HoldsAreDistinct
  <2>3. \A q \in Positions : slot[q].token \in Nat
    BY DEF TypeOK, DBTypeOK, Slot
  <2>. QED BY <2>1, <2>2, <2>3
<1>8. NamesIn(slot', reservation', c, Offer(m))
  <2>1. \A q \in Reserved(slot') : slot'[q].token = reservation' => q = m.pos
    BY <1>3, <1>7, ReservedIn
  <2>2. reservation' <= reservation'
    BY <1>7
  <2> HIDE DEF m
  <2>. QED BY <1>3, <1>4, <2>1, <2>2 DEF NamesIn
<1> HIDE DEF m
<1>9. TokensName'
  <2>1. ASSUME NEW k \in Cores, NEW n \in Range(toGame'[k]), n.kind \in Offering
        PROVE  NamesIn(slot', reservation', k, n)
    <3>1. CASE n \in Range(toGame[k])
      <4>1. NamesIn(slot, reservation, k, n) /\ n.token \in Nat
        BY <2>1, <3>1, TokenTypes DEF AnswersInv, TokensName
      <4>. QED BY <1>3, <4>1, NamesKeptByNew
    <3>2. CASE k = c /\ n = Offer(m)
      BY <1>8, <3>2
    <3>. QED BY <1>5, <2>1, <3>1, <3>2
  <2>2. ASSUME NEW k \in Cores, NEW n \in Range(toDB'[k]), n.kind \in Answering
        PROVE  NamesIn(slot', reservation', k, n)
    <3>1. n \in Range(toDB[k])
      BY <1>6
    <3>2. NamesIn(slot, reservation, k, n) /\ n.token \in Nat
      BY <2>2, <3>1, TokenTypes DEF AnswersInv, TokensName
    <3>. QED BY <1>3, <3>2, NamesKeptByNew
  <2>. QED BY <2>1, <2>2 DEF TokensName
<1>10. ASSUME NEW p \in Reserved(slot'), slot'[p].buyer \notin crashed'
       PROVE  Pending(toGame'[slot'[p].buyer], toDB'[slot'[p].buyer], p, slot'[p].token)
  <2>1. CASE p = m.pos
    <3>1. Offer(m) \in Range(toGame'[c])
      BY <1>3, <1>5, <1>10, <2>1
    <3>2. Carries(toGame'[c], {"BuyRequest"}, p, reservation')
      BY <1>4, <2>1, <3>1 DEF Carries
    <3>. QED BY <1>3, <2>1, <3>2 DEF Pending
  <2>2. CASE p # m.pos
    <3>1. p \in Positions /\ slot'[p] = slot[p] /\ p \in Reserved(slot)
      BY <1>3, <2>2, ReservedIn, ReservedMember
    <3> DEFINE b == slot[p].buyer
               t == slot[p].token
    <3>2. b \in Cores /\ b \notin crashed /\ Pending(toGame[b], toDB[b], p, t)
      BY <1>10, <3>1, AnsweredAs DEF AnswersInv, HeldByCores
    <3>3. Carries(toGame[b], {"BuyRequest"}, p, t) => Carries(toGame'[b], {"BuyRequest"}, p, t)
      BY <1>5, <3>2 DEF Carries
    <3>4. Carries(toDB[b], Answering, p, t) => Carries(toDB'[b], Answering, p, t)
      BY <1>2, <1>6, <3>2 DEF Carries, Answering
    <3>. QED BY <3>1, <3>2, <3>3, <3>4 DEF Pending
  <2>. QED BY <2>1, <2>2
<1>. QED BY <1>9, <1>10, AnsweredAs

-----------------------------------------------------------------------------
\* Steps of the cores.

LEMMA ReceiveAlive == ASSUME NEW c \in Cores, Receive(c)
                      PROVE  crashed' = crashed
BY Zenon DEF Receive, GameBuyRequest, GameCancel, GameRemoveItem, GameAddItem, GameSpawn,
   GameStateUpdate, GamePriceChange, GameItemMove, GameSaleUpdate, GameItemExpire, GameClosed,
   GameLoad, GameCheckin, GameCheckout, GameWithdraw, GameDestroy, gameVars

\* An answer to packet m: a payment or a refusal of what m names.
AnswerTo(m, a) == /\ a.kind \in Answering /\ a.pos = m.pos /\ a.token = m.token
                  /\ a.kind = "Buy" => /\ a.item = m.item /\ a.price = m.price
                                       /\ m.kind = "BuyRequest"

LEMMA SentOne ==
    ASSUME toDB \in MailToDB, NEW c \in Cores, NEW ms \in Seq(MsgToDB), Send(c, ms),
           NEW a \in Range(ms), Range(ms) \subseteq Reports \cup {a}
    PROVE  /\ a \in Range(toDB'[c])
           /\ \A k \in Cores :
                /\ Range(toDB'[k]) \subseteq Range(toDB[k]) \cup Reports
                                             \cup (IF k = c THEN {a} ELSE {})
                /\ Range(toDB[k]) \subseteq Range(toDB'[k])
<1>1. \A k \in Cores :
         Range(toDB'[k]) = IF k = c THEN Range(toDB[k]) \cup Range(ms) ELSE Range(toDB[k])
  BY SentRange
<1>. QED BY <1>1

\* An offer is paid or refused, a cancellation refused.
LEMMA Answered ==
    ASSUME toDB \in MailToDB, NEW c \in Cores, NEW m \in MsgToGame,
           GameBuyRequest(c, m) \/ GameCancel(c, m)
    PROVE  \E a : /\ AnswerTo(m, a) /\ a \in Range(toDB'[c])
                  /\ \A k \in Cores :
                       /\ Range(toDB'[k]) \subseteq Range(toDB[k]) \cup Reports
                                                    \cup (IF k = c THEN {a} ELSE {})
                       /\ Range(toDB[k]) \subseteq Range(toDB'[k])
<1> DEFINE no == [kind |-> "FailedBuy", pos |-> m.pos, token |-> m.token]
           save == [kind |-> "ItemSave", item |-> m.item, who |-> m.cust]
           pay == [kind |-> "Buy", pos |-> m.pos, item |-> m.item, price |-> m.price,
                   token |-> m.token]
<1>1. m.pos \in Positions /\ m.token \in Nat
  BY GameMsgFields DEF GameBuyRequest, GameCancel
<1>2. no \in MsgToDB /\ AnswerTo(m, no)
  BY <1>1 DEF MsgToDB, AnswerTo, Answering
<1>3. CASE Send(c, <<no>>)
  <2>1. <<no>> \in Seq(MsgToDB) /\ Range(<<no>>) = {no}
    BY <1>2, RangeTypes
  <2> DEFINE ms == <<no>>
  <2>2. ms \in Seq(MsgToDB) /\ no \in Range(ms) /\ Range(ms) \subseteq Reports \cup {no}
    BY <2>1
  <2>3. Send(c, ms)
    BY <1>3
  <2> HIDE DEF no, ms
  <2>. QED BY <1>2, <2>2, <2>3, SentOne
<1>4. CASE Send(c, <<save, pay>>) /\ m.kind = "BuyRequest"
  <2>1. m.item \in Items /\ m.cust \in Customers /\ m.price \in Nat
    BY <1>4, GameMsgFields
  <2>2. save \in Reports /\ pay \in MsgToDB
    BY <1>1, <2>1 DEF MsgToDB, Reports, Chars
  <2>3. AnswerTo(m, pay)
    BY <1>4 DEF AnswerTo, Answering
  <2> HIDE DEF save, pay
  <2> DEFINE ms == <<save, pay>>
  <2>4. ms \in Seq(MsgToDB) /\ Range(ms) = {save, pay}
    BY <2>2 DEF Reports, Range
  <2>5. Send(c, ms)
    BY <1>4 DEF save, pay
  <2> HIDE DEF ms
  <2>6. pay \in Range(ms) /\ Range(ms) \subseteq Reports \cup {pay}
    BY <2>2, <2>4
  <2> HIDE DEF no
  <2>7. /\ pay \in Range(toDB'[c])
        /\ \A k \in Cores :
             /\ Range(toDB'[k]) \subseteq Range(toDB[k]) \cup Reports
                                          \cup (IF k = c THEN {pay} ELSE {})
             /\ Range(toDB[k]) \subseteq Range(toDB'[k])
    BY <2>4, <2>5, <2>6, SentOne
  <2>. QED BY <2>3, <2>7, Zenon
<1>5. CASE GameCancel(c, m)
  <2>1. m \in [kind : {"Cancel"}, pos : Positions, token : Nat]
    BY <1>5 DEF GameCancel, MsgToGame
  <2>2. [m EXCEPT !.kind = "FailedBuy"] = no
    BY <2>1
  <2>. QED BY <1>3, <1>5, <2>2 DEF GameCancel
<1>6. CASE GameBuyRequest(c, m)
  BY <1>3, <1>4, <1>6 DEF GameBuyRequest, Refuse, Delivery
<1>. QED BY <1>5, <1>6

LEMMA TakenOffers ==
    ASSUME toGame \in MailToGame, NEW c \in Cores, Receive(c), NEW k \in Cores
    PROVE  /\ Range(toGame'[k]) \subseteq Range(toGame[k])
           /\ Range(toGame[k]) \subseteq Range(toGame'[k])
                                         \cup (IF k = c THEN {Head(toGame[c])} ELSE {})
           /\ Head(toGame[c]) \in Range(toGame[c]) /\ Head(toGame[c]) \in MsgToGame
<1>1. toGame[c] # <<>> /\ toGame' = [toGame EXCEPT ![c] = Tail(@)]
  BY DEF Receive
<1>2. Head(toGame[c]) \in MsgToGame
  BY <1>1 DEF MailToGame
<1>. QED BY <1>1, <1>2, ReadRange DEF MailToGame

\* Core c reads the packets R and answers with the packets A, by the way of reports.
Serves(c, R, A) ==
    /\ \A a \in A : NamesIn(slot, reservation, c, a)
    /\ \A n \in R : n.kind = "BuyRequest" => \E a \in Range(toDB'[c]) : AnswerTo(n, a)
    /\ \A k \in Cores :
         /\ Range(toGame'[k]) \subseteq Range(toGame[k])
         /\ Range(toGame[k]) \subseteq Range(toGame'[k]) \cup (IF k = c THEN R ELSE {})
         /\ Range(toDB'[k]) \subseteq Range(toDB[k]) \cup Reports \cup (IF k = c THEN A ELSE {})
         /\ Range(toDB[k]) \subseteq Range(toDB'[k])

LEMMA CoreKeeps ==
    ASSUME TypeOK, AnswersInv, KeepsHolds, UNCHANGED crashed, NEW c \in Cores, NEW R, NEW A,
           Serves(c, R, A)
    PROVE  TokensName' /\ HoldIsAnswered'
<1>1. TokensName'
  <2>1. ASSUME NEW k \in Cores, NEW n \in Range(toGame'[k]), n.kind \in Offering
        PROVE  NamesIn(slot', reservation', k, n)
    <3>1. NamesIn(slot, reservation, k, n)
      BY <2>1 DEF Serves, AnswersInv, TokensName
    <3>. QED BY <3>1, NamesKept
  <2>2. ASSUME NEW k \in Cores, NEW n \in Range(toDB'[k]), n.kind \in Answering
        PROVE  NamesIn(slot', reservation', k, n)
    <3>1. n \in Range(toDB[k]) \/ (k = c /\ n \in A)
      BY <2>2 DEF Serves, Reports, Answering
    <3>2. NamesIn(slot, reservation, k, n)
      BY <2>2, <3>1 DEF Serves, AnswersInv, TokensName
    <3>. QED BY <3>2, NamesKept
  <2>. QED BY <2>1, <2>2 DEF TokensName
<1>2. ASSUME NEW p \in Reserved(slot'), slot[p].buyer \notin crashed',
             Pending(toGame[slot[p].buyer], toDB[slot[p].buyer], p, slot[p].token)
      PROVE  Pending(toGame'[slot[p].buyer], toDB'[slot[p].buyer], p, slot[p].token)
  <2> DEFINE b == slot[p].buyer
             t == slot[p].token
  <2>1. b \in Cores
    BY DEF KeepsHolds, AnswersInv, HeldByCores
  <2> HIDE DEF b, t
  <2>2. ASSUME Carries(toDB[b], Answering, p, t)
        PROVE  Pending(toGame'[b], toDB'[b], p, t)
    BY <2>1, <2>2 DEF Serves, Pending, Carries
  <2>3. ASSUME Carries(toGame[b], {"BuyRequest"}, p, t)
        PROVE  Pending(toGame'[b], toDB'[b], p, t)
    <3>1. PICK n \in Range(toGame[b]) : n.kind = "BuyRequest" /\ n.pos = p /\ n.token = t
      BY <2>3 DEF Carries
    <3>2. CASE n \in Range(toGame'[b])
      BY <3>1, <3>2 DEF Pending, Carries
    <3>3. CASE b = c /\ n \in R
      <4>1. PICK a \in Range(toDB'[b]) : AnswerTo(n, a)
        BY <3>1, <3>3 DEF Serves
      <4>. QED BY <3>1, <4>1 DEF AnswerTo, Pending, Carries
    <3>. QED BY <2>1, <3>2, <3>3 DEF Serves
  <2>. QED BY <1>2, <2>2, <2>3 DEF Pending, b, t
<1>. QED BY <1>1, <1>2, PendingKept

LEMMA ReceiveKeeps ==
    ASSUME TypeOK, AnswersInv, NEW c \in Cores, Receive(c), UNCHANGED dbVars
    PROVE  TokensName' /\ HoldIsAnswered'
<1> DEFINE m == Head(toGame[c])
<1>1. /\ toGame \in MailToGame /\ toDB \in MailToDB /\ GameTypeOK
      /\ m \in MsgToGame /\ m \in Range(toGame[c])
  BY TakenOffers DEF TypeOK, WireTypeOK, MailToGame, MailToDB
<1>2. KeepsHolds /\ crashed' = crashed
  BY SameSlots, ReceiveAlive DEF AnswersInv, dbVars
<1>3. \A k \in Cores :
         /\ Range(toGame'[k]) \subseteq Range(toGame[k])
         /\ Range(toGame[k]) \subseteq Range(toGame'[k]) \cup (IF k = c THEN {m} ELSE {})
  BY <1>1, TakenOffers
<1>4. CASE GameBuyRequest(c, m) \/ GameCancel(c, m)
  <2>1. PICK a : /\ AnswerTo(m, a) /\ a \in Range(toDB'[c])
                 /\ \A k \in Cores :
                      /\ Range(toDB'[k]) \subseteq Range(toDB[k]) \cup Reports
                                                   \cup (IF k = c THEN {a} ELSE {})
                      /\ Range(toDB[k]) \subseteq Range(toDB'[k])
    BY <1>1, <1>4, Answered
  <2>2. m.kind \in Offering
    BY <1>4 DEF GameBuyRequest, GameCancel, Offering
  <2> HIDE DEF m
  <2>3. NamesIn(slot, reservation, c, m)
    BY <1>1, <2>2 DEF AnswersInv, TokensName
  <2>4. NamesIn(slot, reservation, c, a)
    BY <2>1, <2>3 DEF NamesIn, AnswerTo, Answering
  <2>5. Serves(c, {m}, {a})
    BY <1>3, <2>1, <2>4 DEF Serves
  <2>. QED BY <1>2, <2>5, CoreKeeps
<1>5. CASE ~(GameBuyRequest(c, m) \/ GameCancel(c, m))
  <2>1. Said
    BY <1>1, <1>5, ReceiveSays DEF GameHandlerGoal
  <2>2. m.kind # "BuyRequest"
    BY <1>5, OfferRead
  <2>3. \A k \in Cores : /\ Range(toDB'[k]) \subseteq Range(toDB[k]) \cup Reports
                         /\ Range(toDB[k]) \subseteq Range(toDB'[k])
    BY <1>1, <2>1, SaidRange
  <2> HIDE DEF m
  <2>4. Serves(c, {m}, {})
    BY <1>3, <2>2, <2>3 DEF Serves
  <2>. QED BY <1>2, <2>4, CoreKeeps
<1>. QED BY <1>4, <1>5

\* A client's request, and a step that sends nothing.
LEMMA SaidKeeps ==
    ASSUME TypeOK, AnswersInv, KeepsHolds, UNCHANGED crashed, UNCHANGED toGame, Said
    PROVE  TokensName' /\ HoldIsAnswered'
<1>. PICK c \in Cores : TRUE
  BY ShopAssumption
<1>1. toDB \in MailToDB
  BY DEF TypeOK, WireTypeOK, MailToDB
<1>2. \A k \in Cores : /\ Range(toDB'[k]) \subseteq Range(toDB[k]) \cup Reports
                       /\ Range(toDB[k]) \subseteq Range(toDB'[k])
  BY <1>1, SaidRange
<1>3. Serves(c, {}, {})
  BY <1>2 DEF Serves
<1>. QED BY <1>3, CoreKeeps

-----------------------------------------------------------------------------
\* The loss of a core.

LEMMA CrashKeeps ==
    ASSUME TypeOK, AnswersInv, NEW c \in Cores, CoreCrash(c), UNCHANGED dbVars
    PROVE  TokensName' /\ HoldIsAnswered'
<1>1. toGame \in MailToGame /\ toDB \in MailToDB
  BY DEF TypeOK, WireTypeOK, MailToGame, MailToDB
<1>2. KeepsHolds /\ crashed' = crashed \cup {c}
  BY SameSlots DEF AnswersInv, dbVars, CoreCrash
<1>3. PICK n \in 0 .. Len(toDB[c]) : toDB' = [toDB EXCEPT ![c] = SubSeq(@, 1, n)]
  BY DEF CoreCrash
<1>4. toGame' = [toGame EXCEPT ![c] = <<>>]
  BY DEF CoreCrash
<1>5. \A k \in Cores \ {c} : toGame'[k] = toGame[k] /\ toDB'[k] = toDB[k]
  BY <1>1, <1>3, <1>4 DEF MailToGame, MailToDB
<1>6. Range(toGame'[c]) = {} /\ Range(toDB'[c]) \subseteq Range(toDB[c])
  <2>1. toGame'[c] = <<>> /\ toDB'[c] = SubSeq(toDB[c], 1, n) /\ toDB[c] \in Seq(MsgToDB)
    BY <1>1, <1>3, <1>4 DEF MailToGame, MailToDB
  <2>. QED BY <2>1, RangeTypes, RangeSubSeq
<1>7. \A k \in Cores : /\ Range(toGame'[k]) \subseteq Range(toGame[k])
                       /\ Range(toDB'[k]) \subseteq Range(toDB[k])
  BY <1>5, <1>6
<1>8. TokensName'
  <2>1. ASSUME NEW k \in Cores, NEW m \in Range(toGame'[k]), m.kind \in Offering
        PROVE  NamesIn(slot', reservation', k, m)
    <3>1. NamesIn(slot, reservation, k, m)
      BY <1>7, <2>1 DEF AnswersInv, TokensName
    <3>. QED BY <1>2, <3>1, NamesKept
  <2>2. ASSUME NEW k \in Cores, NEW m \in Range(toDB'[k]), m.kind \in Answering
        PROVE  NamesIn(slot', reservation', k, m)
    <3>1. NamesIn(slot, reservation, k, m)
      BY <1>7, <2>2 DEF AnswersInv, TokensName
    <3>. QED BY <1>2, <3>1, NamesKept
  <2>. QED BY <2>1, <2>2 DEF TokensName
<1>9. ASSUME NEW p \in Reserved(slot'), slot[p].buyer \notin crashed'
      PROVE  Pending(toGame[slot[p].buyer], toDB[slot[p].buyer], p, slot[p].token) =>
                Pending(toGame'[slot[p].buyer], toDB'[slot[p].buyer], p, slot[p].token)
  <2>1. slot[p].buyer \in Cores \ {c}
    BY <1>2, <1>9 DEF KeepsHolds, AnswersInv, HeldByCores
  <2>. QED BY <1>5, <2>1
<1>. QED BY <1>2, <1>8, <1>9, PendingKept

-----------------------------------------------------------------------------
\* The invariant.

LEMMA AnswersInit == Init => AnswersInv
<1> SUFFICES ASSUME Init
             PROVE  AnswersInv
  OBVIOUS
<1>1. Reserved(slot) = {}
  <2>1. \A p \in Positions : slot[p].avail
    BY EmptySlotFields DEF Init, FreshSlot
  <2>. QED BY <2>1, ReservedIn, ReservedMember
<1>2. \A c \in Cores : Range(toGame[c]) = {} /\ Range(toDB[c]) = {}
  BY RangeTypes DEF Init, Nothing
<1>3. TokensName
  BY <1>2 DEF TokensName
<1>. QED BY <1>1, <1>3, DistinctInit DEF AnswersInv, HeldByCores, GoneIsEmpty, HoldIsAnswered

\* A step that makes no hold leaves the holds with cores and none without a shop.
LEMMA HoldersKept == ASSUME AnswersInv, KeepsHolds
                     PROVE  HeldByCores' /\ GoneIsEmpty'
<1>1. HeldByCores'
  BY DEF AnswersInv, HeldByCores, KeepsHolds
<1>2. ASSUME state' = "none"
      PROVE  Reserved(slot') = {}
  <2>1. CASE state = "none"
    BY <2>1 DEF AnswersInv, GoneIsEmpty, KeepsHolds
  <2>2. CASE \A p \in Positions : slot'[p].avail
    BY <2>2, ReservedIn, ReservedMember
  <2>. QED BY <1>2, <2>1, <2>2 DEF KeepsHolds
<1>. QED BY <1>1, <1>2 DEF GoneIsEmpty

Goal == TokensName' /\ HeldByCores' /\ GoneIsEmpty' /\ HoldIsAnswered'

LEMMA ProcessGoal == ASSUME TypeOK, AnswersInv, NEW c \in Cores, Process(c), UNCHANGED gameVars
                     PROVE  Goal
<1> DEFINE m == Head(toDB[c])
<1>1. m \in MsgToDB /\ DBTypeOK /\ toDB \in MailToDB /\ HoldsAreDistinct
  BY DEF Process, TypeOK, WireTypeOK, MailToDB, AnswersInv
<1>2. crashed' = crashed
  BY DEF gameVars
<1>3. CASE PrivateShopBuyRequest(c, m) /\ Sellable(m)
  <2>1. TokensName' /\ HoldIsAnswered'
    BY <1>2, <1>3, OfferKeeps
  <2>2. /\ m.pos \in Positions /\ MakesHold /\ slot'[m.pos].buyer = c
        /\ \A q \in Positions \ {m.pos} : slot'[q] = slot[q]
    BY <1>1, <1>3, Accepted
  <2> HIDE DEF m
  <2>3. ASSUME NEW p \in Reserved(slot')
        PROVE  slot'[p].buyer \in Cores
    <3>1. CASE p = m.pos
      BY <2>2, <3>1
    <3>2. CASE p # m.pos
      <4>1. p \in Positions /\ slot'[p] = slot[p] /\ p \in Reserved(slot)
        BY <2>2, <3>2, ReservedIn, ReservedMember
      <4>. QED BY <4>1 DEF AnswersInv, HeldByCores
    <3>. QED BY <3>1, <3>2
  <2>4. state' # "none"
    BY <2>2 DEF MakesHold, Selling
  <2>. QED BY <2>1, <2>3, <2>4 DEF Goal, HeldByCores, GoneIsEmpty
<1>4. CASE ~(PrivateShopBuyRequest(c, m) /\ Sellable(m))
  <2>1. KeepsHolds /\ Told
    <3>1. CASE PrivateShopBuyRequest(c, m)
      <4>1. Refused
        BY <1>4, <3>1 DEF PrivateShopBuyRequest
      <4>. QED BY <1>1, <4>1, RefusedKeeps, NoPostType DEF Refused
    <3>2. CASE ~PrivateShopBuyRequest(c, m)
      BY <1>1, <3>2, ProcessKeeps, ProcessTells DEF DBHandlerGoal
    <3>. QED BY <3>1, <3>2
  <2>. QED BY <1>2, <2>1, ToldKeeps, HoldersKept DEF Goal
<1>. QED BY <1>3, <1>4

LEMMA NextGoal == ASSUME TypeOK, AnswersInv, [Next]_vars
                  PROVE  Goal
<1>1. HoldsAreDistinct /\ HoldsAreDistinct' /\ DBTypeOK /\ GameTypeOK /\ budget \in BudgetType
  BY DistinctStep DEF AnswersInv, TypeOK, WireTypeOK, BudgetType
<1>2. UNCHANGED dbVars => KeepsHolds
  BY <1>1, SameSlots DEF dbVars
<1>3. ASSUME KeepsHolds, TokensName', HoldIsAnswered'
      PROVE  Goal
  BY <1>3, HoldersKept DEF Goal
<1>4. ASSUME KeepsHolds, Said, UNCHANGED crashed, UNCHANGED toGame
      PROVE  Goal
  BY <1>3, <1>4, SaidKeeps
<1>5. CASE DBStep
  <2>1. crashed' = crashed
    BY <1>5 DEF DBStep, gameVars
  <2>2. ASSUME NEW c \in Cores, Process(c), UNCHANGED gameVars
        PROVE  Goal
    BY <2>2, ProcessGoal
  <2>3. ASSUME UpdatePrivateShopPremiumEvent \/ RESULT_PRIVATE_SHOP_LOAD, UNCHANGED toDB
        PROVE  Goal
    <3>1. Told
      BY <1>1, <2>3, UpdatePrivateShopPremiumEventTypes, ResultPrivateShopLoadTypes
         DEF DBHandlerGoal
    <3>. QED BY <1>1, <1>3, <2>1, <2>3, <3>1, UpdateKeeps, ToldKeeps
  <2>4. ASSUME NEW c \in Cores, RemovePeer(c), UNCHANGED toDB
        PROVE  Goal
    <3>1. KeepsHolds
      BY <1>1, <2>4, SameSlots DEF RemovePeer
    <3>2. Told
      BY <2>4, NoPostType DEF RemovePeer
    <3>. QED BY <1>3, <2>1, <2>4, <3>1, <3>2, ToldKeeps
  <2>. QED BY <1>5, <2>2, <2>3, <2>4 DEF DBStep
<1>6. CASE GameStep
  <2>1. UNCHANGED dbVars
    BY <1>6 DEF GameStep
  <2>. QED BY <1>2, <1>3, <1>6, <2>1, ReceiveKeeps DEF GameStep
<1>7. CASE ClientStep
  <2>1. UNCHANGED dbVars /\ UNCHANGED toGame
    BY <1>7 DEF ClientStep
  <2>2. Said
    BY <1>1, <1>7, CustomerTypes, OwnerRequestTypes, OwnerEditTypes, OwnerCheckinTypes,
       SendItemExpireTypes, OwnerLogoutTypes DEF ClientStep, ClientGoal
  <2>3. crashed' = crashed
    BY <1>7 DEF ClientStep, PrivateShopBuyClient, CustomerLeaves, OwnerModify, OwnerClose,
       OwnerWithdraw, OwnerLogout, OwnerCheckout, SendItemExpire, OwnerMove, OwnerPriceChange,
       OwnerCheckin, gameVars
  <2>. QED BY <1>2, <1>4, <2>1, <2>2, <2>3
<1>8. CASE EnvStep
  <2>1. ASSUME NEW p \in Positions, ReservationDue(p),
               UNCHANGED <<gameVars, toDB, toGame, budget>>
        PROVE  Goal
    <3>1. KeepsHolds
      BY <1>1, <2>1, DueKeeps
    <3>. QED BY <1>4, <2>1, <3>1, NoSendType DEF NoSend, gameVars
  <2>2. ASSUME DeadlinePasses, UNCHANGED <<gameVars, toDB, toGame>>
        PROVE  Goal
    <3>1. KeepsHolds
      BY <1>1, <2>2, SameSlots DEF DeadlinePasses
    <3>. QED BY <1>4, <2>2, <3>1, NoSendType DEF NoSend, gameVars
  <2>3. ASSUME NEW c \in Cores, OwnerLogin(c), UNCHANGED toGame
        PROVE  Goal
    <3>1. KeepsHolds
      BY <1>1, <2>3, SameSlots DEF OwnerLogin
    <3>. QED BY <1>4, <2>3, <3>1, NoSendType DEF OwnerLogin
  <2>4. ASSUME NEW c \in Cores, CoreCrash(c), UNCHANGED dbVars
        PROVE  Goal
    BY <1>2, <1>3, <2>4, CrashKeeps
  <2>. QED BY <1>8, <2>1, <2>2, <2>3, <2>4 DEF EnvStep
<1>9. CASE UNCHANGED vars
  BY <1>2, <1>4, <1>9, NoSendType DEF NoSend, vars, gameVars
<1>. QED BY <1>5, <1>6, <1>7, <1>8, <1>9 DEF Next

LEMMA AnswersStep == TypeOK /\ AnswersInv /\ [Next]_vars => AnswersInv'
BY NextGoal, DistinctStep DEF Goal, AnswersInv

\* As long as the core of its buyer lives, every hold has its offer, its payment
\* or its refusal under way, whatever the cores, customers, crashes, timeouts,
\* edits and bounds: no hold waits for an answer that cannot come
\* (PrivateShopBuyRequest, ItemTransaction, PrivateShopFailedBuy, PrivateShopBuy).
THEOREM HoldsAreAnswered == Spec => []HoldIsAnswered
<1>1. AnswersInv => HoldIsAnswered
  BY DEF AnswersInv
<1>. QED BY <1>1, TypeInvariant, AnswersInit, AnswersStep, PTL DEF Spec

-----------------------------------------------------------------------------
\* Packets and what carries them.

\* Packets of some kinds, and mail made of them.
Of(K) == {m \in MsgToGame : m.kind \in K}
MailOf(K) == {f \in MailToGame : \A c \in Cores : f[c] \in Seq(Of(K))}
Mailed(K) == UNCHANGED toGame \/ \E out \in MailOf(K) : Post(out)

\* The packets that carry no offer, no gold and no item away from the shop.
Dull == {"Cancel", "RemoveItem", "AddItem", "Spawn", "State", "Price", "Move", "ItemExpire",
         "Close", "Checkin", "Withdraw"}
MailedWith(c, m) == \E a, b \in MailOf(Dull) : Post((a ++ To(c, m)) ++ b)

-----------------------------------------------------------------------------
\* Mail.

LEMMA MailOfTypes ==
    ASSUME NEW K
    PROVE  /\ Nothing \in MailOf(K) /\ MailOf(K) \subseteq MailToGame
           /\ \A c, m : m \in Of(K) => To(c, m) \in MailOf(K) /\ Notify(c, m) \in MailOf(K)
           /\ \A f, g : f \in MailOf(K) /\ g \in MailOf(K) => (f ++ g) \in MailOf(K)
<1>1. Nothing \in MailOf(K)
  <2>1. \A T : <<>> \in Seq(T)
    OBVIOUS
  <2>2. Nothing \in [Cores -> Seq(MsgToGame)] /\ \A c \in Cores : Nothing[c] = <<>>
    BY <2>1 DEF Nothing
  <2>. QED BY <2>1, <2>2 DEF MailOf, MailToGame
<1>2. ASSUME NEW c, NEW m \in Of(K)
      PROVE  To(c, m) \in MailOf(K)
  <2>1. m \in MsgToGame
    BY DEF Of
  <2>2. ASSUME NEW k \in Cores
        PROVE  To(c, m)[k] \in Seq(MsgToGame) /\ To(c, m)[k] \in Seq(Of(K))
    <3>1. To(c, m)[k] = IF k = c THEN <<m>> ELSE <<>>
      BY DEF To
    <3>2. <<m>> \in Seq(MsgToGame) /\ <<m>> \in Seq(Of(K))
      BY <2>1
    <3>. QED BY <3>1, <3>2
  <2>3. To(c, m) \in [Cores -> Seq(MsgToGame)]
    <3>1. To(c, m) = [k \in Cores |-> To(c, m)[k]]
      BY DEF To
    <3> HIDE DEF To
    <3>. QED BY <2>2, <3>1
  <2>. QED BY <2>2, <2>3 DEF MailOf, MailToGame
<1>3. ASSUME NEW c, NEW m \in Of(K)
      PROVE  Notify(c, m) \in MailOf(K)
  BY <1>1, <1>2 DEF Notify
<1>4. ASSUME NEW f \in MailOf(K), NEW g \in MailOf(K)
      PROVE  (f ++ g) \in MailOf(K)
  <2>1. ASSUME NEW k \in Cores
        PROVE  f[k] \o g[k] \in Seq(MsgToGame) /\ f[k] \o g[k] \in Seq(Of(K))
    <3>1. /\ f[k] \in Seq(MsgToGame) /\ g[k] \in Seq(MsgToGame)
          /\ f[k] \in Seq(Of(K)) /\ g[k] \in Seq(Of(K))
      BY DEF MailOf, MailToGame
    <3>. QED BY <3>1, ConcatProperties
  <2>2. (f ++ g) = [k \in Cores |-> f[k] \o g[k]]
    BY DEF ++
  <2>. QED BY <2>1, <2>2 DEF MailOf, MailToGame
<1>5. MailOf(K) \subseteq MailToGame
  BY DEF MailOf
<1>. QED BY <1>1, <1>2, <1>3, <1>4, <1>5

LEMMA MailAlgebra ==
    ASSUME NEW f \in MailToGame, NEW g \in MailToGame, NEW h \in MailToGame
    PROVE  (f ++ g) ++ h = f ++ (g ++ h) /\ Nothing ++ f = f /\ f ++ Nothing = f
<1>1. ASSUME NEW k \in Cores
      PROVE  /\ (f[k] \o g[k]) \o h[k] = f[k] \o (g[k] \o h[k])
             /\ <<>> \o f[k] = f[k] /\ f[k] \o <<>> = f[k]
  <2>1. f[k] \in Seq(MsgToGame) /\ g[k] \in Seq(MsgToGame) /\ h[k] \in Seq(MsgToGame)
    BY DEF MailToGame
  <2>3. \A s \in Seq(MsgToGame) : s \o <<>> = s /\ <<>> \o s = s
    BY ConcatEmptySeq, Zenon
  <2>4. (f[k] \o g[k]) \o h[k] = f[k] \o (g[k] \o h[k])
    <3> DEFINE T == MsgToGame
               s == f[k]
               t == g[k]
               u == h[k]
    <3>1. s \in Seq(T) /\ t \in Seq(T) /\ u \in Seq(T)
      BY <2>1
    <3> HIDE DEF T, s, t, u
    <3>2. (s \o t) \o u = s \o (t \o u)
      BY <3>1
    <3>. QED BY <3>2 DEF s, t, u
  <2>5. <<>> \o f[k] = f[k] /\ f[k] \o <<>> = f[k]
    BY <2>1, <2>3, Zenon
  <2>. QED BY <2>4, <2>5, Zenon
<1>2. f = [k \in Cores |-> f[k]]
  BY DEF MailToGame
<1>3. (f ++ g) ++ h = f ++ (g ++ h)
  <2>1. /\ (f ++ g) ++ h = [k \in Cores |-> (f[k] \o g[k]) \o h[k]]
        /\ f ++ (g ++ h) = [k \in Cores |-> f[k] \o (g[k] \o h[k])]
    BY DEF ++
  <2>. QED BY <1>1, <2>1, Zenon
<1>4. /\ Nothing ++ f = [k \in Cores |-> <<>> \o f[k]]
      /\ f ++ Nothing = [k \in Cores |-> f[k] \o <<>>]
  BY DEF ++, Nothing
<1>. QED BY <1>1, <1>2, <1>3, <1>4

\* What a core of the living finds in its connection.
LEMMA MailReaches ==
    ASSUME NEW out \in MailToGame, Post(out), NEW k \in Cores
    PROVE  toGame'[k] = IF k \in crashed THEN <<>> ELSE toGame[k] \o out[k]
BY DEF Post

LEMMA DullPackets ==
    /\ \A sess \in Nat, st \in ShopStates : StateMsg(sess, st) \in Of(Dull)
    /\ \A sess \in Nat : [kind |-> "Close", sess |-> sess] \in Of(Dull)
    /\ \A p \in Positions : [kind |-> "RemoveItem", pos |-> p] \in Of(Dull)
    /\ \A sess \in Nat, p \in Positions : [kind |-> "ItemExpire", sess |-> sess, pos |-> p] \in Of(Dull)
    /\ \A sess \in Nat, g \in Nat : [kind |-> "Withdraw", sess |-> sess, gold |-> g] \in Of(Dull)
    /\ \A p \in Positions, i \in Items, price \in Nat :
         [kind |-> "AddItem", pos |-> p, item |-> i, price |-> price] \in Of(Dull)
    /\ \A st \in ShopStates, s \in StallType : [kind |-> "Spawn", state |-> st, stall |-> s] \in Of(Dull)
BY DEF StateMsg, Of, Dull, MsgToGame

LEMMA TellStateMail == ASSUME owner \in Session, NEW st \in ShopStates
                       PROVE  TellState(st) \in MailOf(Dull)
<1>1. StateMsg(owner.sess, st) \in Of(Dull) /\ StateMsg(0, st) \in Of(Dull)
  BY DullPackets DEF Session
<1>. QED BY <1>1, MailOfTypes DEF TellState, ToOwner

LEMMA CloseMail == ASSUME owner \in Session
                   PROVE  ToOwner([kind |-> "Close", sess |-> owner.sess]) \in MailOf(Dull)
<1>1. [kind |-> "Close", sess |-> owner.sess] \in Of(Dull)
  BY DullPackets DEF Session
<1>. QED BY <1>1, MailOfTypes DEF ToOwner

LEMMA CancelMail == ASSUME DBTypeOK, NEW K, "Cancel" \in K PROVE Cancels \in MailOf(K)
<1> SUFFICES ASSUME NEW c \in Cores
             PROVE  Cancels[c] \in Seq(MsgToGame) /\ Cancels[c] \in Seq(Of(K))
  BY DEF Cancels, MailOf, MailToGame
<1> DEFINE due == {q \in Overdue : slot[q].buyer = c /\ c \in peers}
           cancel == [p \in due |-> [kind |-> "Cancel", pos |-> p, token |-> slot[p].token]]
<1>1. due \subseteq Positions
  BY DEF Overdue, Reserved, Occupied
<1>2. \A p \in due : cancel[p] \in MsgToGame /\ cancel[p] \in Of(K)
  <2> TAKE p \in due
  <2>1. p \in Positions /\ slot[p] \in Slot
    BY <1>1 DEF DBTypeOK
  <2>2. slot[p].token \in Nat
    BY <2>1 DEF Slot
  <2>. QED BY <2>1, <2>2 DEF MsgToGame, Of
<1>3. IsFiniteSet({cancel[p] : p \in due})
  <2>1. IsFiniteSet(due) /\ DOMAIN cancel = due
    BY <1>1, FinitePositions
  <2> HIDE DEF cancel
  <2>. QED BY <2>1, FiniteImage, Zenon
<1>4. {cancel[p] : p \in due} =
        {[kind |-> "Cancel", pos |-> p, token |-> slot[p].token] : p \in due}
  OBVIOUS
<1>5. Cancels[c] = SetToSeq({cancel[p] : p \in due})
  BY <1>4 DEF Cancels
<1> HIDE DEF cancel, due
<1>6. {cancel[p] : p \in due} \subseteq MsgToGame
      /\ {cancel[p] : p \in due} \subseteq Of(K)
  BY <1>2
<1>. QED BY <1>3, <1>5, <1>6, SeqOfSet

LEMMA UpdateMail == ASSUME DBTypeOK PROVE UpdateOut \in MailOf(Dull)
<1>1. owner \in Session /\ "RECOVERY" \in ShopStates
  BY DEF DBTypeOK, ShopStates
<1>2. /\ Cancels \in MailOf(Dull) /\ TellState("RECOVERY") \in MailOf(Dull)
      /\ ToOwner([kind |-> "Close", sess |-> owner.sess]) \in MailOf(Dull)
  BY <1>1, CancelMail, TellStateMail, CloseMail DEF Dull
<1>. QED BY <1>2, MailOfTypes DEF UpdateOut

LEMMA RemovalMail ==
    ASSUME DBTypeOK, NEW rest, NEW out \in MailOf(Dull), AfterRemoval(rest, out)
    PROVE  Mailed(Dull)
<1>1. owner \in Session /\ "CLOSED" \in ShopStates
  BY DEF DBTypeOK, ShopStates
<1>2. /\ TellState("CLOSED") \in MailOf(Dull)
      /\ ToOwner([kind |-> "Close", sess |-> owner.sess]) \in MailOf(Dull)
  BY <1>1, TellStateMail, CloseMail
<1>3. /\ (out ++ TellState("CLOSED")) \in MailOf(Dull)
      /\ ((out ++ TellState("CLOSED")) ++ ToOwner([kind |-> "Close", sess |-> owner.sess])) \in MailOf(Dull)
  BY <1>2, MailOfTypes
<1>. QED BY <1>3 DEF AfterRemoval, Mailed

-----------------------------------------------------------------------------
\* What each handler of the DB process sends.

LEMMA SaleSent ==
    ASSUME TypeOK, NEW c \in Cores, NEW m \in MsgToDB, PrivateShopBuy(c, m), Holds(c, m)
    PROVE  /\ m.pos \in Positions
           /\ LET sale == [kind |-> "Sale", sess |-> owner.sess, pos |-> m.pos, price |-> m.price]
              IN /\ sale \in MsgToGame
                 /\ IF owner.core \in peers THEN MailedWith(owner.core, sale) ELSE Mailed(Dull)
<1> DEFINE sale == [kind |-> "Sale", sess |-> owner.sess, pos |-> m.pos, price |-> m.price]
           x == IF c = Host THEN Nothing ELSE Notify(Host, [kind |-> "RemoveItem", pos |-> m.pos])
           y == TellState("CLOSED")
<1>1. m.pos \in Positions /\ m.price \in Nat /\ owner \in Session /\ "CLOSED" \in ShopStates
  BY DBMsgFields DEF PrivateShopBuy, TypeOK, DBTypeOK, ShopStates
<1>2. sale \in MsgToGame
  BY <1>1 DEF Session, MsgToGame
<1>3. x \in MailOf(Dull) /\ y \in MailOf(Dull) /\ Nothing \in MailOf(Dull)
  BY <1>1, DullPackets, MailOfTypes, TellStateMail
<1>4. SaleNotice(c, m) = ToOwner(sale) ++ x
  BY DEF SaleNotice
<1>5. Post(SaleNotice(c, m)) \/ Post(SaleNotice(c, m) ++ y)
  BY DEF PrivateShopBuy, Holds, Refused, TypeOK
<1> HIDE DEF sale, x, y
<1>6. ToOwner(sale) = IF owner.core \in peers THEN To(owner.core, sale) ELSE Nothing
  BY DEF ToOwner, Notify
<1>7. To(owner.core, sale) \in MailToGame /\ Nothing \in MailToGame /\ x \in MailToGame /\ y \in MailToGame
  BY <1>2, <1>3, ToMail, MailOfTypes
<1>8. CASE owner.core \in peers
  <2>1. /\ ToOwner(sale) ++ x = (Nothing ++ To(owner.core, sale)) ++ x
        /\ (ToOwner(sale) ++ x) ++ y = (Nothing ++ To(owner.core, sale)) ++ (x ++ y)
    BY <1>6, <1>7, <1>8, MailAlgebra
  <2>2. x ++ y \in MailOf(Dull)
    BY <1>3, MailOfTypes
  <2>3. MailedWith(owner.core, sale)
    BY <1>3, <1>4, <1>5, <2>1, <2>2 DEF MailedWith
  <2>. QED BY <1>1, <1>2, <1>8, <2>3 DEF sale
<1>9. CASE owner.core \notin peers
  <2>1. ToOwner(sale) ++ x \in MailOf(Dull) /\ (ToOwner(sale) ++ x) ++ y \in MailOf(Dull)
    BY <1>3, <1>6, <1>9, MailOfTypes
  <2>2. Mailed(Dull)
    BY <1>4, <1>5, <2>1 DEF Mailed
  <2>. QED BY <1>1, <1>2, <1>9, <2>2 DEF sale
<1>. QED BY <1>8, <1>9

LEMMA EchoMail == ASSUME NEW c \in Cores, NEW m \in MsgToDB, m.kind \in {"Price", "Move"}, Echo(c, m)
                  PROVE  Mailed(Dull)
<1>1. m \in Of(Dull) /\ [m EXCEPT !.sess = 0] \in Of(Dull)
  <2>1. /\ m \in [kind : {"Price"}, sess : Nat, pos : Positions, price : Nat]
           \/ m \in [kind : {"Move"}, sess : Nat, pos : Positions, dst : Positions]
    BY DEF MsgToDB
  <2>. QED BY <2>1 DEF Of, Dull, MsgToGame
<1>2. To(c, m) \in MailOf(Dull) /\ To(Host, [m EXCEPT !.sess = 0]) \in MailOf(Dull) /\ Nothing \in MailOf(Dull)
  BY <1>1, MailOfTypes
<1>. QED BY <1>2, MailOfTypes DEF Echo, Mailed

LEMMA ModifyMail == ASSUME TypeOK, NEW c \in Cores, NEW m \in MsgToDB, PrivateShopModifyRequest(c, m)
                    PROVE  Mailed(Dull)
<1> DEFINE next == CASE state = "OPEN" -> "MODIFY" [] state = "MODIFY" -> "OPEN" [] OTHER -> state
<1>1. next \in ShopStates /\ m.sess \in Nat
  BY DBMsgFields DEF PrivateShopModifyRequest, TypeOK, DBTypeOK, ShopStates
<1>3. \/ Refused
      \/ Post(To(c, StateMsg(m.sess, next)) ++ (IF c = Host THEN Nothing ELSE To(Host, StateMsg(0, next))))
  BY DEF PrivateShopModifyRequest
<1> HIDE DEF next
<1>2. /\ To(c, StateMsg(m.sess, next)) \in MailOf(Dull) /\ To(Host, StateMsg(0, next)) \in MailOf(Dull)
      /\ Nothing \in MailOf(Dull)
  BY <1>1, DullPackets, MailOfTypes
<1>4. To(c, StateMsg(m.sess, next)) ++ (IF c = Host THEN Nothing ELSE To(Host, StateMsg(0, next))) \in MailOf(Dull)
  BY <1>2, MailOfTypes
<1>. QED BY <1>3, <1>4 DEF Mailed, Refused

LEMMA CheckinMail ==
    ASSUME TypeOK, NEW c \in Cores, NEW m \in MsgToDB,
           PrivateShopItemCheckinRequest(c, m) \/ PrivateShopItemCheckinUpdate(c, m)
    PROVE  Mailed(Dull)
<1>1. CASE PrivateShopItemCheckinRequest(c, m) /\ Free # {}
  <2>1. BlankFor(m.pos) \in Positions
    BY <1>1, BlankForType DEF TypeOK
  <2>2. m \in [kind : {"CheckinRequest", "CheckinUpdate"}, sess : Nat, pos : Positions, item : Items,
               price : Nat]
    BY <1>1 DEF PrivateShopItemCheckinRequest, MsgToDB
  <2> DEFINE yes == [m EXCEPT !.kind = "Checkin", !.pos = BlankFor(m.pos)]
  <2>3. yes \in Of(Dull)
    BY <2>1, <2>2 DEF Of, Dull, MsgToGame
  <2>4. UNCHANGED toGame \/ Post(To(c, yes))
    BY <1>1 DEF PrivateShopItemCheckinRequest, NoPost
  <2> HIDE DEF yes
  <2>5. To(c, yes) \in MailOf(Dull)
    BY <2>3, MailOfTypes
  <2>. QED BY <2>4, <2>5 DEF Mailed
<1>2. CASE PrivateShopItemCheckinRequest(c, m) /\ Free = {}
  BY <1>2 DEF PrivateShopItemCheckinRequest, Mailed, NoPost
<1>3. CASE PrivateShopItemCheckinUpdate(c, m)
  <2>1. [kind |-> "AddItem", pos |-> m.pos, item |-> m.item, price |-> m.price] \in Of(Dull)
    BY <1>3, DBMsgFields, DullPackets DEF PrivateShopItemCheckinUpdate
  <2>. QED BY <1>3, <2>1, MailOfTypes DEF PrivateShopItemCheckinUpdate, Mailed, Refused
<1>. QED BY <1>1, <1>2, <1>3

LEMMA RemovingMail ==
    ASSUME TypeOK, NEW c \in Cores, NEW m \in MsgToDB,
           PrivateShopItemCheckoutUpdate(c, m) \/ PrivateShopItemExpire(c, m)
    PROVE  Mailed(Dull)
<1>1. m.pos \in Positions /\ owner.sess \in Nat /\ DBTypeOK
  BY DBMsgFields DEF PrivateShopItemCheckoutUpdate, PrivateShopItemExpire, TypeOK, DBTypeOK, Session
<1>2. /\ Notify(Host, [kind |-> "RemoveItem", pos |-> m.pos]) \in MailOf(Dull)
      /\ ToOwner([kind |-> "ItemExpire", sess |-> owner.sess, pos |-> m.pos]) \in MailOf(Dull)
  BY <1>1, DullPackets, MailOfTypes DEF ToOwner
<1>3. CASE Refused
  BY <1>3 DEF Refused, Mailed
<1>. QED BY <1>1, <1>2, <1>3, RemovalMail DEF PrivateShopItemCheckoutUpdate, PrivateShopItemExpire

LEMMA WithdrawMail ==
    ASSUME TypeOK, NEW c \in Cores, NEW m \in MsgToDB,
           PrivateShopWithdrawRequest(c, m) \/ PrivateShopWithdraw(c, m)
    PROVE  Mailed(Dull)
<1>1. gold \in Nat /\ owner \in Session
  BY DEF TypeOK, DBTypeOK
<1>2. CASE PrivateShopWithdrawRequest(c, m)
  <2>1. [kind |-> "Withdraw", sess |-> m.sess, gold |-> gold] \in Of(Dull)
    BY <1>1, <1>2, DBMsgFields, DullPackets DEF PrivateShopWithdrawRequest
  <2>. QED BY <1>2, <2>1, MailOfTypes DEF PrivateShopWithdrawRequest, Mailed, NoPost
<1>3. CASE PrivateShopWithdraw(c, m)
  BY <1>1, <1>3, CloseMail DEF PrivateShopWithdraw, Mailed, Refused, NoPost
<1>. QED BY <1>2, <1>3

\* The packets of the two permissions a handler may give beside.
LEMMA PermissionMail ==
    ASSUME NEW c \in Cores, NEW m \in MsgToDB,
           PrivateShopItemCheckoutRequest(c, m) \/ PrivateShopClose(c, m)
    PROVE  /\ m.kind = "CheckoutRequest" => Mailed({"Checkout"})
           /\ m.kind = "Close" => Mailed({"Destroy"})
<1>1. CASE PrivateShopItemCheckoutRequest(c, m)
  <2>1. m.sess \in Nat /\ m.pos \in Positions /\ m.kind = "CheckoutRequest"
    BY <1>1, DBMsgFields DEF PrivateShopItemCheckoutRequest
  <2>2. [kind |-> "Checkout", sess |-> m.sess, pos |-> m.pos] \in Of({"Checkout"})
    BY <2>1 DEF Of, MsgToGame
  <2>. QED BY <1>1, <2>1, <2>2, MailOfTypes DEF PrivateShopItemCheckoutRequest, Mailed, NoPost
<1>2. CASE PrivateShopClose(c, m)
  <2>1. m.sess \in Nat /\ m.kind = "Close"
    BY <1>2, DBMsgFields DEF PrivateShopClose
  <2>2. [kind |-> "Destroy", sess |-> m.sess] \in Of({"Destroy"})
    BY <2>1 DEF Of, MsgToGame
  <2>. QED BY <1>2, <2>1, <2>2, MailOfTypes DEF PrivateShopClose, Mailed, NoPost
<1>. QED BY <1>1, <1>2

\* All but a request granted, a payment credited and a permission.
LEMMA ProcessMail ==
    ASSUME TypeOK, NEW c \in Cores, Process(c), Head(toDB[c]).kind \notin {"Close", "CheckoutRequest"}
    PROVE  LET m == Head(toDB[c])
           IN \/ PrivateShopBuyRequest(c, m) /\ Sellable(m)
              \/ PrivateShopBuy(c, m) /\ Holds(c, m)
              \/ Mailed(Dull)
<1> DEFINE m == Head(toDB[c])
<1>1. m \in MsgToDB
  BY DEF Process, TypeOK, WireTypeOK
<1> HIDE DEF m
<1>2. m.kind \notin {"Close", "CheckoutRequest"}
  BY DEF m
<1>3. \/ PrivateShopBuyRequest(c, m) \/ PrivateShopBuy(c, m) \/ PrivateShopFailedBuy(c, m)
      \/ PrivateShopModifyRequest(c, m) \/ PrivateShopItemPriceChangeRequest(c, m)
      \/ PrivateShopItemMoveRequest(c, m) \/ PrivateShopItemCheckinUpdate(c, m)
      \/ PrivateShopItemCheckoutUpdate(c, m) \/ PrivateShopItemExpire(c, m)
      \/ PrivateShopWithdraw(c, m) \/ PrivateShopItemTransfer(c, m)
      \/ QueryItemSave(c, m) \/ PrivateShopItemCheckinRequest(c, m)
      \/ PrivateShopItemCheckoutRequest(c, m) \/ PrivateShopWithdrawRequest(c, m)
      \/ PrivateShopClose(c, m) \/ PrivateShopDelete(c, m) \/ PrivateShopLogout(c, m)
      \/ AccountLogout(c, m)
  BY Zenon DEF Process, m
<1>4. ASSUME \/ PrivateShopFailedBuy(c, m) \/ QueryItemSave(c, m) \/ PrivateShopItemTransfer(c, m)
             \/ PrivateShopDelete(c, m) \/ PrivateShopLogout(c, m) \/ AccountLogout(c, m)
      PROVE  Mailed(Dull)
  BY <1>4 DEF PrivateShopFailedBuy, QueryItemSave, PrivateShopItemTransfer, PrivateShopDelete,
              PrivateShopLogout, AccountLogout, Mailed, Refused
<1>5. ASSUME PrivateShopItemPriceChangeRequest(c, m) \/ PrivateShopItemMoveRequest(c, m)
      PROVE  Mailed(Dull)
  <2>1. m.kind \in {"Price", "Move"} /\ (Refused \/ Echo(c, m))
    BY <1>5 DEF PrivateShopItemPriceChangeRequest, PrivateShopItemMoveRequest
  <2>. QED BY <1>1, <2>1, EchoMail DEF Mailed, Refused
<1>6. ASSUME PrivateShopBuyRequest(c, m) \/ PrivateShopBuy(c, m)
      PROVE  \/ PrivateShopBuyRequest(c, m) /\ Sellable(m)
             \/ PrivateShopBuy(c, m) /\ Holds(c, m)
             \/ Mailed(Dull)
  BY <1>6 DEF PrivateShopBuyRequest, PrivateShopBuy, Refused, Mailed
<1>7. ~PrivateShopItemCheckoutRequest(c, m) /\ ~PrivateShopClose(c, m)
  BY <1>2 DEF PrivateShopItemCheckoutRequest, PrivateShopClose
<1>. QED BY <1>1, <1>3, <1>4, <1>5, <1>6, <1>7, ModifyMail, CheckinMail, RemovingMail, WithdrawMail DEF m

LEMMA LoadMail ==
    ASSUME TypeOK, RESULT_PRIVATE_SHOP_LOAD
    PROVE  \/ Mailed(Dull)
           \/ /\ Head(loads).core \in peers /\ Exists /\ ~Emptied /\ owner' = Head(loads)
              /\ \E l \in MsgToGame : /\ MailedWith(Head(loads).core, l)
                                      /\ l.kind = "Load" /\ l.sess = Head(loads).sess /\ l.gold = gold
<1> DEFINE q == Head(loads)
           l == [kind |-> "Load", sess |-> q.sess, state |-> LoadState, gold |-> gold,
                 items |-> Listing(UpdatedSlot)]
           s == IF Restored THEN Notify(Host, [kind |-> "Spawn", state |-> LoadState,
                                               stall |-> Stall(UpdatedSlot)])
                ELSE Nothing
<1>1. DBTypeOK /\ UpdateOut \in MailOf(Dull) /\ Nothing \in MailOf(Dull)
  BY UpdateMail, MailOfTypes DEF TypeOK
<1>2. CASE UNCHANGED toGame \/ Post(UpdateOut)
  BY <1>1, <1>2 DEF Mailed
<1>3. CASE q.core \in peers /\ Exists /\ ~Emptied
  <2>1. q \in Session /\ gold \in Nat /\ LoadState \in ShopStates /\ UpdatedSlot \in [Positions -> Slot]
    <3>1. q \in Session
      BY DEF RESULT_PRIVATE_SHOP_LOAD, TypeOK, DBTypeOK
    <3>. QED BY <1>1, <3>1, UpdatedSlotType DEF DBTypeOK, LoadState, UpdatedState, ShopStates
  <2>2. l \in MsgToGame
    <3>1. Listing(UpdatedSlot) \in Seq(Entry) /\ q.sess \in Nat
      BY <2>1, ListingType DEF Session
    <3>. QED BY <2>1, <3>1 DEF MsgToGame
  <2>3. s \in MailOf(Dull)
    BY <1>1, <2>1, StallOfSlots, DullPackets, MailOfTypes
  <2>4. Post((UpdateOut ++ To(q.core, l)) ++ s) /\ owner' = q
    BY <1>3 DEF RESULT_PRIVATE_SHOP_LOAD
  <2>5. l.kind = "Load" /\ l.sess = q.sess /\ l.gold = gold
    OBVIOUS
  <2> HIDE DEF l, s
  <2>. QED BY <1>1, <1>3, <2>2, <2>3, <2>4, <2>5 DEF MailedWith
<1>. QED BY <1>2, <1>3 DEF RESULT_PRIVATE_SHOP_LOAD

-----------------------------------------------------------------------------
\* What a core does with a packet.

Sessionless == <<ownerAt, lastSess, online, crashed>>
Refusal(m) == [kind |-> "FailedBuy", pos |-> m.pos, token |-> m.token]

\* No item and no gold changes hands; the panel may show a sale or a shop.
Idle(c, m) ==
    /\ NoSend \/ (m.sess \in Nat /\ Send(c, <<[kind |-> "Logout", sess |-> m.sess]>>))
    /\ UNCHANGED <<bag, purse, Sessionless>>
    /\ m.kind \notin {"BuyRequest", "Cancel"}
    /\ ~Present(c, m.sess) => UNCHANGED panel
    /\ \/ panel'.gold <= panel.gold
       \/ m.kind = "Sale" /\ Present(c, m.sess) /\ panel'.gold = panel.gold + m.price
       \/ m.kind = "Load" /\ Present(c, m.sess) /\ panel'.gold = m.gold

Bought(c, m) ==
    /\ m.kind = "BuyRequest" /\ CanBuy(m) /\ Send(c, Delivery(m))
    /\ bag' = [bag EXCEPT ![m.cust] = @ \cup {m.item}]
    /\ purse' = [purse EXCEPT ![m.cust] = @ - m.price]
    /\ UNCHANGED <<panel, Sessionless>>

Declined(c, m) ==
    /\ m.kind \in Offering /\ Send(c, <<Refusal(m)>>) /\ UNCHANGED <<panel, bag, purse, Sessionless>>

Presented(c, m) ==
    /\ m.kind = "Checkin" /\ Present(c, m.sess) /\ m.item \in bag[Owner]
    /\ bag' = TakeFromBag(m.item) /\ Send(c, <<[m EXCEPT !.kind = "CheckinUpdate"]>>)
    /\ panel'.gold = panel.gold /\ UNCHANGED <<purse, Sessionless>>

TookOut(c, m) ==
    /\ m.kind = "Checkout" /\ Present(c, m.sess) /\ panel'.gold = panel.gold
    /\ \E p \in Positions, i \in Items : Send(c, <<[kind |-> "CheckoutUpdate", pos |-> p, item |-> i]>>)
    /\ UNCHANGED <<purse, Sessionless>>

PaidOut(c, m) ==
    /\ m.kind = "Withdraw" /\ Present(c, m.sess)
    /\ \E paid \in 1 .. panel.gold :
         /\ purse' = [purse EXCEPT ![Owner] = @ + paid] /\ panel'.gold = panel.gold - paid
         /\ Send(c, <<[kind |-> "WithdrawDone", gold |-> paid]>>)
    /\ UNCHANGED <<bag, Sessionless>>

HandedBack(c, m) ==
    /\ m.kind = "Destroy" /\ Present(c, m.sess) /\ panel' = NoPanel
    /\ \E ms \in Seq({a \in MsgToDB : a.kind \in {"ItemTransfer", "Delete"}}) : Send(c, ms)
    /\ UNCHANGED <<purse, Sessionless>>

LEMMA ViewsAreIdle ==
    ASSUME TypeOK, NEW c \in Cores, NEW m \in MsgToGame,
           \/ GameRemoveItem(c, m) \/ GameAddItem(c, m) \/ GameSpawn(c, m) \/ GameStateUpdate(c, m)
           \/ GamePriceChange(c, m) \/ GameItemMove(c, m) \/ GameItemExpire(c, m)
           \/ GameClosed(c, m)
    PROVE  Idle(c, m)
<1>1. panel \in PanelType /\ panel.gold \in Nat
  BY DEF TypeOK, GameTypeOK, PanelType
<1>2. NoSend /\ UNCHANGED <<bag, purse, Sessionless>>
  BY DEF GameRemoveItem, GameAddItem, GameSpawn, GameStateUpdate, GamePriceChange, GameItemMove,
         GameItemExpire, GameClosed, Sessionless
<1>3. m.kind \notin {"BuyRequest", "Cancel"}
  BY Zenon DEF GameRemoveItem, GameAddItem, GameSpawn, GameStateUpdate, GamePriceChange,
         GameItemMove, GameItemExpire, GameClosed
<1>4. ~Present(c, m.sess) => UNCHANGED panel
  BY DEF GameRemoveItem, GameAddItem, GameSpawn, GameStateUpdate, GamePriceChange, GameItemMove,
         GameItemExpire, GameClosed
<1>5. panel'.gold <= panel.gold
  <2>1. CASE GameRemoveItem(c, m) \/ GameAddItem(c, m) \/ GameSpawn(c, m)
    BY <1>1, <2>1 DEF GameRemoveItem, GameAddItem, GameSpawn
  <2>2. CASE GameStateUpdate(c, m) \/ GameClosed(c, m)
    BY <1>1, <2>2 DEF GameStateUpdate, GameClosed, PanelType, NoPanel
  <2>3. CASE GamePriceChange(c, m) \/ GameItemMove(c, m) \/ GameItemExpire(c, m)
    BY <1>1, <2>3 DEF GamePriceChange, GameItemMove, GameItemExpire, PanelType, DropEntry
  <2>. QED BY <2>1, <2>2, <2>3
<1>. QED BY <1>2, <1>3, <1>4, <1>5 DEF Idle

LEMMA TalliesAreIdle ==
    ASSUME TypeOK, NEW c \in Cores, NEW m \in MsgToGame, GameSaleUpdate(c, m) \/ GameLoad(c, m)
    PROVE  Idle(c, m)
<1>1. panel \in PanelType /\ panel.gold \in Nat
  BY DEF TypeOK, GameTypeOK, PanelType
<1>2. CASE GameSaleUpdate(c, m)
  <2>1. /\ NoSend /\ UNCHANGED <<bag, purse, Sessionless>> /\ m.kind = "Sale"
    BY <1>2 DEF GameSaleUpdate, Sessionless
  <2>2. \/ UNCHANGED panel
        \/ Present(c, m.sess) /\ panel' = [DropEntry(PanelAt(m.pos)) EXCEPT !.gold = @ + m.price]
    BY <1>2 DEF GameSaleUpdate
  <2>3. DropEntry(PanelAt(m.pos)) = [panel EXCEPT !.items = RemoveAt(panel.items, PanelAt(m.pos))]
    BY <1>1 DEF DropEntry, PanelType
  <2>4. UNCHANGED panel \/ (Present(c, m.sess) /\ panel'.gold = panel.gold + m.price)
    BY <1>1, <2>2, <2>3 DEF PanelType
  <2>. QED BY <1>1, <2>1, <2>2, <2>4 DEF Idle
<1>3. CASE GameLoad(c, m)
  <2>1. m.kind = "Load" /\ m.sess \in Nat
    BY <1>3, GameMsgFields DEF GameLoad
  <2>2. CASE Present(c, m.sess)
    BY <1>1, <1>3, <2>1, <2>2 DEF GameLoad, Idle, Sessionless
  <2>3. CASE ~Present(c, m.sess)
    <3>1. /\ Send(c, <<[kind |-> "Logout", sess |-> m.sess]>>)
          /\ UNCHANGED <<panel, bag, purse, Sessionless>>
      BY <1>3, <2>3 DEF GameLoad, Sessionless, gameVars
    <3>. QED BY <1>1, <2>1, <3>1 DEF Idle
  <2>. QED BY <2>2, <2>3
<1>. QED BY <1>2, <1>3

LEMMA RefusalsAreIdle ==
    ASSUME TypeOK, NEW c \in Cores, NEW m \in MsgToGame, NoSend, UNCHANGED gameVars,
           m.kind \notin {"BuyRequest", "Cancel"}
    PROVE  Idle(c, m)
<1>1. panel \in PanelType /\ panel.gold \in Nat
  BY DEF TypeOK, GameTypeOK, PanelType
<1>2. UNCHANGED <<bag, purse, Sessionless>> /\ UNCHANGED panel
  BY DEF gameVars, Sessionless
<1>. QED BY <1>1, <1>2 DEF Idle

LEMMA WithdrawPays ==
    ASSUME TypeOK, NEW c \in Cores, NEW m \in MsgToGame, GameWithdraw(c, m)
    PROVE  Idle(c, m) \/ PaidOut(c, m)
<1> DEFINE room == IF purse[Owner] < GoldMax - 1 THEN GoldMax - 1 - purse[Owner] ELSE 0
           paid == IF m.gold <= room THEN m.gold ELSE room
           can == Present(c, m.sess) /\ PanelShows(m) /\ paid > 0
<1>1. m.kind = "Withdraw" /\ m.gold \in Nat
  BY GameMsgFields DEF GameWithdraw
<1>2. CASE ~can
  BY <1>1, <1>2, RefusalsAreIdle DEF GameWithdraw
<1>3. CASE can
  <2>1. room \in Nat /\ panel \in PanelType
    <3>1. purse[Owner] \in Nat /\ GoldMax \in Nat
      BY ShopAssumption DEF TypeOK, GameTypeOK, Chars
    <3>. QED BY <3>1 DEF TypeOK, GameTypeOK, PanelType
  <2>2. m.gold = panel.gold /\ Present(c, m.sess) /\ paid > 0
    BY <1>3 DEF PanelShows
  <2>3. paid \in 1 .. panel.gold
    <3> HIDE DEF room
    <3>. QED BY <1>1, <2>1, <2>2
  <2>4. /\ purse' = [purse EXCEPT ![Owner] = @ + paid]
        /\ panel' = [panel EXCEPT !.gold = @ - paid]
        /\ Send(c, <<[kind |-> "WithdrawDone", gold |-> paid]>>)
        /\ UNCHANGED <<bag, ownerAt, lastSess, online, crashed>>
    BY <1>3 DEF GameWithdraw
  <2> HIDE DEF room, paid
  <2>5. panel'.gold = panel.gold - paid
    BY <2>1, <2>4 DEF PanelType
  <2>. QED BY <1>1, <2>2, <2>3, <2>4, <2>5 DEF PaidOut, Sessionless
<1>. QED BY <1>2, <1>3

LEMMA CheckoutTakes ==
    ASSUME TypeOK, NEW c \in Cores, NEW m \in MsgToGame, GameCheckin(c, m) \/ GameCheckout(c, m)
    PROVE  Idle(c, m) \/ Presented(c, m) \/ TookOut(c, m)
<1>1. panel \in PanelType
  BY DEF TypeOK, GameTypeOK, PanelType
<1>2. CASE GameCheckin(c, m)
  <2>1. m.kind = "Checkin"
    BY <1>2 DEF GameCheckin
  <2>2. CASE Present(c, m.sess) /\ m.item \in bag[Owner]
    <3>1. panel' = [panel EXCEPT !.items = Append(@, [pos |-> m.pos, item |-> m.item,
                                                      price |-> m.price])]
      BY <1>2, <2>2 DEF GameCheckin
    <3>2. panel'.gold = panel.gold
      BY <1>1, <3>1 DEF PanelType
    <3>. QED BY <1>2, <2>1, <2>2, <3>2 DEF GameCheckin, Presented, Sessionless
  <2>3. CASE ~(Present(c, m.sess) /\ m.item \in bag[Owner])
    BY <1>2, <2>1, <2>3, RefusalsAreIdle DEF GameCheckin
  <2>. QED BY <2>2, <2>3
<1>3. CASE GameCheckout(c, m)
  <2> DEFINE n == PanelAt(m.pos)
             i == panel.items[n].item
  <2>1. m.kind = "Checkout" /\ m.pos \in Positions
    BY <1>3, GameMsgFields DEF GameCheckout
  <2>2. CASE NoSend /\ UNCHANGED gameVars
    BY <2>1, <2>2, RefusalsAreIdle
  <2>3. CASE ~(NoSend /\ UNCHANGED gameVars)
    <3>1. /\ Present(c, m.sess) /\ n # 0 /\ panel' = DropEntry(n)
          /\ Send(c, <<[kind |-> "CheckoutUpdate", pos |-> m.pos, item |-> i]>>)
          /\ UNCHANGED <<purse, ownerAt, lastSess, online, crashed>>
      BY <1>3, <2>3 DEF GameCheckout
    <3>2. i \in Items
      <4>1. panel.items \in Seq(Entry) /\ n \in 1 .. Len(panel.items)
        BY <1>1, <3>1, PanelAtType DEF PanelType
      <4>2. panel.items[n] \in Entry
        BY <4>1
      <4>. QED BY <4>2 DEF Entry
    <3>3. panel'.gold = panel.gold
      BY <1>1, <3>1 DEF PanelType, DropEntry
    <3> HIDE DEF i, n
    <3>. QED BY <2>1, <3>1, <3>2, <3>3 DEF TookOut, Sessionless
  <2>. QED BY <2>2, <2>3
<1>. QED BY <1>2, <1>3

LEMMA DestroyHandsBack ==
    ASSUME TypeOK, NEW c \in Cores, NEW m \in MsgToGame, GameDestroy(c, m)
    PROVE  Idle(c, m) \/ HandedBack(c, m)
<1> DEFINE back == {host.items[p].item : p \in Positions} \ {NoItem}
           T == {a \in MsgToDB : a.kind \in {"ItemTransfer", "Delete"}}
           transfer == [i \in back |-> [kind |-> "ItemTransfer", item |-> i]]
<1>1. m.kind = "Destroy"
  BY DEF GameDestroy
<1>2. CASE NoSend /\ UNCHANGED gameVars
  BY <1>1, <1>2, RefusalsAreIdle
<1>3. CASE ~(NoSend /\ UNCHANGED gameVars)
  <2>1. back \subseteq Items /\ IsFiniteSet(back)
    <3> DEFINE at == [p \in Positions |-> host.items[p].item]
    <3>1. host.items \in StallType
      BY DEF TypeOK, GameTypeOK, HostType
    <3>2. back \subseteq Items
      BY <3>1 DEF StallType
    <3>3. back \subseteq {at[p] : p \in Positions} /\ DOMAIN at = Positions
      OBVIOUS
    <3> HIDE DEF at, back
    <3>5. IsFiniteSet(Positions)
      BY FinitePositions
    <3>4. IsFiniteSet({at[p] : p \in Positions})
      BY <3>3, <3>5, FiniteImage, Zenon
    <3>. QED BY <3>2, <3>3, <3>4, FS_Subset
  <2>2. \A i \in back : transfer[i] \in T
    BY <2>1 DEF MsgToDB
  <2>3. {[kind |-> "ItemTransfer", item |-> i] : i \in back} = {transfer[i] : i \in back}
    OBVIOUS
  <2>4. DOMAIN transfer = back
    OBVIOUS
  <2>5. [kind |-> "Delete"] \in T
    BY DEF MsgToDB
  <2>6. /\ Present(c, m.sess) /\ panel' = NoPanel
        /\ Send(c, SetToSeq({[kind |-> "ItemTransfer", item |-> i] : i \in back})
                   \o <<[kind |-> "Delete"]>>)
        /\ UNCHANGED <<purse, ownerAt, lastSess, online, crashed>>
    BY <1>3 DEF GameDestroy
  <2> HIDE DEF back, transfer, T
  <2>7. IsFiniteSet({transfer[i] : i \in back}) /\ {transfer[i] : i \in back} \subseteq T
    BY <2>1, <2>2, <2>4, FiniteImage, Zenon
  <2>8. SetToSeq({transfer[i] : i \in back}) \in Seq(T)
    BY <2>7, SeqOfSet
  <2>9. SetToSeq({transfer[i] : i \in back}) \o <<[kind |-> "Delete"]>> \in Seq(T)
    BY <2>5, <2>8, QueueOfOne, QueueCat
  <2>. QED BY <1>1, <2>3, <2>6, <2>9 DEF HandedBack, Sessionless, T
<1>. QED BY <1>2, <1>3

\* What the next packet for a core comes to.
LEMMA ReceiveCases ==
    ASSUME TypeOK, NEW c \in Cores, Receive(c)
    PROVE  LET m == Head(toGame[c])
           IN /\ m \in MsgToGame /\ c \notin crashed
              /\ toGame[c] # <<>> /\ toGame' = [toGame EXCEPT ![c] = Tail(@)]
              /\ \/ Idle(c, m) \/ Bought(c, m) \/ Declined(c, m) \/ Presented(c, m)
                 \/ TookOut(c, m) \/ PaidOut(c, m) \/ HandedBack(c, m)
<1> DEFINE m == Head(toGame[c])
<1>1. m \in MsgToGame /\ c \notin crashed /\ toGame[c] # <<>> /\ toGame' = [toGame EXCEPT ![c] = Tail(@)]
  BY DEF Receive, TypeOK, WireTypeOK
<1>2. \/ GameBuyRequest(c, m)   \/ GameCancel(c, m)      \/ GameRemoveItem(c, m)
      \/ GameAddItem(c, m)      \/ GameSpawn(c, m)       \/ GameStateUpdate(c, m)
      \/ GamePriceChange(c, m)  \/ GameItemMove(c, m)    \/ GameSaleUpdate(c, m)
      \/ GameItemExpire(c, m)   \/ GameClosed(c, m)      \/ GameLoad(c, m)
      \/ GameCheckin(c, m)      \/ GameCheckout(c, m)    \/ GameWithdraw(c, m)
      \/ GameDestroy(c, m)
  BY Zenon DEF Receive
<1> HIDE DEF m
<1>3. CASE GameBuyRequest(c, m)
  <2>1. m.kind \in Offering /\ m.kind = "BuyRequest"
    BY <1>3 DEF GameBuyRequest, Offering
  <2>2. \/ /\ CanBuy(m) /\ Send(c, Delivery(m))
           /\ bag' = [bag EXCEPT ![m.cust] = @ \cup {m.item}]
           /\ purse' = [purse EXCEPT ![m.cust] = @ - m.price]
           /\ UNCHANGED <<panel, ownerAt, lastSess, online, crashed>>
        \/ Send(c, <<Refusal(m)>>) /\ UNCHANGED gameVars
    BY <1>3 DEF GameBuyRequest, Refuse, Refusal
  <2>. QED BY <1>1, <2>1, <2>2 DEF Bought, Declined, Sessionless, gameVars, m
<1>4. CASE GameCancel(c, m)
  <2>1. m \in [kind : {"Cancel"}, pos : Positions, token : Nat]
    BY <1>1, <1>4 DEF GameCancel, MsgToGame
  <2>2. [m EXCEPT !.kind = "FailedBuy"] = Refusal(m) /\ m.kind \in Offering
    BY <2>1 DEF Refusal, Offering
  <2>3. Declined(c, m)
    BY <1>4, <2>2 DEF GameCancel, Declined, Sessionless, gameVars
  <2>. QED BY <1>1, <2>3 DEF m
<1>. QED BY <1>1, <1>2, <1>3, <1>4, ViewsAreIdle, TalliesAreIdle, WithdrawPays, CheckoutTakes,
            DestroyHandsBack DEF m

-----------------------------------------------------------------------------
\* What clients ask for.

\* Core d sends packets of the kinds K.
Packets(K) == {a \in MsgToDB : a.kind \in K}
Sends(d, K) == \E ms \in Seq(Packets(K)) : Send(d, ms)

Asking == {"Modify", "WithdrawRequest", "Price", "Move", "CheckinRequest"}
Standing == <<panel, bag, purse, Sessionless>>

LoggedOut ==
    /\ ownerAt.sess # 0 /\ ownerAt' = Detached /\ panel' = NoPanel
    /\ UNCHANGED <<bag, purse, lastSess, online, crashed>>
    /\ \E ms \in Seq(Packets({"Logout"})) : Send(ownerAt.core, ms \o <<[kind |-> "AccountLogout"]>>)

LEMMA PacketIs == ASSUME NEW K, NEW a \in MsgToDB, a.kind \in K, NEW d, Send(d, <<a>>)
                  PROVE  Sends(d, K)
<1>1. <<a>> \in Seq(Packets(K))
  BY DEF Packets
<1>. QED BY <1>1 DEF Sends

LEMMA OwnerAsks ==
    ASSUME TypeOK,
           \/ OwnerModify \/ OwnerClose \/ OwnerWithdraw
           \/ \E p \in Positions : \/ OwnerCheckout(p)
                                   \/ \E q \in Positions : OwnerMove(p, q)
                                   \/ \E price \in Prices : OwnerPriceChange(p, price)
                                   \/ \E i \in Items, price \in Prices : OwnerCheckin(i, p, price)
    PROVE  /\ panel.loaded /\ UNCHANGED Standing
           /\ \/ Sends(ownerAt.core, Asking)
              \/ budget["close"] > 0 /\ Sends(ownerAt.core, {"Close"})
              \/ budget["checkout"] > 0 /\ Sends(ownerAt.core, {"CheckoutRequest"})
<1>1. ownerAt.sess \in Nat /\ Prices \subseteq Nat
  BY ShopAssumption DEF TypeOK, GameTypeOK, Session
<1>2. CASE OwnerModify \/ OwnerWithdraw
  <2>1. panel.loaded /\ UNCHANGED Standing
    BY <1>2 DEF OwnerModify, OwnerWithdraw, Ask, gameVars, Standing, Sessionless
  <2>2. \E k \in {"Modify", "WithdrawRequest"} :
          Send(ownerAt.core, <<[kind |-> k, sess |-> ownerAt.sess]>>)
    BY <1>2 DEF OwnerModify, OwnerWithdraw, Ask
  <2>3. \A k \in {"Modify", "WithdrawRequest"} :
          [kind |-> k, sess |-> ownerAt.sess] \in MsgToDB
          /\ [kind |-> k, sess |-> ownerAt.sess].kind \in Asking
    BY <1>1 DEF MsgToDB, Asking
  <2>. QED BY <2>1, <2>2, <2>3, PacketIs
<1>3. CASE OwnerClose
  <2>1. panel.loaded /\ UNCHANGED Standing /\ budget["close"] > 0
        /\ Send(ownerAt.core, <<[kind |-> "Close", sess |-> ownerAt.sess]>>)
    BY <1>3 DEF OwnerClose, Ask, Spend, gameVars, Standing, Sessionless
  <2>2. [kind |-> "Close", sess |-> ownerAt.sess] \in MsgToDB
    BY <1>1 DEF MsgToDB
  <2>. QED BY <2>1, <2>2, PacketIs
<1>4. ASSUME NEW p \in Positions, OwnerCheckout(p)
      PROVE  /\ panel.loaded /\ UNCHANGED Standing
             /\ budget["checkout"] > 0 /\ Sends(ownerAt.core, {"CheckoutRequest"})
  <2>1. /\ panel.loaded /\ UNCHANGED Standing /\ budget["checkout"] > 0
        /\ Send(ownerAt.core, <<[kind |-> "CheckoutRequest", sess |-> ownerAt.sess, pos |-> p]>>)
    BY <1>4 DEF OwnerCheckout, AskEdit, Ask, Spend, gameVars, Standing, Sessionless
  <2>2. [kind |-> "CheckoutRequest", sess |-> ownerAt.sess, pos |-> p] \in MsgToDB
    BY <1>1 DEF MsgToDB
  <2>. QED BY <2>1, <2>2, PacketIs
<1>5. ASSUME NEW p \in Positions, NEW q \in Positions, OwnerMove(p, q)
      PROVE  panel.loaded /\ UNCHANGED Standing /\ Sends(ownerAt.core, Asking)
  <2> DEFINE a == [kind |-> "Move", sess |-> ownerAt.sess, pos |-> p, dst |-> q]
  <2>1. panel.loaded /\ UNCHANGED Standing /\ Send(ownerAt.core, <<a>>)
    BY <1>5 DEF OwnerMove, AskEdit, Ask, gameVars, Standing, Sessionless
  <2>2. a \in MsgToDB /\ a.kind \in Asking
    BY <1>1 DEF MsgToDB, Asking
  <2> HIDE DEF a
  <2>. QED BY <2>1, <2>2, PacketIs
<1>6. ASSUME NEW p \in Positions, NEW price \in Prices, OwnerPriceChange(p, price)
      PROVE  panel.loaded /\ UNCHANGED Standing /\ Sends(ownerAt.core, Asking)
  <2> DEFINE a == [kind |-> "Price", sess |-> ownerAt.sess, pos |-> p, price |-> price]
  <2>1. panel.loaded /\ UNCHANGED Standing /\ Send(ownerAt.core, <<a>>)
    BY <1>6 DEF OwnerPriceChange, AskEdit, Ask, gameVars, Standing, Sessionless
  <2>2. a \in MsgToDB /\ a.kind \in Asking
    BY <1>1 DEF MsgToDB, Asking
  <2> HIDE DEF a
  <2>. QED BY <2>1, <2>2, PacketIs
<1>7. ASSUME NEW p \in Positions, NEW i \in Items, NEW price \in Prices, OwnerCheckin(i, p, price)
      PROVE  panel.loaded /\ UNCHANGED Standing /\ Sends(ownerAt.core, Asking)
  <2> DEFINE a == [kind |-> "CheckinRequest", sess |-> ownerAt.sess, pos |-> p, item |-> i,
                   price |-> price]
  <2>1. panel.loaded /\ UNCHANGED Standing /\ Send(ownerAt.core, <<a>>)
    BY <1>7 DEF OwnerCheckin, AskEdit, Ask, Standing, Sessionless
  <2>2. a \in MsgToDB /\ a.kind \in Asking
    BY <1>1 DEF MsgToDB, Asking
  <2> HIDE DEF a
  <2>. QED BY <2>1, <2>2, PacketIs
<1>. QED BY <1>2, <1>3, <1>4, <1>5, <1>6, <1>7

LEMMA ClientCases ==
    ASSUME TypeOK, ClientStep
    PROVE  \/ \E k \in online : Sends(Home[k], {"BuyRequest"}) /\ UNCHANGED Standing
           \/ NoSend /\ online' \subseteq online /\ UNCHANGED <<panel, bag, purse, ownerAt, lastSess, crashed>>
           \/ /\ panel.loaded /\ UNCHANGED Standing
              /\ \/ Sends(ownerAt.core, Asking)
                 \/ budget["close"] > 0 /\ Sends(ownerAt.core, {"Close"})
                 \/ budget["checkout"] > 0 /\ Sends(ownerAt.core, {"CheckoutRequest"})
           \/ LoggedOut
           \/ budget["itemTimeout"] > 0 /\ Sends(Host, {"ItemExpire"}) /\ UNCHANGED Standing
<1>1. ASSUME NEW k \in Customers, NEW p \in Positions, NEW price \in Prices,
             PrivateShopBuyClient(k, p, price)
      PROVE  k \in online /\ Sends(Home[k], {"BuyRequest"}) /\ UNCHANGED Standing
  <2> DEFINE a == [kind |-> "BuyRequest", cust |-> k, pos |-> p, price |-> price, purse |-> purse[k]]
  <2>1. k \in online /\ UNCHANGED Standing /\ Send(Home[k], <<a>>)
    BY <1>1 DEF PrivateShopBuyClient, gameVars, Standing, Sessionless
  <2>2. a \in MsgToDB /\ a.kind = "BuyRequest"
    <3>1. purse[k] \in Nat /\ price \in Nat
      BY ShopAssumption DEF TypeOK, GameTypeOK, Chars
    <3>. QED BY <3>1 DEF MsgToDB
  <2> HIDE DEF a
  <2>. QED BY <2>1, <2>2, PacketIs
<1>2. ASSUME NEW k \in Customers, CustomerLeaves(k)
      PROVE  NoSend /\ online' \subseteq online /\ UNCHANGED <<panel, bag, purse, ownerAt, lastSess, crashed>>
  BY <1>2 DEF CustomerLeaves
<1>3. ASSUME NEW p \in Positions, SendItemExpire(p)
      PROVE  budget["itemTimeout"] > 0 /\ Sends(Host, {"ItemExpire"}) /\ UNCHANGED Standing
  <2>1. /\ UNCHANGED Standing /\ budget["itemTimeout"] > 0
        /\ Send(Host, <<[kind |-> "ItemExpire", pos |-> p]>>)
    BY <1>3 DEF SendItemExpire, Spend, Standing, Sessionless
  <2>2. [kind |-> "ItemExpire", pos |-> p] \in MsgToDB
    BY DEF MsgToDB
  <2>. QED BY <2>1, <2>2, PacketIs
<1>4. ASSUME OwnerLogout
      PROVE  LoggedOut
  <2> DEFINE a == [kind |-> "Logout", sess |-> ownerAt.sess]
             b == [kind |-> "AccountLogout"]
  <2>1. /\ ownerAt.sess # 0 /\ ownerAt' = Detached /\ panel' = NoPanel
        /\ UNCHANGED <<bag, purse, lastSess, online, crashed>>
        /\ Send(ownerAt.core, (IF panel.loaded THEN <<a>> ELSE <<>>) \o <<b>>)
    BY <1>4 DEF OwnerLogout
  <2>2. a \in Packets({"Logout"})
    BY DEF Packets, MsgToDB, TypeOK, GameTypeOK, Session
  <2> DEFINE ms == IF panel.loaded THEN <<a>> ELSE <<>>
  <2>3. Send(ownerAt.core, ms \o <<b>>)
    BY <2>1
  <2> HIDE DEF a
  <2>4. ms \in Seq(Packets({"Logout"}))
    <3>1. <<a>> \in Seq(Packets({"Logout"})) /\ <<>> \in Seq(Packets({"Logout"}))
      BY <2>2
    <3>. QED BY <3>1
  <2> HIDE DEF ms
  <2>. QED BY <2>1, <2>3, <2>4 DEF LoggedOut, b
<1>. QED BY <1>1, <1>2, <1>3, <1>4, OwnerAsks, Zenon DEF ClientStep

\* What is used up stays used up.
LEMMA SpentStays ==
    ASSUME TypeOK, [Next]_vars, NEW k \in Kinds, budget[k] = 0
    PROVE  budget'[k] = 0
<1>1. budget \in [Kinds -> Nat]
  BY DEF TypeOK, WireTypeOK
<1>2. ASSUME NEW j, Spend(j)
      PROVE  budget'[k] = 0
  BY <1>1, <1>2 DEF Spend
<1>3. UNCHANGED budget \/ \E j : Spend(j)
  <2>1. /\ DBStep => UNCHANGED budget
        /\ GameStep => UNCHANGED budget
        /\ UNCHANGED vars => UNCHANGED budget
    BY DEF DBStep, GameStep, vars
  <2>2. ClientStep => UNCHANGED budget \/ \E j : Spend(j)
    <3>1. OwnerModify \/ OwnerClose \/ OwnerWithdraw \/ OwnerLogout
            => UNCHANGED budget \/ \E j : Spend(j)
      BY DEF OwnerModify, OwnerClose, OwnerWithdraw, OwnerLogout, Ask
    <3>2. \A cust, p, price : PrivateShopBuyClient(cust, p, price) \/ CustomerLeaves(cust) => \E j : Spend(j)
      BY DEF PrivateShopBuyClient, CustomerLeaves
    <3>3. \A i, p, q, price : OwnerCheckout(p) \/ SendItemExpire(p) \/ OwnerMove(p, q)
            \/ OwnerPriceChange(p, price) \/ OwnerCheckin(i, p, price) => \E j : Spend(j)
      BY DEF OwnerCheckout, SendItemExpire, OwnerMove, OwnerPriceChange, OwnerCheckin, AskEdit, Ask
    <3>. QED BY <3>1, <3>2, <3>3 DEF ClientStep
  <2>3. EnvStep => UNCHANGED budget \/ \E j : Spend(j)
    <3>1. (DeadlinePasses => \E j : Spend(j)) /\ \A c : OwnerLogin(c) \/ CoreCrash(c) => \E j : Spend(j)
      BY DEF DeadlinePasses, OwnerLogin, CoreCrash
    <3>. QED BY <3>1 DEF EnvStep
  <2>. QED BY <2>1, <2>2, <2>3 DEF Next
<1>. QED BY <1>2, <1>3

-----------------------------------------------------------------------------
\* Sessions: who is bound to the shop and where the owner plays.

LEMMA ProcessBinds ==
    ASSUME NEW c \in Cores, Process(c)
    PROVE  /\ UNCHANGED <<loads, peers, expired>> /\ owner' \in {owner, Detached}
           /\ playing' = IF Head(toDB[c]).kind = "AccountLogout" THEN NoCore ELSE playing
<1> DEFINE m == Head(toDB[c])
           Binds == /\ UNCHANGED <<loads, peers, expired>> /\ owner' \in {owner, Detached}
                    /\ playing' = IF m.kind = "AccountLogout" THEN NoCore ELSE playing
<1> HIDE DEF m
<1>1. ASSUME PrivateShopBuyRequest(c, m) \/ PrivateShopBuy(c, m) \/ PrivateShopFailedBuy(c, m) \/ QueryItemSave(c, m)
      PROVE  Binds
  BY <1>1 DEF PrivateShopBuyRequest, PrivateShopBuy, PrivateShopFailedBuy, QueryItemSave, Refused, dbVars
<1>2. ASSUME PrivateShopModifyRequest(c, m) \/ PrivateShopItemPriceChangeRequest(c, m) \/ PrivateShopItemMoveRequest(c, m)
      PROVE  Binds
  BY <1>2 DEF PrivateShopModifyRequest, PrivateShopItemPriceChangeRequest, PrivateShopItemMoveRequest, Refused, dbVars
<1>3. ASSUME PrivateShopItemCheckinRequest(c, m) \/ PrivateShopItemCheckinUpdate(c, m) \/ PrivateShopItemCheckoutRequest(c, m)
      PROVE  Binds
  BY <1>3 DEF PrivateShopItemCheckinRequest, PrivateShopItemCheckinUpdate, PrivateShopItemCheckoutRequest, Refused, dbVars
<1>4. ASSUME PrivateShopItemCheckoutUpdate(c, m) \/ PrivateShopItemExpire(c, m)
      PROVE  Binds
  BY <1>4 DEF PrivateShopItemCheckoutUpdate, PrivateShopItemExpire, AfterRemoval, Vanish, Refused, dbVars
<1>5. ASSUME PrivateShopWithdrawRequest(c, m) \/ PrivateShopWithdraw(c, m) \/ PrivateShopClose(c, m)
      PROVE  Binds
  BY <1>5 DEF PrivateShopWithdrawRequest, PrivateShopWithdraw, PrivateShopClose, Vanish, Refused, dbVars
<1>6. ASSUME PrivateShopItemTransfer(c, m) \/ PrivateShopDelete(c, m)
      PROVE  Binds
  BY <1>6 DEF PrivateShopItemTransfer, PrivateShopDelete, Vanish, Refused, dbVars
<1>7. ASSUME PrivateShopLogout(c, m) \/ AccountLogout(c, m)
      PROVE  Binds
  BY <1>7 DEF PrivateShopLogout, AccountLogout
<1>. QED BY <1>1, <1>2, <1>3, <1>4, <1>5, <1>6, <1>7, Zenon DEF Process, m, Binds

\* What any step of the DB process does to the sessions it knows.
LEMMA DBBinds ==
    ASSUME TypeOK, DBStep
    PROVE  /\ \/ owner' \in {owner, Detached} /\ UNCHANGED loads
              \/ /\ loads # <<>> /\ loads' = Tail(loads) /\ RESULT_PRIVATE_SHOP_LOAD
                 /\ owner' \in {owner, Detached, Head(loads)}
           /\ \/ UNCHANGED playing
              \/ playing' = NoCore /\ \E c \in Cores : Process(c) /\ Head(toDB[c]).kind = "AccountLogout"
              \/ playing' = NoCore /\ \E c \in Cores : RemovePeer(c) /\ playing = c
           /\ UNCHANGED gameVars
<1>1. ASSUME NEW c \in Cores, Process(c)
      PROVE  /\ owner' \in {owner, Detached} /\ UNCHANGED loads
             /\ \/ UNCHANGED playing
                \/ playing' = NoCore /\ Head(toDB[c]).kind = "AccountLogout"
  BY <1>1, ProcessBinds
<1>2. ASSUME UpdatePrivateShopPremiumEvent
      PROVE  owner' \in {owner, Detached} /\ UNCHANGED loads /\ UNCHANGED playing
  BY <1>2 DEF UpdatePrivateShopPremiumEvent, Vanish
<1>3. ASSUME RESULT_PRIVATE_SHOP_LOAD
      PROVE  /\ loads # <<>> /\ loads' = Tail(loads)
             /\ owner' \in {owner, Detached, Head(loads)} /\ UNCHANGED playing
  BY <1>3 DEF RESULT_PRIVATE_SHOP_LOAD, Vanish
<1>4. ASSUME NEW c \in Cores, RemovePeer(c)
      PROVE  /\ owner' \in {owner, Detached} /\ UNCHANGED loads
             /\ UNCHANGED playing \/ (playing' = NoCore /\ playing = c)
  BY <1>4 DEF RemovePeer
<1>5. UNCHANGED gameVars
  BY DEF DBStep
<1>. QED BY <1>1, <1>2, <1>3, <1>4, <1>5 DEF DBStep

\* The owner's character is on a core that lives, where its account plays; a
\* character that is offline has no panel.
OwnerAlive ==
    /\ ownerAt.sess = 0 => ownerAt = Detached /\ panel = NoPanel
    /\ ownerAt.sess # 0 => /\ ownerAt.core \in Cores \ crashed /\ ownerAt.sess = lastSess
                           /\ playing = ownerAt.core

\* The packets only the core on which the account plays has under way; the
\* account's logout is the last of them.
PlayKinds == {"WithdrawDone", "AccountLogout", "CheckinUpdate"}
PlaysThere ==
    \A c \in Cores :
        /\ \A m \in Range(toDB[c]) : m.kind \in PlayKinds => playing = c
        /\ \A p \in Before(toDB[c]) : p[1].kind = "AccountLogout" => p[2].kind \notin PlayKinds
        /\ \A m \in Range(toDB[c]) : m.kind = "AccountLogout" => ownerAt.sess = 0

\* A core that is gone has nothing under way to it.
Hushed == \A c \in crashed : toGame[c] = <<>>

\* The sessions under way are of the past, the last one is the owner's.
Sessions ==
    /\ owner.sess <= lastSess
    /\ \A q \in Range(loads) : q.sess \in 1 .. lastSess
    /\ \A q \in Range(loads) : q.sess = ownerAt.sess => q = ownerAt
    /\ \A p \in Before(loads) : p[1].sess < p[2].sess
    /\ \A c \in Cores : \A m \in Range(toGame[c]) : m.kind \in {"Load", "Sale"} => m.sess <= lastSess

SessionsInv == OwnerAlive /\ PlaysThere /\ Hushed /\ Sessions

LEMMA OwnerAliveStep == ASSUME TypeOK, SessionsInv, Next PROVE OwnerAlive'
<1>1. ownerAt \in Session /\ NoCore \notin Cores /\ lastSess \in Nat /\ ownerAt = [core |-> ownerAt.core, sess |-> ownerAt.sess]
  BY ShopAssumption DEF TypeOK, GameTypeOK, Session
<1>2. ASSUME UNCHANGED <<ownerAt, lastSess, crashed, playing>>, ownerAt.sess = 0 => UNCHANGED panel
      PROVE  OwnerAlive'
  BY <1>2 DEF SessionsInv, OwnerAlive
<1>3. ASSUME ownerAt' = Detached, panel' = NoPanel
      PROVE  OwnerAlive'
  BY <1>3 DEF OwnerAlive, Detached
<1>4. CASE DBStep
  <2>1. UNCHANGED <<ownerAt, lastSess, crashed, panel>>
    BY <1>4, DBBinds DEF gameVars
  <2>2. CASE UNCHANGED playing
    BY <1>2, <2>1, <2>2
  <2>3. ASSUME NEW c \in Cores, Process(c), Head(toDB[c]).kind = "AccountLogout"
        PROVE  OwnerAlive'
    <3>1. Head(toDB[c]) \in Range(toDB[c])
      BY <2>3, RangeTail DEF Process, TypeOK, WireTypeOK
    <3>. QED BY <2>1, <2>3, <3>1 DEF SessionsInv, OwnerAlive, PlaysThere
  <2>4. ASSUME NEW c \in Cores, RemovePeer(c), playing = c
        PROVE  OwnerAlive'
    <3>1. c \in crashed
      BY <2>4 DEF RemovePeer
    <3>. QED BY <2>1, <2>4, <3>1 DEF SessionsInv, OwnerAlive
  <2>. QED BY <1>4, <2>2, <2>3, <2>4, DBBinds
<1>5. CASE GameStep
  <2>1. PICK c \in Cores : Receive(c)
    BY <1>5 DEF GameStep
  <2>2. UNCHANGED playing /\ UNCHANGED Sessionless
    BY <1>5, <2>1, ReceiveCases DEF GameStep, dbVars, Idle, Bought, Declined, Presented, TookOut, PaidOut, HandedBack
  <2>3. ownerAt.sess = 0 => UNCHANGED panel
    <3>1. ASSUME NEW m, ownerAt.sess = 0
          PROVE  ~Present(c, m.sess)
      BY <3>1 DEF Present
    <3>. QED BY <2>1, <3>1, ReceiveCases DEF Idle, Bought, Declined, Presented, TookOut, PaidOut, HandedBack
  <2>. QED BY <1>2, <2>2, <2>3 DEF Sessionless
<1>6. CASE ClientStep
  <2>1. UNCHANGED playing
    BY <1>6 DEF ClientStep, dbVars
  <2>2. UNCHANGED <<panel, ownerAt, lastSess, crashed>> \/ LoggedOut
    BY <1>6, ClientCases DEF Standing, Sessionless
  <2>. QED BY <1>2, <1>3, <2>1, <2>2 DEF LoggedOut
<1>7. CASE EnvStep
  <2>1. CASE UNCHANGED gameVars /\ UNCHANGED playing
    BY <1>2, <2>1 DEF gameVars
  <2>2. ASSUME NEW c \in Cores, OwnerLogin(c)
        PROVE  OwnerAlive'
    <3>1. /\ lastSess' = lastSess + 1 /\ ownerAt' = [core |-> c, sess |-> lastSess'] /\ playing' = c
          /\ c \notin crashed /\ UNCHANGED crashed
      BY <2>2 DEF OwnerLogin
    <3>2. ownerAt'.sess = lastSess + 1 /\ ownerAt'.core = c /\ lastSess + 1 # 0
      BY <1>1, <3>1
    <3>. QED BY <3>1, <3>2 DEF OwnerAlive
  <2>3. ASSUME NEW c \in Cores, CoreCrash(c), UNCHANGED dbVars
        PROVE  OwnerAlive'
    <3>1. CASE ownerAt.core = c
      BY <1>3, <2>3, <3>1 DEF CoreCrash
    <3>2. CASE ownerAt.core # c
      <4>1. UNCHANGED <<ownerAt, panel, lastSess, playing>> /\ crashed' = crashed \cup {c}
        BY <2>3, <3>2 DEF CoreCrash, dbVars
      <4>. QED BY <3>2, <4>1 DEF SessionsInv, OwnerAlive
    <3>. QED BY <3>1, <3>2
  <2>4. \A p : ReservationDue(p) => UNCHANGED playing
    BY DEF ReservationDue
  <2>5. DeadlinePasses => UNCHANGED playing
    BY DEF DeadlinePasses
  <2>. QED BY <1>7, <2>1, <2>2, <2>3, <2>4, <2>5 DEF EnvStep
<1>. QED BY <1>4, <1>5, <1>6, <1>7 DEF Next

-----------------------------------------------------------------------------
\* Connections as sequences.

LEMMA SentQueue ==
    ASSUME toDB \in MailToDB, NEW d, NEW ms \in Seq(MsgToDB), Send(d, ms), NEW k \in Cores
    PROVE  /\ toDB'[k] = IF k = d THEN toDB[k] \o ms ELSE toDB[k]
           /\ toDB[k] \in Seq(MsgToDB) /\ toDB'[k] \in Seq(MsgToDB)
           /\ Range(toDB'[k]) = Range(toDB[k]) \cup (IF k = d THEN Range(ms) ELSE {})
           /\ Before(toDB'[k]) = Before(toDB[k])
                \cup (IF k = d THEN Before(ms) \cup (Range(toDB[k]) \X Range(ms)) ELSE {})
<1>1. toDB[k] \in Seq(MsgToDB)
  BY DEF MailToDB
<1>2. toDB'[k] = IF k = d THEN toDB[k] \o ms ELSE toDB[k]
  BY DEF Send, MailToDB
<1>3. /\ toDB[k] \o ms \in Seq(MsgToDB) /\ Range(toDB[k] \o ms) = Range(toDB[k]) \cup Range(ms)
      /\ Before(toDB[k] \o ms) = Before(toDB[k]) \cup Before(ms) \cup (Range(toDB[k]) \X Range(ms))
  BY <1>1, QueueCat, BeforeCat
<1>. QED BY <1>1, <1>2, <1>3

LEMMA TakenQueue ==
    ASSUME TypeOK, NEW c \in Cores, Process(c), NEW k \in Cores
    PROVE  /\ toDB'[k] = IF k = c THEN Tail(toDB[c]) ELSE toDB[k]
           /\ toDB[k] \in Seq(MsgToDB) /\ toDB[c] # <<>> /\ toDB[c] \in Seq(MsgToDB)
           /\ Range(toDB'[k]) \subseteq Range(toDB[k]) /\ Before(toDB'[k]) \subseteq Before(toDB[k])
           /\ Range(toDB[k]) \subseteq Range(toDB'[k]) \cup (IF k = c THEN {Head(toDB[c])} ELSE {})
           /\ Head(toDB[c]) \in Range(toDB[c]) /\ Head(toDB[c]) \in MsgToDB
           /\ \A m \in Range(toDB'[c]) : <<Head(toDB[c]), m>> \in Before(toDB[c])
<1>1. toDB[k] \in Seq(MsgToDB) /\ toDB[c] \in Seq(MsgToDB) /\ toDB[c] # <<>>
  BY DEF TypeOK, WireTypeOK, Process
<1>2. /\ toDB'[k] = IF k = c THEN Tail(toDB[c]) ELSE toDB[k]
      /\ toDB'[c] = Tail(toDB[c])
  BY DEF Process, TypeOK, WireTypeOK
<1>3. /\ Head(toDB[c]) \in MsgToDB /\ Range(toDB[c]) = {Head(toDB[c])} \cup Range(Tail(toDB[c]))
      /\ Before(Tail(toDB[c])) \subseteq Before(toDB[c])
      /\ \A m \in Range(Tail(toDB[c])) : <<Head(toDB[c]), m>> \in Before(toDB[c])
  BY <1>1, QueueTail
<1>. QED BY <1>1, <1>2, <1>3

LEMMA ReadQueue ==
    ASSUME TypeOK, NEW c \in Cores, Receive(c), NEW k \in Cores
    PROVE  /\ toGame'[k] = IF k = c THEN Tail(toGame[c]) ELSE toGame[k]
           /\ toGame[k] \in Seq(MsgToGame) /\ toGame[c] # <<>> /\ toGame[c] \in Seq(MsgToGame)
           /\ Range(toGame'[k]) \subseteq Range(toGame[k]) /\ Before(toGame'[k]) \subseteq Before(toGame[k])
           /\ Head(toGame[c]) \in Range(toGame[c]) /\ Head(toGame[c]) \in MsgToGame
           /\ \A m \in Range(toGame'[c]) : <<Head(toGame[c]), m>> \in Before(toGame[c])
<1>1. toGame[k] \in Seq(MsgToGame) /\ toGame[c] \in Seq(MsgToGame) /\ toGame[c] # <<>>
  BY DEF TypeOK, WireTypeOK, Receive
<1>2. /\ toGame'[k] = IF k = c THEN Tail(toGame[c]) ELSE toGame[k]
      /\ toGame'[c] = Tail(toGame[c])
  BY DEF Receive, TypeOK, WireTypeOK
<1>3. /\ Head(toGame[c]) \in MsgToGame /\ Range(toGame[c]) = {Head(toGame[c])} \cup Range(Tail(toGame[c]))
      /\ Before(Tail(toGame[c])) \subseteq Before(toGame[c])
      /\ \A m \in Range(Tail(toGame[c])) : <<Head(toGame[c]), m>> \in Before(toGame[c])
  BY <1>1, QueueTail
<1>. QED BY <1>1, <1>2, <1>3

LEMMA CutQueue ==
    ASSUME TypeOK, NEW c \in Cores, CoreCrash(c), NEW k \in Cores
    PROVE  /\ Range(toDB'[k]) \subseteq Range(toDB[k]) /\ Before(toDB'[k]) \subseteq Before(toDB[k])
           /\ toGame'[k] = IF k = c THEN <<>> ELSE toGame[k]
           /\ Range(toGame'[k]) \subseteq Range(toGame[k]) /\ Before(toGame'[k]) \subseteq Before(toGame[k])
           /\ \E n \in 0 .. Len(toDB[k]) : toDB'[k] = SubSeq(toDB[k], 1, n)
           /\ k # c => toDB'[k] = toDB[k]
<1>1. toDB \in [Cores -> Seq(MsgToDB)] /\ toDB[k] \in Seq(MsgToDB) /\ toGame \in [Cores -> Seq(MsgToGame)]
  BY DEF TypeOK, WireTypeOK
<1>2. toGame'[k] = IF k = c THEN <<>> ELSE toGame[k]
  BY <1>1 DEF CoreCrash
<1>3. PICK n \in 0 .. Len(toDB[c]) : toDB' = [toDB EXCEPT ![c] = SubSeq(@, 1, n)]
  BY DEF CoreCrash
<1>4. toDB'[k] = IF k = c THEN SubSeq(toDB[k], 1, n) ELSE toDB[k]
  BY <1>1, <1>3
<1>5. Len(toDB[k]) \in 0 .. Len(toDB[k]) /\ SubSeq(toDB[k], 1, Len(toDB[k])) = toDB[k]
  BY <1>1
<1>6. \E j \in 0 .. Len(toDB[k]) : toDB'[k] = SubSeq(toDB[k], 1, j)
  BY <1>3, <1>4, <1>5
<1>7. PICK j \in 0 .. Len(toDB[k]) : toDB'[k] = SubSeq(toDB[k], 1, j)
  BY <1>6
<1>8. Range(toDB'[k]) \subseteq Range(toDB[k]) /\ Before(toDB'[k]) \subseteq Before(toDB[k])
  BY <1>1, <1>7, QueuePrefix
<1>9. Range(<<>>) = {} /\ Before(<<>>) = {}
  BY QueueOfNone
<1>. QED BY <1>2, <1>4, <1>6, <1>8, <1>9

\* What the DB process sends.
LEMMA FedQueue ==
    ASSUME TypeOK, Hushed, NEW K, Mailed(K), NEW k \in Cores
    PROVE  \E s \in Seq(MsgToGame) :
             /\ s \in Seq(Of(K)) /\ Range(s) \subseteq Of(K)
             /\ toGame'[k] = IF k \in crashed THEN <<>> ELSE toGame[k] \o s
<1>1. toGame[k] \in Seq(MsgToGame) /\ (k \in crashed => toGame[k] = <<>>)
  BY DEF TypeOK, WireTypeOK, Hushed
<1>2. CASE UNCHANGED toGame
  <2>1. <<>> \in Seq(MsgToGame) /\ <<>> \in Seq(Of(K)) /\ Range(<<>>) = {}
    BY QueueOfNone
  <2>2. toGame[k] \o <<>> = toGame[k]
    BY <1>1
  <2>. QED BY <1>1, <1>2, <2>1, <2>2
<1>3. ASSUME NEW out \in MailOf(K), Post(out)
      PROVE  \E s \in Seq(MsgToGame) :
               /\ s \in Seq(Of(K)) /\ Range(s) \subseteq Of(K)
               /\ toGame'[k] = IF k \in crashed THEN <<>> ELSE toGame[k] \o s
  <2>1. out[k] \in Seq(MsgToGame) /\ out[k] \in Seq(Of(K))
    BY DEF MailOf, MailToGame
  <2>2. Range(out[k]) \subseteq Of(K)
    BY <2>1, RangeTypes
  <2>3. toGame'[k] = IF k \in crashed THEN <<>> ELSE toGame[k] \o out[k]
    BY <1>3 DEF Post
  <2>. QED BY <2>1, <2>2, <2>3
<1>. QED BY <1>2, <1>3 DEF Mailed

LEMMA FedRange ==
    ASSUME TypeOK, Hushed, NEW K, Mailed(K), NEW k \in Cores
    PROVE  /\ Range(toGame'[k]) \subseteq Range(toGame[k]) \cup Of(K)
           /\ \A p \in Before(toGame'[k]) : p \in Before(toGame[k]) \/ p[2] \in Of(K)
           /\ k \in crashed => toGame'[k] = <<>>
<1>1. toGame[k] \in Seq(MsgToGame)
  BY DEF TypeOK, WireTypeOK
<1>2. PICK s \in Seq(MsgToGame) :
             /\ s \in Seq(Of(K)) /\ Range(s) \subseteq Of(K)
             /\ toGame'[k] = IF k \in crashed THEN <<>> ELSE toGame[k] \o s
  BY FedQueue
<1>3. /\ Range(toGame[k] \o s) = Range(toGame[k]) \cup Range(s)
      /\ Before(toGame[k] \o s) = Before(toGame[k]) \cup Before(s) \cup (Range(toGame[k]) \X Range(s))
  BY <1>1, QueueCat, BeforeCat
<1>4. \A p \in Before(s) : p[2] \in Range(s)
  <2>1. \A p \in Before(s) : \E n, j \in 1 .. Len(s) : n < j /\ p = <<s[n], s[j]>>
    BY BeforeIs
  <2>2. \A j \in 1 .. Len(s) : s[j] \in Range(s)
    BY RangeIs
  <2>. QED BY <2>1, <2>2
<1>5. Range(<<>>) = {} /\ Before(<<>>) = {}
  BY QueueOfNone
<1>. QED BY <1>2, <1>3, <1>4, <1>5

LEMMA MailWidens ==
    ASSUME NEW K, NEW L, K \subseteq L
    PROVE  /\ Mailed(K) => Mailed(L)
           /\ Dull \subseteq L => \A c : \A m \in Of(L) : MailedWith(c, m) => Mailed(L)
<1>1. \A J : J \subseteq L => MailOf(J) \subseteq MailOf(L)
  <2> SUFFICES ASSUME NEW J, J \subseteq L, NEW f \in MailOf(J)
               PROVE  f \in MailOf(L)
    OBVIOUS
  <2>1. Of(J) \subseteq Of(L)
    BY DEF Of
  <2>2. \A c \in Cores : f[c] \in Seq(Of(J))
    BY DEF MailOf
  <2>3. \A c \in Cores : f[c] \in Seq(Of(L))
    BY <2>1, <2>2
  <2>. QED BY <2>3 DEF MailOf
<1>2. Mailed(K) => Mailed(L)
  BY <1>1 DEF Mailed
<1>3. ASSUME Dull \subseteq L, NEW c, NEW m \in Of(L), MailedWith(c, m)
      PROVE  Mailed(L)
  <2>1. PICK a, b \in MailOf(Dull) : Post((a ++ To(c, m)) ++ b)
    BY <1>3 DEF MailedWith
  <2>2. a \in MailOf(L) /\ b \in MailOf(L) /\ To(c, m) \in MailOf(L)
    BY <1>1, <1>3, MailOfTypes
  <2>3. ((a ++ To(c, m)) ++ b) \in MailOf(L)
    BY <2>2, MailOfTypes
  <2>. QED BY <2>1, <2>3 DEF Mailed
<1>. QED BY <1>2, <1>3

\* The cases of a step of the DB process by what it sends.
Offered(c) == Process(c) /\ PrivateShopBuyRequest(c, Head(toDB[c])) /\ Sellable(Head(toDB[c]))
Credited(c) == Process(c) /\ PrivateShopBuy(c, Head(toDB[c])) /\ Holds(c, Head(toDB[c]))
Permitted(c, k, r) == Process(c) /\ Head(toDB[c]).kind = k /\ Mailed({r}) /\ UNCHANGED dbVars
Bound == /\ RESULT_PRIVATE_SHOP_LOAD /\ Head(loads).core \in peers /\ Exists /\ ~Emptied
         /\ owner' = Head(loads)
         /\ \E l \in MsgToGame : /\ MailedWith(Head(loads).core, l)
                                 /\ l.kind = "Load" /\ l.sess = Head(loads).sess /\ l.gold = gold

LEMMA DBMail ==
    ASSUME TypeOK, DBStep
    PROVE  \/ Mailed(Dull) \/ Bound
           \/ \E c \in Cores : \/ Offered(c) \/ Credited(c)
                               \/ Permitted(c, "CheckoutRequest", "Checkout")
                               \/ Permitted(c, "Close", "Destroy")
<1>1. ASSUME NEW c \in Cores, Process(c)
      PROVE  \/ Mailed(Dull) \/ Offered(c) \/ Credited(c)
             \/ Permitted(c, "CheckoutRequest", "Checkout") \/ Permitted(c, "Close", "Destroy")
  <2>1. CASE Head(toDB[c]).kind \notin {"Close", "CheckoutRequest"}
    BY <1>1, <2>1, ProcessMail DEF Offered, Credited
  <2>2. CASE Head(toDB[c]).kind \in {"Close", "CheckoutRequest"}
    <3> DEFINE m == Head(toDB[c])
    <3>1. m \in MsgToDB
      BY <1>1, TakenQueue
    <3>2. /\ m.kind = "Close" => PrivateShopClose(c, m)
          /\ m.kind = "CheckoutRequest" => PrivateShopItemCheckoutRequest(c, m)
      BY <1>1, AnswerRead
    <3> HIDE DEF m
    <3>3. /\ m.kind = "Close" => Mailed({"Destroy"}) /\ UNCHANGED dbVars
          /\ m.kind = "CheckoutRequest" => Mailed({"Checkout"}) /\ UNCHANGED dbVars
      BY <3>1, <3>2, PermissionMail DEF PrivateShopClose, PrivateShopItemCheckoutRequest
    <3>. QED BY <1>1, <2>2, <3>3 DEF Permitted, m
  <2>. QED BY <2>1, <2>2
<1>2. ASSUME UpdatePrivateShopPremiumEvent
      PROVE  Mailed(Dull)
  BY <1>2, UpdateMail DEF UpdatePrivateShopPremiumEvent, Mailed, TypeOK
<1>3. ASSUME RESULT_PRIVATE_SHOP_LOAD
      PROVE  Mailed(Dull) \/ Bound
  BY <1>3, LoadMail DEF Bound
<1>4. ASSUME NEW c \in Cores, RemovePeer(c)
      PROVE  Mailed(Dull)
  BY <1>4 DEF RemovePeer, Mailed
<1>. QED BY <1>1, <1>2, <1>3, <1>4 DEF DBStep

\* The offer, the sale, the shop and the permissions.
LEMMA SpecialMail ==
    ASSUME TypeOK, NEW c \in Cores
    PROVE  /\ Offered(c) => Mailed({"BuyRequest"})
           /\ Credited(c) => Mailed(Dull \cup {"Sale"})
           /\ Bound => Mailed(Dull \cup {"Load"})
<1>1. ASSUME Offered(c)
      PROVE  Mailed({"BuyRequest"})
  <2> DEFINE m == Head(toDB[c])
  <2>1. m \in MsgToDB /\ PrivateShopBuyRequest(c, m) /\ Sellable(m)
    BY <1>1, TakenQueue DEF Offered
  <2> HIDE DEF m
  <2>2. Offer(m) \in MsgToGame /\ Post(To(c, Offer(m))) /\ Offer(m).kind = "BuyRequest"
    BY <2>1, Accepted DEF Offer
  <2>3. To(c, Offer(m)) \in MailOf({"BuyRequest"})
    BY <2>2, MailOfTypes DEF Of
  <2>. QED BY <2>2, <2>3 DEF Mailed
<1>2. ASSUME Credited(c)
      PROVE  Mailed(Dull \cup {"Sale"})
  <2> DEFINE m == Head(toDB[c])
             K == Dull \cup {"Sale"}
             sale == [kind |-> "Sale", sess |-> owner.sess, pos |-> m.pos, price |-> m.price]
  <2>1. m \in MsgToDB /\ PrivateShopBuy(c, m) /\ Holds(c, m)
    BY <1>2, TakenQueue DEF Credited
  <2> HIDE DEF m
  <2>2. /\ sale \in MsgToGame
        /\ IF owner.core \in peers THEN MailedWith(owner.core, sale) ELSE Mailed(Dull)
    BY <2>1, SaleSent
  <2>3. sale \in Of(K)
    BY <2>2 DEF Of
  <2>4. Dull \subseteq K
    OBVIOUS
  <2> HIDE DEF sale, K
  <2>5. Mailed(K)
    BY <2>2, <2>3, <2>4, MailWidens
  <2>. QED BY <2>5 DEF K
<1>3. ASSUME Bound
      PROVE  Mailed(Dull \cup {"Load"})
  <2> DEFINE K == Dull \cup {"Load"}
  <2>1. PICK l \in MsgToGame : MailedWith(Head(loads).core, l) /\ l.kind = "Load"
    BY <1>3 DEF Bound
  <2>2. l \in Of(K) /\ Dull \subseteq K
    BY <2>1 DEF Of
  <2> HIDE DEF K
  <2>3. Mailed(K)
    BY <2>1, <2>2, MailWidens
  <2>. QED BY <2>3 DEF K
<1>. QED BY <1>1, <1>2, <1>3

\* Whatever the DB process sends, a core that is gone gets none of it.
LEMMA AnyMail ==
    ASSUME TypeOK, DBStep
    PROVE  \E K : Mailed(K)
<1>1. CASE Mailed(Dull) \/ Bound
  BY <1>1, ShopAssumption, SpecialMail
<1>2. CASE \E c \in Cores : \/ Offered(c) \/ Credited(c)
                             \/ Permitted(c, "CheckoutRequest", "Checkout")
                             \/ Permitted(c, "Close", "Destroy")
  <2>1. PICK c \in Cores : \/ Offered(c) \/ Credited(c)
                           \/ Permitted(c, "CheckoutRequest", "Checkout")
                           \/ Permitted(c, "Close", "Destroy")
    BY <1>2
  <2>2. Offered(c) \/ Credited(c) => \E K : Mailed(K)
    BY SpecialMail
  <2>3. Permitted(c, "CheckoutRequest", "Checkout") \/ Permitted(c, "Close", "Destroy")
          => \E K : Mailed(K)
    BY DEF Permitted
  <2>. QED BY <2>1, <2>2, <2>3
<1>. QED BY <1>1, <1>2, DBMail

-----------------------------------------------------------------------------
\* What a core sends with a packet read.

LEMMA CoreSends ==
    ASSUME NEW c \in Cores, NEW m \in MsgToGame
    PROVE  /\ Idle(c, m) => NoSend \/ Sends(c, {"Logout"})
           /\ Bought(c, m) => Sends(c, {"ItemSave", "Buy"})
           /\ Declined(c, m) => Sends(c, {"FailedBuy"})
           /\ Presented(c, m) => Sends(c, {"CheckinUpdate"})
           /\ TookOut(c, m) => Sends(c, {"CheckoutUpdate"})
           /\ PaidOut(c, m) /\ panel.gold \in Nat => Sends(c, {"WithdrawDone"})
           /\ HandedBack(c, m) => Sends(c, {"ItemTransfer", "Delete"})
<1>1. ASSUME Idle(c, m)
      PROVE  NoSend \/ Sends(c, {"Logout"})
  <2>1. \A s \in Nat : [kind |-> "Logout", sess |-> s] \in MsgToDB
    BY DEF MsgToDB
  <2>. QED BY <1>1, <2>1, PacketIs DEF Idle
<1>2. ASSUME Bought(c, m)
      PROVE  Sends(c, {"ItemSave", "Buy"})
  <2> DEFINE a == [kind |-> "ItemSave", item |-> m.item, who |-> m.cust]
             b == [kind |-> "Buy", pos |-> m.pos, item |-> m.item, price |-> m.price, token |-> m.token]
  <2>1. a \in Packets({"ItemSave", "Buy"}) /\ b \in Packets({"ItemSave", "Buy"})
    BY <1>2, GameMsgFields DEF Bought, Packets, MsgToDB, Chars
  <2>2. Send(c, <<a, b>>)
    BY <1>2 DEF Bought, Delivery
  <2> HIDE DEF a, b
  <2>3. <<a, b>> \in Seq(Packets({"ItemSave", "Buy"}))
    BY <2>1
  <2>. QED BY <2>2, <2>3 DEF Sends
<1>3. ASSUME Declined(c, m)
      PROVE  Sends(c, {"FailedBuy"})
  <2>1. Refusal(m) \in MsgToDB /\ Refusal(m).kind = "FailedBuy"
    BY <1>3, GameMsgFields DEF Declined, Offering, Refusal, MsgToDB
  <2>. QED BY <1>3, <2>1, PacketIs DEF Declined
<1>4. ASSUME Presented(c, m)
      PROVE  Sends(c, {"CheckinUpdate"})
  <2> DEFINE a == [m EXCEPT !.kind = "CheckinUpdate"]
  <2>1. m \in [kind : {"Checkin"}, sess : Nat, pos : Positions, item : Items, price : Nat]
    BY <1>4 DEF Presented, MsgToGame
  <2>2. a \in MsgToDB /\ a.kind = "CheckinUpdate" /\ Send(c, <<a>>)
    BY <1>4, <2>1 DEF Presented, MsgToDB
  <2> HIDE DEF a
  <2>. QED BY <2>2, PacketIs
<1>5. ASSUME TookOut(c, m)
      PROVE  Sends(c, {"CheckoutUpdate"})
  <2>1. \A p \in Positions, i \in Items : [kind |-> "CheckoutUpdate", pos |-> p, item |-> i] \in MsgToDB
    BY DEF MsgToDB
  <2>. QED BY <1>5, <2>1, PacketIs DEF TookOut
<1>6. ASSUME PaidOut(c, m), panel.gold \in Nat
      PROVE  Sends(c, {"WithdrawDone"})
  <2>1. \A paid \in 1 .. panel.gold : [kind |-> "WithdrawDone", gold |-> paid] \in MsgToDB
    BY <1>6 DEF MsgToDB
  <2>. QED BY <1>6, <2>1, PacketIs DEF PaidOut
<1>7. ASSUME HandedBack(c, m)
      PROVE  Sends(c, {"ItemTransfer", "Delete"})
  BY <1>7 DEF HandedBack, Sends, Packets
<1>. QED BY <1>1, <1>2, <1>3, <1>4, <1>5, <1>6, <1>7

\* What is under way to the DB process after a core has sent packets of kinds K.
LEMMA SendsOf ==
    ASSUME TypeOK, NEW d, NEW K, Sends(d, K), NEW k \in Cores
    PROVE  /\ Range(toDB'[k]) \subseteq Range(toDB[k]) \cup (IF k = d THEN Packets(K) ELSE {})
           /\ Range(toDB[k]) \subseteq Range(toDB'[k])
           /\ \A p \in Before(toDB'[k]) :
                p \in Before(toDB[k]) \/ (k = d /\ p[2] \in Packets(K))
           /\ k # d => toDB'[k] = toDB[k]
<1>1. PICK ms \in Seq(Packets(K)) : Send(d, ms)
  BY DEF Sends
<1>2. toDB \in MailToDB /\ ms \in Seq(MsgToDB)
  BY DEF TypeOK, WireTypeOK, MailToDB, Packets
<1>3. /\ toDB'[k] = IF k = d THEN toDB[k] \o ms ELSE toDB[k]
      /\ Range(toDB'[k]) = Range(toDB[k]) \cup (IF k = d THEN Range(ms) ELSE {})
      /\ Before(toDB'[k]) = Before(toDB[k])
           \cup (IF k = d THEN Before(ms) \cup (Range(toDB[k]) \X Range(ms)) ELSE {})
  BY <1>1, <1>2, SentQueue
<1>4. Range(ms) \subseteq Packets(K)
  BY RangeIs
<1>5. \A p \in Before(ms) : p[2] \in Range(ms)
  BY BeforeIn
<1>. QED BY <1>3, <1>4, <1>5

\* A step that sends none of the account's packets and does not move the account.
LEMMA PlaysStill ==
    ASSUME PlaysThere, UNCHANGED playing, ownerAt.sess = 0 => ownerAt'.sess = 0,
           \A k \in Cores :
              /\ \A m \in Range(toDB'[k]) : m \in Range(toDB[k]) \/ m.kind \notin PlayKinds
              /\ \A p \in Before(toDB'[k]) : p \in Before(toDB[k]) \/ p[2].kind \notin PlayKinds
    PROVE  PlaysThere'
BY DEF PlaysThere, PlayKinds

LEMMA PlaysSends ==
    ASSUME TypeOK, PlaysThere, NoSend \/ \E d, K : Sends(d, K) /\ K \cap PlayKinds = {},
           UNCHANGED playing, ownerAt.sess = 0 => ownerAt'.sess = 0
    PROVE  PlaysThere'
<1>1. CASE NoSend
  BY <1>1, PlaysStill DEF NoSend
<1>2. CASE \E d, K : Sends(d, K) /\ K \cap PlayKinds = {}
  <2>1. PICK d, K : Sends(d, K) /\ K \cap PlayKinds = {}
    BY <1>2
  <2>2. ASSUME NEW k \in Cores
        PROVE  /\ \A m \in Range(toDB'[k]) : m \in Range(toDB[k]) \/ m.kind \notin PlayKinds
               /\ \A p \in Before(toDB'[k]) : p \in Before(toDB[k]) \/ p[2].kind \notin PlayKinds
    BY <2>1, SendsOf DEF Packets
  <2>. QED BY <2>2, PlaysStill
<1>. QED BY <1>1, <1>2

\* The owner's core reports while the owner is there.
LEMMA PlaysReports ==
    ASSUME TypeOK, OwnerAlive, PlaysThere, NEW c, Sends(c, {"WithdrawDone", "CheckinUpdate"}),
           UNCHANGED <<playing, ownerAt>>, ownerAt.sess # 0, ownerAt.core = c
    PROVE  PlaysThere'
<1>1. playing = c
  BY DEF OwnerAlive
<1>2. ASSUME NEW k \in Cores
      PROVE  /\ \A m \in Range(toDB'[k]) : m \in Range(toDB[k]) \/ (m.kind \in {"WithdrawDone", "CheckinUpdate"} /\ k = c)
             /\ \A p \in Before(toDB'[k]) : p[1].kind # "AccountLogout"
  <2>1. \A m \in Range(toDB'[k]) : m \in Range(toDB[k]) \/ (m.kind \in {"WithdrawDone", "CheckinUpdate"} /\ k = c)
    BY SendsOf DEF Packets
  <2>2. \A m \in Range(toDB[k]) : m.kind # "AccountLogout"
    BY DEF PlaysThere
  <2>3. \A p \in Before(toDB'[k]) : p[1] \in Range(toDB'[k])
    <3>1. toDB \in MailToDB /\ \E ms \in Seq(Packets({"WithdrawDone", "CheckinUpdate"})) : Send(c, ms)
      BY DEF TypeOK, WireTypeOK, MailToDB, Sends
    <3>2. toDB'[k] \in Seq(MsgToDB)
      BY <3>1, SentQueue DEF Packets
    <3>. QED BY <3>2, BeforeIn
  <2>. QED BY <2>1, <2>2, <2>3
<1>. QED BY <1>1, <1>2 DEF PlaysThere, PlayKinds

LEMMA PlaysLeaves == ASSUME TypeOK, OwnerAlive, PlaysThere, LoggedOut, UNCHANGED playing
                     PROVE  PlaysThere'
<1> DEFINE b == [kind |-> "AccountLogout"]
           o == <<b>>
<1>1. PICK ms \in Seq(Packets({"Logout"})) : Send(ownerAt.core, ms \o o)
  BY DEF LoggedOut
<1>2. /\ b \in MsgToDB /\ b.kind = "AccountLogout" /\ ms \in Seq(MsgToDB) /\ toDB \in MailToDB
      /\ ownerAt.sess # 0 /\ ownerAt'.sess = 0 /\ ownerAt.core = playing
  BY DEF LoggedOut, MsgToDB, Packets, TypeOK, WireTypeOK, MailToDB, OwnerAlive, Detached
<1> HIDE DEF b
<1>3. /\ o \in Seq(MsgToDB) /\ Range(o) = {b} /\ Before(o) = {}
  BY <1>2, QueueOfOne
<1> DEFINE t == ms \o o
<1> HIDE DEF o
<1>4. /\ t \in Seq(MsgToDB) /\ Range(t) = Range(ms) \cup {b}
      /\ Before(t) = Before(ms) \cup (Range(ms) \X {b})
  <2>1. /\ t \in Seq(MsgToDB) /\ Range(t) = Range(ms) \cup Range(o)
    BY <1>2, <1>3, QueueCat
  <2>2. Before(t) = Before(ms) \cup Before(o) \cup (Range(ms) \X Range(o))
    BY <1>2, <1>3, BeforeCat
  <2>. QED BY <1>3, <2>1, <2>2
<1> HIDE DEF t
<1>5. \A m \in Range(ms) : m.kind = "Logout"
  BY RangeIs DEF Packets
<1>6. \A p \in Before(ms) : p[1] \in Range(ms)
  BY BeforeIn
<1>7. ASSUME NEW k \in Cores
      PROVE  /\ \A m \in Range(toDB'[k]) : m \in Range(toDB[k]) \/ (m.kind \in PlayKinds => k = playing)
             /\ \A p \in Before(toDB'[k]) : p[1].kind # "AccountLogout"
  <2>1. /\ Range(toDB'[k]) = Range(toDB[k]) \cup (IF k = ownerAt.core THEN Range(t) ELSE {})
        /\ Before(toDB'[k]) = Before(toDB[k])
             \cup (IF k = ownerAt.core THEN Before(t) \cup (Range(toDB[k]) \X Range(t)) ELSE {})
        /\ toDB[k] \in Seq(MsgToDB)
    <3>1. Send(ownerAt.core, t)
      BY <1>1 DEF t
    <3>. QED BY <1>2, <1>4, <3>1, SentQueue
  <2>2. \A m \in Range(toDB[k]) : m.kind # "AccountLogout"
    BY <1>2 DEF PlaysThere
  <2>3. \A p \in Before(toDB[k]) : p[1] \in Range(toDB[k])
    BY <2>1, BeforeIn
  <2>4. \A p \in Before(toDB'[k]) : p[1] \in Range(toDB[k]) \/ p[1] \in Range(ms)
    BY <1>4, <1>6, <2>1, <2>3
  <2>. QED BY <1>2, <1>4, <1>5, <2>1, <2>2, <2>4 DEF PlayKinds
<1>. QED BY <1>2, <1>7 DEF PlaysThere

LEMMA SendsWider == ASSUME NEW d, NEW K, NEW L, K \subseteq L, Sends(d, K)
                    PROVE  Sends(d, L)
<1>1. Packets(K) \subseteq Packets(L)
  BY DEF Packets
<1>2. \A ms \in Seq(Packets(K)) : ms \in Seq(Packets(L))
  BY <1>1
<1>. QED BY <1>2 DEF Sends

LEMMA PlaysThereStep == ASSUME TypeOK, SessionsInv, Next PROVE PlaysThere'
<1>1. OwnerAlive /\ PlaysThere
  BY DEF SessionsInv
<1>2. \A k \in Cores : toDB[k] \in Seq(MsgToDB)
  BY DEF TypeOK, WireTypeOK
<1>3. \A K, L : Packets(K) \subseteq Packets(K \cup L)
  BY DEF Packets
<1>4. ASSUME \A k \in Cores : /\ Range(toDB'[k]) \subseteq Range(toDB[k])
                              /\ Before(toDB'[k]) \subseteq Before(toDB[k]),
             ownerAt.sess = 0 => ownerAt'.sess = 0, UNCHANGED playing
      PROVE  PlaysThere'
  BY <1>1, <1>4, PlaysStill
<1>5. CASE DBStep
  <2>1. UNCHANGED ownerAt
    BY <1>5, DBBinds DEF gameVars
  <2>2. UNCHANGED toDB \/ \E c \in Cores : Process(c)
    BY <1>5 DEF DBStep
  <2>3. \A k \in Cores : /\ Range(toDB'[k]) \subseteq Range(toDB[k])
                         /\ Before(toDB'[k]) \subseteq Before(toDB[k])
    BY <2>2, TakenQueue
  <2>4. CASE UNCHANGED playing
    BY <1>4, <2>1, <2>3, <2>4
  <2>5. ASSUME NEW c \in Cores, Process(c), Head(toDB[c]).kind = "AccountLogout", playing' = NoCore
        PROVE  PlaysThere'
    <3>1. /\ Head(toDB[c]) \in Range(toDB[c])
          /\ \A m \in Range(toDB'[c]) : <<Head(toDB[c]), m>> \in Before(toDB[c])
      BY <2>5, TakenQueue
    <3>2. playing = c
      BY <1>1, <2>5, <3>1 DEF PlaysThere, PlayKinds
    <3>3. \A m \in Range(toDB'[c]) : m.kind \notin PlayKinds
      <4> SUFFICES ASSUME NEW m \in Range(toDB'[c])
                   PROVE  m.kind \notin PlayKinds
        OBVIOUS
      <4>1. <<Head(toDB[c]), m>> \in Before(toDB[c])
        BY <3>1
      <4>2. \A p \in Before(toDB[c]) : p[1].kind = "AccountLogout" => p[2].kind \notin PlayKinds
        BY <1>1 DEF PlaysThere
      <4>3. <<Head(toDB[c]), m>>[1] = Head(toDB[c]) /\ <<Head(toDB[c]), m>>[2] = m
        OBVIOUS
      <4> HIDE <2>1
      <4>. QED BY <2>5, <4>1, <4>2, <4>3
    <3>4. \A k \in Cores : \A m \in Range(toDB'[k]) : m.kind \notin PlayKinds
      BY <1>1, <2>3, <3>2, <3>3 DEF PlaysThere
    <3>. QED BY <1>1, <2>1, <2>3, <3>4 DEF PlaysThere
  <2>6. ASSUME NEW c \in Cores, RemovePeer(c), playing = c, playing' = NoCore
        PROVE  PlaysThere'
    <3>1. toDB[c] = <<>>
      BY <2>6 DEF RemovePeer
    <3>2. \A m \in Range(toDB[c]) : FALSE
      BY <3>1, QueueOfNone
    <3>3. \A k \in Cores : \A m \in Range(toDB'[k]) : m.kind \notin PlayKinds
      BY <1>1, <2>3, <2>6, <3>2 DEF PlaysThere
    <3>. QED BY <1>1, <2>1, <2>3, <3>3 DEF PlaysThere
  <2>. QED BY <1>5, <2>4, <2>5, <2>6, DBBinds
<1>6. CASE GameStep
  <2>1. PICK c \in Cores : Receive(c)
    BY <1>6 DEF GameStep
  <2>2. UNCHANGED <<playing, dbVars>>
    BY <1>6 DEF GameStep, dbVars
  <2> DEFINE m == Head(toGame[c])
  <2>3. /\ m \in MsgToGame
        /\ \/ Idle(c, m) \/ Bought(c, m) \/ Declined(c, m) \/ Presented(c, m)
           \/ TookOut(c, m) \/ PaidOut(c, m) \/ HandedBack(c, m)
    BY <2>1, ReceiveCases
  <2> HIDE DEF m
  <2>4. UNCHANGED ownerAt
    BY <2>3 DEF Idle, Bought, Declined, Presented, TookOut, PaidOut, HandedBack, Sessionless
  <2>5. panel.gold \in Nat
    BY DEF TypeOK, GameTypeOK
  <2>6. CASE Idle(c, m) \/ Bought(c, m) \/ Declined(c, m) \/ TookOut(c, m) \/ HandedBack(c, m)
    <3>1. \/ NoSend \/ Sends(c, {"Logout"}) \/ Sends(c, {"ItemSave", "Buy"}) \/ Sends(c, {"FailedBuy"})
          \/ Sends(c, {"CheckoutUpdate"}) \/ Sends(c, {"ItemTransfer", "Delete"})
      BY <2>3, <2>6, CoreSends
    <3>2. NoSend \/ \E d, K : Sends(d, K) /\ K \cap PlayKinds = {}
      BY <3>1 DEF PlayKinds
    <3>. QED BY <1>1, <2>2, <2>4, <3>2, PlaysSends
  <2>7. CASE Presented(c, m) \/ PaidOut(c, m)
    <3>1. Sends(c, {"CheckinUpdate"}) \/ Sends(c, {"WithdrawDone"})
      BY <2>3, <2>5, <2>7, CoreSends
    <3>2. Sends(c, {"WithdrawDone", "CheckinUpdate"})
      BY <3>1, SendsWider
    <3>3. ownerAt.sess # 0 /\ ownerAt.core = c
      BY <2>7 DEF Presented, PaidOut, Present
    <3>. QED BY <1>1, <2>2, <2>4, <3>2, <3>3, PlaysReports
  <2>. QED BY <2>3, <2>6, <2>7
<1>7. CASE ClientStep
  <2>1. UNCHANGED playing
    BY <1>7 DEF ClientStep, dbVars
  <2>2. CASE LoggedOut
    BY <1>1, <2>1, <2>2, PlaysLeaves
  <2>3. CASE UNCHANGED ownerAt /\ (NoSend \/ \E d, K : Sends(d, K) /\ K \cap PlayKinds = {})
    BY <1>1, <2>1, <2>3, PlaysSends
  <2>4. \/ UNCHANGED ownerAt /\ NoSend
        \/ UNCHANGED ownerAt /\ \E d : \/ Sends(d, {"BuyRequest"}) \/ Sends(d, Asking) \/ Sends(d, {"Close"})
                                       \/ Sends(d, {"CheckoutRequest"}) \/ Sends(d, {"ItemExpire"})
        \/ LoggedOut
    BY <1>7, ClientCases DEF Standing, Sessionless
  <2>5. /\ {"BuyRequest"} \cap PlayKinds = {} /\ Asking \cap PlayKinds = {} /\ {"Close"} \cap PlayKinds = {}
        /\ {"CheckoutRequest"} \cap PlayKinds = {} /\ {"ItemExpire"} \cap PlayKinds = {}
    BY DEF PlayKinds, Asking
  <2>. QED BY <2>2, <2>3, <2>4, <2>5
<1>8. CASE EnvStep
  <2>1. ASSUME UNCHANGED <<toDB, ownerAt, playing>>
        PROVE  PlaysThere'
    BY <1>4, <2>1
  <2>2. ASSUME NEW c \in Cores, OwnerLogin(c)
        PROVE  PlaysThere'
    <3>1. playing = NoCore /\ UNCHANGED toDB
      BY <2>2 DEF OwnerLogin, NoSend
    <3>2. \A k \in Cores : \A m \in Range(toDB[k]) : m.kind \notin PlayKinds
      BY <1>1, <3>1, ShopAssumption DEF PlaysThere
    <3>. QED BY <1>1, <3>1, <3>2 DEF PlaysThere, PlayKinds
  <2>3. ASSUME NEW c \in Cores, CoreCrash(c), UNCHANGED dbVars
        PROVE  PlaysThere'
    <3>1. UNCHANGED playing /\ (ownerAt.sess = 0 => ownerAt'.sess = 0)
      BY <2>3 DEF CoreCrash, dbVars, Detached
    <3>2. \A k \in Cores : /\ Range(toDB'[k]) \subseteq Range(toDB[k])
                           /\ Before(toDB'[k]) \subseteq Before(toDB[k])
      BY <2>3, CutQueue
    <3>. QED BY <1>4, <3>1, <3>2
  <2>4. \A p : ReservationDue(p) => UNCHANGED playing
    BY DEF ReservationDue
  <2>5. DeadlinePasses => UNCHANGED playing
    BY DEF DeadlinePasses
  <2>. QED BY <1>8, <2>1, <2>2, <2>3, <2>4, <2>5 DEF EnvStep, gameVars
<1>. QED BY <1>5, <1>6, <1>7, <1>8 DEF Next

LEMMA HushedStep == ASSUME TypeOK, SessionsInv, Next PROVE Hushed'
<1>1. Hushed
  BY DEF SessionsInv
<1>2. CASE DBStep
  <2>1. PICK K : Mailed(K)
    BY <1>2, AnyMail
  <2>2. UNCHANGED crashed /\ crashed \subseteq Cores
    BY <1>2, DBBinds DEF gameVars, TypeOK, GameTypeOK
  <2>. QED BY <1>1, <2>1, <2>2, FedRange DEF Hushed
<1>3. CASE GameStep
  <2>1. PICK c \in Cores : Receive(c)
    BY <1>3 DEF GameStep
  <2>2. UNCHANGED crashed /\ c \notin crashed /\ crashed \subseteq Cores
    BY <2>1, ReceiveCases, ReceiveAlive DEF TypeOK, GameTypeOK
  <2>3. \A k \in Cores : k # c => toGame'[k] = toGame[k]
    BY <2>1, ReadQueue
  <2>. QED BY <1>1, <2>2, <2>3 DEF Hushed
<1>4. CASE ClientStep
  <2>1. UNCHANGED toGame /\ UNCHANGED crashed
    BY <1>4, ClientCases DEF ClientStep, Standing, Sessionless, LoggedOut
  <2>. QED BY <1>1, <2>1 DEF Hushed
<1>5. CASE EnvStep
  <2>1. CASE UNCHANGED <<toGame, crashed>>
    BY <1>1, <2>1 DEF Hushed
  <2>2. ASSUME NEW c \in Cores, CoreCrash(c)
        PROVE  Hushed'
    <3>1. crashed' = crashed \cup {c} /\ crashed \subseteq Cores
      BY <2>2 DEF CoreCrash, TypeOK, GameTypeOK
    <3>. QED BY <1>1, <2>2, <3>1, CutQueue DEF Hushed
  <2>3. \A c : OwnerLogin(c) => UNCHANGED crashed
    BY DEF OwnerLogin
  <2>. QED BY <1>5, <2>1, <2>2, <2>3 DEF EnvStep, gameVars
<1>. QED BY <1>2, <1>3, <1>4, <1>5 DEF Next

\* A packet told to one core among dull ones.
LEMMA FedWith ==
    ASSUME TypeOK, Hushed, NEW c \in Cores, NEW m \in MsgToGame, MailedWith(c, m), NEW k \in Cores
    PROVE  \E s, t \in Seq(MsgToGame) :
             /\ Range(s) \subseteq Of(Dull) /\ Range(t) \subseteq Of(Dull)
             /\ toGame'[k] = IF k \in crashed THEN <<>>
                             ELSE IF k = c THEN (toGame[k] \o s) \o (<<m>> \o t) ELSE toGame[k] \o (s \o t)
<1>1. PICK f, g \in MailOf(Dull) : Post((f ++ To(c, m)) ++ g)
  BY DEF MailedWith
<1>2. /\ f \in MailToGame /\ g \in MailToGame /\ f[k] \in Seq(Of(Dull)) /\ g[k] \in Seq(Of(Dull))
      /\ f[k] \in Seq(MsgToGame) /\ g[k] \in Seq(MsgToGame) /\ To(c, m) \in MailToGame
  BY ToMail DEF MailOf, MailToGame
<1>3. Range(f[k]) \subseteq Of(Dull) /\ Range(g[k]) \subseteq Of(Dull)
  BY <1>2, RangeTypes
<1>4. toGame'[k] = IF k \in crashed THEN <<>> ELSE toGame[k] \o ((f[k] \o To(c, m)[k]) \o g[k])
  <2>1. ((f ++ To(c, m)) ++ g)[k] = (f[k] \o To(c, m)[k]) \o g[k]
    BY DEF ++
  <2>. QED BY <1>1, <2>1 DEF Post
<1>5. toGame[k] \in Seq(MsgToGame) /\ <<m>> \in Seq(MsgToGame) /\ <<>> \in Seq(MsgToGame)
  BY DEF TypeOK, WireTypeOK
<1> DEFINE q == toGame[k]
           s == f[k]
           t == g[k]
           o == To(c, m)[k]
<1>6. o = IF k = c THEN <<m>> ELSE <<>>
  BY DEF To
<1> HIDE DEF q, s, t, o
<1>7. q \in Seq(MsgToGame) /\ s \in Seq(MsgToGame) /\ t \in Seq(MsgToGame) /\ o \in Seq(MsgToGame)
  BY <1>2, <1>5, <1>6 DEF q, s, t
<1>8. q \o ((s \o o) \o t) = (q \o s) \o (o \o t)
  BY <1>7
<1>9. k # c => q \o ((s \o o) \o t) = q \o (s \o t)
  <2>1. s \o <<>> = s
    BY <1>7
  <2>. QED BY <1>6, <2>1
<1>10. toGame'[k] = IF k \in crashed THEN <<>>
                    ELSE IF k = c THEN (q \o s) \o (<<m>> \o t) ELSE q \o (s \o t)
  <2>1. toGame'[k] = IF k \in crashed THEN <<>> ELSE q \o ((s \o o) \o t)
    BY <1>4 DEF q, s, t, o
  <2>. QED BY <1>6, <1>8, <1>9, <2>1
<1>. QED BY <1>3, <1>7, <1>10 DEF q, s, t

LEMMA FedWithRange ==
    ASSUME TypeOK, Hushed, NEW c \in Cores, NEW m \in MsgToGame, MailedWith(c, m), NEW k \in Cores
    PROVE  /\ Range(toGame'[k]) \subseteq Range(toGame[k]) \cup Of(Dull) \cup (IF k = c THEN {m} ELSE {})
           /\ \A p \in Before(toGame'[k]) :
                p \in Before(toGame[k]) \/ p[2] \in Of(Dull) \cup (IF k = c THEN {m} ELSE {})
<1>1. PICK s, t \in Seq(MsgToGame) :
             /\ Range(s) \subseteq Of(Dull) /\ Range(t) \subseteq Of(Dull)
             /\ toGame'[k] = IF k \in crashed THEN <<>>
                             ELSE IF k = c THEN (toGame[k] \o s) \o (<<m>> \o t) ELSE toGame[k] \o (s \o t)
  BY FedWith
<1> DEFINE q == toGame[k]
           o == <<m>>
<1>2. q \in Seq(MsgToGame) /\ o \in Seq(MsgToGame) /\ Range(o) = {m}
  BY QueueOfOne DEF TypeOK, WireTypeOK
<1> DEFINE st == s \o t
           ot == o \o t
           qs == q \o s
<1>3. toGame'[k] = IF k \in crashed THEN <<>> ELSE IF k = c THEN qs \o ot ELSE q \o st
  BY <1>1
<1> HIDE DEF q, o
<1>4. /\ st \in Seq(MsgToGame) /\ Range(st) = Range(s) \cup Range(t)
      /\ ot \in Seq(MsgToGame) /\ Range(ot) = {m} \cup Range(t)
      /\ qs \in Seq(MsgToGame) /\ Range(qs) = Range(q) \cup Range(s)
      /\ Before(qs) = Before(q) \cup Before(s) \cup (Range(q) \X Range(s))
  BY <1>2, QueueCat, BeforeCat
<1> HIDE DEF st, ot, qs
<1>5. /\ Range(q \o st) = Range(q) \cup Range(st)
      /\ Range(qs \o ot) = Range(qs) \cup Range(ot)
  BY <1>2, <1>4, QueueCat
<1>6. /\ Before(q \o st) = Before(q) \cup Before(st) \cup (Range(q) \X Range(st))
      /\ Before(qs \o ot) = Before(qs) \cup Before(ot) \cup (Range(qs) \X Range(ot))
  BY <1>2, <1>4, BeforeCat
<1>7. /\ \A p \in Before(s) : p[2] \in Range(s)
      /\ \A p \in Before(st) : p[2] \in Range(st)
      /\ \A p \in Before(ot) : p[2] \in Range(ot)
  BY <1>4, BeforeIn
<1>8. Range(<<>>) = {} /\ Before(<<>>) = {}
  BY QueueOfNone
<1>. QED BY <1>1, <1>3, <1>4, <1>5, <1>6, <1>7, <1>8 DEF q

\* What the DB process tells of the balance: a sale, or the shop when it is loaded.
Sold(c, m) == /\ Credited(c) /\ owner.core \in peers /\ UNCHANGED owner
              /\ m.kind = "Sale" /\ m.sess = owner.sess /\ m.price = Head(toDB[c]).price
              /\ MailedWith(owner.core, m)
Loaded(m) == /\ RESULT_PRIVATE_SHOP_LOAD /\ loads # <<>> /\ Head(loads).core \in peers /\ Exists /\ ~Emptied
             /\ owner' = Head(loads) /\ m.kind = "Load" /\ m.sess = Head(loads).sess /\ m.gold = gold
             /\ MailedWith(Head(loads).core, m)
Silently == Mailed(Dull \cup {"BuyRequest", "Checkout", "Destroy"})

LEMMA DBTells ==
    ASSUME TypeOK, DBStep
    PROVE  Silently \/ (\E c \in Cores : \E m \in MsgToGame : Sold(c, m)) \/ \E m \in MsgToGame : Loaded(m)
<1> DEFINE K == Dull \cup {"BuyRequest", "Checkout", "Destroy"}
<1>1. Dull \subseteq K /\ {"BuyRequest"} \subseteq K /\ {"Checkout"} \subseteq K /\ {"Destroy"} \subseteq K
  OBVIOUS
<1> HIDE DEF K
<1>2. Mailed(Dull) \/ Mailed({"BuyRequest"}) \/ Mailed({"Checkout"}) \/ Mailed({"Destroy"}) => Mailed(K)
  BY <1>1, MailWidens
<1>3. ASSUME NEW c \in Cores, Credited(c)
      PROVE  Mailed(Dull) \/ \E m \in MsgToGame : Sold(c, m)
  <2> DEFINE m == Head(toDB[c])
             sale == [kind |-> "Sale", sess |-> owner.sess, pos |-> m.pos, price |-> m.price]
  <2>1. m \in MsgToDB /\ PrivateShopBuy(c, m) /\ Holds(c, m)
    BY <1>3, TakenQueue DEF Credited
  <2>2. UNCHANGED owner
    BY <2>1 DEF PrivateShopBuy, Refused, dbVars
  <2>3. sale.kind = "Sale" /\ sale.sess = owner.sess /\ sale.price = Head(toDB[c]).price
    OBVIOUS
  <2> HIDE DEF m
  <2>4. sale \in MsgToGame /\ IF owner.core \in peers THEN MailedWith(owner.core, sale) ELSE Mailed(Dull)
    BY <2>1, SaleSent
  <2> HIDE DEF sale
  <2>. QED BY <1>3, <2>2, <2>3, <2>4 DEF Sold
<1>4. ASSUME Bound
      PROVE  \E m \in MsgToGame : Loaded(m)
  BY <1>4 DEF Bound, Loaded, RESULT_PRIVATE_SHOP_LOAD
<1>5. ASSUME NEW c \in Cores, Offered(c)
      PROVE  Mailed({"BuyRequest"})
  BY <1>5, SpecialMail
<1>. QED BY <1>2, <1>3, <1>4, <1>5, DBMail DEF Permitted, Silently, K

\* The queries under way and the owner known, after a step of the DB process.
LEMMA LoadsTaken ==
    ASSUME TypeOK, loads # <<>>, loads' = Tail(loads)
    PROVE  /\ Range(loads') \subseteq Range(loads) /\ Before(loads') \subseteq Before(loads)
           /\ Head(loads) \in Range(loads) /\ Head(loads) \in Session
           /\ \A q \in Range(loads') : <<Head(loads), q>> \in Before(loads)
<1>1. loads \in Seq(Session)
  BY DEF TypeOK, DBTypeOK
<1>. QED BY <1>1, QueueTail

LEMMA SessionsStep == ASSUME TypeOK, SessionsInv, Next PROVE Sessions'
<1>1. /\ Sessions /\ Hushed /\ OwnerAlive /\ lastSess \in Nat /\ ownerAt \in Session /\ owner \in Session
      /\ loads \in Seq(Session) /\ ownerAt = [core |-> ownerAt.core, sess |-> ownerAt.sess]
  BY DEF SessionsInv, TypeOK, DBTypeOK, GameTypeOK, Session
<1>2. \A c \in Cores : \A m \in Range(toGame[c]) : m \in MsgToGame
  BY RangeTypes DEF TypeOK, WireTypeOK
<1>3. \A m \in MsgToGame : m.kind \in {"Load", "Sale"} => m.sess \in Nat
  BY DEF MsgToGame
<1>4. ASSUME UNCHANGED <<owner, loads, lastSess>>, ownerAt' = ownerAt \/ ownerAt'.sess = 0,
             \A c \in Cores : \A m \in Range(toGame'[c]) : m \in Range(toGame[c])
      PROVE  Sessions'
  <2>1. \A q \in Range(loads) : q.sess # 0
    BY <1>1 DEF Sessions
  <2>. QED BY <1>1, <1>4, <2>1 DEF Sessions
<1>5. CASE DBStep
  <2>1. UNCHANGED <<lastSess, ownerAt>>
    BY <1>5, DBBinds DEF gameVars
  <2>2. \/ owner' \in {owner, Detached} /\ UNCHANGED loads
        \/ loads # <<>> /\ loads' = Tail(loads) /\ owner' \in {owner, Detached, Head(loads)}
    BY <1>5, DBBinds
  <2>3. /\ Range(loads') \subseteq Range(loads) /\ Before(loads') \subseteq Before(loads)
        /\ owner'.sess <= lastSess
    <3>1. loads # <<>> /\ loads' = Tail(loads) => Head(loads).sess <= lastSess
      BY <1>1, LoadsTaken DEF Sessions
    <3>2. owner.sess <= lastSess /\ Detached.sess <= lastSess
      BY <1>1 DEF Sessions, Detached
    <3>. QED BY <2>2, <3>1, <3>2, LoadsTaken
  <2>4. \A c \in Cores : \A m \in Range(toGame'[c]) :
           m.kind \in {"Load", "Sale"} =>
              m \in Range(toGame[c]) \/ m.sess = owner.sess \/ m.sess <= lastSess
    <3> SUFFICES ASSUME NEW k \in Cores
                 PROVE  \A m \in Range(toGame'[k]) : m.kind \in {"Load", "Sale"} =>
                           m \in Range(toGame[k]) \/ m.sess = owner.sess \/ m.sess <= lastSess
      OBVIOUS
    <3>1. CASE Silently
      <4>1. \A m \in Of(Dull \cup {"BuyRequest", "Checkout", "Destroy"}) : m.kind \notin {"Load", "Sale"}
        BY DEF Of, Dull
      <4>. QED BY <1>1, <3>1, <4>1, FedRange DEF Silently
    <3>2. \A m \in Of(Dull) : m.kind \notin {"Load", "Sale"}
      BY DEF Of, Dull
    <3>3. ASSUME NEW c \in Cores, NEW m \in MsgToGame, Sold(c, m)
          PROVE  \A n \in Range(toGame'[k]) : n.kind \in {"Load", "Sale"} =>
                           n \in Range(toGame[k]) \/ n.sess = owner.sess \/ n.sess <= lastSess
      <4>1. owner.core \in Cores /\ MailedWith(owner.core, m) /\ m.sess = owner.sess
        BY <3>3 DEF Sold, TypeOK, DBTypeOK
      <4>. QED BY <1>1, <3>2, <4>1, FedWithRange
    <3>4. ASSUME NEW m \in MsgToGame, Loaded(m)
          PROVE  \A n \in Range(toGame'[k]) : n.kind \in {"Load", "Sale"} =>
                           n \in Range(toGame[k]) \/ n.sess = owner.sess \/ n.sess <= lastSess
      <4>1. Head(loads).core \in Cores /\ MailedWith(Head(loads).core, m) /\ m.sess = Head(loads).sess /\ loads # <<>>
        BY <3>4 DEF Loaded, TypeOK, DBTypeOK
      <4>2. Head(loads) \in Range(loads)
        BY <1>1, <4>1, RangeTail
      <4>3. m.sess <= lastSess
        BY <1>1, <4>1, <4>2 DEF Sessions
      <4>. QED BY <1>1, <3>2, <4>1, <4>3, FedWithRange
    <3>. QED BY <1>5, <3>1, <3>3, <3>4, DBTells
  <2>5. \A c \in Cores : \A m \in Range(toGame'[c]) : m.kind \in {"Load", "Sale"} => m.sess <= lastSess
    BY <1>1, <2>4 DEF Sessions
  <2>. QED BY <1>1, <2>1, <2>3, <2>5 DEF Sessions
<1>6. CASE GameStep
  <2>1. PICK c \in Cores : Receive(c)
    BY <1>6 DEF GameStep
  <2>2. UNCHANGED <<ownerAt, lastSess>>
    BY <2>1, ReceiveCases DEF Idle, Bought, Declined, Presented, TookOut, PaidOut, HandedBack, Sessionless
  <2>3. UNCHANGED <<owner, loads>>
    BY <1>6 DEF GameStep, dbVars
  <2>. QED BY <1>4, <2>1, <2>2, <2>3, ReadQueue
<1>7. CASE ClientStep
  <2>1. UNCHANGED <<owner, loads, toGame>>
    BY <1>7 DEF ClientStep, dbVars
  <2>2. UNCHANGED lastSess /\ (ownerAt' = ownerAt \/ ownerAt'.sess = 0)
    BY <1>7, ClientCases DEF Standing, Sessionless, LoggedOut, Detached
  <2>. QED BY <1>4, <2>1, <2>2
<1>8. CASE EnvStep
  <2>1. CASE UNCHANGED <<owner, loads, lastSess, ownerAt, toGame>>
    BY <1>4, <2>1
  <2>2. ASSUME NEW c \in Cores, OwnerLogin(c), UNCHANGED toGame
        PROVE  Sessions'
    <3>1. /\ lastSess' = lastSess + 1 /\ ownerAt' = [core |-> c, sess |-> lastSess']
          /\ loads' = Append(loads, ownerAt') /\ UNCHANGED owner
      BY <2>2 DEF OwnerLogin
    <3>2. ownerAt' \in Session /\ ownerAt'.sess = lastSess + 1 /\ lastSess + 1 \in Nat
      BY <1>1, <3>1 DEF Session
    <3>3. /\ Range(loads') = Range(loads) \cup {ownerAt'}
          /\ Before(loads') \subseteq Before(loads) \cup (Range(loads) \X {ownerAt'})
      BY <1>1, <3>1, <3>2, QueueAppend
    <3>4. \A q \in Range(loads) : q.sess \in 1 .. lastSess
      BY <1>1 DEF Sessions
    <3>5. /\ owner'.sess <= lastSess'
          /\ \A q \in Range(loads') : q.sess \in 1 .. lastSess'
      BY <1>1, <3>1, <3>2, <3>3, <3>4 DEF Sessions, Session
    <3>6. \A q \in Range(loads') : q.sess = ownerAt'.sess => q = ownerAt'
      BY <1>1, <3>2, <3>3, <3>4
    <3>7. \A p \in Before(loads') : p[1].sess < p[2].sess
      <4>1. \A p \in Before(loads) : p[1].sess < p[2].sess
        BY <1>1 DEF Sessions
      <4>2. \A p \in Range(loads) \X {ownerAt'} : p[1] \in Range(loads) /\ p[2] = ownerAt'
        OBVIOUS
      <4>3. \A p \in Range(loads) \X {ownerAt'} : p[1].sess < p[2].sess
        BY <1>1, <3>2, <3>4, <4>2
      <4>. QED BY <3>3, <4>1, <4>3
    <3>8. \A k \in Cores : \A m \in Range(toGame'[k]) : m.kind \in {"Load", "Sale"} => m.sess <= lastSess'
      <4>1. \A k \in Cores : \A m \in Range(toGame[k]) : m.kind \in {"Load", "Sale"} => m.sess <= lastSess /\ m.sess \in Nat
        BY <1>1, <1>2, <1>3 DEF Sessions
      <4>. QED BY <1>1, <2>2, <3>1, <4>1
    <3>. QED BY <3>5, <3>6, <3>7, <3>8 DEF Sessions
  <2>3. ASSUME NEW c \in Cores, CoreCrash(c), UNCHANGED dbVars
        PROVE  Sessions'
    <3>1. UNCHANGED <<owner, loads, lastSess>> /\ (ownerAt' = ownerAt \/ ownerAt'.sess = 0)
      BY <2>3 DEF CoreCrash, dbVars, Detached
    <3>. QED BY <1>4, <2>3, <3>1, CutQueue
  <2>4. \A p : ReservationDue(p) => UNCHANGED <<owner, loads>>
    BY DEF ReservationDue
  <2>5. DeadlinePasses => UNCHANGED <<owner, loads>>
    BY DEF DeadlinePasses
  <2>. QED BY <1>8, <2>1, <2>2, <2>3, <2>4, <2>5 DEF EnvStep, gameVars
<1>. QED BY <1>5, <1>6, <1>7, <1>8 DEF Next

LEMMA SessionsInit == Init => SessionsInv
<1> SUFFICES ASSUME Init
             PROVE  SessionsInv
  OBVIOUS
<1>1. /\ ownerAt = [core |-> Host, sess |-> 1] /\ lastSess = 1 /\ playing = Host /\ crashed = {}
      /\ owner = ownerAt /\ loads = <<>> /\ Host \in Cores
      /\ toDB = [c \in Cores |-> <<>>] /\ toGame = [c \in Cores |-> <<>>]
  BY ShopAssumption DEF Init, Nothing
<1>2. Range(<<>>) = {} /\ Before(<<>>) = {}
  BY QueueOfNone
<1>3. ownerAt.sess = 1 /\ ownerAt.core = Host /\ owner.sess = 1
  BY <1>1
<1>4. OwnerAlive
  BY <1>1, <1>3 DEF OwnerAlive
<1>5. PlaysThere
  BY <1>1, <1>2 DEF PlaysThere
<1>6. Hushed
  BY <1>1 DEF Hushed
<1>7. Sessions
  BY <1>1, <1>2, <1>3 DEF Sessions
<1>. QED BY <1>4, <1>5, <1>6, <1>7 DEF SessionsInv

LEMMA SessionsKept == ASSUME TypeOK, SessionsInv, [Next]_vars PROVE SessionsInv'
<1>1. CASE Next
  BY <1>1, OwnerAliveStep, PlaysThereStep, HushedStep, SessionsStep DEF SessionsInv
<1>2. CASE UNCHANGED vars
  BY <1>2 DEF vars, dbVars, gameVars, SessionsInv, OwnerAlive, PlaysThere, Hushed, Sessions
<1>. QED BY <1>1, <1>2

-----------------------------------------------------------------------------
\* What a step may put under way.

\* To the cores: packets that carry nothing away, offers, sales, shops, permissions.
LEMMA DBFeeds ==
    ASSUME TypeOK, Hushed, DBStep, NEW k \in Cores
    PROVE  /\ \A m \in Range(toGame'[k]) :
                \/ m \in Range(toGame[k]) \/ m.kind \in Dull \cup {"BuyRequest", "Sale", "Load"}
                \/ m.kind = "Checkout" /\ \E c \in Cores : Process(c) /\ Head(toDB[c]).kind = "CheckoutRequest"
                \/ m.kind = "Destroy" /\ \E c \in Cores : Process(c) /\ Head(toDB[c]).kind = "Close"
           /\ \/ \E c \in Cores : Offered(c)
              \/ /\ \A m \in Range(toGame'[k]) : m \in Range(toGame[k]) \/ m.kind # "BuyRequest"
                 /\ \A p \in Before(toGame'[k]) : p \in Before(toGame[k]) \/ p[2].kind # "BuyRequest"
<1>1. ASSUME NEW K, Mailed(K)
      PROVE  /\ \A m \in Range(toGame'[k]) : m \in Range(toGame[k]) \/ m.kind \in K
             /\ \A p \in Before(toGame'[k]) : p \in Before(toGame[k]) \/ p[2].kind \in K
  BY <1>1, FedRange DEF Of
<1>2. "BuyRequest" \notin Dull
  BY DEF Dull
<1>3. CASE Mailed(Dull)
  BY <1>1, <1>2, <1>3
<1>4. CASE Bound
  <2>1. Mailed(Dull \cup {"Load"})
    BY <1>4, ShopAssumption, SpecialMail
  <2>. QED BY <1>1, <1>2, <2>1
<1>5. ASSUME NEW c \in Cores, Credited(c)
      PROVE  /\ \A m \in Range(toGame'[k]) : m \in Range(toGame[k]) \/ m.kind \in Dull \cup {"Sale"}
             /\ \A p \in Before(toGame'[k]) : p \in Before(toGame[k]) \/ p[2].kind \in Dull \cup {"Sale"}
  <2>1. Mailed(Dull \cup {"Sale"})
    BY <1>5, SpecialMail
  <2>. QED BY <1>1, <2>1
<1>6. ASSUME NEW c \in Cores, Offered(c)
      PROVE  \A m \in Range(toGame'[k]) : m \in Range(toGame[k]) \/ m.kind \in {"BuyRequest"}
  <2>1. Mailed({"BuyRequest"})
    BY <1>6, SpecialMail
  <2>. QED BY <1>1, <2>1
<1>7. ASSUME NEW c \in Cores, Permitted(c, "CheckoutRequest", "Checkout")
      PROVE  /\ \A m \in Range(toGame'[k]) : m \in Range(toGame[k]) \/ m.kind = "Checkout"
             /\ \A p \in Before(toGame'[k]) : p \in Before(toGame[k]) \/ p[2].kind = "Checkout"
             /\ Process(c) /\ Head(toDB[c]).kind = "CheckoutRequest"
  <2>1. Mailed({"Checkout"}) /\ Process(c) /\ Head(toDB[c]).kind = "CheckoutRequest"
    BY <1>7 DEF Permitted
  <2>. QED BY <1>1, <2>1
<1>8. ASSUME NEW c \in Cores, Permitted(c, "Close", "Destroy")
      PROVE  /\ \A m \in Range(toGame'[k]) : m \in Range(toGame[k]) \/ m.kind = "Destroy"
             /\ \A p \in Before(toGame'[k]) : p \in Before(toGame[k]) \/ p[2].kind = "Destroy"
             /\ Process(c) /\ Head(toDB[c]).kind = "Close"
  <2>1. Mailed({"Destroy"}) /\ Process(c) /\ Head(toDB[c]).kind = "Close"
    BY <1>8 DEF Permitted
  <2>. QED BY <1>1, <2>1
<1>. QED BY <1>2, <1>3, <1>4, <1>5, <1>6, <1>7, <1>8, DBMail

\* To the DB process: what core c sends when it has read m.
Reporting == {"ItemSave", "Buy", "FailedBuy", "Logout", "CheckinUpdate", "CheckoutUpdate",
              "WithdrawDone", "ItemTransfer", "Delete"}

LEMMA CoreFeeds ==
    ASSUME TypeOK, NEW c \in Cores, Receive(c), NEW k \in Cores
    PROVE  LET m == Head(toGame[c])
           IN /\ \A a \in Range(toDB'[k]) : a \notin Range(toDB[k]) =>
                   /\ k = c /\ a.kind \in Reporting
                   /\ a.kind \in {"ItemSave", "Buy"} => Bought(c, m)
                   /\ a.kind = "FailedBuy" => Declined(c, m)
                   /\ a.kind = "CheckoutUpdate" => TookOut(c, m)
                   /\ a.kind = "CheckinUpdate" => Presented(c, m)
                   /\ a.kind \in {"ItemTransfer", "Delete"} => HandedBack(c, m)
              /\ \A p \in Before(toDB'[k]) : p \notin Before(toDB[k]) =>
                   /\ k = c /\ p[2].kind \in Reporting
                   /\ p[2].kind = "Buy" => Bought(c, m)
                   /\ p[2].kind = "ItemSave" => Bought(c, m)
                   /\ p[2].kind = "CheckinUpdate" => Presented(c, m)
              /\ k # c => toDB'[k] = toDB[k]
<1> DEFINE m == Head(toGame[c])
<1>1. /\ m \in MsgToGame
      /\ \/ Idle(c, m) \/ Bought(c, m) \/ Declined(c, m) \/ Presented(c, m)
         \/ TookOut(c, m) \/ PaidOut(c, m) \/ HandedBack(c, m)
  BY ReceiveCases
<1>2. panel.gold \in Nat
  BY DEF TypeOK, GameTypeOK
<1> HIDE DEF m
<1>3. /\ Idle(c, m) => NoSend \/ Sends(c, {"Logout"})
      /\ Bought(c, m) => Sends(c, {"ItemSave", "Buy"})
      /\ Declined(c, m) => Sends(c, {"FailedBuy"})
      /\ Presented(c, m) => Sends(c, {"CheckinUpdate"})
      /\ TookOut(c, m) => Sends(c, {"CheckoutUpdate"})
      /\ PaidOut(c, m) => Sends(c, {"WithdrawDone"})
      /\ HandedBack(c, m) => Sends(c, {"ItemTransfer", "Delete"})
  BY <1>1, <1>2, CoreSends
<1> DEFINE Adds(K) == /\ \A a \in Range(toDB'[k]) : a \notin Range(toDB[k]) => k = c /\ a.kind \in K
                      /\ \A p \in Before(toDB'[k]) : p \notin Before(toDB[k]) => k = c /\ p[2].kind \in K
                      /\ k # c => toDB'[k] = toDB[k]
           G == /\ \A a \in Range(toDB'[k]) : a \notin Range(toDB[k]) =>
                     /\ k = c /\ a.kind \in Reporting
                     /\ a.kind \in {"ItemSave", "Buy"} => Bought(c, m)
                     /\ a.kind = "FailedBuy" => Declined(c, m)
                     /\ a.kind = "CheckoutUpdate" => TookOut(c, m)
                     /\ a.kind = "CheckinUpdate" => Presented(c, m)
                     /\ a.kind \in {"ItemTransfer", "Delete"} => HandedBack(c, m)
                /\ \A p \in Before(toDB'[k]) : p \notin Before(toDB[k]) =>
                     /\ k = c /\ p[2].kind \in Reporting
                     /\ p[2].kind = "Buy" => Bought(c, m)
                     /\ p[2].kind = "ItemSave" => Bought(c, m)
                     /\ p[2].kind = "CheckinUpdate" => Presented(c, m)
                /\ k # c => toDB'[k] = toDB[k]
<1>4. ASSUME NEW K, Sends(c, K)
      PROVE  Adds(K)
  BY <1>4, SendsOf DEF Packets
<1>6. ASSUME Idle(c, m), Sends(c, {"Logout"})
      PROVE  G
  <2>1. Adds({"Logout"})
    BY <1>6, <1>4
  <2>. QED BY <2>1 DEF Reporting
<1>7. ASSUME Bought(c, m)
      PROVE  G
  <2>1. Adds({"ItemSave", "Buy"})
    BY <1>7, <1>3, <1>4
  <2>. QED BY <1>7, <2>1 DEF Reporting
<1>8. ASSUME Declined(c, m)
      PROVE  G
  <2>1. Adds({"FailedBuy"})
    BY <1>8, <1>3, <1>4
  <2>. QED BY <1>8, <2>1 DEF Reporting
<1>9. ASSUME Presented(c, m)
      PROVE  G
  <2>1. Adds({"CheckinUpdate"})
    BY <1>9, <1>3, <1>4
  <2>. QED BY <1>9, <2>1 DEF Reporting
<1>10. ASSUME TookOut(c, m)
       PROVE  G
  <2>1. Adds({"CheckoutUpdate"})
    BY <1>10, <1>3, <1>4
  <2>. QED BY <1>10, <2>1 DEF Reporting
<1>11. ASSUME PaidOut(c, m)
       PROVE  G
  <2>1. Adds({"WithdrawDone"})
    BY <1>11, <1>3, <1>4
  <2>. QED BY <2>1 DEF Reporting
<1>12. ASSUME HandedBack(c, m)
       PROVE  G
  <2>1. Adds({"ItemTransfer", "Delete"})
    BY <1>12, <1>3, <1>4
  <2>. QED BY <1>12, <2>1 DEF Reporting
<1>13. ASSUME NoSend
       PROVE  G
  BY <1>13 DEF NoSend
<1> HIDE DEF G, Adds
<1>14. G
  BY <1>1, <1>3, <1>6, <1>7, <1>8, <1>9, <1>10, <1>11, <1>12, <1>13
<1>. QED BY <1>14 DEF m, G

\* And what the clients' requests and a crash leave under way to it.
Requests == Asking \cup {"BuyRequest", "Close", "CheckoutRequest", "ItemExpire", "Logout", "AccountLogout"}

LEMMA ClientFeeds ==
    ASSUME TypeOK, ClientStep, NEW k \in Cores
    PROVE  /\ \A a \in Range(toDB'[k]) : a \notin Range(toDB[k]) =>
                /\ a.kind \in Requests
                /\ a.kind = "Close" => budget["close"] > 0
                /\ a.kind = "CheckoutRequest" => budget["checkout"] > 0
                /\ a.kind = "ItemExpire" => budget["itemTimeout"] > 0
           /\ \A p \in Before(toDB'[k]) : p \notin Before(toDB[k]) => p[2].kind \in Requests
<1> DEFINE Adds(K) == /\ \A a \in Range(toDB'[k]) : a \notin Range(toDB[k]) => a.kind \in K
                      /\ \A p \in Before(toDB'[k]) : p \notin Before(toDB[k]) => p[2].kind \in K
<1>1. ASSUME NEW d, NEW K, Sends(d, K)
      PROVE  Adds(K)
  BY <1>1, SendsOf DEF Packets
<1>2. CASE NoSend
  BY <1>2 DEF NoSend
<1>3. CASE LoggedOut
  <2>1. PICK ms \in Seq(Packets({"Logout"})) : Send(ownerAt.core, ms \o <<[kind |-> "AccountLogout"]>>)
    BY <1>3 DEF LoggedOut
  <2> DEFINE b == [kind |-> "AccountLogout"]
             o == <<b>>
             t == ms \o o
  <2>2. b \in Packets({"Logout", "AccountLogout"})
    BY DEF Packets, MsgToDB
  <2>3. Packets({"Logout"}) \subseteq Packets({"Logout", "AccountLogout"})
    BY DEF Packets
  <2>4. ms \in Seq(Packets({"Logout", "AccountLogout"}))
    BY <2>3
  <2> HIDE DEF b
  <2>5. o \in Seq(Packets({"Logout", "AccountLogout"}))
    BY <2>2
  <2> HIDE DEF o
  <2>6. t \in Seq(Packets({"Logout", "AccountLogout"}))
    BY <2>4, <2>5
  <2>7. Send(ownerAt.core, t)
    BY <2>1 DEF t, o, b
  <2> HIDE DEF t
  <2>8. Sends(ownerAt.core, {"Logout", "AccountLogout"})
    BY <2>6, <2>7 DEF Sends
  <2>9. Adds({"Logout", "AccountLogout"})
    BY <1>1, <2>8
  <2>. QED BY <2>9 DEF Requests
<1>4. ASSUME NEW d, Sends(d, {"BuyRequest"})
      PROVE  Adds({"BuyRequest"})
  BY <1>1, <1>4
<1>5. ASSUME NEW d, Sends(d, Asking)
      PROVE  Adds(Asking)
  BY <1>1, <1>5
<1>6. ASSUME NEW d, Sends(d, {"Close"})
      PROVE  Adds({"Close"})
  BY <1>1, <1>6
<1>7. ASSUME NEW d, Sends(d, {"CheckoutRequest"})
      PROVE  Adds({"CheckoutRequest"})
  BY <1>1, <1>7
<1>8. ASSUME NEW d, Sends(d, {"ItemExpire"})
      PROVE  Adds({"ItemExpire"})
  BY <1>1, <1>8
<1>9. \/ NoSend \/ LoggedOut \/ Adds({"BuyRequest"}) \/ Adds(Asking) \/ (budget["close"] > 0 /\ Adds({"Close"}))
      \/ (budget["checkout"] > 0 /\ Adds({"CheckoutRequest"})) \/ (budget["itemTimeout"] > 0 /\ Adds({"ItemExpire"}))
  BY <1>4, <1>5, <1>6, <1>7, <1>8, ClientCases
<1>10. "Close" \notin Asking /\ "CheckoutRequest" \notin Asking /\ "ItemExpire" \notin Asking
  BY DEF Asking
<1>. QED BY <1>2, <1>3, <1>9, <1>10 DEF Requests

-----------------------------------------------------------------------------
\* Nobody closes the shop, or takes anything out of it but the customers.

CloseUnasked ==
    /\ budget["close"] = 0
    /\ \A c \in Cores : /\ \A m \in Range(toDB[c]) : m.kind \notin {"Close", "ItemTransfer", "Delete"}
                        /\ \A m \in Range(toGame[c]) : m.kind # "Destroy"
TakeUnasked ==
    /\ budget["checkout"] = 0 /\ budget["itemTimeout"] = 0
    /\ \A c \in Cores :
         /\ \A m \in Range(toDB[c]) : m.kind \notin {"CheckoutRequest", "CheckoutUpdate", "ItemExpire"}
         /\ \A m \in Range(toGame[c]) : m.kind # "Checkout"

\* A customer who is online is on a core that lives; of a core whose loss has
\* been noticed nothing is left to read.
CustomersAlive == \A k \in online : Home[k] \notin crashed
GoneIsRead == \A c \in Cores \ peers : c \in crashed /\ toDB[c] = <<>>

LEMMA Unspent ==
    ASSUME TypeOK, [Next]_vars
    PROVE  /\ budget["close"] = 0 => budget'["close"] = 0
           /\ budget["checkout"] = 0 => budget'["checkout"] = 0
           /\ budget["itemTimeout"] = 0 => budget'["itemTimeout"] = 0
           /\ budget["crash"] = 0 => budget'["crash"] = 0
<1>1. "close" \in Kinds /\ "checkout" \in Kinds /\ "itemTimeout" \in Kinds /\ "crash" \in Kinds
  BY DEF Kinds
<1>. QED BY <1>1, SpentStays

LEMMA UnaskedStep ==
    ASSUME TypeOK, SessionsInv, Next
    PROVE  (CloseUnasked => CloseUnasked') /\ (TakeUnasked => TakeUnasked')
<1>1. Hushed
  BY DEF SessionsInv
<1>2. /\ budget["close"] = 0 => budget'["close"] = 0
      /\ budget["checkout"] = 0 => budget'["checkout"] = 0
      /\ budget["itemTimeout"] = 0 => budget'["itemTimeout"] = 0
  BY Unspent
<1> DEFINE Quiet1(k) ==
             CloseUnasked => /\ \A m \in Range(toDB'[k]) : m.kind \notin {"Close", "ItemTransfer", "Delete"}
                             /\ \A m \in Range(toGame'[k]) : m.kind # "Destroy"
           Quiet2(k) ==
             TakeUnasked => /\ \A m \in Range(toDB'[k]) : m.kind \notin {"CheckoutRequest", "CheckoutUpdate", "ItemExpire"}
                            /\ \A m \in Range(toGame'[k]) : m.kind # "Checkout"
<1>3. ASSUME NEW k \in Cores
      PROVE  Quiet1(k) /\ Quiet2(k)
  <2>1. CASE DBStep
    <3>1. UNCHANGED toDB \/ \E c \in Cores : Process(c)
      BY <2>1 DEF DBStep
    <3>2. Range(toDB'[k]) \subseteq Range(toDB[k])
      BY <3>1, TakenQueue
    <3>3. \A m \in Range(toGame'[k]) :
                \/ m \in Range(toGame[k]) \/ m.kind \in Dull \cup {"BuyRequest", "Sale", "Load"}
                \/ m.kind = "Checkout" /\ \E c \in Cores : Process(c) /\ Head(toDB[c]).kind = "CheckoutRequest"
                \/ m.kind = "Destroy" /\ \E c \in Cores : Process(c) /\ Head(toDB[c]).kind = "Close"
      BY <1>1, <2>1, DBFeeds
    <3>4. \A c \in Cores : Process(c) => Head(toDB[c]) \in Range(toDB[c])
      BY TakenQueue
    <3>5. CloseUnasked => \A m \in Range(toGame'[k]) : m.kind # "Destroy"
      BY <3>3, <3>4 DEF CloseUnasked, Dull
    <3>6. TakeUnasked => \A m \in Range(toGame'[k]) : m.kind # "Checkout"
      BY <3>3, <3>4 DEF TakeUnasked, Dull
    <3>. QED BY <3>2, <3>5, <3>6 DEF CloseUnasked, TakeUnasked
  <2>2. CASE GameStep
    <3>1. PICK c \in Cores : Receive(c)
      BY <2>2 DEF GameStep
    <3>2. Range(toGame'[k]) \subseteq Range(toGame[k]) /\ Head(toGame[c]) \in Range(toGame[c])
      BY <3>1, ReadQueue
    <3>3. \A a \in Range(toDB'[k]) : a \notin Range(toDB[k]) =>
             /\ a.kind \in Reporting
             /\ a.kind = "CheckoutUpdate" => Head(toGame[c]).kind = "Checkout"
             /\ a.kind \in {"ItemTransfer", "Delete"} => Head(toGame[c]).kind = "Destroy"
      BY <3>1, CoreFeeds DEF TookOut, HandedBack
    <3>4. CloseUnasked => \A a \in Range(toDB'[k]) : a.kind \notin {"Close", "ItemTransfer", "Delete"}
      BY <3>2, <3>3 DEF CloseUnasked, Reporting
    <3>5. TakeUnasked => \A a \in Range(toDB'[k]) : a.kind \notin {"CheckoutRequest", "CheckoutUpdate", "ItemExpire"}
      BY <3>2, <3>3 DEF TakeUnasked, Reporting
    <3>. QED BY <3>2, <3>4, <3>5 DEF CloseUnasked, TakeUnasked
  <2>3. CASE ClientStep
    <3>1. UNCHANGED toGame
      BY <2>3 DEF ClientStep
    <3>2. \A a \in Range(toDB'[k]) : a \notin Range(toDB[k]) =>
                /\ a.kind \in Requests
                /\ a.kind = "Close" => budget["close"] > 0
                /\ a.kind = "CheckoutRequest" => budget["checkout"] > 0
                /\ a.kind = "ItemExpire" => budget["itemTimeout"] > 0
      BY <2>3, ClientFeeds
    <3>3. CloseUnasked => \A a \in Range(toDB'[k]) : a.kind \notin {"Close", "ItemTransfer", "Delete"}
      BY <3>2 DEF CloseUnasked, Requests, Asking
    <3>4. TakeUnasked => \A a \in Range(toDB'[k]) : a.kind \notin {"CheckoutRequest", "CheckoutUpdate", "ItemExpire"}
      BY <3>2 DEF TakeUnasked, Requests, Asking
    <3>. QED BY <3>1, <3>3, <3>4 DEF CloseUnasked, TakeUnasked
  <2>4. CASE EnvStep
    <3>1. Range(toDB'[k]) \subseteq Range(toDB[k]) /\ Range(toGame'[k]) \subseteq Range(toGame[k])
      <4>1. \A c : OwnerLogin(c) => UNCHANGED toDB
        BY DEF OwnerLogin, NoSend
      <4>2. UNCHANGED <<toDB, toGame>> \/ \E c \in Cores : CoreCrash(c)
        BY <2>4, <4>1 DEF EnvStep
      <4>. QED BY <4>2, CutQueue
    <3>. QED BY <3>1 DEF CloseUnasked, TakeUnasked
  <2>. QED BY <2>1, <2>2, <2>3, <2>4 DEF Next
<1>. QED BY <1>2, <1>3 DEF CloseUnasked, TakeUnasked

LEMMA CustomersAliveStep == ASSUME TypeOK, CustomersAlive, Next PROVE CustomersAlive'
<1>1. ASSUME online' \subseteq online, UNCHANGED crashed
      PROVE  CustomersAlive'
  BY <1>1 DEF CustomersAlive
<1>2. CASE DBStep
  BY <1>1, <1>2, DBBinds DEF gameVars
<1>3. CASE GameStep
  <2>1. UNCHANGED <<online, crashed>>
    BY <1>3, ReceiveCases DEF GameStep, Idle, Bought, Declined, Presented, TookOut, PaidOut, HandedBack, Sessionless
  <2>. QED BY <1>1, <2>1
<1>4. CASE ClientStep
  <2>1. online' \subseteq online /\ UNCHANGED crashed
    BY <1>4, ClientCases DEF Standing, Sessionless, LoggedOut
  <2>. QED BY <1>1, <2>1
<1>5. CASE EnvStep
  <2>1. ASSUME NEW c \in Cores, CoreCrash(c)
        PROVE  CustomersAlive'
    BY <2>1 DEF CustomersAlive, CoreCrash
  <2>2. \A c : OwnerLogin(c) => UNCHANGED <<online, crashed>>
    BY DEF OwnerLogin
  <2>. QED BY <1>1, <1>5, <2>1, <2>2 DEF EnvStep, gameVars
<1>. QED BY <1>2, <1>3, <1>4, <1>5 DEF Next

LEMMA GoneIsReadStep ==
    ASSUME TypeOK, SessionsInv, CustomersAlive, TakeUnasked, GoneIsRead, Next
    PROVE  GoneIsRead'
<1>1. OwnerAlive
  BY DEF SessionsInv
<1>2. ASSUME UNCHANGED peers, crashed \subseteq crashed', \A k \in crashed : toDB[k] = <<>> => toDB'[k] = <<>>
      PROVE  GoneIsRead'
  BY <1>2 DEF GoneIsRead
<1>3. CASE DBStep
  <2>1. UNCHANGED crashed
    BY <1>3, DBBinds DEF gameVars
  <2>2. ASSUME NEW c \in Cores, RemovePeer(c), UNCHANGED toDB
        PROVE  GoneIsRead'
    BY <2>1, <2>2 DEF RemovePeer, GoneIsRead
  <2>3. ASSUME NEW c \in Cores, Process(c)
        PROVE  GoneIsRead'
    <3>1. UNCHANGED peers
      BY <2>3, ProcessBinds
    <3>2. \A k \in Cores : toDB[k] = <<>> => toDB'[k] = <<>>
      BY <2>3, TakenQueue
    <3>. QED BY <1>2, <2>1, <3>1, <3>2 DEF GoneIsRead
  <2>4. CASE UNCHANGED <<peers, toDB>>
    BY <1>2, <2>1, <2>4
  <2>. QED BY <1>3, <2>2, <2>3, <2>4 DEF DBStep, UpdatePrivateShopPremiumEvent, RESULT_PRIVATE_SHOP_LOAD
<1>4. CASE GameStep
  <2>1. PICK c \in Cores : Receive(c)
    BY <1>4 DEF GameStep
  <2>2. c \notin crashed /\ UNCHANGED crashed /\ UNCHANGED peers
    BY <1>4, <2>1, ReceiveAlive, ReceiveCases DEF GameStep, dbVars
  <2>3. \A k \in Cores : k # c => toDB'[k] = toDB[k]
    BY <2>1, CoreFeeds
  <2>. QED BY <2>2, <2>3 DEF GoneIsRead
<1>5. CASE ClientStep
  <2>1. UNCHANGED <<peers, crashed>>
    BY <1>5, ClientCases DEF ClientStep, dbVars, Standing, Sessionless, LoggedOut
  <2>2. ASSUME NEW d, NEW K, Sends(d, K), d \notin crashed
        PROVE  GoneIsRead'
    <3>1. \A k \in Cores : k # d => toDB'[k] = toDB[k]
      BY <2>2, SendsOf
    <3>. QED BY <2>1, <2>2, <3>1 DEF GoneIsRead
  <2>3. CASE NoSend
    BY <1>2, <2>1, <2>3 DEF NoSend
  <2>4. panel.loaded \/ LoggedOut => ownerAt.core \notin crashed
    BY <1>1 DEF OwnerAlive, NoPanel, LoggedOut
  <2>5. CASE LoggedOut
    <3>1. PICK ms \in Seq(Packets({"Logout"})) : Send(ownerAt.core, ms \o <<[kind |-> "AccountLogout"]>>)
      BY <2>5 DEF LoggedOut
    <3>2. \A k \in Cores : k # ownerAt.core => toDB'[k] = toDB[k]
      BY <3>1 DEF Send, TypeOK, WireTypeOK
    <3>. QED BY <2>1, <2>4, <2>5, <3>2 DEF GoneIsRead
  <2>6. \A k \in online : Home[k] \notin crashed
    BY DEF CustomersAlive
  <2>7. budget["itemTimeout"] = 0
    BY DEF TakeUnasked
  <2>. QED BY <1>5, <2>2, <2>3, <2>4, <2>5, <2>6, <2>7, ClientCases
<1>6. CASE EnvStep
  <2>1. ASSUME UNCHANGED <<peers, crashed, toDB>>
        PROVE  GoneIsRead'
    BY <1>2, <2>1
  <2>2. ASSUME NEW c \in Cores, CoreCrash(c), UNCHANGED dbVars
        PROVE  GoneIsRead'
    <3>1. UNCHANGED peers /\ c \notin crashed /\ crashed' = crashed \cup {c} /\ crashed \subseteq Cores
      BY <2>2 DEF CoreCrash, dbVars, TypeOK, GameTypeOK
    <3>2. \A k \in Cores : k # c => toDB'[k] = toDB[k]
      BY <2>2, CutQueue
    <3>. QED BY <1>2, <3>1, <3>2
  <2>3. \A c : OwnerLogin(c) => UNCHANGED <<peers, crashed, toDB>>
    BY DEF OwnerLogin, NoSend
  <2>4. \A p : ReservationDue(p) => UNCHANGED peers
    BY DEF ReservationDue
  <2>5. DeadlinePasses => UNCHANGED peers
    BY DEF DeadlinePasses
  <2>. QED BY <1>6, <2>1, <2>2, <2>3, <2>4, <2>5 DEF EnvStep, gameVars
<1>. QED BY <1>3, <1>4, <1>5, <1>6 DEF Next

-----------------------------------------------------------------------------
\* A hold stays until it is answered, or until its buyer's core is gone.

Same(p) == /\ slot'[p].item = slot[p].item /\ slot'[p].price = slot[p].price
           /\ slot'[p].avail = slot[p].avail /\ slot'[p].token = slot[p].token
           /\ slot'[p].buyer = slot[p].buyer
AnsweredBy(c, p) == /\ Process(c) /\ slot[p].buyer = c /\ Head(toDB[c]).kind \in Answering
                    /\ Head(toDB[c]).token = slot[p].token

LEMMA TradeStays ==
    ASSUME TypeOK, AnswersInv, NEW c \in Cores, Process(c), NEW p \in Reserved(slot),
           Head(toDB[c]).kind \in {"BuyRequest", "Buy", "FailedBuy"}
    PROVE  Same(p) \/ AnsweredBy(c, p)
<1> DEFINE m == Head(toDB[c])
<1>1. m \in MsgToDB /\ m \in Range(toDB[c])
  BY TakenQueue
<1>2. /\ m.kind = "BuyRequest" => PrivateShopBuyRequest(c, m)
      /\ m.kind = "Buy" => PrivateShopBuy(c, m)
      /\ m.kind = "FailedBuy" => PrivateShopFailedBuy(c, m)
  BY AnswerRead
<1>3. /\ p \in Positions /\ slot[p].item # NoItem /\ ~slot[p].avail
      /\ slot \in [Positions -> Slot]
  BY ReservedIn, ReservedMember DEF TypeOK, DBTypeOK
<1>4. m.kind \in Answering => NamesIn(slot, reservation, c, m)
  BY <1>1 DEF AnswersInv, TokensName
<1> HIDE DEF m
<1>5. CASE m.kind = "BuyRequest"
  <2>1. CASE Sellable(m)
    <3>1. p # m.pos
      BY <1>3, <2>1 DEF Sellable
    <3>2. \A q \in Positions \ {m.pos} : slot'[q] = slot[q]
      BY <1>1, <1>2, <1>5, <2>1, Accepted
    <3>. QED BY <1>3, <3>1, <3>2 DEF Same
  <2>. QED BY <1>2, <1>5, <2>1 DEF PrivateShopBuyRequest, Refused, dbVars, Same
<1>6. CASE m.kind = "Buy"
  <2>1. CASE Holds(c, m)
    <3>1. slot' = Clear(slot, m.pos)
      BY <1>2, <1>6, <2>1 DEF PrivateShopBuy
    <3>2. p # m.pos => slot'[p] = slot[p]
      BY <1>3, <3>1 DEF Clear
    <3>3. p = m.pos => slot[p].token = m.token /\ slot[p].buyer = c
      BY <2>1 DEF Holds
    <3>. QED BY <1>6, <3>2, <3>3 DEF Same, AnsweredBy, Answering, m
  <2>. QED BY <1>2, <1>6, <2>1 DEF PrivateShopBuy, Refused, dbVars, Same
<1>7. CASE m.kind = "FailedBuy"
  <2>1. CASE Answers(m)
    <3>1. slot' = [slot EXCEPT ![m.pos] = [@ EXCEPT !.avail = TRUE, !.due = FALSE]]
      BY <1>2, <1>7, <2>1 DEF PrivateShopFailedBuy
    <3>2. p # m.pos => slot'[p] = slot[p]
      BY <1>3, <3>1
    <3>3. p = m.pos => slot[p].token = m.token /\ slot[p].buyer = c
      BY <1>4, <1>7, <2>1 DEF Answers, NamesIn, Answering
    <3>. QED BY <1>7, <3>2, <3>3 DEF Same, AnsweredBy, Answering, m
  <2>. QED BY <1>2, <1>7, <2>1 DEF PrivateShopFailedBuy, Refused, dbVars, Same
<1>. QED BY <1>5, <1>6, <1>7 DEF m

LEMMA EditStays ==
    ASSUME TypeOK, AnswersInv, CloseUnasked, TakeUnasked, NEW c \in Cores, Process(c), NEW p \in Reserved(slot),
           Head(toDB[c]).kind \notin {"BuyRequest", "Buy", "FailedBuy"}
    PROVE  Same(p)
<1> DEFINE m == Head(toDB[c])
<1>1. m \in MsgToDB /\ m \in Range(toDB[c])
  BY TakenQueue
<1>2. /\ p \in Positions /\ slot[p].item # NoItem /\ ~slot[p].avail
      /\ slot \in [Positions -> Slot] /\ state # "MODIFY" /\ ~NoItems(slot)
  BY ReservedIn, ReservedMember DEF TypeOK, DBTypeOK, AnswersInv, HoldsAreDistinct, NoItems, Occupied
<1>3. m.kind \notin {"CheckoutUpdate", "ItemExpire", "ItemTransfer", "Delete"}
  BY <1>1 DEF CloseUnasked, TakeUnasked
<1>4. m.kind \notin {"BuyRequest", "Buy", "FailedBuy"}
  BY DEF m
<1>5. \/ PrivateShopBuyRequest(c, m) \/ PrivateShopBuy(c, m) \/ PrivateShopFailedBuy(c, m)
      \/ PrivateShopModifyRequest(c, m) \/ PrivateShopItemPriceChangeRequest(c, m)
      \/ PrivateShopItemMoveRequest(c, m) \/ PrivateShopItemCheckinUpdate(c, m)
      \/ PrivateShopItemCheckoutUpdate(c, m) \/ PrivateShopItemExpire(c, m)
      \/ PrivateShopWithdraw(c, m) \/ PrivateShopItemTransfer(c, m)
      \/ QueryItemSave(c, m) \/ PrivateShopItemCheckinRequest(c, m)
      \/ PrivateShopItemCheckoutRequest(c, m) \/ PrivateShopWithdrawRequest(c, m)
      \/ PrivateShopClose(c, m) \/ PrivateShopDelete(c, m) \/ PrivateShopLogout(c, m)
      \/ AccountLogout(c, m)
  BY Zenon DEF Process, m
<1> HIDE DEF m
<1>6. UNCHANGED slot => Same(p)
  BY DEF Same
<1>7. PrivateShopModifyRequest(c, m) \/ PrivateShopItemPriceChangeRequest(c, m) \/ PrivateShopItemMoveRequest(c, m)
        => UNCHANGED slot
  BY <1>2 DEF PrivateShopModifyRequest, PrivateShopItemPriceChangeRequest, PrivateShopItemMoveRequest,
              Editable, Refused, dbVars
<1>8. /\ PrivateShopItemCheckinRequest(c, m) \/ PrivateShopItemCheckoutRequest(c, m) => UNCHANGED slot
      /\ PrivateShopWithdrawRequest(c, m) \/ PrivateShopClose(c, m) => UNCHANGED slot
      /\ PrivateShopLogout(c, m) \/ AccountLogout(c, m) \/ QueryItemSave(c, m) => UNCHANGED slot
  BY DEF PrivateShopItemCheckinRequest, PrivateShopItemCheckoutRequest, PrivateShopWithdrawRequest,
         PrivateShopClose, PrivateShopLogout, AccountLogout, QueryItemSave, dbVars
<1>9. PrivateShopWithdraw(c, m) => UNCHANGED slot
  BY <1>2 DEF PrivateShopWithdraw, Refused, dbVars
<1>10. ASSUME PrivateShopItemCheckinUpdate(c, m)
       PROVE  Same(p)
  <2>1. UNCHANGED slot \/ (slot[m.pos].item = NoItem /\ slot' = [slot EXCEPT ![m.pos] = FreshSlot(m.item, m.price)])
    BY <1>10 DEF PrivateShopItemCheckinUpdate, Refused, dbVars
  <2>2. slot'[p] = slot[p]
    BY <1>2, <2>1
  <2>. QED BY <2>2 DEF Same
<1>11. /\ PrivateShopItemCheckoutUpdate(c, m) => m.kind = "CheckoutUpdate"
       /\ PrivateShopItemExpire(c, m) => m.kind = "ItemExpire"
       /\ PrivateShopItemTransfer(c, m) => m.kind = "ItemTransfer"
       /\ PrivateShopDelete(c, m) => m.kind = "Delete"
       /\ PrivateShopBuyRequest(c, m) => m.kind = "BuyRequest"
       /\ PrivateShopBuy(c, m) => m.kind = "Buy"
       /\ PrivateShopFailedBuy(c, m) => m.kind = "FailedBuy"
  BY Zenon DEF PrivateShopItemCheckoutUpdate, PrivateShopItemExpire, PrivateShopItemTransfer, PrivateShopDelete,
         PrivateShopBuyRequest, PrivateShopBuy, PrivateShopFailedBuy
<1>. QED BY <1>3, <1>4, <1>5, <1>6, <1>7, <1>8, <1>9, <1>10, <1>11

LEMMA UpdateStays ==
    ASSUME TypeOK, NEW p \in Reserved(slot), UpdatePrivateShopPremiumEvent \/ RESULT_PRIVATE_SHOP_LOAD
    PROVE  Same(p) \/ slot[p].buyer \notin peers
<1>1. /\ p \in Positions /\ ~NoItems(slot) /\ slot \in [Positions -> Slot] /\ slot[p] \in Slot
  BY ReservedIn, ReservedMember DEF TypeOK, DBTypeOK, NoItems, Occupied
<1>2. slot' = slot \/ slot' = UpdatedSlot
  BY <1>1 DEF UpdatePrivateShopPremiumEvent, RESULT_PRIVATE_SHOP_LOAD, Emptied
<1>3. slot[p].buyer \in peers => UpdatedSlot[p] = slot[p] \/ UpdatedSlot[p] = [slot[p] EXCEPT !.due = FALSE]
  BY <1>1 DEF UpdatedSlot
<1> DEFINE s == slot[p]
           d == [s EXCEPT !.due = FALSE]
<1>4. s \in Slot
  BY <1>1
<1> HIDE DEF s
<1>5. d.item = s.item /\ d.price = s.price /\ d.avail = s.avail /\ d.token = s.token /\ d.buyer = s.buyer
  BY <1>4 DEF Slot
<1> HIDE DEF d
<1>6. slot[p].buyer \in peers => slot'[p] = s \/ slot'[p] = d
  BY <1>2, <1>3 DEF s, d
<1>. QED BY <1>5, <1>6 DEF Same, s

LEMMA HoldsStay ==
    ASSUME TypeOK, AnswersInv, CloseUnasked, TakeUnasked, Next, NEW p \in Reserved(slot)
    PROVE  Same(p) \/ slot[p].buyer \notin peers \/ \E c \in Cores : AnsweredBy(c, p)
<1>1. UNCHANGED slot => Same(p)
  BY DEF Same
<1>2. CASE DBStep
  <2>1. \A c \in Cores : Process(c) => Same(p) \/ AnsweredBy(c, p)
    BY TradeStays, EditStays
  <2>2. \A c \in Cores : RemovePeer(c) => UNCHANGED slot
    BY DEF RemovePeer
  <2>. QED BY <1>1, <1>2, <2>1, <2>2, UpdateStays DEF DBStep
<1>3. CASE GameStep \/ ClientStep
  BY <1>1, <1>3 DEF GameStep, ClientStep, dbVars
<1>4. CASE EnvStep
  <2>1. ASSUME NEW q \in Positions, ReservationDue(q)
        PROVE  Same(p)
    <3>1. slot' = [slot EXCEPT ![q].due = TRUE] /\ p \in Positions /\ slot \in [Positions -> Slot]
      BY <2>1, ReservedIn DEF ReservationDue, TypeOK, DBTypeOK
    <3>2. slot[p] \in Slot
      BY <3>1
    <3>3. p # q => slot'[p] = slot[p]
      BY <3>1
    <3>4. p = q => slot'[p] = [slot[p] EXCEPT !.due = TRUE]
      BY <3>1
    <3>. QED BY <3>2, <3>3, <3>4 DEF Same, Slot
  <2>2. DeadlinePasses => UNCHANGED slot
    BY DEF DeadlinePasses
  <2>3. \A c : OwnerLogin(c) => UNCHANGED slot
    BY DEF OwnerLogin
  <2>. QED BY <1>1, <1>4, <2>1, <2>2, <2>3 DEF EnvStep, dbVars
<1>. QED BY <1>2, <1>3, <1>4 DEF Next

\* What a purchase carried out sends.
Save(m) == [kind |-> "ItemSave", item |-> m.item, who |-> m.cust]
Payment(m) == [kind |-> "Buy", pos |-> m.pos, item |-> m.item, price |-> m.price, token |-> m.token]

LEMMA BoughtSends ==
    ASSUME TypeOK, NEW c \in Cores, NEW m \in MsgToGame, Bought(c, m), NEW k \in Cores
    PROVE  /\ Payment(m) \in MsgToDB /\ Save(m) \in MsgToDB
           /\ Range(toDB'[k]) = Range(toDB[k]) \cup (IF k = c THEN {Save(m), Payment(m)} ELSE {})
           /\ Before(toDB'[k]) = Before(toDB[k])
                \cup (IF k = c THEN {<<Save(m), Payment(m)>>} \cup (Range(toDB[k]) \X {Save(m), Payment(m)})
                      ELSE {})
           /\ toDB'[k] = IF k = c THEN toDB[k] \o <<Save(m), Payment(m)>> ELSE toDB[k]
<1> DEFINE b == Payment(m)
           s == Save(m)
           ms == <<s, b>>
<1>1. b \in MsgToDB /\ s \in MsgToDB
  BY GameMsgFields DEF Bought, MsgToDB, Chars, Payment, Save
<1>2. Send(c, ms) /\ toDB \in MailToDB
  BY DEF Bought, Delivery, TypeOK, WireTypeOK, MailToDB, Payment, Save
<1> HIDE DEF b, s
<1>3. ms \in Seq(MsgToDB) /\ Range(ms) = {s, b} /\ Before(ms) = {<<s, b>>}
  BY <1>1, QueueOfTwo
<1> HIDE DEF ms
<1>4. /\ toDB'[k] = IF k = c THEN toDB[k] \o ms ELSE toDB[k]
      /\ Range(toDB'[k]) = Range(toDB[k]) \cup (IF k = c THEN Range(ms) ELSE {})
      /\ Before(toDB'[k]) = Before(toDB[k])
           \cup (IF k = c THEN Before(ms) \cup (Range(toDB[k]) \X Range(ms)) ELSE {})
  <2>1. Send(c, ms) /\ toDB \in MailToDB /\ ms \in Seq(MsgToDB)
    BY <1>2, <1>3
  <2> HIDE DEF Payment, Save
  <2>. QED BY ONLY <2>1, SentQueue, k \in Cores
<1>5. toDB'[k] = IF k = c THEN toDB[k] \o <<s, b>> ELSE toDB[k]
  BY <1>4 DEF ms
<1>6. /\ Range(toDB'[k]) = Range(toDB[k]) \cup (IF k = c THEN {s, b} ELSE {})
      /\ Before(toDB'[k]) = Before(toDB[k])
           \cup (IF k = c THEN {<<s, b>>} \cup (Range(toDB[k]) \X {s, b}) ELSE {})
  BY <1>3, <1>4
<1>. QED BY <1>1, <1>5, <1>6 DEF b, s

LEMMA PaymentNames ==
    ASSUME NEW m
    PROVE  /\ Payment(m).kind = "Buy" /\ Payment(m).pos = m.pos /\ Payment(m).item = m.item
           /\ Payment(m).price = m.price /\ Payment(m).token = m.token
           /\ Save(m).kind = "ItemSave" /\ Save(m).item = m.item /\ Save(m).who = m.cust
BY DEF Payment, Save

-----------------------------------------------------------------------------
\* Every offer and every payment under way is held, and answered once.

OffersHeld ==
    \A c \in Cores :
        /\ \A m \in Range(toGame[c]) : m.kind = "BuyRequest" => HeldFor(c, m)
        /\ \A m \in Range(toDB[c]) : m.kind = "Buy" => HeldFor(c, m)

AnsweredOnce ==
    \A c \in Cores :
        /\ \A p \in Before(toDB[c]) :
             p[1].kind \in Answering /\ p[2].kind = "Buy" => p[1].token # p[2].token
        /\ \A p \in Before(toGame[c]) :
             p[1].kind \in Offering /\ p[2].kind = "BuyRequest" => p[1].token # p[2].token
        /\ \A a \in Range(toDB[c]), m \in Range(toGame[c]) :
             a.kind \in Answering /\ m.kind = "BuyRequest" => a.token # m.token

\* What is inductive together: the strengthening of OfferIsHeld.
OffersInv == /\ SessionsInv /\ AnswersInv /\ CloseUnasked /\ TakeUnasked /\ CustomersAlive /\ GoneIsRead
             /\ OffersHeld /\ AnsweredOnce

LEMMA PacketTypes ==
    ASSUME TypeOK, NEW c \in Cores
    PROVE  /\ \A m \in Range(toGame[c]) : m \in MsgToGame
           /\ \A m \in Range(toDB[c]) : m \in MsgToDB
BY RangeTypes DEF TypeOK, WireTypeOK

LEMMA HeldIsReserved ==
    ASSUME NEW c, NEW m, m.pos \in Positions, m.item # NoItem, HeldFor(c, m)
    PROVE  m.pos \in Reserved(slot) /\ slot[m.pos].buyer = c /\ slot[m.pos].token = m.token
BY ReservedMember DEF HeldFor

LEMMA NamesItem ==
    /\ \A m \in MsgToGame : m.kind = "BuyRequest" => m.pos \in Positions /\ m.item \in Items /\ m.item # NoItem
    /\ \A m \in MsgToDB : m.kind = "Buy" => m.pos \in Positions /\ m.item \in Items /\ m.item # NoItem
BY ShopAssumption DEF MsgToGame, MsgToDB

\* What was held stays so unless its own answer is read.
LEMMA StaysHeldFor ==
    ASSUME TypeOK, OffersInv, Next, NEW c \in Cores, NEW m, m.pos \in Positions, m.item # NoItem,
           HeldFor(c, m), c \in peers,
           \A k \in Cores : Process(k) /\ k = c /\ Head(toDB[k]).kind \in Answering => Head(toDB[k]).token # m.token
    PROVE  slot'[m.pos].item = m.item /\ slot'[m.pos].price = m.price /\ ~slot'[m.pos].avail
           /\ slot'[m.pos].token = m.token /\ slot'[m.pos].buyer = c
<1>1. m.pos \in Reserved(slot) /\ slot[m.pos].buyer = c /\ slot[m.pos].token = m.token
  BY HeldIsReserved
<1>2. Same(m.pos)
  BY <1>1, HoldsStay DEF OffersInv, AnsweredBy
<1>. QED BY <1>2 DEF Same, HeldFor

LEMMA OfferIsNew ==
    ASSUME TypeOK, SessionsInv, NEW c \in Cores, Offered(c), UNCHANGED crashed, NEW k \in Cores
    PROVE  /\ \A m \in Range(toGame'[k]) : m \in Range(toGame[k])
                \/ (k = c /\ m = Offer(Head(toDB[c])))
           /\ \A p \in Before(toGame'[k]) : p \in Before(toGame[k])
                \/ (k = c /\ p[1] \in Range(toGame[k]) /\ p[2] = Offer(Head(toDB[c])))
<1> DEFINE m == Head(toDB[c])
           o == Offer(m)
           q == toGame[k]
           l == <<o>>
<1>1. m \in MsgToDB /\ PrivateShopBuyRequest(c, m) /\ Sellable(m)
  BY TakenQueue DEF Offered
<1>2. o \in MsgToGame /\ Post(To(c, o))
  BY <1>1, Accepted
<1>3. q \in Seq(MsgToGame)
  BY DEF TypeOK, WireTypeOK
<1> HIDE DEF o, m
<1>4. l \in Seq(MsgToGame) /\ Range(l) = {o} /\ Before(l) = {}
  BY <1>2, QueueOfOne
<1>5. toGame'[k] = IF k \in crashed THEN <<>> ELSE IF k = c THEN q \o l ELSE q \o <<>>
  BY <1>2 DEF Post, To
<1> HIDE DEF q, l
<1>6. q \o <<>> = q /\ Range(q \o l) = Range(q) \cup Range(l)
      /\ Before(q \o l) = Before(q) \cup Before(l) \cup (Range(q) \X Range(l))
  BY <1>3, <1>4, QueueCat, BeforeCat
<1>7. Range(<<>>) = {} /\ Before(<<>>) = {}
  BY QueueOfNone
<1>8. /\ \A n \in Range(toGame'[k]) : n \in Range(q) \/ (k = c /\ n = o)
      /\ \A p \in Before(toGame'[k]) : p \in Before(q) \/ (k = c /\ p[1] \in Range(q) /\ p[2] = o)
  BY <1>4, <1>5, <1>6, <1>7
<1>. QED BY <1>8 DEF q, o, m

LEMMA OffersHeldStep == ASSUME TypeOK, OffersInv, Next PROVE OffersHeld'
<1>1. /\ SessionsInv /\ AnswersInv /\ OffersHeld /\ AnsweredOnce /\ GoneIsRead /\ Hushed
  BY DEF OffersInv, SessionsInv
<1> DEFINE H(c, m) == /\ slot'[m.pos].item = m.item /\ slot'[m.pos].price = m.price /\ ~slot'[m.pos].avail
                      /\ slot'[m.pos].token = m.token /\ slot'[m.pos].buyer = c
<1>2. \A c, m : HeldFor(c, m)' <=> H(c, m)
  BY DEF HeldFor
<1>3. \A k \in Cores : Process(k) => Head(toDB[k]) \in Range(toDB[k])
  BY TakenQueue
<1>4. ASSUME NEW c \in Cores, NEW m \in Range(toGame[c]), m.kind = "BuyRequest"
      PROVE  H(c, m)
  <2>1. m \in MsgToGame /\ m.pos \in Positions /\ m.item # NoItem
    BY <1>4, PacketTypes, NamesItem
  <2>2. HeldFor(c, m)
    BY <1>1, <1>4 DEF OffersHeld
  <2>3. c \in peers
    <3>1. toGame[c] # <<>>
      BY <1>4, QueueOfNone
    <3>. QED BY <1>1, <3>1 DEF GoneIsRead, Hushed
  <2>4. \A k \in Cores : Process(k) /\ k = c /\ Head(toDB[k]).kind \in Answering => Head(toDB[k]).token # m.token
    BY <1>1, <1>3, <1>4 DEF AnsweredOnce
  <2>. QED BY <2>1, <2>2, <2>3, <2>4, StaysHeldFor
<1>5. ASSUME NEW c \in Cores, NEW m \in Range(toDB[c]), m.kind = "Buy", m \in Range(toDB'[c])
      PROVE  H(c, m)
  <2>1. m \in MsgToDB /\ m.pos \in Positions /\ m.item # NoItem
    BY <1>5, PacketTypes, NamesItem
  <2>2. HeldFor(c, m)
    BY <1>1, <1>5 DEF OffersHeld
  <2>3. c \in peers
    <3>1. toDB[c] # <<>>
      BY <1>5, QueueOfNone
    <3>. QED BY <1>1, <3>1 DEF GoneIsRead
  <2>4. ASSUME Process(c), Head(toDB[c]).kind \in Answering
        PROVE  Head(toDB[c]).token # m.token
    <3> DEFINE p == <<Head(toDB[c]), m>>
    <3>1. p \in Before(toDB[c]) /\ p[1] = Head(toDB[c]) /\ p[2] = m
      BY <1>5, <2>4, TakenQueue
    <3> HIDE DEF p
    <3>2. p[1].kind \in Answering /\ p[2].kind = "Buy" => p[1].token # p[2].token
      BY <1>1, <3>1 DEF AnsweredOnce
    <3>. QED BY <1>5, <2>4, <3>1, <3>2
  <2>. QED BY <2>1, <2>2, <2>3, <2>4, StaysHeldFor
<1>6. CASE DBStep
  <2>1. UNCHANGED crashed
    BY <1>6, DBBinds DEF gameVars
  <2>2. \A c \in Cores : Range(toDB'[c]) \subseteq Range(toDB[c])
    <3>1. UNCHANGED toDB \/ \E c \in Cores : Process(c)
      BY <1>6 DEF DBStep
    <3>. QED BY <3>1, TakenQueue
  <2>3. ASSUME NEW c \in Cores, NEW m \in Range(toGame'[c]), m.kind = "BuyRequest"
        PROVE  H(c, m)
    <3>1. ASSUME NEW d \in Cores, Offered(d), c = d, m = Offer(Head(toDB[d]))
          PROVE  H(c, m)
      <4> DEFINE b == Head(toDB[d])
      <4>1. b \in MsgToDB /\ PrivateShopBuyRequest(d, b) /\ Sellable(b)
        BY <3>1, TakenQueue DEF Offered
      <4>2. m = Offer(b)
        BY <3>1
      <4> HIDE DEF b
      <4>3. /\ slot'[b.pos].token = reservation' /\ slot'[b.pos].buyer = d
            /\ slot'[b.pos].item = slot[b.pos].item /\ slot'[b.pos].price = slot[b.pos].price
            /\ ~slot'[b.pos].avail
        BY <4>1, Accepted
      <4>4. m.pos = b.pos /\ m.item = slot[b.pos].item /\ m.price = slot[b.pos].price /\ m.token = reservation'
        BY <4>2 DEF Offer
      <4>. QED BY <3>1, <4>3, <4>4
    <3>2. CASE m \in Range(toGame[c])
      BY <1>4, <2>3, <3>2
    <3>3. CASE \A n \in Range(toGame'[c]) : n \in Range(toGame[c]) \/ n.kind # "BuyRequest"
      BY <2>3, <3>2, <3>3
    <3>. QED BY <1>1, <1>6, <2>1, <2>3, <3>1, <3>2, <3>3, DBFeeds, OfferIsNew
  <2>. QED BY <1>2, <1>5, <2>2, <2>3 DEF OffersHeld
<1>7. CASE GameStep
  <2>1. PICK c \in Cores : Receive(c)
    BY <1>7 DEF GameStep
  <2>2. \A k \in Cores : Range(toGame'[k]) \subseteq Range(toGame[k])
    BY <2>1, ReadQueue
  <2> DEFINE m == Head(toGame[c])
  <2>3. m \in Range(toGame[c]) /\ m \in MsgToGame
    BY <2>1, ReadQueue
  <2>4. ASSUME NEW k \in Cores, NEW b \in Range(toDB'[k]), b.kind = "Buy", b \notin Range(toDB[k])
        PROVE  H(k, b)
    <3>1. k = c /\ Bought(c, m)
      BY <2>1, <2>4, CoreFeeds
    <3>2. m.kind = "BuyRequest"
      BY <3>1 DEF Bought
    <3> HIDE DEF m
    <3>3. H(c, m)
      BY <1>4, <2>3, <3>2
    <3>4. b.pos = m.pos /\ b.item = m.item /\ b.price = m.price /\ b.token = m.token
      <4>1. b \in Range(toDB[k]) \cup {Save(m), Payment(m)}
        BY <2>3, <2>4, <3>1, BoughtSends
      <4>. QED BY <2>4, <4>1, PaymentNames
    <3>. QED BY <3>1, <3>3, <3>4
  <2>. QED BY <1>2, <1>4, <1>5, <2>2, <2>4 DEF OffersHeld
<1>8. CASE ClientStep
  <2>1. \A c \in Cores : \A a \in Range(toDB'[c]) : a \notin Range(toDB[c]) => a.kind # "Buy"
    BY <1>8, ClientFeeds DEF Requests, Asking
  <2>2. UNCHANGED toGame
    BY <1>8 DEF ClientStep
  <2>. QED BY <1>2, <1>4, <1>5, <2>1, <2>2 DEF OffersHeld
<1>9. CASE EnvStep
  <2>1. \A c : OwnerLogin(c) => UNCHANGED toDB
    BY DEF OwnerLogin, NoSend
  <2>2. UNCHANGED <<toDB, toGame>> \/ \E c \in Cores : CoreCrash(c)
    BY <1>9, <2>1 DEF EnvStep
  <2>3. \A k \in Cores : Range(toDB'[k]) \subseteq Range(toDB[k]) /\ Range(toGame'[k]) \subseteq Range(toGame[k])
    BY <2>2, CutQueue
  <2>. QED BY <1>2, <1>4, <1>5, <2>3 DEF OffersHeld
<1>. QED BY <1>6, <1>7, <1>8, <1>9 DEF Next

\* A token is new when it is given.
LEMMA TokenIsNew ==
    ASSUME TypeOK, TokensName, NEW c \in Cores, Offered(c), NEW k \in Cores
    PROVE  /\ \A m \in Range(toGame[k]) : m.kind \in Offering => m.token # Offer(Head(toDB[c])).token
           /\ \A m \in Range(toDB[k]) : m.kind \in Answering => m.token # Offer(Head(toDB[c])).token
<1> DEFINE b == Head(toDB[c])
<1>1. b \in MsgToDB /\ PrivateShopBuyRequest(c, b) /\ Sellable(b)
  BY TakenQueue DEF Offered
<1> HIDE DEF b
<1>2. Offer(b).token = reservation' /\ reservation' = reservation + 1 /\ reservation \in Nat
  BY <1>1 DEF Offer, PrivateShopBuyRequest, NextToken, TypeOK, DBTypeOK, Refused
<1>3. /\ \A m \in Range(toGame[k]) : m.kind \in Offering => m.token \in Nat /\ m.token <= reservation
      /\ \A m \in Range(toDB[k]) : m.kind \in Answering => m.token \in Nat /\ m.token <= reservation
  BY TokenTypes DEF TokensName, NamesIn
<1>4. \A t \in Nat : t <= reservation => t # reservation'
  BY <1>2
<1>5. /\ \A m \in Range(toGame[k]) : m.kind \in Offering => m.token # Offer(b).token
      /\ \A m \in Range(toDB[k]) : m.kind \in Answering => m.token # Offer(b).token
  BY <1>2, <1>3, <1>4
<1>. QED BY <1>5 DEF b

\* The three clauses of AnsweredOnce for one core, of any two connections.
OnceIn(d, g) ==
    /\ \A p \in Before(d) : p[1].kind \in Answering /\ p[2].kind = "Buy" => p[1].token # p[2].token
    /\ \A p \in Before(g) : p[1].kind \in Offering /\ p[2].kind = "BuyRequest" => p[1].token # p[2].token
    /\ \A a \in Range(d), m \in Range(g) : a.kind \in Answering /\ m.kind = "BuyRequest" => a.token # m.token

LEMMA OnceShrinks ==
    ASSUME NEW d, NEW g, NEW e, NEW h, OnceIn(d, g), Range(e) \subseteq Range(d), Before(e) \subseteq Before(d),
           Range(h) \subseteq Range(g), Before(h) \subseteq Before(g)
    PROVE  OnceIn(e, h)
BY DEF OnceIn

\* What was sent besides is neither an offer nor an answer.
LEMMA OnceBeside ==
    ASSUME NEW d, NEW g, NEW e, NEW h, OnceIn(d, g),
           \A a \in Range(e) : a \in Range(d) \/ a.kind \notin Answering,
           \A p \in Before(e) : p \in Before(d) \/ p[2].kind # "Buy",
           \A m \in Range(h) : m \in Range(g) \/ m.kind # "BuyRequest",
           \A p \in Before(h) : p \in Before(g) \/ p[2].kind # "BuyRequest"
    PROVE  OnceIn(e, h)
BY DEF OnceIn

LEMMA OnceByDB ==
    ASSUME TypeOK, OffersInv, DBStep, NEW k \in Cores
    PROVE  OnceIn(toDB'[k], toGame'[k])
<1>1. SessionsInv /\ Hushed /\ TokensName /\ OnceIn(toDB[k], toGame[k])
  BY DEF OffersInv, SessionsInv, AnswersInv, AnsweredOnce, OnceIn
<1>2. Range(toDB'[k]) \subseteq Range(toDB[k]) /\ Before(toDB'[k]) \subseteq Before(toDB[k])
  <2>1. UNCHANGED toDB \/ \E c \in Cores : Process(c)
    BY DEF DBStep
  <2>. QED BY <2>1, TakenQueue
<1>3. ASSUME NEW c \in Cores, Offered(c)
      PROVE  OnceIn(toDB'[k], toGame'[k])
  <2> DEFINE o == Offer(Head(toDB[c]))
  <2>1. UNCHANGED crashed
    BY DBBinds DEF gameVars
  <2>2. /\ \A m \in Range(toGame'[k]) : m \in Range(toGame[k]) \/ (k = c /\ m = o)
        /\ \A p \in Before(toGame'[k]) : p \in Before(toGame[k])
             \/ (k = c /\ p[1] \in Range(toGame[k]) /\ p[2] = o)
    BY <1>1, <1>3, <2>1, OfferIsNew
  <2>3. /\ \A m \in Range(toGame[k]) : m.kind \in Offering => m.token # o.token
        /\ \A m \in Range(toDB[k]) : m.kind \in Answering => m.token # o.token
    BY <1>1, <1>3, TokenIsNew
  <2> HIDE DEF o
  <2>. QED BY <1>1, <1>2, <2>2, <2>3 DEF OnceIn
<1>4. CASE /\ \A m \in Range(toGame'[k]) : m \in Range(toGame[k]) \/ m.kind # "BuyRequest"
           /\ \A p \in Before(toGame'[k]) : p \in Before(toGame[k]) \/ p[2].kind # "BuyRequest"
  BY <1>1, <1>2, <1>4, OnceBeside
<1>. QED BY <1>1, <1>3, <1>4, DBFeeds

LEMMA OnceByCore ==
    ASSUME TypeOK, OffersInv, NEW c \in Cores, Receive(c), NEW k \in Cores
    PROVE  OnceIn(toDB'[k], toGame'[k])
<1> DEFINE m == Head(toGame[c])
<1>1. OnceIn(toDB[k], toGame[k])
  BY DEF OffersInv, AnsweredOnce, OnceIn
<1>2. /\ Range(toGame'[k]) \subseteq Range(toGame[k]) /\ Before(toGame'[k]) \subseteq Before(toGame[k])
      /\ m \in Range(toGame[c]) /\ m \in MsgToGame /\ \A n \in Range(toGame'[c]) : <<m, n>> \in Before(toGame[c])
  BY ReadQueue
<1>3. m.kind \in Offering => \A n \in Range(toGame'[c]) : n.kind = "BuyRequest" => m.token # n.token
  <2> SUFFICES ASSUME m.kind \in Offering, NEW n \in Range(toGame'[c]), n.kind = "BuyRequest"
               PROVE  m.token # n.token
    OBVIOUS
  <2> DEFINE p == <<m, n>>
  <2>1. p \in Before(toGame[c]) /\ p[1] = m /\ p[2] = n
    BY <1>2
  <2> HIDE DEF p, m
  <2>2. p[1].kind \in Offering /\ p[2].kind = "BuyRequest" => p[1].token # p[2].token
    BY <2>1 DEF OffersInv, AnsweredOnce
  <2>. QED BY <2>1, <2>2
<1>4. \A a \in Range(toDB[c]) : a.kind \in Answering /\ m.kind = "BuyRequest" => a.token # m.token
  BY <1>2 DEF OffersInv, AnsweredOnce
<1>5. /\ \A a \in Range(toDB'[k]) : a \notin Range(toDB[k]) =>
           k = c /\ (a.kind = "Buy" => Bought(c, m)) /\ (a.kind = "FailedBuy" => Declined(c, m))
      /\ \A p \in Before(toDB'[k]) : p \notin Before(toDB[k]) => k = c /\ (p[2].kind = "Buy" => Bought(c, m))
  BY CoreFeeds
<1> HIDE DEF m
<1>6. CASE k = c /\ Bought(c, m)
  <2>1. m.kind = "BuyRequest" /\ m.kind \in Offering
    BY <1>6 DEF Bought, Offering
  <2> DEFINE s == Save(m)
             b == Payment(m)
  <2>2. /\ Range(toDB'[k]) = Range(toDB[k]) \cup {s, b}
        /\ Before(toDB'[k]) = Before(toDB[k]) \cup ({<<s, b>>} \cup (Range(toDB[k]) \X {s, b}))
    BY <1>2, <1>6, BoughtSends
  <2>3. b.kind = "Buy" /\ b.token = m.token /\ s.kind = "ItemSave"
    BY PaymentNames
  <2> HIDE DEF s, b
  <2>4. "ItemSave" \notin Answering /\ "ItemSave" # "Buy"
    BY DEF Answering
  <2>5. ASSUME NEW p \in Before(toDB'[k]), p[1].kind \in Answering, p[2].kind = "Buy"
        PROVE  p[1].token # p[2].token
    <3>1. CASE p \in Before(toDB[k])
      BY <1>1, <2>5, <3>1 DEF OnceIn
    <3>2. CASE p = <<s, b>>
      BY <2>3, <2>4, <2>5, <3>2
    <3>3. CASE p \in Range(toDB[k]) \X {s, b}
      <4>1. p[1] \in Range(toDB[k]) /\ p[2] \in {s, b}
        BY <3>3
      <4>2. p[2] = b
        BY <2>3, <2>4, <2>5, <4>1
      <4>. QED BY <1>4, <1>6, <2>1, <2>3, <2>5, <4>1, <4>2
    <3>. QED BY <2>2, <2>5, <3>1, <3>2, <3>3
  <2>6. ASSUME NEW a \in Range(toDB'[k]), NEW n \in Range(toGame'[k]), a.kind \in Answering, n.kind = "BuyRequest"
        PROVE  a.token # n.token
    <3>1. CASE a \in Range(toDB[k])
      BY <1>1, <1>2, <2>6, <3>1 DEF OnceIn
    <3>2. CASE a = b
      BY <1>3, <1>6, <2>1, <2>3, <2>6, <3>2
    <3>. QED BY <2>2, <2>3, <2>4, <2>6, <3>1, <3>2
  <2>. QED BY <1>1, <1>2, <2>5, <2>6 DEF OnceIn
<1>7. CASE ~(k = c /\ Bought(c, m))
  <2>1. ASSUME NEW a \in Range(toDB'[k]), NEW n \in Range(toGame'[k]), a.kind \in Answering, n.kind = "BuyRequest"
        PROVE  a.token # n.token
    <3>1. CASE a \in Range(toDB[k])
      BY <1>1, <1>2, <2>1, <3>1 DEF OnceIn
    <3>2. CASE a \notin Range(toDB[k])
      <4>1. k = c /\ Declined(c, m)
        BY <1>5, <1>7, <2>1, <3>2 DEF Answering
      <4>2. m.kind \in Offering /\ Send(c, <<Refusal(m)>>)
        BY <4>1 DEF Declined
      <4> DEFINE r == Refusal(m)
      <4>3. r.token = m.token /\ r \in MsgToDB
        BY <1>2, <4>2, GameMsgFields DEF Refusal, Offering, MsgToDB
      <4>4. Send(c, <<r>>)
        BY <4>2
      <4> HIDE DEF r
      <4> DEFINE l == <<r>>
      <4>5. l \in Seq(MsgToDB) /\ Range(l) = {r} /\ Send(c, l) /\ toDB \in MailToDB
        BY <4>3, <4>4, QueueOfOne DEF TypeOK, WireTypeOK, MailToDB
      <4> HIDE DEF l
      <4>6. Range(toDB'[k]) = Range(toDB[k]) \cup (IF k = c THEN Range(l) ELSE {})
        BY <4>5, SentQueue
      <4>7. a = r
        BY <2>1, <3>2, <4>5, <4>6
      <4>. QED BY <1>3, <2>1, <4>1, <4>2, <4>3, <4>7
    <3>. QED BY <3>1, <3>2
  <2>2. \A p \in Before(toDB'[k]) : p \in Before(toDB[k]) \/ p[2].kind # "Buy"
    BY <1>5, <1>7
  <2>. QED BY <1>1, <1>2, <2>1, <2>2 DEF OnceIn
<1>. QED BY <1>6, <1>7

LEMMA AnsweredOnceStep == ASSUME TypeOK, OffersInv, Next PROVE AnsweredOnce'
<1>1. \A c \in Cores : OnceIn(toDB[c], toGame[c])
  BY DEF OffersInv, AnsweredOnce, OnceIn
<1>2. ASSUME NEW k \in Cores
      PROVE  OnceIn(toDB'[k], toGame'[k])
  <2>1. CASE DBStep
    BY <2>1, OnceByDB
  <2>2. CASE GameStep
    BY <2>2, OnceByCore DEF GameStep
  <2>3. CASE ClientStep
    <3>1. UNCHANGED toGame
      BY <2>3 DEF ClientStep
    <3>2. /\ \A a \in Range(toDB'[k]) : a \in Range(toDB[k]) \/ a.kind \in Requests
          /\ \A p \in Before(toDB'[k]) : p \in Before(toDB[k]) \/ p[2].kind \in Requests
      BY <2>3, ClientFeeds
    <3>3. \A x \in Requests : x \notin Answering /\ x # "Buy"
      BY DEF Requests, Asking, Answering
    <3>. QED BY <1>1, <3>1, <3>2, <3>3, OnceBeside
  <2>4. CASE EnvStep
    <3>1. \A c : OwnerLogin(c) => UNCHANGED toDB
      BY DEF OwnerLogin, NoSend
    <3>2. UNCHANGED <<toDB, toGame>> \/ \E c \in Cores : CoreCrash(c)
      BY <2>4, <3>1 DEF EnvStep
    <3>3. /\ Range(toDB'[k]) \subseteq Range(toDB[k]) /\ Before(toDB'[k]) \subseteq Before(toDB[k])
          /\ Range(toGame'[k]) \subseteq Range(toGame[k]) /\ Before(toGame'[k]) \subseteq Before(toGame[k])
      BY <3>2, CutQueue
    <3>. QED BY <1>1, <3>3, OnceShrinks
  <2>. QED BY <2>1, <2>2, <2>3, <2>4 DEF Next
<1>. QED BY <1>2 DEF AnsweredOnce, OnceIn

\* Nothing is ever asked that takes an item off the shop without a look at its reservation:
\* no closing, no check-out and no lifetime that ends (PrivateShopClose with
\* PrivateShopItemTransfer and PrivateShopDelete, PrivateShopItemCheckoutUpdate,
\* PrivateShopItemExpire).  With these, results that rest on it can be false.
NothingTaken == Limit["close"] = 0 /\ Limit["checkout"] = 0 /\ Limit["itemTimeout"] = 0

LEMMA StartIsEmpty ==
    ASSUME Init
    PROVE  /\ \A c \in Cores : /\ toDB[c] = <<>> /\ toGame[c] = <<>>
                               /\ Range(toDB[c]) = {} /\ Range(toGame[c]) = {}
                               /\ Before(toDB[c]) = {} /\ Before(toGame[c]) = {}
           /\ crashed = {} /\ peers = Cores /\ budget = Limit
<1>1. /\ crashed = {} /\ peers = Cores /\ budget = Limit
      /\ toDB = [c \in Cores |-> <<>>] /\ toGame = [c \in Cores |-> <<>>]
  BY DEF Init, Nothing
<1>2. Range(<<>>) = {} /\ Before(<<>>) = {}
  BY QueueOfNone
<1>. QED BY <1>1, <1>2

LEMMA OffersInit == ASSUME NothingTaken, Init PROVE OffersInv
<1>1. CloseUnasked /\ TakeUnasked /\ CustomersAlive /\ GoneIsRead /\ OffersHeld /\ AnsweredOnce
  BY StartIsEmpty DEF NothingTaken, CloseUnasked, TakeUnasked, CustomersAlive, GoneIsRead, OffersHeld, AnsweredOnce
<1>. QED BY <1>1, SessionsInit, AnswersInit DEF OffersInv

LEMMA OffersStep == ASSUME TypeOK, OffersInv, [Next]_vars PROVE OffersInv'
<1>1. SessionsInv' /\ AnswersInv'
  BY SessionsKept, AnswersStep DEF OffersInv
<1>2. ASSUME Next
      PROVE  (CloseUnasked /\ TakeUnasked /\ CustomersAlive /\ GoneIsRead /\ OffersHeld /\ AnsweredOnce)'
  BY <1>2, UnaskedStep, CustomersAliveStep, GoneIsReadStep, OffersHeldStep, AnsweredOnceStep DEF OffersInv
<1>3. ASSUME UNCHANGED vars
      PROVE  (CloseUnasked /\ TakeUnasked /\ CustomersAlive /\ GoneIsRead /\ OffersHeld /\ AnsweredOnce)'
  BY <1>3 DEF vars, dbVars, gameVars, OffersInv, CloseUnasked, TakeUnasked, CustomersAlive, GoneIsRead,
              OffersHeld, AnsweredOnce, HeldFor
<1>. QED BY <1>1, <1>2, <1>3 DEF OffersInv

LEMMA OffersInvariant == ASSUME NothingTaken PROVE Spec => []OffersInv
<1>1. Init => OffersInv
  BY OffersInit
<1>2. TypeOK /\ OffersInv /\ [Next]_vars => OffersInv'
  BY OffersStep
<1>. QED BY <1>1, <1>2, TypeInvariant, PTL DEF Spec

\* A customer who is offered an item, or pays for it, finds item and price held for the
\* offer until the owner is credited (PrivateShopBuyRequest, PrivateShopBuy,
\* PrivateShopFailedBuy, UpdatePrivateShopPremiumEvent, ItemTransaction): with the
\* owner editing, logging in and out, withdrawing, and with crashes and refusals.
THEOREM OffersAreHeld == ASSUME NothingTaken PROVE Spec => []OfferIsHeld
<1>1. TypeOK /\ OffersInv => OfferIsHeld
  <2> SUFFICES ASSUME TypeOK, OffersInv
               PROVE  OfferIsHeld
    OBVIOUS
  <2>1. \A c \in Cores : /\ \A n \in DOMAIN toGame[c] : toGame[c][n] \in Range(toGame[c])
                         /\ \A n \in DOMAIN toDB[c] : toDB[c][n] \in Range(toDB[c])
    BY DEF Range
  <2>. QED BY <2>1 DEF OffersInv, OffersHeld, OfferIsHeld
<1>. QED BY <1>1, OffersInvariant, TypeInvariant, PTL

\* A hold ends by its own payment or refusal, or because its buyer's core is gone: never
\* by a late answer to an earlier hold of the position, by an edit or by a reload of the
\* shop (PrivateShopBuy, PrivateShopFailedBuy, UpdatePrivateShopPremiumEvent).
THEOREM HoldsEndByOwnAnswer == ASSUME NothingTaken PROVE Spec => HoldEndsByOwnAnswer
<1> DEFINE Ends(p) ==
      (slot'[p].avail \/ slot'[p].token # slot[p].token) =>
          \/ slot[p].buyer \notin peers
          \/ \E c \in Cores : /\ toDB[c] # <<>> /\ toDB' = [toDB EXCEPT ![c] = Tail(@)]
                              /\ c = slot[p].buyer /\ Head(toDB[c]).kind \in {"Buy", "FailedBuy"}
                              /\ Head(toDB[c]).token = slot[p].token
<1>1. TypeOK /\ OffersInv /\ [Next]_vars => [\A p \in Reserved(slot) : Ends(p)]_vars
  <2> SUFFICES ASSUME TypeOK, OffersInv, Next, NEW p \in Reserved(slot)
               PROVE  Ends(p)
    OBVIOUS
  <2>1. ~slot[p].avail
    BY DEF Reserved
  <2>2. Same(p) \/ slot[p].buyer \notin peers \/ \E c \in Cores : AnsweredBy(c, p)
    BY HoldsStay DEF OffersInv
  <2>. QED BY <2>1, <2>2 DEF Same, AnsweredBy, Process, Answering
<1>. QED BY <1>1, OffersInvariant, TypeInvariant, PTL DEF Spec, HoldEndsByOwnAnswer

=============================================================================
