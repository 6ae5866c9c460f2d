---------------------------- MODULE PrivateShopSales ----------------------------
(***************************************************************************)
(* The sales of the private shop, for every number of cores, customers,    *)
(* positions and items: gold is conserved, a withdrawal is covered, no     *)
(* item is lost or duplicated, the shop keeps its contract, and its host   *)
(* shows what is on sale.                                                  *)
(*                                                                         *)
(* Six invariants on top of OffersInv, each on those before it, but for    *)
(* the last, which needs none of the others.                               *)
(*   BalanceInv   what the owner's panel shows, what is on its way to it   *)
(*                and what has been paid out is no more than the balance;  *)
(*   GoldInv      gold in purses, balance and connections adds up;         *)
(*   StoreInv     an item is in the shop or in a row of the database, and  *)
(*                the buyer's row is written before the payment is read;   *)
(*   HandoverInv  what a customer has got is in the shop only until the    *)
(*                payment under way is read;                               *)
(*   Books        what the contract calls owed is what has left the purses;*)
(*   HostInv      what is on its way to the host turns its copy into what  *)
(*                the DB process has on sale, but for what a customer on   *)
(*                the host has paid for without the DB process knowing.    *)
(***************************************************************************)
EXTENDS PrivateShopProofs

-----------------------------------------------------------------------------
\* Gold under way.

\* What a packet to the DB process takes off the balance, and what it adds to it; what
\* a packet to a core tells the owner's session s.
TakenBy == [m \in MsgToDB |-> IF m.kind = "WithdrawDone" THEN m.gold ELSE 0]
PaidBy == [m \in MsgToDB |-> IF m.kind = "Buy" THEN m.price ELSE 0]
ToldTo(s) == [m \in MsgToGame |-> IF m.kind = "Load" /\ m.sess = s THEN m.gold
                                  ELSE IF m.kind = "Sale" /\ m.sess = s THEN m.price ELSE 0]

\* What all the packets to the DB process amount to.
Total(d, w) == SumFunction([c \in Cores |-> Tally(d[c], w)])

LEMMA WeightTypes ==
    /\ TakenBy \in [MsgToDB -> Nat] /\ PaidBy \in [MsgToDB -> Nat]
    /\ \A s : ToldTo(s) \in [MsgToGame -> Nat]
<1>1. /\ \A m \in MsgToDB : m.kind = "WithdrawDone" => m.gold \in Nat
      /\ \A m \in MsgToDB : m.kind = "Buy" => m.price \in Nat
  BY DEF MsgToDB
<1>2. /\ \A m \in MsgToGame : m.kind = "Load" => m.gold \in Nat
      /\ \A m \in MsgToGame : m.kind = "Sale" => m.price \in Nat
  BY DEF MsgToGame
<1>. QED BY <1>1, <1>2 DEF TakenBy, PaidBy, ToldTo

LEMMA Weighs ==
    /\ \A m \in MsgToDB : m.kind # "WithdrawDone" => TakenBy[m] = 0
    /\ \A m \in MsgToDB : m.kind = "WithdrawDone" => TakenBy[m] = m.gold
    /\ \A m \in MsgToDB : m.kind # "Buy" => PaidBy[m] = 0
    /\ \A m \in MsgToDB : m.kind = "Buy" => PaidBy[m] = m.price
    /\ \A s : \A m \in MsgToGame : m.kind \notin {"Load", "Sale"} \/ m.sess # s => ToldTo(s)[m] = 0
    /\ \A s : \A m \in MsgToGame : m.kind = "Load" /\ m.sess = s => ToldTo(s)[m] = m.gold
    /\ \A s : \A m \in MsgToGame : m.kind = "Sale" /\ m.sess = s => ToldTo(s)[m] = m.price
BY DEF TakenBy, PaidBy, ToldTo

LEMMA IntWeights == ASSUME NEW T, NEW w \in [T -> Nat] PROVE w \in [T -> Int]
OBVIOUS

LEMMA TotalIs ==
    ASSUME NEW d \in MailToDB, NEW w \in [MsgToDB -> Nat]
    PROVE  /\ Total(d, w) \in Nat /\ \A c \in Cores : Tally(d[c], w) \in Nat /\ Tally(d[c], w) <= Total(d, w)
           /\ [c \in Cores |-> Tally(d[c], w)] \in [Cores -> Nat]
<1> DEFINE f == [c \in Cores |-> Tally(d[c], w)]
<1>1. \A c \in Cores : d[c] \in Seq(MsgToDB)
  BY DEF MailToDB
<1>2. \A c \in Cores : Tally(d[c], w) \in Nat
  BY <1>1, TallyOfNats
<1>3. f \in [Cores -> Nat] /\ IsFiniteSet(Cores) /\ \A c \in Cores : f[c] = Tally(d[c], w)
  BY <1>2, ShopAssumption
<1>4. Total(d, w) = SumFunction(f)
  BY DEF Total
<1> HIDE DEF f
<1>5. SumFunction(f) \in Nat /\ \A c \in Cores : f[c] <= SumFunction(f)
  BY <1>3, SumOfNats
<1>6. f \in [Cores -> Nat]
  BY <1>3
<1>. QED BY <1>2, <1>3, <1>4, <1>5, <1>6 DEF f

\* What changes on one connection.
LEMMA TotalChange ==
    ASSUME NEW d \in MailToDB, NEW e \in MailToDB, NEW w \in [MsgToDB -> Nat], NEW c \in Cores,
           \A k \in Cores : k # c => e[k] = d[k]
    PROVE  Total(e, w) = Total(d, w) + (Tally(e[c], w) - Tally(d[c], w))
<1> DEFINE f == [k \in Cores |-> Tally(d[k], w)]
           g == [k \in Cores |-> Tally(e[k], w)]
<1>1. f \in [Cores -> Nat] /\ g \in [Cores -> Nat]
  BY TotalIs
<1>2. /\ f[c] = Tally(d[c], w) /\ g[c] = Tally(e[c], w)
      /\ Total(d, w) = SumFunction(f) /\ Total(e, w) = SumFunction(g)
      /\ \A k \in Cores : k # c => g[k] = f[k]
  BY DEF Total
<1> HIDE DEF f, g
<1>3. f \in [Cores -> Int] /\ g \in [Cores -> Int] /\ IsFiniteSet(Cores)
  BY <1>1, ShopAssumption
<1>4. ChangedAt(f, g, Cores, c, c)
  BY <1>2, <1>3 DEF ChangedAt
<1>5. SumFunction(f) \in Int /\ SumFunction(g) = SumFunction(f) + (g[c] - f[c]) + 0
  BY <1>4, SumChange
<1>6. f[c] \in Nat /\ g[c] \in Nat
  BY <1>1
<1>. QED BY <1>2, <1>5, <1>6

LEMMA TotalSent ==
    ASSUME TypeOK, NEW w \in [MsgToDB -> Nat], NEW c \in Cores, NEW ms \in Seq(MsgToDB), Send(c, ms)
    PROVE  Total(toDB', w) = Total(toDB, w) + Tally(ms, w) /\ toDB' \in MailToDB /\ Tally(ms, w) \in Nat
<1>1. toDB \in MailToDB /\ w \in [MsgToDB -> Int]
  BY IntWeights DEF TypeOK, WireTypeOK, MailToDB
<1>2. \A k \in Cores : toDB'[k] = IF k = c THEN toDB[k] \o ms ELSE toDB[k]
  BY <1>1, SentQueue
<1>3. toDB' \in MailToDB
  <2>1. toDB' = [toDB EXCEPT ![c] = toDB[c] \o ms]
    BY DEF Send
  <2>2. toDB[c] \in Seq(MsgToDB)
    BY <1>1 DEF MailToDB
  <2>3. toDB[c] \o ms \in Seq(MsgToDB)
    BY <2>2, ConcatProperties
  <2>. QED BY <1>1, <2>1, <2>3 DEF MailToDB
<1>4. toDB[c] \in Seq(MsgToDB)
  BY <1>1 DEF MailToDB
<1>5. Tally(toDB[c] \o ms, w) = Tally(toDB[c], w) + Tally(ms, w)
  BY <1>1, <1>4, TallyCat
<1>6. Total(toDB', w) = Total(toDB, w) + (Tally(toDB'[c], w) - Tally(toDB[c], w))
  BY <1>1, <1>2, <1>3, TotalChange
<1>7. Tally(toDB[c], w) \in Nat /\ Tally(ms, w) \in Nat /\ Total(toDB, w) \in Nat
  BY <1>1, <1>4, TallyOfNats, TotalIs
<1>. QED BY <1>2, <1>3, <1>5, <1>6, <1>7

LEMMA TotalRead ==
    ASSUME TypeOK, NEW w \in [MsgToDB -> Nat], NEW c \in Cores, Process(c)
    PROVE  /\ Total(toDB, w) = w[Head(toDB[c])] + Total(toDB', w) /\ toDB' \in MailToDB
           /\ w[Head(toDB[c])] \in Nat /\ Total(toDB', w) \in Nat
<1>1. toDB \in MailToDB /\ w \in [MsgToDB -> Int]
  BY IntWeights DEF TypeOK, WireTypeOK, MailToDB
<1>2. /\ \A k \in Cores : toDB'[k] = IF k = c THEN Tail(toDB[c]) ELSE toDB[k]
      /\ toDB[c] \in Seq(MsgToDB) /\ toDB[c] # <<>> /\ Head(toDB[c]) \in MsgToDB
  BY TakenQueue
<1>3. toDB' \in MailToDB
  <2>1. toDB' = [toDB EXCEPT ![c] = Tail(toDB[c])]
    BY DEF Process
  <2>. QED BY <1>1, <1>2, <2>1, QueueTail DEF MailToDB
<1>4. Tally(toDB[c], w) = w[Head(toDB[c])] + Tally(Tail(toDB[c]), w)
  BY <1>1, <1>2, TallyTail
<1>5. Total(toDB', w) = Total(toDB, w) + (Tally(toDB'[c], w) - Tally(toDB[c], w))
  BY <1>1, <1>2, <1>3, TotalChange
<1>6. /\ Tally(toDB[c], w) \in Nat /\ Tally(toDB'[c], w) \in Nat
      /\ Total(toDB, w) \in Nat /\ Total(toDB', w) \in Nat
  BY <1>1, <1>3, TotalIs
<1>7. w[Head(toDB[c])] \in Nat
  BY <1>2
<1>. QED BY <1>2, <1>3, <1>4, <1>5, <1>6, <1>7

LEMMA TotalCut ==
    ASSUME TypeOK, NEW w \in [MsgToDB -> Nat], NEW c \in Cores, CoreCrash(c)
    PROVE  Total(toDB', w) <= Total(toDB, w) /\ Total(toDB', w) \in Nat /\ Total(toDB, w) \in Nat
<1>1. toDB \in MailToDB /\ toDB' \in MailToDB
  <2>1. toDB \in MailToDB
    BY DEF TypeOK, WireTypeOK, MailToDB
  <2>2. PICK n \in 0 .. Len(toDB[c]) : toDB' = [toDB EXCEPT ![c] = SubSeq(@, 1, n)]
    BY DEF CoreCrash
  <2>3. toDB[c] \in Seq(MsgToDB)
    BY <2>1 DEF MailToDB
  <2>4. SubSeq(toDB[c], 1, n) \in Seq(MsgToDB)
    BY <2>3, QueuePrefix
  <2>. QED BY <2>1, <2>2, <2>4 DEF MailToDB
<1>2. \A k \in Cores : k # c => toDB'[k] = toDB[k]
  BY CutQueue
<1>3. PICK n \in 0 .. Len(toDB[c]) : toDB'[c] = SubSeq(toDB[c], 1, n)
  BY CutQueue
<1>4. toDB[c] \in Seq(MsgToDB)
  BY <1>1 DEF MailToDB
<1>5. Tally(toDB'[c], w) <= Tally(toDB[c], w)
  BY <1>3, <1>4, IntWeights, TallyOfPrefix
<1>6. Total(toDB', w) = Total(toDB, w) + (Tally(toDB'[c], w) - Tally(toDB[c], w))
  BY <1>1, <1>2, TotalChange
<1>7. /\ Tally(toDB[c], w) \in Nat /\ Tally(toDB'[c], w) \in Nat
      /\ Total(toDB, w) \in Nat /\ Total(toDB', w) \in Nat
  BY <1>1, TotalIs
<1>. QED BY <1>5, <1>6, <1>7

LEMMA SumIsTotal ==
    ASSUME toDB \in MailToDB
    PROVE  /\ Sum("WithdrawDone", "gold") = Total(toDB, TakenBy)
           /\ Sum("Buy", "price") = Total(toDB, PaidBy)
<1>1. \A c \in Cores : toDB[c] \in Seq(MsgToDB)
  BY DEF MailToDB
<1>2. ASSUME NEW c \in Cores
      PROVE  /\ Worth(toDB[c], "WithdrawDone", "gold") = Tally(toDB[c], TakenBy)
             /\ Worth(toDB[c], "Buy", "price") = Tally(toDB[c], PaidBy)
  <2> DEFINE q == toDB[c]
             f == [n \in DOMAIN q |-> IF q[n].kind = "WithdrawDone" THEN q[n].gold ELSE 0]
             g == [n \in DOMAIN q |-> IF q[n].kind = "Buy" THEN q[n].price ELSE 0]
  <2>1. \A n \in DOMAIN q : q[n] \in MsgToDB
    BY <1>1
  <2> HIDE DEF q
  <2>2. f = [n \in DOMAIN q |-> TakenBy[q[n]]] /\ g = [n \in DOMAIN q |-> PaidBy[q[n]]]
    BY <2>1 DEF TakenBy, PaidBy
  <2>3. /\ Worth(q, "WithdrawDone", "gold") = SumFunction(f)
        /\ Worth(q, "Buy", "price") = SumFunction(g)
    BY DEF Worth
  <2>. QED BY <2>2, <2>3 DEF Tally, q
<1>3. /\ [c \in Cores |-> Worth(toDB[c], "WithdrawDone", "gold")] = [c \in Cores |-> Tally(toDB[c], TakenBy)]
      /\ [c \in Cores |-> Worth(toDB[c], "Buy", "price")] = [c \in Cores |-> Tally(toDB[c], PaidBy)]
  BY <1>2
<1>. QED BY <1>3 DEF Sum, Total

-----------------------------------------------------------------------------
\* The balance.

\* The balance is kept, and a shop that goes has none.
Keeps == gold' = gold /\ (state' = "none" => state = "none" \/ gold' = 0)

LEMMA RemovalKeepsGold == ASSUME gold \in Nat, NEW rest, NEW out, AfterRemoval(rest, out) PROVE Keeps
BY DEF AfterRemoval, Vanish, Keeps

\* What a packet does to the balance, when it does not delete the shop.
LEMMA GoldByPacket ==
    ASSUME TypeOK, NEW c \in Cores, Process(c), Head(toDB[c]).kind # "Delete"
    PROVE  LET m == Head(toDB[c])
           IN /\ m.kind = "Buy" /\ Holds(c, m) => gold' = gold + slot[m.pos].price /\ state' # "none"
              /\ m.kind = "WithdrawDone" /\ Exists /\ m.gold <= gold
                   => gold' = gold - m.gold /\ (state' = "none" => gold' = 0)
              /\ ~(m.kind = "Buy" /\ Holds(c, m)) /\ ~(m.kind = "WithdrawDone" /\ Exists /\ m.gold <= gold)
                   => Keeps
<1> DEFINE m == Head(toDB[c])
<1>1. m \in MsgToDB /\ gold \in Nat
  BY TakenQueue DEF TypeOK, DBTypeOK
<1>2. m.kind = "WithdrawDone" => m.gold \in Nat
  BY <1>1, DBMsgFields
<1>3. /\ m.kind = "Buy" => PrivateShopBuy(c, m)
      /\ m.kind = "WithdrawDone" => PrivateShopWithdraw(c, m)
  BY AnswerRead
<1>4. \/ PrivateShopBuyRequest(c, m) \/ PrivateShopFailedBuy(c, m)
      \/ PrivateShopModifyRequest(c, m) \/ PrivateShopItemPriceChangeRequest(c, m)
      \/ PrivateShopItemMoveRequest(c, m) \/ PrivateShopItemCheckinUpdate(c, m)
      \/ PrivateShopItemCheckoutUpdate(c, m) \/ PrivateShopItemExpire(c, m)
      \/ m.kind \in {"Buy", "WithdrawDone"} \/ PrivateShopItemTransfer(c, m)
      \/ QueryItemSave(c, m) \/ PrivateShopItemCheckinRequest(c, m)
      \/ PrivateShopItemCheckoutRequest(c, m) \/ PrivateShopWithdrawRequest(c, m)
      \/ PrivateShopClose(c, m) \/ PrivateShopLogout(c, m) \/ AccountLogout(c, m)
  <2>1. /\ PrivateShopBuy(c, m) => m.kind = "Buy"
        /\ PrivateShopWithdraw(c, m) => m.kind = "WithdrawDone"
        /\ PrivateShopDelete(c, m) => m.kind = "Delete"
    BY Zenon DEF PrivateShopBuy, PrivateShopWithdraw, PrivateShopDelete
  <2>2. m.kind = "Buy" \/ m.kind = "WithdrawDone" => m.kind \in {"Buy", "WithdrawDone"}
    OBVIOUS
  <2>. QED BY Zenon, <2>1, <2>2 DEF Process, m
<1> HIDE DEF m
<1>5. UNCHANGED <<gold, state>> => Keeps
  BY <1>1 DEF Keeps
<1>6. /\ PrivateShopBuyRequest(c, m) \/ PrivateShopFailedBuy(c, m) => UNCHANGED <<gold, state>>
      /\ QueryItemSave(c, m) \/ PrivateShopLogout(c, m) \/ AccountLogout(c, m) => UNCHANGED <<gold, state>>
      /\ PrivateShopItemPriceChangeRequest(c, m) \/ PrivateShopItemMoveRequest(c, m)
           \/ PrivateShopItemCheckinUpdate(c, m) \/ PrivateShopItemTransfer(c, m) => UNCHANGED <<gold, state>>
  BY DEF PrivateShopBuyRequest, PrivateShopFailedBuy, QueryItemSave, PrivateShopLogout, AccountLogout,
         PrivateShopItemPriceChangeRequest, PrivateShopItemMoveRequest, PrivateShopItemCheckinUpdate,
         PrivateShopItemTransfer, Refused, dbVars
<1>7. PrivateShopItemCheckinRequest(c, m) \/ PrivateShopItemCheckoutRequest(c, m)
        \/ PrivateShopWithdrawRequest(c, m) \/ PrivateShopClose(c, m) => UNCHANGED <<gold, state>>
  BY DEF PrivateShopItemCheckinRequest, PrivateShopItemCheckoutRequest, PrivateShopWithdrawRequest,
         PrivateShopClose, dbVars
<1>8. PrivateShopModifyRequest(c, m) => Keeps
  BY <1>1 DEF PrivateShopModifyRequest, MayModify, Refused, dbVars, Keeps
<1>9. PrivateShopItemCheckoutUpdate(c, m) \/ PrivateShopItemExpire(c, m) => Keeps
  <2>1. PrivateShopItemCheckoutUpdate(c, m) \/ PrivateShopItemExpire(c, m) =>
          UNCHANGED <<gold, state>> \/ \E rest, out : AfterRemoval(rest, out)
    BY DEF PrivateShopItemCheckoutUpdate, PrivateShopItemExpire, Refused, dbVars
  <2>. QED BY <1>1, <1>5, <2>1, RemovalKeepsGold
<1>10. m.kind = "Buy" => IF Holds(c, m) THEN gold' = gold + slot[m.pos].price /\ state' # "none" ELSE Keeps
  <2>1. m.kind = "Buy" /\ ~Holds(c, m) => UNCHANGED <<gold, state>>
    BY <1>3 DEF PrivateShopBuy, Refused, dbVars
  <2>2. m.kind = "Buy" /\ Holds(c, m) => gold' = gold + slot[m.pos].price /\ state' # "none"
    BY <1>3 DEF PrivateShopBuy, Holds, Exists
  <2>. QED BY <1>5, <2>1, <2>2
<1>11. m.kind = "WithdrawDone" =>
         IF Exists /\ m.gold <= gold THEN gold' = gold - m.gold /\ (state' = "none" => gold' = 0) ELSE Keeps
  <2>1. m.kind = "WithdrawDone" /\ ~(Exists /\ m.gold <= gold) => UNCHANGED <<gold, state>>
    BY <1>3 DEF PrivateShopWithdraw, Refused, dbVars
  <2>2. m.kind = "WithdrawDone" /\ Exists /\ m.gold <= gold
          => gold' = gold - m.gold /\ (state' = "none" => gold' = 0)
    BY <1>1, <1>2, <1>3 DEF PrivateShopWithdraw, Vanish, Rest, Exists
  <2>. QED BY <1>5, <2>1, <2>2
<1>12. m.kind \in {"Buy", "WithdrawDone"} \/ Keeps
  BY <1>4, <1>5, <1>6, <1>7, <1>8, <1>9
<1>13. /\ m.kind = "Buy" /\ Holds(c, m) => gold' = gold + slot[m.pos].price /\ state' # "none"
       /\ m.kind = "WithdrawDone" /\ Exists /\ m.gold <= gold
            => gold' = gold - m.gold /\ (state' = "none" => gold' = 0)
       /\ ~(m.kind = "Buy" /\ Holds(c, m)) /\ ~(m.kind = "WithdrawDone" /\ Exists /\ m.gold <= gold) => Keeps
  BY <1>10, <1>11, <1>12
<1>. QED BY <1>13 DEF m

LEMMA GoldByItself ==
    ASSUME TypeOK, UpdatePrivateShopPremiumEvent \/ RESULT_PRIVATE_SHOP_LOAD \/ \E c \in Cores : RemovePeer(c)
    PROVE  Keeps
<1>1. gold \in Nat
  BY DEF TypeOK, DBTypeOK
<1>2. UpdatePrivateShopPremiumEvent => Keeps
  BY <1>1 DEF UpdatePrivateShopPremiumEvent, Emptied, Vanish, UpdatedState, Keeps
<1>3. RESULT_PRIVATE_SHOP_LOAD => Keeps
  BY <1>1 DEF RESULT_PRIVATE_SHOP_LOAD, Emptied, Vanish, LoadState, UpdatedState, Exists, Keeps
<1>4. \A c \in Cores : RemovePeer(c) => Keeps
  BY <1>1 DEF RemovePeer, Keeps
<1>. QED BY <1>2, <1>3, <1>4

\* Without an instance there is no balance.
GoneIsPaid == state = "none" => gold = 0

\* The balance after a step of the DB process: a payment adds its price, a withdrawal
\* takes off what it was under way for, and nothing else changes it.
LEMMA GoldStep ==
    ASSUME TypeOK, AnswersInv, CloseUnasked, GoneIsPaid, Total(toDB, TakenBy) <= gold, DBStep
    PROVE  /\ GoneIsPaid'
           /\ \A c \in Cores : Credited(c) => /\ gold' = gold + Head(toDB[c]).price
                                              /\ Total(toDB', TakenBy) = Total(toDB, TakenBy)
           /\ (\E c \in Cores : Credited(c)) \/ gold' + Total(toDB, TakenBy) = gold + Total(toDB', TakenBy)
<1>1. gold \in Nat /\ toDB \in MailToDB /\ TakenBy \in [MsgToDB -> Nat] /\ Total(toDB, TakenBy) \in Nat
  BY WeightTypes, TotalIs DEF TypeOK, DBTypeOK, WireTypeOK, MailToDB
<1>2. ASSUME NEW c \in Cores, Process(c)
      PROVE  /\ GoneIsPaid'
             /\ Credited(c) => /\ gold' = gold + Head(toDB[c]).price
                               /\ Total(toDB', TakenBy) = Total(toDB, TakenBy)
             /\ Credited(c) \/ gold' + Total(toDB, TakenBy) = gold + Total(toDB', TakenBy)
  <2> DEFINE m == Head(toDB[c])
  <2>1. m \in MsgToDB /\ m \in Range(toDB[c])
    BY <1>2, TakenQueue
  <2>2. m.kind # "Delete"
    BY <2>1 DEF CloseUnasked
  <2>3. /\ m.kind = "Buy" /\ Holds(c, m) => gold' = gold + slot[m.pos].price /\ state' # "none"
        /\ m.kind = "WithdrawDone" /\ Exists /\ m.gold <= gold
             => gold' = gold - m.gold /\ (state' = "none" => gold' = 0)
        /\ ~(m.kind = "Buy" /\ Holds(c, m)) /\ ~(m.kind = "WithdrawDone" /\ Exists /\ m.gold <= gold) => Keeps
    BY <1>2, <2>2, GoldByPacket
  <2>4. Credited(c) <=> m.kind = "Buy" /\ Holds(c, m)
    BY <1>2, AnswerRead DEF Credited, PrivateShopBuy
  <2>5. m.kind = "Buy" /\ Holds(c, m) => slot[m.pos].price = m.price
    <3>1. m.kind = "Buy" => NamesIn(slot, reservation, c, m)
      BY <2>1 DEF AnswersInv, TokensName, Answering
    <3>2. m.kind = "Buy" => m.pos \in Positions /\ m.item # NoItem
      BY <2>1, NamesItem
    <3> HIDE DEF m
    <3>3. m.kind = "Buy" /\ Holds(c, m) => m.pos \in Reserved(slot) /\ slot[m.pos].token = m.token
      BY <3>2, ReservedMember DEF Holds
    <3>. QED BY <3>1, <3>3 DEF NamesIn
  <2>6. /\ Total(toDB, TakenBy) = TakenBy[m] + Total(toDB', TakenBy)
        /\ TakenBy[m] \in Nat /\ Total(toDB', TakenBy) \in Nat
    BY <1>1, <1>2, TotalRead
  <2>7. TakenBy[m] = IF m.kind = "WithdrawDone" THEN m.gold ELSE 0
    BY <2>1, Weighs
  <2>8. Credited(c) => m.kind = "Buy" /\ gold' = gold + m.price
    BY <2>3, <2>4, <2>5
  <2>9. m.kind = "WithdrawDone" => m.gold <= gold /\ m.gold \in Nat
    BY <1>1, <2>6, <2>7
  <2> HIDE DEF m
  <2>10. Credited(c) => gold' = gold + m.price /\ Total(toDB', TakenBy) = Total(toDB, TakenBy)
    BY <2>6, <2>7, <2>8
  <2>11. ~Credited(c) => gold' + Total(toDB, TakenBy) = gold + Total(toDB', TakenBy)
    <3>1. CASE m.kind = "WithdrawDone" /\ Exists
      BY <1>1, <2>3, <2>6, <2>7, <2>9, <3>1
    <3>2. CASE m.kind = "WithdrawDone" /\ ~Exists
      BY <1>1, <2>3, <2>6, <2>7, <2>9, <3>2 DEF Exists, GoneIsPaid, Keeps
    <3>3. CASE m.kind # "WithdrawDone"
      BY <1>1, <2>3, <2>4, <2>6, <2>7, <3>3 DEF Keeps
    <3>. QED BY <3>1, <3>2, <3>3
  <2>12. GoneIsPaid'
    BY <1>1, <2>3 DEF Keeps, GoneIsPaid, Exists
  <2>. QED BY <2>10, <2>11, <2>12 DEF m
<1>3. ASSUME UNCHANGED toDB, UpdatePrivateShopPremiumEvent \/ RESULT_PRIVATE_SHOP_LOAD \/ \E c \in Cores : RemovePeer(c)
      PROVE  GoneIsPaid' /\ gold' + Total(toDB, TakenBy) = gold + Total(toDB', TakenBy) /\ \A c \in Cores : ~Credited(c)
  <2>1. Keeps
    BY <1>3, GoldByItself
  <2>2. \A c \in Cores : ~Credited(c)
    <3>1. ASSUME NEW c \in Cores, Process(c)
          PROVE  FALSE
      <4> DEFINE q == toDB[c]
      <4>1. q \in Seq(MsgToDB) /\ q # <<>> /\ q = Tail(q)
        BY <1>3, <3>1, TakenQueue
      <4> HIDE DEF q
      <4>. QED BY <4>1
    <3>. QED BY <3>1 DEF Credited
  <2>. QED BY <1>1, <1>3, <2>1, <2>2 DEF Keeps, GoneIsPaid
<1>. QED
  <2>1. ASSUME NEW c \in Cores, Credited(c)
        PROVE  gold' = gold + Head(toDB[c]).price /\ Total(toDB', TakenBy) = Total(toDB, TakenBy)
    BY <1>2, <2>1 DEF Credited
  <2>2. (\E c \in Cores : Process(c)) \/ (UNCHANGED toDB /\ (UpdatePrivateShopPremiumEvent \/ RESULT_PRIVATE_SHOP_LOAD
             \/ \E c \in Cores : RemovePeer(c)))
    BY DEF DBStep
  <2>. QED BY <1>2, <1>3, <2>1, <2>2

-----------------------------------------------------------------------------
\* What the owner's core has of the balance.

LEMMA SilentTally ==
    ASSUME TypeOK, Hushed, Silently, NEW k \in Cores, NEW s
    PROVE  /\ Tally(toGame'[k], ToldTo(s)) = Tally(toGame[k], ToldTo(s))
           /\ \A m \in Range(toGame'[k]) : m \in Range(toGame[k]) \/ m.kind \notin {"Load", "Sale"}
<1> DEFINE K == Dull \cup {"BuyRequest", "Checkout", "Destroy"}
           w == ToldTo(s)
           q == toGame[k]
<1>1. Mailed(K)
  BY DEF Silently
<1>2. \A m \in Of(K) : m \in MsgToGame /\ m.kind \notin {"Load", "Sale"}
  BY DEF Of, Dull
<1>3. \A m \in Of(K) : w[m] = 0
  BY <1>2, Weighs
<1>4. w \in [MsgToGame -> Int] /\ q \in Seq(MsgToGame)
  BY WeightTypes, IntWeights DEF TypeOK, WireTypeOK
<1> HIDE DEF K, w, q
<1>5. PICK t \in Seq(MsgToGame) : /\ t \in Seq(Of(K)) /\ Range(t) \subseteq Of(K)
                                  /\ toGame'[k] = IF k \in crashed THEN <<>> ELSE toGame[k] \o t
  BY <1>1, FedQueue
<1>6. Tally(t, w) = 0
  BY <1>3, <1>4, <1>5, TallyOfNothing
<1> DEFINE qt == q \o t
<1>7. Tally(qt, w) = Tally(q, w) + Tally(t, w) /\ Tally(q, w) \in Int
  BY <1>4, TallyCat
<1>8. toGame'[k] = q \/ toGame'[k] = qt
  BY <1>5 DEF Hushed, q
<1> HIDE DEF qt
<1>9. Tally(toGame'[k], w) = Tally(q, w)
  BY <1>6, <1>7, <1>8
<1>10. Range(toGame'[k]) \subseteq Range(toGame[k]) \cup Of(K)
  BY <1>1, FedRange
<1>. QED BY <1>2, <1>9, <1>10 DEF q, w

LEMMA ToldTally ==
    ASSUME TypeOK, Hushed, NEW c \in Cores, NEW m \in MsgToGame, MailedWith(c, m), NEW k \in Cores, k \notin crashed,
           NEW s
    PROVE  Tally(toGame'[k], ToldTo(s)) = Tally(toGame[k], ToldTo(s)) + (IF k = c THEN ToldTo(s)[m] ELSE 0)
<1> DEFINE w == ToldTo(s)
           q == toGame[k]
           l == <<m>>
<1>1. w \in [MsgToGame -> Int] /\ q \in Seq(MsgToGame)
  BY WeightTypes, IntWeights DEF TypeOK, WireTypeOK
<1>2. l \in Seq(MsgToGame) /\ Tally(l, w) = w[m] /\ w[m] \in Int
  BY <1>1, QueueOfOne, TallyOfOne
<1>3. \A a \in Of(Dull) : w[a] = 0
  <2>1. \A a \in Of(Dull) : a \in MsgToGame /\ a.kind \notin {"Load", "Sale"}
    BY DEF Of, Dull
  <2>. QED BY <2>1, Weighs
<1> HIDE DEF w, q
<1>4. PICK a, b \in Seq(MsgToGame) :
        /\ Range(a) \subseteq Of(Dull) /\ Range(b) \subseteq Of(Dull)
        /\ toGame'[k] = IF k \in crashed THEN <<>>
                        ELSE IF k = c THEN (toGame[k] \o a) \o (<<m>> \o b) ELSE toGame[k] \o (a \o b)
  BY FedWith
<1>5. Tally(a, w) = 0 /\ Tally(b, w) = 0
  <2>1. (\A n \in Range(a) : w[n] = 0) /\ (\A n \in Range(b) : w[n] = 0)
    BY <1>3, <1>4
  <2>. QED BY <1>1, <2>1, TallyOfNothing
<1>6. toGame'[k] = IF k = c THEN (q \o a) \o (l \o b) ELSE q \o (a \o b)
  BY <1>4 DEF q
<1> HIDE DEF l
<1> DEFINE qa == q \o a
           lb == l \o b
           ab == a \o b
<1>7. /\ qa \in Seq(MsgToGame) /\ Tally(qa, w) = Tally(q, w) + Tally(a, w) /\ Tally(q, w) \in Int
      /\ lb \in Seq(MsgToGame) /\ Tally(lb, w) = Tally(l, w) + Tally(b, w)
      /\ ab \in Seq(MsgToGame) /\ Tally(ab, w) = Tally(a, w) + Tally(b, w)
  <2>1. qa \in Seq(MsgToGame) /\ lb \in Seq(MsgToGame) /\ ab \in Seq(MsgToGame)
    BY <1>1, <1>2, ConcatProperties
  <2>2. Tally(qa, w) = Tally(q, w) + Tally(a, w) /\ Tally(q, w) \in Int
    BY <1>1, TallyCat
  <2>3. Tally(lb, w) = Tally(l, w) + Tally(b, w)
    BY <1>1, <1>2, TallyCat
  <2>4. Tally(ab, w) = Tally(a, w) + Tally(b, w)
    BY <1>1, TallyCat
  <2>. QED BY <2>1, <2>2, <2>3, <2>4
<1>8. toGame'[k] = IF k = c THEN qa \o lb ELSE q \o ab
  BY <1>6
<1> HIDE DEF qa, lb, ab
<1>9. Tally(qa \o lb, w) = Tally(qa, w) + Tally(lb, w) /\ Tally(q \o ab, w) = Tally(q, w) + Tally(ab, w)
  BY <1>1, <1>7, TallyCat
<1>10. Tally(toGame'[k], w) = Tally(q, w) + (IF k = c THEN w[m] ELSE 0)
  BY <1>2, <1>5, <1>7, <1>8, <1>9
<1>. QED BY <1>10 DEF q, w

LEMMA ReadTally ==
    ASSUME TypeOK, NEW c \in Cores, Receive(c), NEW k \in Cores, NEW s
    PROVE  /\ Tally(toGame[k], ToldTo(s)) = Tally(toGame'[k], ToldTo(s)) + (IF k = c THEN ToldTo(s)[Head(toGame[c])] ELSE 0)
           /\ Tally(toGame'[k], ToldTo(s)) \in Nat /\ ToldTo(s)[Head(toGame[c])] \in Nat
<1> DEFINE w == ToldTo(s)
<1>1. w \in [MsgToGame -> Nat] /\ w \in [MsgToGame -> Int]
  BY WeightTypes, IntWeights
<1>2. /\ toGame'[k] = IF k = c THEN Tail(toGame[c]) ELSE toGame[k]
      /\ toGame[k] \in Seq(MsgToGame) /\ toGame[c] # <<>> /\ toGame[c] \in Seq(MsgToGame)
      /\ Head(toGame[c]) \in MsgToGame
  BY ReadQueue
<1> HIDE DEF w
<1>3. toGame'[k] \in Seq(MsgToGame)
  BY <1>2, QueueTail
<1>4. Tally(toGame'[k], w) \in Nat
  BY <1>1, <1>3, TallyOfNats
<1>5. Tally(toGame[c], w) = w[Head(toGame[c])] + Tally(Tail(toGame[c]), w)
  BY <1>1, <1>2, TallyTail
<1>6. w[Head(toGame[c])] \in Nat
  BY <1>1, <1>2
<1>7. Tally(toGame[k], w) = Tally(toGame'[k], w) + (IF k = c THEN w[Head(toGame[c])] ELSE 0)
  BY <1>2, <1>4, <1>5, <1>6
<1>. QED BY <1>4, <1>6, <1>7 DEF w

\* As long as the shop query of the owner's session has not returned, the session has been
\* told nothing of the balance and has taken nothing off it.
NothingShown ==
    ownerAt.sess # 0 /\ ownerAt \in Range(loads) =>
        /\ panel.gold = 0 /\ owner.sess # ownerAt.sess
        /\ \A m \in Range(toGame[ownerAt.core]) : m.kind \in {"Load", "Sale"} => m.sess # ownerAt.sess
        /\ Total(toDB, TakenBy) = 0

LEMMA ShownByDB == ASSUME TypeOK, SessionsInv, NothingShown, DBStep PROVE NothingShown'
<1>1. UNCHANGED <<panel, ownerAt, crashed>> /\ OwnerAlive /\ Hushed /\ Sessions
  BY DBBinds DEF gameVars, SessionsInv
<1> SUFFICES ASSUME ownerAt.sess # 0, ownerAt \in Range(loads')
             PROVE  /\ panel.gold = 0 /\ owner'.sess # ownerAt.sess
                    /\ \A m \in Range(toGame'[ownerAt.core]) : m.kind \in {"Load", "Sale"} => m.sess # ownerAt.sess
                    /\ Total(toDB', TakenBy) = 0
  BY <1>1 DEF NothingShown
<1>2. \/ owner' \in {owner, Detached} /\ UNCHANGED loads
      \/ /\ loads # <<>> /\ loads' = Tail(loads) /\ owner' \in {owner, Detached, Head(loads)}
  BY DBBinds
<1>3. Range(loads') \subseteq Range(loads)
  BY <1>2, LoadsTaken
<1>4. /\ panel.gold = 0 /\ owner.sess # ownerAt.sess
      /\ \A m \in Range(toGame[ownerAt.core]) : m.kind \in {"Load", "Sale"} => m.sess # ownerAt.sess
      /\ Total(toDB, TakenBy) = 0
  BY <1>3 DEF NothingShown
<1>5. loads # <<>> /\ loads' = Tail(loads) => Head(loads).sess # ownerAt.sess
  <2> SUFFICES ASSUME loads # <<>>, loads' = Tail(loads)
               PROVE  Head(loads).sess # ownerAt.sess
    OBVIOUS
  <2> DEFINE p == <<Head(loads), ownerAt>>
  <2>1. p \in Before(loads) /\ p[1] = Head(loads) /\ p[2] = ownerAt /\ Head(loads) \in Session
    BY LoadsTaken
  <2> HIDE DEF p
  <2>2. p[1].sess < p[2].sess
    BY <1>1, <2>1 DEF Sessions
  <2>3. p[1].sess \in Nat
    BY <2>1 DEF Session
  <2>. QED BY <2>1, <2>2, <2>3
<1>6. Detached.sess = 0
  BY DEF Detached
<1>7. owner'.sess # ownerAt.sess
  BY <1>2, <1>4, <1>5, <1>6
<1>8. Total(toDB', TakenBy) = 0
  <2>1. UNCHANGED toDB \/ \E c \in Cores : Process(c)
    BY DEF DBStep
  <2>2. ASSUME NEW c \in Cores, Process(c)
        PROVE  Total(toDB', TakenBy) = 0
    <3> DEFINE n == TakenBy[Head(toDB[c])]
    <3>1. Total(toDB, TakenBy) = n + Total(toDB', TakenBy) /\ n \in Nat /\ Total(toDB', TakenBy) \in Nat
      BY <2>2, WeightTypes, TotalRead
    <3> HIDE DEF n
    <3>. QED BY <1>4, <3>1
  <2>. QED BY <1>4, <2>1, <2>2
<1>9. ownerAt.core \in Cores
  BY <1>1 DEF OwnerAlive
<1>10. ASSUME NEW m \in Range(toGame'[ownerAt.core]), m.kind \in {"Load", "Sale"}
       PROVE  m.sess # ownerAt.sess
  <2>1. CASE Silently
    BY <1>1, <1>4, <1>9, <1>10, <2>1, SilentTally
  <2>2. ASSUME NEW c, NEW l \in MsgToGame, c \in Cores, MailedWith(c, l), l.sess # ownerAt.sess
        PROVE  m.sess # ownerAt.sess
    <3>1. m \in Range(toGame[ownerAt.core]) \cup Of(Dull) \cup {l}
      BY <1>1, <1>9, <1>10, <2>2, FedWithRange
    <3>2. m \notin Of(Dull)
      BY <1>10 DEF Of, Dull
    <3>. QED BY <1>4, <1>10, <2>2, <3>1, <3>2
  <2>3. ASSUME NEW c \in Cores, NEW l \in MsgToGame, Sold(c, l)
        PROVE  m.sess # ownerAt.sess
    <3>1. MailedWith(owner.core, l) /\ l.sess = owner.sess /\ owner.core \in peers
      BY <2>3 DEF Sold
    <3>. QED BY <1>4, <2>2, <3>1 DEF TypeOK, DBTypeOK
  <2>4. ASSUME NEW l \in MsgToGame, Loaded(l)
        PROVE  m.sess # ownerAt.sess
    <3>1. /\ MailedWith(Head(loads).core, l) /\ l.sess = Head(loads).sess /\ Head(loads).core \in peers
          /\ loads # <<>> /\ loads' = Tail(loads)
      BY <2>4 DEF Loaded, RESULT_PRIVATE_SHOP_LOAD
    <3>. QED BY <1>5, <2>2, <3>1 DEF TypeOK, DBTypeOK
  <2>. QED BY <2>1, <2>3, <2>4, DBTells
<1>. QED BY <1>4, <1>7, <1>8, <1>10

LEMMA TotalOfNothing ==
    ASSUME TypeOK, NEW w \in [MsgToDB -> Nat], \A c \in Cores : \A m \in Range(toDB[c]) : w[m] = 0
    PROVE  Total(toDB, w) = 0
<1> DEFINE f == [c \in Cores |-> Tally(toDB[c], w)]
           z == [c \in Cores |-> 0]
<1>1. \A c \in Cores : Tally(toDB[c], w) = 0
  BY IntWeights, TallyOfNothing DEF TypeOK, WireTypeOK
<1>2. f = z
  BY <1>1
<1>3. \A c \in Cores : z[c] = 0 /\ z \in [Cores -> Int]
  OBVIOUS
<1>4. SumFunction(z) = 0
  <2>1. PICK g \in [SUBSET Cores -> Int] : IsSum(g, Cores, z) /\ SumFunction(z) = g[Cores]
    BY <1>3, SumIsFold, ShopAssumption
  <2> DEFINE G == {T \in SUBSET Cores : g[T] = 0}
  <2>2. {} \in G
    BY <2>1 DEF IsSum
  <2>3. ASSUME NEW T \in SUBSET Cores, T # {}, \A x \in T : T \ {x} \in G
        PROVE  T \in G
    <3>1. Chosen(T) \in T
      BY <2>3 DEF Chosen
    <3>2. g[T] = z[Chosen(T)] + g[T \ {Chosen(T)}]
      BY <2>1, <2>3 DEF IsSum
    <3>. QED BY <1>3, <2>3, <3>1, <3>2
  <2>4. Inductive(Cores, G)
    <3>1. \A T \in SUBSET Cores : T # {} => \E x \in T : T \ {x} \in G => T \in G
      <4> SUFFICES ASSUME NEW T \in SUBSET Cores, T # {}
                   PROVE  \E x \in T : T \ {x} \in G => T \in G
        OBVIOUS
      <4>1. CASE \E x \in T : T \ {x} \notin G
        BY <4>1
      <4>2. CASE \A x \in T : T \ {x} \in G
        BY <2>3, <4>2
      <4>. QED BY <4>1, <4>2
    <3>. QED BY <2>2, <3>1, ShopAssumption DEF Inductive
  <2>5. SUBSET Cores \subseteq G
    BY <2>4, SubsetInduction
  <2>. QED BY <2>1, <2>5
<1>. QED BY <1>2, <1>4 DEF Total

\* Packets that weigh nothing.
LEMMA SendsWeigh ==
    ASSUME TypeOK, NEW w \in [MsgToDB -> Nat], NEW K, NEW c \in Cores, Sends(c, K) \/ NoSend,
           \A m \in Packets(K) : w[m] = 0
    PROVE  Total(toDB', w) = Total(toDB, w)
<1>1. CASE NoSend
  BY <1>1 DEF NoSend
<1>2. CASE Sends(c, K)
  <2>1. PICK ms \in Seq(Packets(K)) : Send(c, ms)
    BY <1>2 DEF Sends
  <2>2. ms \in Seq(MsgToDB) /\ Range(ms) \subseteq Packets(K)
    BY RangeTypes DEF Packets
  <2>3. Total(toDB', w) = Total(toDB, w) + Tally(ms, w)
    BY <2>1, <2>2, TotalSent
  <2>4. \A m \in Range(ms) : w[m] = 0
    BY <2>2
  <2>5. Tally(ms, w) = 0
    BY <2>2, <2>4, IntWeights, TallyOfNothing
  <2>6. Total(toDB, w) \in Nat
    BY TotalIs DEF TypeOK, WireTypeOK, MailToDB
  <2>. QED BY <2>3, <2>5, <2>6
<1>. QED BY <1>1, <1>2

LEMMA SentWeighs ==
    ASSUME TypeOK, NEW w \in [MsgToDB -> Nat], NEW c \in Cores, NEW a \in MsgToDB, Send(c, <<a>>)
    PROVE  Total(toDB', w) = Total(toDB, w) + w[a]
<1> DEFINE l == <<a>>
<1>1. l \in Seq(MsgToDB) /\ Tally(l, w) = w[a] /\ Send(c, l)
  BY IntWeights, QueueOfOne, TallyOfOne
<1> HIDE DEF l
<1>. QED BY <1>1, TotalSent

\* What the packet read makes of the withdrawals under way and of the panel.
LEMMA CorePays ==
    ASSUME TypeOK, NEW c \in Cores, Receive(c)
    PROVE  /\ UNCHANGED ownerAt
           /\ \/ PaidOut(c, Head(toGame[c])) /\ \E paid \in 1 .. panel.gold :
                   /\ purse' = [purse EXCEPT ![Owner] = @ + paid] /\ panel'.gold = panel.gold - paid
                   /\ Total(toDB', TakenBy) = Total(toDB, TakenBy) + paid
                   /\ Total(toDB', PaidBy) = Total(toDB, PaidBy)
              \/ /\ Total(toDB', TakenBy) = Total(toDB, TakenBy)
                 /\ \/ Idle(c, Head(toGame[c]))
                    \/ panel'.gold = panel.gold \/ panel'.gold = 0
<1> DEFINE m == Head(toGame[c])
<1>1. /\ m \in MsgToGame
      /\ \/ Idle(c, m) \/ Bought(c, m) \/ Declined(c, m) \/ Presented(c, m)
         \/ TookOut(c, m) \/ PaidOut(c, m) \/ HandedBack(c, m)
  BY ReceiveCases
<1> HIDE DEF m
<1>2. UNCHANGED ownerAt
  BY <1>1 DEF Idle, Bought, Declined, Presented, TookOut, PaidOut, HandedBack, Sessionless
<1>3. TakenBy \in [MsgToDB -> Nat] /\ PaidBy \in [MsgToDB -> Nat]
  BY WeightTypes
<1>4. ASSUME NEW K, NoSend \/ Sends(c, K), "WithdrawDone" \notin K
      PROVE  Total(toDB', TakenBy) = Total(toDB, TakenBy)
  <2>1. \A a \in Packets(K) : TakenBy[a] = 0
    BY <1>4, Weighs DEF Packets
  <2>. QED BY <1>3, <1>4, <2>1, SendsWeigh
<1>5. ASSUME ~PaidOut(c, m)
      PROVE  Total(toDB', TakenBy) = Total(toDB, TakenBy)
  <2>1. \/ NoSend \/ Sends(c, {"Logout"}) \/ Sends(c, {"ItemSave", "Buy"}) \/ Sends(c, {"FailedBuy"})
        \/ Sends(c, {"CheckinUpdate"}) \/ Sends(c, {"CheckoutUpdate"}) \/ Sends(c, {"ItemTransfer", "Delete"})
    BY <1>1, <1>5, CoreSends
  <2>2. /\ "WithdrawDone" \notin {"Logout"} /\ "WithdrawDone" \notin {"ItemSave", "Buy"}
        /\ "WithdrawDone" \notin {"FailedBuy"} /\ "WithdrawDone" \notin {"CheckinUpdate"}
        /\ "WithdrawDone" \notin {"CheckoutUpdate"} /\ "WithdrawDone" \notin {"ItemTransfer", "Delete"}
    OBVIOUS
  <2>. QED BY <1>4, <2>1, <2>2
<1>6. ASSUME PaidOut(c, m)
      PROVE  \E paid \in 1 .. panel.gold :
                   /\ purse' = [purse EXCEPT ![Owner] = @ + paid] /\ panel'.gold = panel.gold - paid
                   /\ Total(toDB', TakenBy) = Total(toDB, TakenBy) + paid
                   /\ Total(toDB', PaidBy) = Total(toDB, PaidBy)
  <2>1. PICK paid \in 1 .. panel.gold :
          /\ purse' = [purse EXCEPT ![Owner] = @ + paid] /\ panel'.gold = panel.gold - paid
          /\ Send(c, <<[kind |-> "WithdrawDone", gold |-> paid]>>)
    BY <1>6 DEF PaidOut
  <2> DEFINE a == [kind |-> "WithdrawDone", gold |-> paid]
  <2>2. panel.gold \in Nat
    BY DEF TypeOK, GameTypeOK
  <2>3. a \in MsgToDB
    BY <2>2 DEF MsgToDB
  <2>4. TakenBy[a] = paid /\ PaidBy[a] = 0
    BY <2>3, Weighs
  <2>5. Send(c, <<a>>)
    BY <2>1
  <2> HIDE DEF a
  <2>6. /\ Total(toDB', TakenBy) = Total(toDB, TakenBy) + TakenBy[a]
        /\ Total(toDB', PaidBy) = Total(toDB, PaidBy) + PaidBy[a]
    BY <1>3, <2>3, <2>5, SentWeighs
  <2>7. Total(toDB, PaidBy) \in Nat
    BY <1>3, TotalIs DEF TypeOK, WireTypeOK, MailToDB
  <2>8. /\ Total(toDB', TakenBy) = Total(toDB, TakenBy) + paid
        /\ Total(toDB', PaidBy) = Total(toDB, PaidBy)
    BY <2>4, <2>6, <2>7
  <2>. QED BY <2>1, <2>8
<1>7. Idle(c, m) \/ PaidOut(c, m) \/ panel'.gold = panel.gold \/ panel'.gold = 0
  BY <1>1 DEF Bought, Declined, Presented, TookOut, HandedBack, NoPanel
<1>. QED BY <1>2, <1>5, <1>6, <1>7 DEF m

LEMMA LoggedOutSends == ASSUME LoggedOut PROVE Sends(ownerAt.core, {"Logout", "AccountLogout"})
<1> DEFINE a == [kind |-> "AccountLogout"]
           K == {"Logout", "AccountLogout"}
           o == <<a>>
<1>1. PICK ms \in Seq(Packets({"Logout"})) : Send(ownerAt.core, ms \o o)
  BY DEF LoggedOut
<1>2. a \in Packets(K) /\ Packets({"Logout"}) \subseteq Packets(K)
  BY DEF Packets, MsgToDB
<1> HIDE DEF a, K
<1>3. ms \in Seq(Packets(K)) /\ o \in Seq(Packets(K))
  BY <1>2
<1> DEFINE mo == ms \o o
<1> HIDE DEF o
<1>4. mo \in Seq(Packets(K)) /\ Send(ownerAt.core, mo)
  BY <1>1, <1>3, ConcatProperties
<1> HIDE DEF mo
<1>. QED BY <1>4 DEF Sends, K

\* What a client makes of the withdrawals under way.
LEMMA ClientPays ==
    ASSUME TypeOK, SessionsInv, CustomersAlive, ClientStep
    PROVE  /\ Total(toDB', TakenBy) = Total(toDB, TakenBy) /\ Total(toDB', PaidBy) = Total(toDB, PaidBy)
           /\ UNCHANGED <<panel, ownerAt>> \/ (ownerAt'.sess = 0 /\ panel'.gold = 0)
           /\ UNCHANGED purse
<1>1. /\ TakenBy \in [MsgToDB -> Nat] /\ PaidBy \in [MsgToDB -> Nat] /\ OwnerAlive
      /\ Home \in [Customers -> Cores] /\ online \subseteq Customers /\ Host \in Cores
  BY WeightTypes, ShopAssumption DEF SessionsInv, TypeOK, GameTypeOK
<1>2. ASSUME NEW K, NEW d \in Cores, NoSend \/ Sends(d, K), "WithdrawDone" \notin K, "Buy" \notin K
      PROVE  Total(toDB', TakenBy) = Total(toDB, TakenBy) /\ Total(toDB', PaidBy) = Total(toDB, PaidBy)
  <2>1. \A a \in Packets(K) : TakenBy[a] = 0 /\ PaidBy[a] = 0
    BY <1>2, Weighs DEF Packets
  <2>. QED BY <1>1, <1>2, <2>1, SendsWeigh
<1>3. panel.loaded \/ LoggedOut => ownerAt.core \in Cores
  BY <1>1 DEF OwnerAlive, NoPanel, LoggedOut
<1>4. LoggedOut => Sends(ownerAt.core, {"Logout", "AccountLogout"})
  BY LoggedOutSends
<1>5. \/ \E d \in Cores : Sends(d, {"BuyRequest"}) \/ Sends(d, Asking) \/ Sends(d, {"Close"})
           \/ Sends(d, {"CheckoutRequest"}) \/ Sends(d, {"ItemExpire"}) \/ Sends(d, {"Logout", "AccountLogout"})
      \/ NoSend
  <2>1. \A k \in online : Home[k] \in Cores
    BY <1>1
  <2>. QED BY <1>1, <1>3, <1>4, <2>1, ClientCases
<1>7. Total(toDB', TakenBy) = Total(toDB, TakenBy) /\ Total(toDB', PaidBy) = Total(toDB, PaidBy)
  <2>1. /\ "WithdrawDone" \notin {"BuyRequest"} /\ "Buy" \notin {"BuyRequest"}
        /\ "WithdrawDone" \notin Asking /\ "Buy" \notin Asking
        /\ "WithdrawDone" \notin {"Close"} /\ "Buy" \notin {"Close"}
        /\ "WithdrawDone" \notin {"CheckoutRequest"} /\ "Buy" \notin {"CheckoutRequest"}
        /\ "WithdrawDone" \notin {"ItemExpire"} /\ "Buy" \notin {"ItemExpire"}
        /\ "WithdrawDone" \notin {"Logout", "AccountLogout"} /\ "Buy" \notin {"Logout", "AccountLogout"}
    BY DEF Asking
  <2>2. CASE NoSend
    BY <2>2 DEF NoSend
  <2>. QED BY <1>2, <1>5, <2>1, <2>2
<1>8. UNCHANGED <<panel, ownerAt>> \/ LoggedOut
  BY ClientCases DEF Standing, Sessionless
<1>9. UNCHANGED purse
  BY ClientCases DEF Standing, LoggedOut
<1>. QED BY <1>7, <1>8, <1>9 DEF LoggedOut, Detached, NoPanel

LEMMA ShownByCore == ASSUME TypeOK, TypeOK', SessionsInv, NothingShown, NEW c \in Cores, Receive(c), UNCHANGED dbVars
                     PROVE  NothingShown'
<1>1. UNCHANGED <<ownerAt, owner, loads>> /\ panel.gold \in Nat /\ panel'.gold \in Nat
  BY CorePays DEF TypeOK, GameTypeOK, dbVars
<1> SUFFICES ASSUME ownerAt.sess # 0, ownerAt \in Range(loads)
             PROVE  /\ panel'.gold = 0
                    /\ \A m \in Range(toGame'[ownerAt.core]) : m.kind \in {"Load", "Sale"} => m.sess # ownerAt.sess
                    /\ Total(toDB', TakenBy) = 0
  BY <1>1 DEF NothingShown
<1> DEFINE m == Head(toGame[c])
<1>2. /\ panel.gold = 0 /\ owner.sess # ownerAt.sess
      /\ \A n \in Range(toGame[ownerAt.core]) : n.kind \in {"Load", "Sale"} => n.sess # ownerAt.sess
      /\ Total(toDB, TakenBy) = 0 /\ ownerAt.core \in Cores
  BY DEF NothingShown, SessionsInv, OwnerAlive
<1>3. m \in Range(toGame[c]) /\ \A k \in Cores : Range(toGame'[k]) \subseteq Range(toGame[k])
  BY ReadQueue
<1>4. /\ \A paid \in 1 .. panel.gold : FALSE
      /\ Total(toDB', TakenBy) = Total(toDB, TakenBy)
      /\ Idle(c, m) \/ panel'.gold = panel.gold \/ panel'.gold = 0
  <2>1. \A paid \in 1 .. panel.gold : FALSE
    BY <1>2
  <2>. QED BY <2>1, CorePays
<1> HIDE DEF m
<1>5. m.kind \in {"Load", "Sale"} => ~Present(c, m.sess)
  <2> SUFFICES ASSUME m.kind \in {"Load", "Sale"}, Present(c, m.sess)
               PROVE  FALSE
    OBVIOUS
  <2>1. ownerAt.core = c /\ ownerAt.sess = m.sess
    BY DEF Present
  <2>. QED BY <1>2, <1>3, <2>1
<1>6. panel'.gold = 0
  BY <1>1, <1>2, <1>4, <1>5 DEF Idle
<1>. QED BY <1>2, <1>3, <1>4, <1>6

LEMMA NothingShownStep ==
    ASSUME TypeOK, TypeOK', SessionsInv, CustomersAlive, NothingShown, Next
    PROVE  NothingShown'
<1>1. OwnerAlive /\ Sessions /\ PlaysThere /\ TakenBy \in [MsgToDB -> Nat]
  BY WeightTypes DEF SessionsInv
<1>2. CASE DBStep
  BY <1>2, ShownByDB
<1>3. CASE GameStep
  BY <1>3, ShownByCore DEF GameStep
<1>4. CASE ClientStep
  <2>1. UNCHANGED <<owner, loads, toGame>>
    BY <1>4 DEF ClientStep, dbVars
  <2>. QED BY <1>4, <2>1, ClientPays DEF NothingShown, ClientStep
<1>5. CASE EnvStep
  <2>1. CASE UNCHANGED <<owner, loads, toGame, toDB, panel, ownerAt>>
    BY <2>1 DEF NothingShown
  <2>2. ASSUME NEW c \in Cores, OwnerLogin(c), UNCHANGED toGame
        PROVE  NothingShown'
    <3>1. /\ lastSess' = lastSess + 1 /\ ownerAt' = [core |-> c, sess |-> lastSess'] /\ playing = NoCore
          /\ ownerAt.sess = 0 /\ UNCHANGED <<panel, toDB, owner>> /\ lastSess \in Nat
      BY <2>2 DEF OwnerLogin, NoSend, TypeOK, GameTypeOK
    <3>2. ownerAt'.sess = lastSess + 1 /\ ownerAt'.core = c
      BY <3>1
    <3>3. panel.gold = 0
      BY <1>1, <3>1 DEF OwnerAlive, NoPanel
    <3>4. owner.sess # lastSess + 1
      BY <1>1, <3>1 DEF Sessions, TypeOK, DBTypeOK, Session
    <3>5. \A m \in Range(toGame[c]) : m.kind \in {"Load", "Sale"} => m.sess # lastSess + 1
      <4>1. \A m \in Range(toGame[c]) : m.kind \in {"Load", "Sale"} => m.sess \in Nat /\ m.sess <= lastSess
        BY <1>1, PacketTypes DEF Sessions, MsgToGame
      <4>. QED BY <3>1, <4>1
    <3>6. Total(toDB, TakenBy) = 0
      <4>1. ASSUME NEW k \in Cores, NEW m \in Range(toDB[k])
            PROVE  TakenBy[m] = 0
        <5>1. m \in MsgToDB
          BY PacketTypes
        <5>2. m.kind # "WithdrawDone"
          BY <1>1, <3>1, ShopAssumption DEF PlaysThere, PlayKinds
        <5>. QED BY <5>1, <5>2, Weighs
      <4>. QED BY <1>1, <4>1, TotalOfNothing
    <3>. QED BY <2>2, <3>1, <3>2, <3>3, <3>4, <3>5, <3>6 DEF NothingShown
  <2>3. ASSUME NEW c \in Cores, CoreCrash(c), UNCHANGED dbVars
        PROVE  NothingShown'
    <3>1. UNCHANGED <<owner, loads>>
      BY <2>3 DEF dbVars
    <3>2. /\ Total(toDB', TakenBy) <= Total(toDB, TakenBy)
          /\ Total(toDB', TakenBy) \in Nat /\ Total(toDB, TakenBy) \in Nat
      BY <1>1, <2>3, TotalCut
    <3>3. \A k \in Cores : Range(toGame'[k]) \subseteq Range(toGame[k])
      BY <2>3, CutQueue
    <3>4. ownerAt' = Detached \/ UNCHANGED <<ownerAt, panel>>
      BY <2>3 DEF CoreCrash
    <3>5. Detached.sess = 0
      BY DEF Detached
    <3>6. CASE UNCHANGED <<ownerAt, panel>>
      <4>1. ownerAt.sess # 0 => ownerAt.core \in Cores
        BY <1>1 DEF OwnerAlive
      <4>. QED BY <3>1, <3>2, <3>3, <3>6, <4>1 DEF NothingShown
    <3>. QED BY <3>4, <3>5, <3>6 DEF NothingShown
  <2>4. \A p : ReservationDue(p) => UNCHANGED <<owner, loads>>
    BY DEF ReservationDue
  <2>5. DeadlinePasses => UNCHANGED <<owner, loads>>
    BY DEF DeadlinePasses
  <2>. QED BY <1>5, <2>1, <2>2, <2>3, <2>4, <2>5 DEF EnvStep, gameVars
<1>. QED BY <1>2, <1>3, <1>4, <1>5 DEF Next

-----------------------------------------------------------------------------
\* Withdrawals are covered.

\* What the owner's session has yet to be told.
Coming == IF ownerAt.sess = 0 THEN 0 ELSE Tally(toGame[ownerAt.core], ToldTo(ownerAt.sess))

\* What is being withdrawn, what the panel shows and what it has yet to be told are all
\* in the balance: the strengthening of WithdrawalsCovered.
PanelCovered == Total(toDB, TakenBy) + panel.gold + Coming <= gold

BalanceInv == /\ SessionsInv /\ AnswersInv /\ CloseUnasked /\ CustomersAlive
              /\ GoneIsPaid /\ NothingShown /\ PanelCovered

LEMMA ComingIsNat ==
    ASSUME TypeOK, OwnerAlive
    PROVE  Coming \in Nat /\ panel.gold \in Nat /\ gold \in Nat /\ Total(toDB, TakenBy) \in Nat
<1>1. panel.gold \in Nat /\ gold \in Nat /\ Total(toDB, TakenBy) \in Nat
  BY WeightTypes, TotalIs DEF TypeOK, DBTypeOK, GameTypeOK, WireTypeOK, MailToDB
<1>2. ownerAt.sess # 0 => toGame[ownerAt.core] \in Seq(MsgToGame)
  BY DEF OwnerAlive, TypeOK, WireTypeOK
<1>3. ownerAt.sess # 0 => Tally(toGame[ownerAt.core], ToldTo(ownerAt.sess)) \in Nat
  BY <1>2, WeightTypes, TallyOfNats
<1>. QED BY <1>1, <1>3 DEF Coming

LEMMA CoveredByDB == ASSUME TypeOK, TypeOK', BalanceInv, DBStep PROVE PanelCovered'
<1>1. /\ UNCHANGED <<panel, ownerAt, crashed>> /\ OwnerAlive /\ OwnerAlive' /\ Hushed /\ Sessions
      /\ AnswersInv /\ CloseUnasked /\ GoneIsPaid /\ SessionsInv
  BY DBBinds, OwnerAliveStep DEF gameVars, BalanceInv, SessionsInv, Next
<1>2. Coming \in Nat /\ panel.gold \in Nat /\ gold \in Nat /\ Total(toDB, TakenBy) \in Nat
  BY <1>1, ComingIsNat
<1>3. Coming' \in Nat /\ gold' \in Nat /\ Total(toDB', TakenBy) \in Nat
  <2>1. toDB' \in MailToDB /\ gold' \in Nat
    BY DEF TypeOK, DBTypeOK, WireTypeOK, MailToDB
  <2>2. Total(toDB', TakenBy) \in Nat
    BY <2>1, WeightTypes, TotalIs
  <2>3. ownerAt.sess # 0 => toGame'[ownerAt.core] \in Seq(MsgToGame)
    BY <1>1 DEF OwnerAlive, TypeOK, WireTypeOK
  <2>4. ownerAt.sess # 0 => Tally(toGame'[ownerAt.core], ToldTo(ownerAt.sess)) \in Nat
    BY <2>3, WeightTypes, TallyOfNats
  <2>. QED BY <1>1, <2>1, <2>2, <2>4 DEF Coming
<1> DEFINE out == Total(toDB, TakenBy)
           outp == Total(toDB', TakenBy)
           com == Coming
           comp == Coming'
<1>4. out + panel.gold + com <= gold
  BY DEF BalanceInv, PanelCovered
<1>5. out <= gold
  BY <1>2, <1>4
<1>6. /\ \A c \in Cores : Credited(c) => gold' = gold + Head(toDB[c]).price /\ outp = out
      /\ (\E c \in Cores : Credited(c)) \/ gold' + out = gold + outp
  BY <1>1, <1>5, GoldStep
<1>7. \A c \in Cores : Credited(c) => Head(toDB[c]).price \in Nat
  <2>1. ASSUME NEW c \in Cores, Credited(c)
        PROVE  Head(toDB[c]).price \in Nat
    <3>1. Process(c) /\ Head(toDB[c]).kind = "Buy"
      BY <2>1 DEF Credited, PrivateShopBuy
    <3>2. Head(toDB[c]) \in MsgToDB
      BY <3>1, TakenQueue
    <3>. QED BY <3>1, <3>2, DBMsgFields
  <2>. QED BY <2>1
<1>8. gold' + out >= gold + outp
  <2>1. ASSUME NEW c \in Cores, Credited(c)
        PROVE  gold' + out >= gold + outp
    <3> DEFINE v == Head(toDB[c]).price
    <3>1. v \in Nat /\ gold' = gold + v /\ outp = out
      BY <1>6, <1>7, <2>1
    <3> HIDE DEF v
    <3>. QED BY <1>2, <3>1
  <2>. QED BY <1>2, <1>3, <1>6, <2>1
<1>9. ownerAt.sess # 0 => ownerAt.core \in Cores /\ ownerAt.core \notin crashed
  BY <1>1 DEF OwnerAlive
<1>10. /\ ownerAt.sess = 0 => com = 0 /\ comp = 0
       /\ ownerAt.sess # 0 => com = Tally(toGame[ownerAt.core], ToldTo(ownerAt.sess))
       /\ ownerAt.sess # 0 => comp = Tally(toGame'[ownerAt.core], ToldTo(ownerAt.sess))
  BY <1>1 DEF Coming
<1> SUFFICES outp + panel.gold + comp <= gold'
  BY <1>1 DEF PanelCovered
<1> HIDE DEF out, outp, com, comp
<1>11. ASSUME comp = com
       PROVE  outp + panel.gold + comp <= gold'
  BY <1>2, <1>3, <1>4, <1>8, <1>11 DEF out, outp, com, comp
<1>12. CASE Silently
  BY <1>1, <1>9, <1>10, <1>11, <1>12, SilentTally
<1>13. ASSUME NEW c \in Cores, NEW m \in MsgToGame, Sold(c, m)
       PROVE  outp + panel.gold + comp <= gold'
  <2>1. Credited(c) /\ MailedWith(owner.core, m) /\ m.kind = "Sale" /\ m.price = Head(toDB[c]).price /\ owner.core \in Cores
    BY <1>13 DEF Sold, TypeOK, DBTypeOK
  <2>2. ToldTo(ownerAt.sess)[m] \in Nat /\ ToldTo(ownerAt.sess)[m] <= m.price
    <3>1. ToldTo(ownerAt.sess)[m] = 0 \/ ToldTo(ownerAt.sess)[m] = m.price
      BY <2>1, Weighs
    <3>2. m.price \in Nat
      BY <1>7, <2>1
    <3>. QED BY <3>1, <3>2
  <2>3. ownerAt.sess # 0 => comp = com + (IF ownerAt.core = owner.core THEN ToldTo(ownerAt.sess)[m] ELSE 0)
    BY <1>1, <1>9, <1>10, <2>1, ToldTally
  <2> DEFINE v == ToldTo(ownerAt.sess)[m]
             x == m.price
  <2>4. gold' = gold + x /\ outp = out /\ v \in Nat /\ x \in Nat /\ v <= x
    BY <1>6, <1>7, <2>1, <2>2
  <2>5. comp = com \/ comp = com + v
    BY <1>2, <1>10, <2>3 DEF com
  <2> HIDE DEF v, x
  <2>. QED BY <1>2, <1>3, <1>4, <2>4, <2>5 DEF out, com
<1>14. ASSUME NEW m \in MsgToGame, Loaded(m)
       PROVE  outp + panel.gold + comp <= gold'
  <2>1. /\ MailedWith(Head(loads).core, m) /\ Head(loads).core \in Cores /\ m.kind = "Load"
        /\ m.sess = Head(loads).sess /\ m.gold = gold /\ loads # <<>> /\ RESULT_PRIVATE_SHOP_LOAD
        /\ loads' = Tail(loads)
    BY <1>14 DEF Loaded, TypeOK, DBTypeOK, RESULT_PRIVATE_SHOP_LOAD
  <2>2. ownerAt.sess # 0 => comp = com + (IF ownerAt.core = Head(loads).core THEN ToldTo(ownerAt.sess)[m] ELSE 0)
    BY <1>1, <1>9, <1>10, <2>1, ToldTally
  <2>3. CASE ownerAt.sess = 0 \/ m.sess # ownerAt.sess
    <3>1. m.sess # ownerAt.sess => ToldTo(ownerAt.sess)[m] = 0
      BY Weighs
    <3>2. comp = com
      BY <1>2, <1>10, <2>2, <2>3, <3>1 DEF com
    <3>. QED BY <1>11, <3>2
  <2>4. CASE ownerAt.sess # 0 /\ m.sess = ownerAt.sess
    <3>1. Head(loads) \in Range(loads)
      BY <2>1, LoadsTaken
    <3>2. Head(loads) = ownerAt
      BY <1>1, <2>1, <2>4, <3>1 DEF Sessions
    <3>3. /\ panel.gold = 0 /\ out = 0
          /\ \A a \in Range(toGame[ownerAt.core]) : a.kind \in {"Load", "Sale"} => a.sess # ownerAt.sess
      BY <2>4, <3>1, <3>2 DEF BalanceInv, NothingShown, out
    <3>4. com = 0
      <4>1. toGame[ownerAt.core] \in Seq(MsgToGame)
        BY <1>9, <2>4 DEF TypeOK, WireTypeOK
      <4>2. \A a \in Range(toGame[ownerAt.core]) : a \in MsgToGame
        BY <1>9, <2>4, PacketTypes
      <4>3. \A a \in Range(toGame[ownerAt.core]) : ToldTo(ownerAt.sess)[a] = 0
        BY <3>3, <4>2, Weighs
      <4>4. Tally(toGame[ownerAt.core], ToldTo(ownerAt.sess)) = 0
        BY <4>1, <4>3, WeightTypes, IntWeights, TallyOfNothing
      <4>. QED BY <1>10, <2>4, <4>4
    <3>5. ToldTo(ownerAt.sess)[m] = gold
      BY <2>1, <2>4, Weighs
    <3>6. comp = gold
      BY <1>2, <2>2, <2>4, <3>2, <3>4, <3>5
    <3>. QED BY <1>2, <1>3, <1>8, <3>3, <3>6 DEF out, outp
  <2>. QED BY <2>3, <2>4
<1>. QED BY <1>12, <1>13, <1>14, DBTells

LEMMA CoveredByCore ==
    ASSUME TypeOK, TypeOK', BalanceInv, NEW c \in Cores, Receive(c), UNCHANGED dbVars
    PROVE  PanelCovered'
<1> DEFINE m == Head(toGame[c])
<1>1. UNCHANGED <<ownerAt, gold>> /\ OwnerAlive
  BY CorePays DEF dbVars, BalanceInv, SessionsInv
<1>2. Coming \in Nat /\ panel.gold \in Nat /\ gold \in Nat /\ Total(toDB, TakenBy) \in Nat /\ panel'.gold \in Nat
  BY <1>1, ComingIsNat DEF TypeOK, GameTypeOK
<1>3. Total(toDB, TakenBy) + panel.gold + Coming <= gold
  BY DEF BalanceInv, PanelCovered
<1>4. /\ ownerAt.sess = 0 => Coming = 0 /\ Coming' = 0
      /\ ownerAt.sess # 0 => /\ ownerAt.core \in Cores
                             /\ Coming = Tally(toGame[ownerAt.core], ToldTo(ownerAt.sess))
                             /\ Coming' = Tally(toGame'[ownerAt.core], ToldTo(ownerAt.sess))
  BY <1>1 DEF Coming, OwnerAlive
<1> DEFINE v == IF ownerAt.sess # 0 /\ ownerAt.core = c THEN ToldTo(ownerAt.sess)[m] ELSE 0
<1>5. Coming = Coming' + v /\ Coming' \in Nat /\ v \in Nat
  <2>1. CASE ownerAt.sess = 0
    BY <1>4, <2>1
  <2>2. CASE ownerAt.sess # 0
    BY <1>4, <2>2, ReadTally
  <2>. QED BY <2>1, <2>2
<1>6. Present(c, m.sess) => ownerAt.sess # 0 /\ ownerAt.core = c /\ ownerAt.sess = m.sess
  BY DEF Present
<1>7. m \in MsgToGame
  BY ReadQueue
<1>8. /\ m.kind = "Sale" /\ Present(c, m.sess) => v = m.price
      /\ m.kind = "Load" /\ Present(c, m.sess) => v = m.gold
  BY <1>6, <1>7, Weighs
<1> HIDE DEF v, m
<1> SUFFICES Total(toDB', TakenBy) + panel'.gold + Coming' <= gold
  BY <1>1 DEF PanelCovered
<1>9. CASE \E paid \in 1 .. panel.gold :
             /\ panel'.gold = panel.gold - paid
             /\ Total(toDB', TakenBy) = Total(toDB, TakenBy) + paid
  BY <1>2, <1>3, <1>5, <1>9
<1>10. CASE Total(toDB', TakenBy) = Total(toDB, TakenBy) /\ panel'.gold <= panel.gold + v
  BY <1>2, <1>3, <1>5, <1>10
<1>11. CASE Total(toDB', TakenBy) = Total(toDB, TakenBy) /\ panel'.gold = v
  BY <1>2, <1>3, <1>5, <1>11
<1>12. Idle(c, m) => panel'.gold <= panel.gold + v \/ panel'.gold = v
  BY <1>2, <1>5, <1>8 DEF Idle
<1>13. panel'.gold = panel.gold \/ panel'.gold = 0 => panel'.gold <= panel.gold + v
  BY <1>2, <1>5
<1>. QED BY <1>9, <1>10, <1>11, <1>12, <1>13, CorePays DEF m

LEMMA PanelCoveredStep == ASSUME TypeOK, TypeOK', BalanceInv, Next PROVE PanelCovered'
<1>1. SessionsInv /\ OwnerAlive /\ CustomersAlive /\ Sessions
  BY DEF BalanceInv, SessionsInv
<1>2. Coming \in Nat /\ panel.gold \in Nat /\ gold \in Nat /\ Total(toDB, TakenBy) \in Nat
  BY <1>1, ComingIsNat
<1>3. Total(toDB, TakenBy) + panel.gold + Coming <= gold
  BY DEF BalanceInv, PanelCovered
<1>4. CASE DBStep
  BY <1>4, CoveredByDB
<1>5. CASE GameStep
  BY <1>5, CoveredByCore DEF GameStep
<1>6. ASSUME UNCHANGED gold, Total(toDB', TakenBy) <= Total(toDB, TakenBy), Total(toDB', TakenBy) \in Nat,
             panel'.gold = 0 \/ UNCHANGED panel, Coming' = 0 \/ Coming' = Coming
      PROVE  PanelCovered'
  BY <1>2, <1>3, <1>6 DEF PanelCovered
<1>7. ownerAt'.sess = 0 => Coming' = 0
  BY DEF Coming
<1>8. UNCHANGED <<ownerAt, toGame>> => Coming' = Coming
  BY DEF Coming
<1>9. CASE ClientStep
  <2>1. UNCHANGED <<gold, toGame>>
    BY <1>9 DEF ClientStep, dbVars
  <2>. QED BY <1>1, <1>2, <1>6, <1>7, <1>8, <1>9, <2>1, ClientPays
<1>10. CASE EnvStep
  <2>1. CASE UNCHANGED <<gold, toDB, toGame, ownerAt, panel>>
    BY <1>2, <1>6, <1>8, <2>1
  <2>2. ASSUME NEW c \in Cores, OwnerLogin(c), UNCHANGED toGame
        PROVE  PanelCovered'
    <3>1. /\ lastSess' = lastSess + 1 /\ ownerAt' = [core |-> c, sess |-> lastSess'] /\ UNCHANGED <<panel, toDB, gold>>
          /\ lastSess \in Nat
      BY <2>2 DEF OwnerLogin, NoSend, TypeOK, GameTypeOK
    <3>2. ownerAt'.sess = lastSess + 1 /\ ownerAt'.core = c /\ lastSess + 1 # 0
      BY <3>1
    <3>3. \A m \in Range(toGame[c]) : m \in MsgToGame
      BY PacketTypes
    <3>4. \A m \in Range(toGame[c]) : ToldTo(lastSess + 1)[m] = 0
      <4>1. \A m \in Range(toGame[c]) : m.kind \in {"Load", "Sale"} => m.sess \in Nat /\ m.sess <= lastSess
        BY <1>1, <3>3 DEF Sessions, MsgToGame
      <4>2. \A m \in Range(toGame[c]) : m.kind \in {"Load", "Sale"} => m.sess # lastSess + 1
        BY <3>1, <4>1
      <4>. QED BY <3>3, <4>2, Weighs
    <3>5. Tally(toGame[c], ToldTo(lastSess + 1)) = 0
      BY <3>4, WeightTypes, IntWeights, TallyOfNothing DEF TypeOK, WireTypeOK
    <3>6. Coming' = 0
      BY <2>2, <3>2, <3>5 DEF Coming
    <3>. QED BY <1>2, <1>6, <3>1, <3>6
  <2>3. ASSUME NEW c \in Cores, CoreCrash(c), UNCHANGED dbVars
        PROVE  PanelCovered'
    <3>1. UNCHANGED gold
      BY <2>3 DEF dbVars
    <3>2. Total(toDB', TakenBy) <= Total(toDB, TakenBy) /\ Total(toDB', TakenBy) \in Nat
      BY <2>3, TotalCut, WeightTypes
    <3>3. CASE ownerAt.core = c
      <4>1. ownerAt'.sess = 0 /\ panel'.gold = 0
        BY <2>3, <3>3 DEF CoreCrash, Detached, NoPanel
      <4>. QED BY <1>6, <1>7, <3>1, <3>2, <4>1
    <3>4. CASE ownerAt.core # c
      <4>1. UNCHANGED <<ownerAt, panel>>
        BY <2>3, <3>4 DEF CoreCrash
      <4>2. ownerAt.sess # 0 => toGame'[ownerAt.core] = toGame[ownerAt.core]
        BY <1>1, <2>3, <3>4, CutQueue DEF OwnerAlive
      <4>3. Coming' = Coming
        BY <4>1, <4>2 DEF Coming
      <4>. QED BY <1>6, <3>1, <3>2, <4>1, <4>3
    <3>. QED BY <3>3, <3>4
  <2>4. \A p : ReservationDue(p) => UNCHANGED gold
    BY DEF ReservationDue
  <2>5. DeadlinePasses => UNCHANGED gold
    BY DEF DeadlinePasses
  <2>. QED BY <1>10, <2>1, <2>2, <2>3, <2>4, <2>5 DEF EnvStep, gameVars
<1>. QED BY <1>4, <1>5, <1>9, <1>10 DEF Next

LEMMA BalanceInit == ASSUME Limit["close"] = 0, Init PROVE BalanceInv
<1>1. CloseUnasked /\ CustomersAlive
  BY StartIsEmpty DEF CloseUnasked, CustomersAlive
<1>2. GoneIsPaid /\ NothingShown
  <2>1. gold = 0 /\ loads = <<>>
    BY DEF Init
  <2>. QED BY <2>1, QueueOfNone DEF GoneIsPaid, NothingShown
<1>3. PanelCovered
  <2>1. /\ gold = 0 /\ panel.gold = 0 /\ \A c \in Cores : toGame[c] = <<>> /\ Range(toDB[c]) = {}
    BY StartIsEmpty DEF Init
  <2>2. Total(toDB, TakenBy) = 0
    BY <2>1, WeightTypes, InitTypes, TotalOfNothing
  <2>3. ownerAt.sess # 0 => Tally(toGame[ownerAt.core], ToldTo(ownerAt.sess)) = 0
    <3>1. OwnerAlive
      BY SessionsInit DEF SessionsInv
    <3>2. ToldTo(ownerAt.sess) \in [MsgToGame -> Int]
      BY WeightTypes, IntWeights
    <3>. QED BY <2>1, <3>1, <3>2, TallyOfOne DEF OwnerAlive
  <2>. QED BY <2>1, <2>2, <2>3 DEF PanelCovered, Coming
<1>. QED BY <1>1, <1>2, <1>3, SessionsInit, AnswersInit DEF BalanceInv

LEMMA BalanceStep == ASSUME TypeOK, BalanceInv, [Next]_vars PROVE BalanceInv'
<1>1. SessionsInv' /\ AnswersInv' /\ TypeOK'
  BY SessionsKept, AnswersStep, NextTypes DEF BalanceInv
<1>2. ASSUME Next
      PROVE  (CloseUnasked /\ CustomersAlive /\ GoneIsPaid /\ NothingShown /\ PanelCovered)'
  <2>1. GoneIsPaid'
    <3>1. CASE DBStep
      <4>1. Coming \in Nat /\ panel.gold \in Nat /\ gold \in Nat /\ Total(toDB, TakenBy) \in Nat
        BY ComingIsNat DEF BalanceInv, SessionsInv
      <4>2. Total(toDB, TakenBy) <= gold
        BY <4>1 DEF BalanceInv, PanelCovered
      <4>. QED BY <3>1, <4>2, GoldStep DEF BalanceInv
    <3>2. CASE GameStep \/ ClientStep \/ EnvStep
      <4>1. UNCHANGED <<state, gold>>
        BY <3>2 DEF GameStep, ClientStep, EnvStep, dbVars, ReservationDue, DeadlinePasses, OwnerLogin
      <4>. QED BY <4>1 DEF BalanceInv, GoneIsPaid
    <3>. QED BY <1>2, <3>1, <3>2 DEF Next
  <2>. QED BY <1>1, <1>2, <2>1, UnaskedStep, CustomersAliveStep, NothingShownStep, PanelCoveredStep DEF BalanceInv
<1>3. ASSUME UNCHANGED vars
      PROVE  (CloseUnasked /\ CustomersAlive /\ GoneIsPaid /\ NothingShown /\ PanelCovered)'
  BY <1>3 DEF vars, dbVars, gameVars, BalanceInv, CloseUnasked, CustomersAlive, GoneIsPaid, NothingShown,
              PanelCovered, Coming
<1>. QED BY <1>1, <1>2, <1>3 DEF BalanceInv

LEMMA BalanceInvariant == ASSUME Limit["close"] = 0 PROVE Spec => []BalanceInv
<1>1. Init => BalanceInv
  BY BalanceInit
<1>2. TypeOK /\ BalanceInv /\ [Next]_vars => BalanceInv'
  BY BalanceStep
<1>. QED BY <1>1, <1>2, TypeInvariant, PTL DEF Spec

\* What is being withdrawn is always in the balance, so the DB process never refuses what
\* the game has paid out, whatever the owner's sessions, the sales, the removals and the
\* crashes, as long as the shop is not closed (WithdrawPrivateShop, PrivateShopWithdraw,
\* RESULT_PRIVATE_SHOP_LOAD): a new session's panel is filled from a balance of which
\* nothing is under way, because the logout of the one before has been read.
THEOREM WithdrawalsAreCovered == ASSUME Limit["close"] = 0 PROVE Spec => []WithdrawalsCovered
<1>1. TypeOK /\ BalanceInv => WithdrawalsCovered
  <2> SUFFICES ASSUME TypeOK, BalanceInv
               PROVE  WithdrawalsCovered
    OBVIOUS
  <2>1. Coming \in Nat /\ panel.gold \in Nat /\ gold \in Nat /\ Total(toDB, TakenBy) \in Nat
    BY ComingIsNat DEF BalanceInv, SessionsInv
  <2>2. Total(toDB, TakenBy) <= gold
    BY <2>1 DEF BalanceInv, PanelCovered
  <2>. QED BY <2>2, SumIsTotal DEF WithdrawalsCovered, TypeOK, WireTypeOK, MailToDB
<1>. QED BY <1>1, BalanceInvariant, TypeInvariant, PTL

-----------------------------------------------------------------------------
\* Gold is conserved.

Conserved == SumFunction(purse) + gold + Total(toDB, PaidBy) = SumFunction(Purse) + Total(toDB, TakenBy)

GoldInv == BalanceInv /\ OffersInv /\ Conserved /\ budget["crash"] = 0

LEMMA PurseSums ==
    ASSUME TypeOK
    PROVE  /\ SumFunction(purse) \in Nat /\ SumFunction(Purse) \in Nat
           /\ \A k \in Chars, v \in Nat : SumFunction([purse EXCEPT ![k] = v]) = SumFunction(purse) + v - purse[k]
<1>1. IsFiniteSet(Chars)
  BY ShopAssumption, FS_AddElement DEF Chars
<1>2. purse \in [Chars -> Nat] /\ Purse \in [Chars -> Nat] /\ purse \in [Chars -> Int]
  BY ShopAssumption DEF TypeOK, GameTypeOK
<1>3. SumFunction(purse) \in Nat /\ SumFunction(Purse) \in Nat
  BY <1>1, <1>2, SumOfNats
<1>4. ASSUME NEW k \in Chars, NEW v \in Nat
      PROVE  SumFunction([purse EXCEPT ![k] = v]) = SumFunction(purse) + v - purse[k]
  <2>1. v \in Int
    OBVIOUS
  <2>. QED BY <1>1, <1>2, <2>1, SumExcept
<1>. QED BY <1>3, <1>4

LEMMA TotalsAreNat ==
    ASSUME TypeOK
    PROVE  gold \in Nat /\ Total(toDB, PaidBy) \in Nat /\ Total(toDB, TakenBy) \in Nat
BY WeightTypes, TotalIs DEF TypeOK, DBTypeOK, WireTypeOK, MailToDB

\* Every payment the DB process reads is credited.
LEMMA PaymentIsCredited ==
    ASSUME TypeOK, OffersInv, NEW c \in Cores, Process(c), Head(toDB[c]).kind = "Buy"
    PROVE  Credited(c)
<1> DEFINE m == Head(toDB[c])
<1>1. m \in Range(toDB[c]) /\ m \in MsgToDB /\ PrivateShopBuy(c, m)
  BY TakenQueue, AnswerRead
<1>2. HeldFor(c, m)
  BY <1>1 DEF OffersInv, OffersHeld
<1>3. m.pos \in Positions /\ m.item # NoItem
  BY <1>1, NamesItem
<1> HIDE DEF m
<1>4. m.pos \in Reserved(slot)
  BY <1>2, <1>3, HeldIsReserved
<1>5. Exists
  BY <1>4 DEF OffersInv, AnswersInv, GoneIsEmpty, Exists
<1>. QED BY <1>1, <1>2, <1>5 DEF Credited, Holds, HeldFor, m

\* What a withdrawal takes from the balance and from the queue leaves the books even.
LEMMA BothSides ==
    ASSUME NEW s \in Nat, NEW g \in Nat, NEW h \in Nat, NEW p \in Nat, NEW q \in Nat, NEW t \in Nat,
           NEW u \in Nat, s + g + p = q + t, h + t = g + u
    PROVE  s + h + p = q + u
OBVIOUS

LEMMA ConservedByDB == ASSUME TypeOK, TypeOK', GoldInv, DBStep PROVE Conserved'
<1>1. UNCHANGED purse /\ OffersInv /\ BalanceInv /\ Conserved
  BY DBBinds DEF gameVars, GoldInv
<1>2. /\ SumFunction(purse) \in Nat /\ SumFunction(Purse) \in Nat
      /\ gold \in Nat /\ Total(toDB, PaidBy) \in Nat /\ Total(toDB, TakenBy) \in Nat /\ gold' \in Nat
  BY PurseSums, TotalsAreNat DEF TypeOK, DBTypeOK
<1>3. Total(toDB, TakenBy) <= gold
  <2>1. Coming \in Nat /\ panel.gold \in Nat
    BY <1>1, ComingIsNat DEF BalanceInv, SessionsInv
  <2>. QED BY <1>1, <1>2, <2>1 DEF BalanceInv, PanelCovered
<1>4. /\ \A c \in Cores : Credited(c) => /\ gold' = gold + Head(toDB[c]).price
                                        /\ Total(toDB', TakenBy) = Total(toDB, TakenBy)
      /\ (\E c \in Cores : Credited(c)) \/ gold' + Total(toDB, TakenBy) = gold + Total(toDB', TakenBy)
  BY <1>1, <1>3, GoldStep DEF BalanceInv
<1> DEFINE s == SumFunction(purse)
           s0 == SumFunction(Purse)
           paid == Total(toDB, PaidBy)
           paidp == Total(toDB', PaidBy)
           out == Total(toDB, TakenBy)
           outp == Total(toDB', TakenBy)
<1>5. s + gold + paid = s0 + out
  BY <1>1 DEF Conserved
<1> SUFFICES s + gold' + paidp = s0 + outp
  BY <1>1 DEF Conserved
<1>6. ASSUME NEW c \in Cores, Process(c)
      PROVE  s + gold' + paidp = s0 + outp
  <2> DEFINE m == Head(toDB[c])
             v == PaidBy[m]
  <2>1. paid = v + paidp /\ v \in Nat /\ paidp \in Nat
    BY <1>6, WeightTypes, TotalRead
  <2>2. outp \in Nat
    BY <1>6, WeightTypes, TotalRead
  <2>3. m \in MsgToDB
    BY <1>6, TakenQueue
  <2>4. CASE m.kind = "Buy"
    <3>1. Credited(c) /\ v = m.price
      BY <1>1, <1>6, <2>3, <2>4, PaymentIsCredited, Weighs
    <3>2. gold' = gold + v /\ outp = out
      BY <1>4, <3>1
    <3> HIDE DEF v, s, s0, paid, paidp, out, outp, m
    <3>3. s \in Nat /\ s0 \in Nat /\ out \in Nat
      BY <1>2 DEF s, s0, out
    <3>4. gold \in Nat
      BY <1>2
    <3>. QED BY <1>5, <2>1, <3>2, <3>3, <3>4
  <2>5. CASE m.kind # "Buy"
    <3>1. v = 0
      BY <2>3, <2>5, Weighs
    <3>2. ~Credited(c)
      BY <2>5 DEF Credited, PrivateShopBuy
    <3>3. gold' + out = gold + outp
      <4>1. ASSUME NEW k \in Cores, Credited(k)
            PROVE  k = c
        <5>1. Process(k)
          BY <4>1 DEF Credited
        <5> SUFFICES ASSUME k # c
                     PROVE  FALSE
          OBVIOUS
        <5> DEFINE q == toDB[k]
        <5>2. q \in Seq(MsgToDB) /\ q # <<>> /\ toDB'[k] = Tail(q)
          BY <5>1, TakenQueue
        <5>3. toDB'[k] = q
          BY <1>6, TakenQueue
        <5> HIDE DEF q
        <5>. QED BY <5>2, <5>3
      <4>. QED BY <1>4, <3>2, <4>1
    <3> HIDE DEF v, s, s0, paid, paidp, out, outp, m
    <3>4. s \in Nat /\ s0 \in Nat /\ out \in Nat
      BY <1>2 DEF s, s0, out
    <3> DEFINE g == gold
               h == gold'
    <3>5. g \in Nat /\ h \in Nat /\ s + g + paid = s0 + out /\ h + out = g + outp
      BY <1>2, <1>5, <3>3
    <3>6. paid = paidp /\ paid \in Nat
      BY <2>1, <3>1
    <3> HIDE DEF g, h
    <3>7. s + h + paidp = s0 + outp
      BY <2>2, <3>4, <3>5, <3>6, BothSides
    <3>. QED BY <3>7 DEF h
  <2>. QED BY <2>4, <2>5
<1>7. ASSUME UNCHANGED toDB
      PROVE  s + gold' + paidp = s0 + outp
  <2>1. \A c \in Cores : ~Credited(c)
    <3>1. ASSUME NEW c \in Cores, Process(c)
          PROVE  FALSE
      <4> DEFINE q == toDB[c]
      <4>1. q \in Seq(MsgToDB) /\ q # <<>> /\ q = Tail(q)
        BY <1>7, <3>1, TakenQueue
      <4> HIDE DEF q
      <4>. QED BY <4>1
    <3>. QED BY <3>1 DEF Credited
  <2>2. gold' + out = gold + outp /\ outp = out /\ paidp = paid
    BY <1>4, <1>7, <2>1
  <2> HIDE DEF s, s0, paid, paidp, out, outp
  <2>3. s \in Nat /\ s0 \in Nat /\ out \in Nat /\ paid \in Nat
    BY <1>2 DEF s, s0, out, paid
  <2>4. gold \in Nat
    BY <1>2
  <2>5. gold' = gold
    <3> DEFINE g == gold
               h == gold'
    <3>1. g \in Nat /\ h \in Nat /\ h + out = g + out
      BY <1>2, <2>2
    <3> HIDE DEF g, h
    <3>2. h = g
      BY <2>3, <3>1
    <3>. QED BY <3>2 DEF g, h
  <2>. QED BY <1>5, <2>2, <2>5
<1>8. UNCHANGED toDB \/ \E c \in Cores : Process(c)
  BY DEF DBStep
<1>. QED BY <1>6, <1>7, <1>8

LEMMA ConservedByCore ==
    ASSUME TypeOK, Conserved, NEW c \in Cores, Receive(c), UNCHANGED gold
    PROVE  Conserved'
<1> DEFINE m == Head(toGame[c])
<1>1. /\ m \in MsgToGame
      /\ \/ Idle(c, m) \/ Bought(c, m) \/ Declined(c, m) \/ Presented(c, m)
         \/ TookOut(c, m) \/ PaidOut(c, m) \/ HandedBack(c, m)
  BY ReceiveCases
<1>2. /\ SumFunction(purse) \in Nat /\ SumFunction(Purse) \in Nat
      /\ gold \in Nat /\ Total(toDB, PaidBy) \in Nat /\ Total(toDB, TakenBy) \in Nat
      /\ TakenBy \in [MsgToDB -> Nat] /\ PaidBy \in [MsgToDB -> Nat]
  BY PurseSums, TotalsAreNat, WeightTypes
<1>3. purse \in [Chars -> Nat] /\ Owner \in Chars /\ Customers \subseteq Chars
  BY DEF TypeOK, GameTypeOK, Chars
<1>4. ASSUME NEW K, NoSend \/ Sends(c, K), "WithdrawDone" \notin K, "Buy" \notin K, UNCHANGED purse
      PROVE  Conserved'
  <2>1. \A a \in Packets(K) : TakenBy[a] = 0 /\ PaidBy[a] = 0
    BY <1>4, Weighs DEF Packets
  <2>2. Total(toDB', TakenBy) = Total(toDB, TakenBy) /\ Total(toDB', PaidBy) = Total(toDB, PaidBy)
    BY <1>2, <1>4, <2>1, SendsWeigh
  <2>. QED BY <1>4, <2>2 DEF Conserved
<1>5. CASE PaidOut(c, m)
  <2>1. PICK paid \in 1 .. panel.gold :
          /\ purse' = [purse EXCEPT ![Owner] = @ + paid]
          /\ Total(toDB', TakenBy) = Total(toDB, TakenBy) + paid
          /\ Total(toDB', PaidBy) = Total(toDB, PaidBy)
    <3>1. \/ \E paid \in 1 .. panel.gold :
                   /\ purse' = [purse EXCEPT ![Owner] = @ + paid] /\ panel'.gold = panel.gold - paid
                   /\ Total(toDB', TakenBy) = Total(toDB, TakenBy) + paid
                   /\ Total(toDB', PaidBy) = Total(toDB, PaidBy)
          \/ Total(toDB', TakenBy) = Total(toDB, TakenBy)
      BY CorePays
    <3>2. Total(toDB', TakenBy) # Total(toDB, TakenBy)
      <4>1. PICK paid \in 1 .. panel.gold : Send(c, <<[kind |-> "WithdrawDone", gold |-> paid]>>)
        BY <1>5 DEF PaidOut
      <4> DEFINE a == [kind |-> "WithdrawDone", gold |-> paid]
      <4>2. panel.gold \in Nat
        BY DEF TypeOK, GameTypeOK
      <4>3. paid \in Nat /\ paid # 0
        BY <4>2
      <4>4. a \in MsgToDB
        BY <4>3 DEF MsgToDB
      <4>5. TakenBy[a] = paid /\ Send(c, <<a>>)
        BY <4>1, <4>4, Weighs
      <4> HIDE DEF a
      <4>6. Total(toDB', TakenBy) = Total(toDB, TakenBy) + TakenBy[a]
        BY <1>2, <4>4, <4>5, SentWeighs
      <4>. QED BY <1>2, <4>3, <4>5, <4>6
    <3>. QED BY <3>1, <3>2
  <2>2. paid \in Nat /\ purse[Owner] \in Nat
    BY <1>3 DEF TypeOK, GameTypeOK
  <2> DEFINE v == purse[Owner] + paid
  <2>3. v \in Nat /\ purse' = [purse EXCEPT ![Owner] = v]
    BY <2>1, <2>2
  <2>4. SumFunction(purse') = SumFunction(purse) + v - purse[Owner]
    BY <1>3, <2>3, PurseSums
  <2>5. SumFunction(purse') = SumFunction(purse) + paid
    BY <1>2, <2>2, <2>4
  <2>. QED BY <1>2, <2>1, <2>2, <2>5 DEF Conserved
<1>6. CASE Bought(c, m)
  <2> DEFINE b == Payment(m)
             s == Save(m)
             ms == <<s, b>>
  <2>1. m.kind = "BuyRequest" /\ m.cust \in online /\ purse[m.cust] >= m.price
    BY <1>6 DEF Bought, CanBuy
  <2>2. m.cust \in Chars /\ m.price \in Nat
    BY <1>1, <1>3, <2>1, GameMsgFields
  <2>3. b \in MsgToDB /\ s \in MsgToDB /\ Send(c, ms)
    BY <1>1, <1>6, BoughtSends DEF Bought, Delivery, Payment, Save
  <2>4. TakenBy[b] = 0 /\ TakenBy[s] = 0 /\ PaidBy[b] = m.price /\ PaidBy[s] = 0
    <3>1. b.kind = "Buy" /\ b.price = m.price /\ s.kind = "ItemSave"
      BY PaymentNames
    <3> HIDE DEF b, s
    <3>. QED BY <2>3, <3>1, Weighs
  <2> HIDE DEF b, s
  <2>5. ASSUME NEW w \in [MsgToDB -> Nat]
        PROVE  Total(toDB', w) = Total(toDB, w) + (w[s] + w[b])
    <3> DEFINE ls == <<s>>
               lb == <<b>>
    <3>1. /\ ls \in Seq(MsgToDB) /\ lb \in Seq(MsgToDB) /\ w \in [MsgToDB -> Int]
          /\ Tally(ls, w) = w[s] /\ Tally(lb, w) = w[b]
      BY <2>3, IntWeights, QueueOfOne, TallyOfOne
    <3>2. ms = ls \o lb
      OBVIOUS
    <3> HIDE DEF ls, lb
    <3>3. Tally(ls \o lb, w) = Tally(ls, w) + Tally(lb, w)
      BY <3>1, TallyCat
    <3>4. ms \in Seq(MsgToDB)
      BY <2>3
    <3> HIDE DEF ms
    <3>5. Total(toDB', w) = Total(toDB, w) + Tally(ms, w)
      BY <2>3, <3>4, TotalSent
    <3>. QED BY <3>1, <3>2, <3>3, <3>5
  <2>6. /\ Total(toDB', TakenBy) = Total(toDB, TakenBy) + (TakenBy[s] + TakenBy[b])
        /\ Total(toDB', PaidBy) = Total(toDB, PaidBy) + (PaidBy[s] + PaidBy[b])
    BY <1>2, <2>5
  <2>7. Total(toDB', TakenBy) = Total(toDB, TakenBy) /\ Total(toDB', PaidBy) = Total(toDB, PaidBy) + m.price
    BY <1>2, <2>2, <2>4, <2>6
  <2> DEFINE v == purse[m.cust] - m.price
  <2>8. v \in Nat /\ purse[m.cust] \in Nat /\ purse' = [purse EXCEPT ![m.cust] = v]
    BY <1>3, <1>6, <2>1, <2>2 DEF Bought
  <2>9. SumFunction(purse') = SumFunction(purse) + v - purse[m.cust]
    BY <2>2, <2>8, PurseSums
  <2>10. SumFunction(purse') + m.price = SumFunction(purse)
    BY <1>2, <2>2, <2>8, <2>9
  <2>11. SumFunction(purse') \in Int
    BY <1>2, <2>8, <2>9
  <2>. QED BY <1>2, <2>2, <2>7, <2>10, <2>11 DEF Conserved
<1>7. ASSUME ~PaidOut(c, m), ~Bought(c, m)
      PROVE  Conserved'
  <2>1. \/ NoSend \/ Sends(c, {"Logout"}) \/ Sends(c, {"FailedBuy"})
        \/ Sends(c, {"CheckinUpdate"}) \/ Sends(c, {"CheckoutUpdate"}) \/ Sends(c, {"ItemTransfer", "Delete"})
    BY <1>1, <1>7, CoreSends
  <2>2. UNCHANGED purse
    BY <1>1, <1>7 DEF Idle, Declined, Presented, TookOut, HandedBack
  <2>3. /\ "WithdrawDone" \notin {"Logout"} /\ "Buy" \notin {"Logout"}
        /\ "WithdrawDone" \notin {"FailedBuy"} /\ "Buy" \notin {"FailedBuy"}
        /\ "WithdrawDone" \notin {"CheckinUpdate"} /\ "Buy" \notin {"CheckinUpdate"}
        /\ "WithdrawDone" \notin {"CheckoutUpdate"} /\ "Buy" \notin {"CheckoutUpdate"}
        /\ "WithdrawDone" \notin {"ItemTransfer", "Delete"} /\ "Buy" \notin {"ItemTransfer", "Delete"}
    OBVIOUS
  <2>. QED BY <1>4, <2>1, <2>2, <2>3
<1>. QED BY <1>5, <1>6, <1>7

LEMMA GoldInvStep == ASSUME TypeOK, GoldInv, [Next]_vars PROVE GoldInv'
<1>1. TypeOK' /\ BalanceInv' /\ OffersInv' /\ budget'["crash"] = 0
  BY NextTypes, BalanceStep, OffersStep, Unspent DEF GoldInv
<1>2. Conserved /\ SessionsInv /\ CustomersAlive
  BY DEF GoldInv, BalanceInv
<1>3. ASSUME DBStep PROVE Conserved'
  BY <1>1, <1>3, ConservedByDB
<1>4. ASSUME GameStep PROVE Conserved'
  <2>1. PICK c \in Cores : Receive(c)
    BY <1>4 DEF GameStep
  <2>2. UNCHANGED gold
    BY <1>4 DEF GameStep, dbVars
  <2>. QED BY <1>2, <2>1, <2>2, ConservedByCore
<1>5. ASSUME ClientStep PROVE Conserved'
  <2>1. /\ UNCHANGED purse
        /\ Total(toDB', TakenBy) = Total(toDB, TakenBy)
        /\ Total(toDB', PaidBy) = Total(toDB, PaidBy)
    BY <1>2, <1>5, ClientPays
  <2>2. UNCHANGED gold
    BY <1>5 DEF ClientStep, dbVars
  <2>. QED BY <1>2, <2>1, <2>2 DEF Conserved
<1>6. ASSUME EnvStep PROVE Conserved'
  <2>1. budget["crash"] = 0
    BY DEF GoldInv
  <2>2. \A c \in Cores : ~CoreCrash(c)
    BY <2>1 DEF CoreCrash, Spend
  <2>3. UNCHANGED <<toDB, gold, purse>>
    BY <1>6, <2>2 DEF EnvStep, gameVars, ReservationDue, DeadlinePasses, OwnerLogin, NoSend
  <2>. QED BY <1>2, <2>3 DEF Conserved
<1>7. ASSUME UNCHANGED vars PROVE Conserved'
  BY <1>2, <1>7 DEF vars, dbVars, gameVars, Conserved
<1>. QED BY <1>1, <1>3, <1>4, <1>5, <1>6, <1>7 DEF GoldInv, Next

LEMMA GoldInvInit == ASSUME NothingTaken, Limit["crash"] = 0, Init PROVE GoldInv
<1>1. TypeOK /\ BalanceInv /\ OffersInv /\ budget["crash"] = 0
  BY InitTypes, BalanceInit, OffersInit, StartIsEmpty DEF NothingTaken
<1>2. Total(toDB, TakenBy) = 0 /\ Total(toDB, PaidBy) = 0
  BY <1>1, StartIsEmpty, WeightTypes, TotalOfNothing
<1>3. gold = 0 /\ purse = Purse
  BY DEF Init
<1>4. SumFunction(Purse) \in Nat
  BY <1>1, PurseSums
<1>. QED BY <1>1, <1>2, <1>3, <1>4 DEF GoldInv, Conserved

LEMMA GoldInvariant == ASSUME NothingTaken, Limit["crash"] = 0 PROVE Spec => []GoldInv
<1>1. Init => GoldInv
  BY GoldInvInit
<1>2. TypeOK /\ GoldInv /\ [Next]_vars => GoldInv'
  BY GoldInvStep
<1>. QED BY <1>1, <1>2, TypeInvariant, PTL DEF Spec

\* No gold is made or lost: what customers paid is in the balance or under way to it, and
\* what the owner got leaves the balance once, for any number of cores, customers, sales,
\* edits, sessions and withdrawals (ItemTransaction, PrivateShopBuy, WithdrawPrivateShop,
\* PrivateShopWithdraw).  A crash of a core that has not saved yet does lose or make gold.
THEOREM GoldIsConserved == ASSUME NothingTaken, Limit["crash"] = 0 PROVE Spec => []GoldConserved
<1>1. TypeOK /\ GoldInv => GoldConserved
  BY SumIsTotal DEF GoldInv, Conserved, GoldConserved, TypeOK, WireTypeOK, MailToDB
<1>. QED BY <1>1, GoldInvariant, TypeInvariant, PTL

-----------------------------------------------------------------------------
\* Items.  What one step does to the items of the shop and to the item rows.

SameItems == (\A p \in Positions : slot'[p].item = slot[p].item) /\ UNCHANGED row

Moved(m) == /\ m.pos \in Positions /\ m.dst \in Positions
            /\ slot'[m.dst].item = slot[m.pos].item
            /\ m.dst # m.pos => slot[m.dst].item = NoItem /\ slot'[m.pos].item = NoItem
            /\ \A p \in Positions \ {m.pos, m.dst} : slot'[p].item = slot[p].item
            /\ UNCHANGED row
CheckedIn(m) == /\ m.kind = "CheckinUpdate" /\ m.pos \in Positions /\ m.item \in Items
                /\ slot[m.pos].item = NoItem /\ slot'[m.pos].item = m.item
                /\ \A p \in Positions \ {m.pos} : slot'[p].item = slot[p].item
                /\ row' = [row EXCEPT ![m.item] = NoItem]
Saved(m) == /\ m.kind = "ItemSave" /\ m.item \in Items /\ UNCHANGED slot
            /\ row' = [row EXCEPT ![m.item] = m.who]
Removed(m) == /\ m.kind = "Buy" /\ m.pos \in Positions /\ slot[m.pos].item = m.item
              /\ slot'[m.pos].item = NoItem
              /\ \A p \in Positions \ {m.pos} : slot'[p].item = slot[p].item
              /\ UNCHANGED row

\* A shop without items has none after being closed or destroyed.
LEMMA VanishedItems == ASSUME NoItems(slot), Vanish, UNCHANGED row PROVE SameItems
BY DEF NoItems, Occupied, Vanish, EmptySlot, FreshSlot, SameItems

LEMMA SameAt ==
    ASSUME slot \in [Positions -> Slot], NEW p \in Positions, NEW r, slot' = [slot EXCEPT ![p] = r],
           r.item = slot[p].item, UNCHANGED row
    PROVE  SameItems
BY DEF SameItems

LEMMA TradeItems ==
    ASSUME TypeOK, NEW c \in Cores, NEW m \in MsgToDB,
           PrivateShopBuyRequest(c, m) \/ PrivateShopBuy(c, m) \/ PrivateShopFailedBuy(c, m)
    PROVE  SameItems \/ Removed(m)
<1>1. slot \in [Positions -> Slot] /\ (m.kind \in {"BuyRequest", "Buy", "FailedBuy"} => m.pos \in Positions)
  BY DBMsgFields DEF TypeOK, DBTypeOK
<1>2. Refused => SameItems
  BY DEF Refused, dbVars, SameItems
<1>3. ASSUME PrivateShopBuyRequest(c, m), ~Refused
      PROVE  SameItems
  <2> DEFINE r == [slot[m.pos] EXCEPT !.avail = FALSE, !.token = reservation', !.buyer = c, !.due = FALSE]
  <2>1. m.kind = "BuyRequest" /\ slot' = [slot EXCEPT ![m.pos] = r] /\ UNCHANGED row
    BY <1>3 DEF PrivateShopBuyRequest
  <2>2. r.item = slot[m.pos].item
    BY <1>1, <2>1 DEF Slot
  <2> HIDE DEF r
  <2>. QED BY <1>1, <2>1, <2>2, SameAt
<1>4. ASSUME PrivateShopFailedBuy(c, m), ~Refused
      PROVE  SameItems
  <2> DEFINE r == [slot[m.pos] EXCEPT !.avail = TRUE, !.due = FALSE]
  <2>1. m.kind = "FailedBuy" /\ slot' = [slot EXCEPT ![m.pos] = r] /\ UNCHANGED row
    BY <1>4 DEF PrivateShopFailedBuy
  <2>2. r.item = slot[m.pos].item
    BY <1>1, <2>1 DEF Slot
  <2> HIDE DEF r
  <2>. QED BY <1>1, <2>1, <2>2, SameAt
<1>5. ASSUME PrivateShopBuy(c, m), ~Refused
      PROVE  Removed(m)
  <2>1. m.kind = "Buy" /\ slot[m.pos].item = m.item /\ slot' = Clear(slot, m.pos) /\ UNCHANGED row
    BY <1>5 DEF PrivateShopBuy, Holds
  <2>2. \A p \in Positions : slot'[p] = IF p = m.pos THEN EmptySlot ELSE slot[p]
    BY <1>1, <2>1 DEF Clear
  <2>. QED BY <1>1, <2>1, <2>2 DEF Removed, EmptySlot, FreshSlot
<1>. QED BY <1>2, <1>3, <1>4, <1>5

LEMMA EditItems ==
    ASSUME TypeOK, NEW c \in Cores, NEW m \in MsgToDB,
           \/ PrivateShopItemPriceChangeRequest(c, m) \/ PrivateShopItemMoveRequest(c, m)
           \/ PrivateShopItemCheckinUpdate(c, m) \/ QueryItemSave(c, m)
    PROVE  SameItems \/ CheckedIn(m) \/ Saved(m) \/ (state = "MODIFY" /\ Moved(m))
<1>1. /\ slot \in [Positions -> Slot]
      /\ m.kind \in {"Price", "Move", "CheckinUpdate"} => m.pos \in Positions
      /\ m.kind = "Move" => m.dst \in Positions
      /\ m.kind \in {"CheckinUpdate", "ItemSave"} => m.item \in Items
  BY DBMsgFields DEF TypeOK, DBTypeOK
<1>2. Refused => SameItems
  BY DEF Refused, dbVars, SameItems
<1>3. ASSUME PrivateShopItemPriceChangeRequest(c, m), ~Refused
      PROVE  SameItems
  <2> DEFINE r == [slot[m.pos] EXCEPT !.price = m.price]
  <2>1. m.kind = "Price" /\ slot' = [slot EXCEPT ![m.pos] = r] /\ UNCHANGED row
    BY <1>3 DEF PrivateShopItemPriceChangeRequest
  <2>2. r.item = slot[m.pos].item
    BY <1>1, <2>1 DEF Slot
  <2> HIDE DEF r
  <2>. QED BY <1>1, <2>1, <2>2, SameAt
<1>4. QueryItemSave(c, m) => Saved(m)
  BY <1>1 DEF QueryItemSave, Saved
<1>5. ASSUME PrivateShopItemCheckinUpdate(c, m), ~Refused
      PROVE  CheckedIn(m)
  <2>1. /\ m.kind = "CheckinUpdate" /\ slot[m.pos].item = NoItem
        /\ slot' = [slot EXCEPT ![m.pos] = FreshSlot(m.item, m.price)]
        /\ row' = [row EXCEPT ![m.item] = NoItem]
    BY <1>5 DEF PrivateShopItemCheckinUpdate
  <2>2. \A p \in Positions : slot'[p] = IF p = m.pos THEN FreshSlot(m.item, m.price) ELSE slot[p]
    BY <1>1, <2>1
  <2>. QED BY <1>1, <2>1, <2>2 DEF CheckedIn, FreshSlot
<1>6. ASSUME PrivateShopItemMoveRequest(c, m), ~Refused
      PROVE  state = "MODIFY" /\ Moved(m)
  <2>1. /\ m.kind = "Move" /\ state = "MODIFY" /\ Clear(slot, m.pos)[m.dst] = EmptySlot /\ UNCHANGED row
        /\ slot' = [Clear(slot, m.pos) EXCEPT ![m.dst] = slot[m.pos]]
    BY <1>6 DEF PrivateShopItemMoveRequest, Editable
  <2>2. \A p \in Positions : Clear(slot, m.pos)[p] = IF p = m.pos THEN EmptySlot ELSE slot[p]
    BY <1>1, <2>1 DEF Clear
  <2>3. \A p \in Positions : slot'[p] = IF p = m.dst THEN slot[m.pos] ELSE IF p = m.pos THEN EmptySlot ELSE slot[p]
    BY <1>1, <2>1, <2>2 DEF Clear
  <2>4. EmptySlot.item = NoItem
    BY DEF EmptySlot, FreshSlot
  <2>. QED BY <1>1, <2>1, <2>2, <2>3, <2>4 DEF Moved
<1>. QED BY <1>2, <1>3, <1>4, <1>5, <1>6

LEMMA OtherItems ==
    ASSUME NEW c \in Cores, NEW m \in MsgToDB,
           \/ PrivateShopModifyRequest(c, m) \/ PrivateShopWithdraw(c, m)
           \/ PrivateShopItemCheckinRequest(c, m) \/ PrivateShopItemCheckoutRequest(c, m)
           \/ PrivateShopWithdrawRequest(c, m) \/ PrivateShopClose(c, m)
           \/ PrivateShopLogout(c, m) \/ AccountLogout(c, m)
    PROVE  SameItems
<1>1. UNCHANGED <<slot, row>> => SameItems
  BY DEF SameItems
<1>2. /\ PrivateShopModifyRequest(c, m) => UNCHANGED <<slot, row>>
      /\ PrivateShopItemCheckinRequest(c, m) \/ PrivateShopItemCheckoutRequest(c, m) => UNCHANGED <<slot, row>>
      /\ PrivateShopWithdrawRequest(c, m) \/ PrivateShopClose(c, m) => UNCHANGED <<slot, row>>
      /\ PrivateShopLogout(c, m) \/ AccountLogout(c, m) => UNCHANGED <<slot, row>>
  BY DEF PrivateShopModifyRequest, PrivateShopItemCheckinRequest, PrivateShopItemCheckoutRequest,
         PrivateShopWithdrawRequest, PrivateShopClose, PrivateShopLogout, AccountLogout, Refused, dbVars
<1>3. PrivateShopWithdraw(c, m) => UNCHANGED <<slot, row>> \/ (NoItems(slot) /\ Vanish /\ UNCHANGED row)
  BY DEF PrivateShopWithdraw, Refused, dbVars
<1>. QED BY <1>1, <1>2, <1>3, VanishedItems

LEMMA PacketItems ==
    ASSUME TypeOK, CloseUnasked, TakeUnasked, NEW c \in Cores, Process(c)
    PROVE  LET m == Head(toDB[c])
           IN SameItems \/ CheckedIn(m) \/ Saved(m) \/ Removed(m) \/ (state = "MODIFY" /\ Moved(m))
<1> DEFINE m == Head(toDB[c])
<1>1. m \in MsgToDB /\ m \in Range(toDB[c])
  BY TakenQueue
<1>2. m.kind \notin {"CheckoutUpdate", "ItemExpire", "ItemTransfer", "Delete"}
  BY <1>1 DEF CloseUnasked, TakeUnasked
<1>3. \/ PrivateShopBuyRequest(c, m) \/ PrivateShopBuy(c, m) \/ PrivateShopFailedBuy(c, m)
      \/ PrivateShopModifyRequest(c, m) \/ PrivateShopItemPriceChangeRequest(c, m)
      \/ PrivateShopItemMoveRequest(c, m) \/ PrivateShopItemCheckinUpdate(c, m)
      \/ PrivateShopItemCheckoutUpdate(c, m) \/ PrivateShopItemExpire(c, m)
      \/ PrivateShopWithdraw(c, m) \/ PrivateShopItemTransfer(c, m)
      \/ QueryItemSave(c, m) \/ PrivateShopItemCheckinRequest(c, m)
      \/ PrivateShopItemCheckoutRequest(c, m) \/ PrivateShopWithdrawRequest(c, m)
      \/ PrivateShopClose(c, m) \/ PrivateShopDelete(c, m) \/ PrivateShopLogout(c, m)
      \/ AccountLogout(c, m)
  BY Zenon DEF Process, m
<1> HIDE DEF m
<1>4. /\ PrivateShopItemCheckoutUpdate(c, m) => m.kind = "CheckoutUpdate"
      /\ PrivateShopItemExpire(c, m) => m.kind = "ItemExpire"
      /\ PrivateShopItemTransfer(c, m) => m.kind = "ItemTransfer"
      /\ PrivateShopDelete(c, m) => m.kind = "Delete"
  BY Zenon DEF PrivateShopItemCheckoutUpdate, PrivateShopItemExpire, PrivateShopItemTransfer, PrivateShopDelete
<1>5. SameItems \/ CheckedIn(m) \/ Saved(m) \/ Removed(m) \/ (state = "MODIFY" /\ Moved(m))
  BY <1>1, <1>2, <1>3, <1>4, TradeItems, EditItems, OtherItems
<1>. QED BY <1>5 DEF m

LEMMA UpdateItems ==
    ASSUME TypeOK, UpdatePrivateShopPremiumEvent \/ RESULT_PRIVATE_SHOP_LOAD \/ \E c \in Cores : RemovePeer(c)
    PROVE  SameItems
<1>1. slot \in [Positions -> Slot]
  BY DEF TypeOK, DBTypeOK
<1>2. ASSUME slot' = UpdatedSlot, UNCHANGED row
      PROVE  SameItems
  <2>1. \A p \in Positions : UpdatedSlot[p].item = slot[p].item
    BY <1>1 DEF UpdatedSlot
  <2>. QED BY <1>2, <2>1 DEF SameItems
<1>3. UNCHANGED row /\ (UNCHANGED slot \/ slot' = UpdatedSlot \/ (NoItems(slot) /\ Vanish))
  BY DEF UpdatePrivateShopPremiumEvent, RESULT_PRIVATE_SHOP_LOAD, RemovePeer, Emptied
<1>. QED BY <1>2, <1>3, VanishedItems DEF SameItems

LEMMA StepItems ==
    ASSUME TypeOK, CloseUnasked, TakeUnasked, Next
    PROVE  \/ SameItems
           \/ \E c \in Cores : LET m == Head(toDB[c])
                               IN Process(c) /\ (CheckedIn(m) \/ Saved(m) \/ Removed(m) \/ (state = "MODIFY" /\ Moved(m)))
<1>1. DBStep => (\E c \in Cores : Process(c)) \/ UpdatePrivateShopPremiumEvent \/ RESULT_PRIVATE_SHOP_LOAD
                 \/ \E c \in Cores : RemovePeer(c)
  BY DEF DBStep
<1>2. GameStep \/ ClientStep => UNCHANGED dbVars
  BY DEF GameStep, ClientStep
<1>3. UNCHANGED dbVars => SameItems
  BY DEF dbVars, SameItems
<1>4. ASSUME EnvStep
      PROVE  SameItems
  <2>1. slot \in [Positions -> Slot]
    BY DEF TypeOK, DBTypeOK
  <2>2. ASSUME NEW p \in Positions, ReservationDue(p)
        PROVE  SameItems
    BY <2>1, <2>2 DEF ReservationDue, SameItems
  <2>3. ASSUME NEW c \in Cores, OwnerLogin(c)
        PROVE  SameItems
    BY <2>3 DEF OwnerLogin, SameItems
  <2>4. DeadlinePasses => SameItems
    BY DEF DeadlinePasses, SameItems
  <2>. QED BY <1>3, <1>4, <2>2, <2>3, <2>4 DEF EnvStep
<1>. QED BY <1>1, <1>2, <1>3, <1>4, PacketItems, UpdateItems DEF Next

-----------------------------------------------------------------------------
\* Where the items are.

Stocked(i) == \E p \in Positions : slot[p].item = i

\* In the shop or in an inventory row; never in the shop and in the owner's row; at one
\* position at most.
ItemsIn == \A i \in Items : Stocked(i) \/ row[i] # NoItem
RowsApart == \A i \in Items : row[i] = Owner => ~Stocked(i)
SlotsApart == \A p, q \in Positions : slot[p].item = slot[q].item /\ slot[p].item # NoItem => p = q

\* The buyer's row is saved before the payment is read.
SavedFirst ==
    \A c \in Cores : \A m \in Range(toDB[c]) : m.kind = "Buy" =>
        \/ row[m.item] \in Customers
        \/ \E s \in Range(toDB[c]) : s.kind = "ItemSave" /\ s.item = m.item /\ <<s, m>> \in Before(toDB[c])
\* A save is of an item held for that core, and no answer to the hold is read before it.
SavesHeld ==
    \A c \in Cores : \A m \in Range(toDB[c]) : m.kind = "ItemSave" =>
        m.who \in Customers /\ \E p \in Reserved(slot) : slot[p].item = m.item /\ slot[p].buyer = c
SavesBefore ==
    \A c \in Cores : \A b \in Before(toDB[c]) : \A p \in Reserved(slot) :
        ~(b[2].kind = "ItemSave" /\ b[2].item = slot[p].item /\ b[1].kind \in Answering /\ b[1].token = slot[p].token)

\* What is being checked in is in the owner's row, and nothing is checked in twice.  So is
\* what the owner carries, but for an owner whose core was lost: what he carries then is
\* what his rows said, and they change until he is back.
CheckinsOwned == \A c \in Cores : \A m \in Range(toDB[c]) : m.kind = "CheckinUpdate" => row[m.item] = Owner
CheckinsOnce ==
    \A c \in Cores : \A p \in Before(toDB[c]) :
        p[1].kind = "CheckinUpdate" /\ p[2].kind = "CheckinUpdate" => p[1].item # p[2].item
CarriesOwn ==
    ownerAt.sess # 0 \/ crashed = {} => \A i \in bag[Owner] :
        /\ row[i] = Owner
        /\ \A c \in Cores : \A m \in Range(toDB[c]) : m.kind = "CheckinUpdate" => m.item # i

StoreInv == /\ OffersInv /\ ItemsIn /\ RowsApart /\ SlotsApart /\ SavedFirst /\ SavesHeld /\ SavesBefore
            /\ CheckinsOwned /\ CheckinsOnce /\ CarriesOwn

LEMMA SaveIsStocked ==
    ASSUME TypeOK, SavesHeld, NEW c \in Cores, NEW m \in Range(toDB[c]), m.kind = "ItemSave"
    PROVE  m.who \in Customers /\ m.who # Owner /\ m.who # NoItem /\ Stocked(m.item)
BY ReservedIn, ShopAssumption DEF SavesHeld, Stocked, Chars

\* When a payment is read its item is in the row of a customer.
LEMMA PaidIsSaved ==
    ASSUME TypeOK, StoreInv, NEW c \in Cores, Process(c), Head(toDB[c]).kind = "Buy"
    PROVE  row[Head(toDB[c]).item] \in Customers
<1> DEFINE m == Head(toDB[c])
           q == toDB[c]
           t == Tail(q)
<1>1. q \in Seq(MsgToDB) /\ q # <<>> /\ m \in Range(q)
  BY TakenQueue
<1>2. Before(q) = Before(t) \cup ({m} \X Range(t))
  BY <1>1, BeforeTail
<1>3. <<m, m>> \notin Before(q)
  <2> DEFINE p == <<m, m>>
  <2>1. p[1] = m /\ p[2] = m
    OBVIOUS
  <2> HIDE DEF p, m, q
  <2>2. p \notin Before(q)
    BY <2>1 DEF StoreInv, OffersInv, AnsweredOnce, Answering, m, q
  <2>. QED BY <2>2 DEF p
<1>4. ASSUME NEW s \in Range(q), s.kind = "ItemSave", <<s, m>> \in Before(q)
      PROVE  FALSE
  <2>1. s # m
    BY <1>4
  <2>2. t \in Seq(MsgToDB)
    BY <1>1
  <2> HIDE DEF m, q, t
  <2>3. <<s, m>> \in Before(t)
    BY <1>2, <1>4, <2>1
  <2>4. m \in Range(t)
    BY <2>2, <2>3, BeforeIn
  <2>. QED BY <1>2, <1>3, <2>4
<1>. QED BY <1>1, <1>4 DEF StoreInv, SavedFirst

LEMMA ItemsStep ==
    ASSUME TypeOK, StoreInv, Next
    PROVE  ItemsIn' /\ RowsApart' /\ SlotsApart'
<1>1. /\ ItemsIn /\ RowsApart /\ SlotsApart /\ slot \in [Positions -> Slot]
      /\ row \in [Items -> Chars \cup {NoItem}] /\ NoItem \notin Items
  BY ShopAssumption DEF StoreInv, TypeOK, DBTypeOK
<1>2. CASE SameItems
  BY <1>1, <1>2 DEF SameItems, ItemsIn, RowsApart, SlotsApart, Stocked
<1>3. ASSUME NEW c \in Cores, NEW m, m = Head(toDB[c]), Process(c), CheckedIn(m)
      PROVE  ItemsIn' /\ RowsApart' /\ SlotsApart'
  <2>1. m \in Range(toDB[c]) /\ row[m.item] = Owner /\ m.item \in Items
    BY <1>3, TakenQueue DEF StoreInv, CheckinsOwned, CheckedIn
  <2>2. ~Stocked(m.item) /\ Owner # NoItem
    BY <1>1, <2>1, ShopAssumption DEF RowsApart, Chars
  <2>3. /\ m.pos \in Positions /\ slot[m.pos].item = NoItem /\ slot'[m.pos].item = m.item
        /\ \A p \in Positions \ {m.pos} : slot'[p].item = slot[p].item
        /\ \A i \in Items : row'[i] = IF i = m.item THEN NoItem ELSE row[i]
    BY <1>1, <1>3 DEF CheckedIn
  <2>4. \A i \in Items : Stocked(i)' <=> Stocked(i) \/ i = m.item
    BY <1>1, <2>1, <2>3 DEF Stocked
  <2>5. ItemsIn' /\ RowsApart'
    BY <1>1, <2>2, <2>3, <2>4 DEF ItemsIn, RowsApart
  <2>6. SlotsApart'
    BY <1>1, <2>2, <2>3 DEF SlotsApart, Stocked
  <2>. QED BY <2>5, <2>6
<1>4. ASSUME NEW c \in Cores, NEW m, m = Head(toDB[c]), Process(c), Saved(m)
      PROVE  ItemsIn' /\ RowsApart' /\ SlotsApart'
  <2>1. m \in Range(toDB[c]) /\ m.kind = "ItemSave"
    BY <1>4, TakenQueue DEF Saved
  <2>2. m.who # Owner /\ m.who # NoItem
    BY <2>1, SaveIsStocked DEF StoreInv
  <2>3. UNCHANGED slot /\ \A i \in Items : row'[i] = IF i = m.item THEN m.who ELSE row[i]
    BY <1>1, <1>4 DEF Saved
  <2>. QED BY <1>1, <2>2, <2>3 DEF ItemsIn, RowsApart, SlotsApart, Stocked
<1>5. ASSUME NEW c \in Cores, NEW m, m = Head(toDB[c]), Process(c), Removed(m)
      PROVE  ItemsIn' /\ RowsApart' /\ SlotsApart'
  <2>1. row[m.item] \in Customers
    BY <1>5, PaidIsSaved DEF Removed
  <2>2. row[m.item] # NoItem
    BY <2>1, ShopAssumption DEF Chars
  <2>3. /\ UNCHANGED row /\ m.pos \in Positions /\ slot[m.pos].item = m.item /\ slot'[m.pos].item = NoItem
        /\ \A p \in Positions \ {m.pos} : slot'[p].item = slot[p].item
    BY <1>5 DEF Removed
  <2>4. /\ \A i \in Items : Stocked(i)' => Stocked(i)
        /\ \A i \in Items : Stocked(i) => Stocked(i)' \/ i = m.item
    BY <1>1, <2>3 DEF Stocked
  <2>5. ItemsIn' /\ RowsApart'
    BY <1>1, <2>2, <2>3, <2>4 DEF ItemsIn, RowsApart
  <2>6. SlotsApart'
    BY <1>1, <2>3 DEF SlotsApart
  <2>. QED BY <2>5, <2>6
<1>6. ASSUME NEW c \in Cores, NEW m, m = Head(toDB[c]), Moved(m)
      PROVE  ItemsIn' /\ RowsApart' /\ SlotsApart'
  <2>1. /\ m.pos \in Positions /\ m.dst \in Positions /\ UNCHANGED row
        /\ slot'[m.dst].item = slot[m.pos].item
        /\ m.dst # m.pos => slot[m.dst].item = NoItem /\ slot'[m.pos].item = NoItem
        /\ \A p \in Positions \ {m.pos, m.dst} : slot'[p].item = slot[p].item
    BY <1>6 DEF Moved
  <2>2. \A i \in Items : Stocked(i)' <=> Stocked(i)
    BY <1>1, <2>1 DEF Stocked
  <2>3. ItemsIn' /\ RowsApart'
    BY <1>1, <2>1, <2>2 DEF ItemsIn, RowsApart
  <2>4. SlotsApart'
    BY <1>1, <2>1 DEF SlotsApart
  <2>. QED BY <2>3, <2>4
<1>7. CloseUnasked /\ TakeUnasked
  BY DEF StoreInv, OffersInv
<1>. QED BY <1>2, <1>3, <1>4, <1>5, <1>6, <1>7, StepItems

-----------------------------------------------------------------------------
\* What a step adds to the packets to the DB process, of the kinds that say where items are.

Placing == {"ItemSave", "Buy", "CheckinUpdate"}
Deposit(m) == [m EXCEPT !.kind = "CheckinUpdate"]
Buys(k) == Receive(k) /\ Bought(k, Head(toGame[k])) /\ UNCHANGED dbVars
ChecksIn(k) == Receive(k) /\ Presented(k, Head(toGame[k])) /\ UNCHANGED dbVars
AddedTo(k, a) == \/ Buys(k) /\ a \in {Save(Head(toGame[k])), Payment(Head(toGame[k]))}
                 \/ ChecksIn(k) /\ a = Deposit(Head(toGame[k]))
AddsPlacing(k) ==
    /\ \A a \in Range(toDB'[k]) : a \in Range(toDB[k]) \/ a.kind \notin Placing \/ AddedTo(k, a)
    /\ \A p \in Before(toDB'[k]) :
         \/ p \in Before(toDB[k]) \/ p[2].kind \notin Placing
         \/ AddedTo(k, p[2]) /\ (p[1] \in Range(toDB[k]) \/ (Buys(k) /\ p[1] = Save(Head(toGame[k]))
                                                             /\ p[2] = Payment(Head(toGame[k]))))
    /\ \A a \in Range(toDB[k]) : a \in Range(toDB'[k]) \/ (\E c \in Cores : CoreCrash(c))
                                   \/ (Process(k) /\ a = Head(toDB[k]))
    /\ \A p \in Before(toDB[k]) : p \in Before(toDB'[k]) \/ (\E c \in Cores : CoreCrash(c))
                                   \/ (Process(k) /\ p[1] = Head(toDB[k]))

LEMMA DepositIs ==
    ASSUME NEW m \in MsgToGame, m.kind = "Checkin"
    PROVE  Deposit(m) \in MsgToDB /\ Deposit(m).kind = "CheckinUpdate" /\ Deposit(m).item = m.item /\ m.item \in Items
<1>1. m \in [kind : {"Checkin"}, sess : Nat, pos : Positions, item : Items, price : Nat]
  BY DEF MsgToGame
<1>2. Deposit(m) \in [kind : {"CheckinUpdate"}, sess : Nat, pos : Positions, item : Items, price : Nat]
  BY <1>1 DEF Deposit
<1>3. Deposit(m).kind = "CheckinUpdate" /\ Deposit(m).item = m.item /\ m.item \in Items
  BY <1>1 DEF Deposit
<1>. QED BY <1>2, <1>3 DEF MsgToDB

LEMMA PresentsOne ==
    ASSUME TypeOK, NEW c \in Cores, NEW m \in MsgToGame, Presented(c, m), NEW k \in Cores
    PROVE  /\ Range(toDB'[k]) = Range(toDB[k]) \cup (IF k = c THEN {Deposit(m)} ELSE {})
           /\ Before(toDB'[k]) = Before(toDB[k]) \cup (IF k = c THEN Range(toDB[k]) \X {Deposit(m)} ELSE {})
<1> DEFINE d == Deposit(m)
           l == <<d>>
<1>1. d \in MsgToDB /\ Send(c, l)
  BY DepositIs DEF Presented, Deposit
<1> HIDE DEF d
<1>2. l \in Seq(MsgToDB) /\ Range(l) = {d} /\ Before(l) = {}
  BY <1>1, QueueOfOne
<1>3. toDB \in MailToDB
  BY DEF TypeOK, WireTypeOK, MailToDB
<1> HIDE DEF l
<1>4. /\ Range(toDB'[k]) = Range(toDB[k]) \cup (IF k = c THEN Range(l) ELSE {})
      /\ Before(toDB'[k]) = Before(toDB[k])
           \cup (IF k = c THEN Before(l) \cup (Range(toDB[k]) \X Range(l)) ELSE {})
  BY <1>1, <1>2, <1>3, SentQueue
<1>. QED BY <1>2, <1>4 DEF d

LEMMA SendsGrow ==
    ASSUME TypeOK, NEW d, NEW ms \in Seq(MsgToDB), Send(d, ms), NEW k \in Cores
    PROVE  Range(toDB[k]) \subseteq Range(toDB'[k]) /\ Before(toDB[k]) \subseteq Before(toDB'[k])
<1>1. toDB \in MailToDB
  BY DEF TypeOK, WireTypeOK, MailToDB
<1>. QED BY <1>1, SentQueue

LEMMA PlainGrow ==
    ASSUME TypeOK, NEW d, NEW K, Sends(d, K), K \cap Placing = {}, NEW k \in Cores
    PROVE  AddsPlacing(k)
<1>1. Packets(K) \subseteq MsgToDB /\ \A a \in Packets(K) : a.kind \notin Placing
  BY DEF Packets
<1>2. PICK ms \in Seq(Packets(K)) : Send(d, ms)
  BY DEF Sends
<1>3. ms \in Seq(MsgToDB)
  BY <1>1
<1>4. Range(toDB[k]) \subseteq Range(toDB'[k]) /\ Before(toDB[k]) \subseteq Before(toDB'[k])
  BY <1>2, <1>3, SendsGrow
<1>5. /\ Range(toDB'[k]) \subseteq Range(toDB[k]) \cup (IF k = d THEN Packets(K) ELSE {})
      /\ \A p \in Before(toDB'[k]) : p \in Before(toDB[k]) \/ (k = d /\ p[2] \in Packets(K))
  BY SendsOf
<1>. QED BY <1>1, <1>4, <1>5 DEF AddsPlacing

LEMMA CoreAdds ==
    ASSUME TypeOK, NEW c \in Cores, Receive(c), UNCHANGED dbVars, NEW k \in Cores
    PROVE  AddsPlacing(k)
<1> DEFINE m == Head(toGame[c])
<1>1. /\ m \in MsgToGame
      /\ \/ Idle(c, m) \/ Bought(c, m) \/ Declined(c, m) \/ Presented(c, m)
         \/ TookOut(c, m) \/ PaidOut(c, m) \/ HandedBack(c, m)
  BY ReceiveCases
<1>2. panel.gold \in Nat
  BY DEF TypeOK, GameTypeOK
<1>3. ASSUME NoSend
      PROVE  AddsPlacing(k)
  BY <1>3 DEF NoSend, AddsPlacing
<1>4. ASSUME Bought(c, m)
      PROVE  AddsPlacing(k)
  <2> DEFINE s == Save(m)
             b == Payment(m)
  <2>1. /\ Range(toDB'[k]) = Range(toDB[k]) \cup (IF k = c THEN {s, b} ELSE {})
        /\ Before(toDB'[k]) = Before(toDB[k])
             \cup (IF k = c THEN {<<s, b>>} \cup (Range(toDB[k]) \X {s, b}) ELSE {})
    BY <1>1, <1>4, BoughtSends
  <2>2. k = c => Buys(k)
    BY <1>4 DEF Buys
  <2>3. \A a : k = c /\ a \in {s, b} => AddedTo(k, a)
    BY <2>2 DEF AddedTo
  <2>4. k = c => s = Save(Head(toGame[k])) /\ b = Payment(Head(toGame[k]))
    OBVIOUS
  <2> HIDE DEF s, b, m
  <2>5. \A a \in Range(toDB'[k]) : a \in Range(toDB[k]) \/ a.kind \notin Placing \/ AddedTo(k, a)
    BY <2>1, <2>3
  <2>6. ASSUME NEW p \in Before(toDB'[k]), p \notin Before(toDB[k])
        PROVE  AddedTo(k, p[2]) /\ (p[1] \in Range(toDB[k]) \/ (Buys(k) /\ p[1] = Save(Head(toGame[k]))
                                                                /\ p[2] = Payment(Head(toGame[k]))))
    <3>1. k = c /\ (p = <<s, b>> \/ p \in Range(toDB[k]) \X {s, b})
      BY <2>1, <2>6
    <3>2. p[2] \in {s, b} /\ (p[1] \in Range(toDB[k]) \/ (p[1] = s /\ p[2] = b))
      BY <3>1
    <3>. QED BY <2>2, <2>3, <2>4, <3>1, <3>2
  <2>7. Range(toDB[k]) \subseteq Range(toDB'[k]) /\ Before(toDB[k]) \subseteq Before(toDB'[k])
    BY <2>1
  <2>. QED BY <2>5, <2>6, <2>7 DEF AddsPlacing
<1>5. ASSUME Presented(c, m)
      PROVE  AddsPlacing(k)
  <2> DEFINE d == Deposit(m)
  <2>1. /\ Range(toDB'[k]) = Range(toDB[k]) \cup (IF k = c THEN {d} ELSE {})
        /\ Before(toDB'[k]) = Before(toDB[k]) \cup (IF k = c THEN Range(toDB[k]) \X {d} ELSE {})
    BY <1>1, <1>5, PresentsOne
  <2>2. \A a : k = c /\ a = d => AddedTo(k, a)
    BY <1>5 DEF AddedTo, ChecksIn
  <2> HIDE DEF d, m
  <2>3. \A p \in Before(toDB'[k]) : p \in Before(toDB[k]) \/ (k = c /\ p[1] \in Range(toDB[k]) /\ p[2] = d)
    BY <2>1
  <2>. QED BY <2>1, <2>2, <2>3 DEF AddsPlacing
<1> HIDE DEF m
<1>6. /\ Idle(c, m) => NoSend \/ Sends(c, {"Logout"})
      /\ Declined(c, m) => Sends(c, {"FailedBuy"})
      /\ TookOut(c, m) => Sends(c, {"CheckoutUpdate"})
      /\ PaidOut(c, m) => Sends(c, {"WithdrawDone"})
      /\ HandedBack(c, m) => Sends(c, {"ItemTransfer", "Delete"})
  BY <1>1, <1>2, CoreSends
<1>7. /\ {"Logout"} \cap Placing = {} /\ {"FailedBuy"} \cap Placing = {} /\ {"CheckoutUpdate"} \cap Placing = {}
      /\ {"WithdrawDone"} \cap Placing = {} /\ {"ItemTransfer", "Delete"} \cap Placing = {}
  BY DEF Placing
<1>. QED BY <1>1, <1>3, <1>4, <1>5, <1>6, <1>7, PlainGrow

LEMMA ClientAdds ==
    ASSUME TypeOK, ClientStep, NEW k \in Cores
    PROVE  AddsPlacing(k)
<1>1. /\ Asking \cap Placing = {} /\ {"Close"} \cap Placing = {} /\ {"CheckoutRequest"} \cap Placing = {}
      /\ {"BuyRequest"} \cap Placing = {} /\ {"ItemExpire"} \cap Placing = {}
  BY DEF Placing, Asking
<1>2. NoSend => AddsPlacing(k)
  BY DEF NoSend, AddsPlacing
<1>3. ASSUME LoggedOut
      PROVE  AddsPlacing(k)
  <2> DEFINE K == {"Logout", "AccountLogout"}
  <2>1. Sends(ownerAt.core, K)
    BY <1>3, LoggedOutSends
  <2>2. K \cap Placing = {}
    BY DEF Placing
  <2> HIDE DEF K
  <2>. QED BY <2>1, <2>2, PlainGrow
<1>. QED BY <1>1, <1>2, <1>3, ClientCases, PlainGrow

LEMMA StepAdds ==
    ASSUME TypeOK, Next, NEW k \in Cores
    PROVE  AddsPlacing(k)
<1>1. ASSUME NEW c \in Cores, Process(c)
      PROVE  AddsPlacing(k)
  <2> DEFINE q == toDB[c]
  <2>1. /\ toDB'[k] = IF k = c THEN Tail(q) ELSE toDB[k]
        /\ Range(toDB'[k]) \subseteq Range(toDB[k]) /\ Before(toDB'[k]) \subseteq Before(toDB[k])
        /\ Range(toDB[k]) \subseteq Range(toDB'[k]) \cup (IF k = c THEN {Head(q)} ELSE {})
        /\ q \in Seq(MsgToDB) /\ q # <<>>
    BY <1>1, TakenQueue
  <2>2. Before(q) = Before(Tail(q)) \cup ({Head(q)} \X Range(Tail(q)))
    BY <2>1, BeforeTail
  <2>3. \A p \in Before(toDB[k]) : p \in Before(toDB'[k]) \/ (k = c /\ p[1] = Head(q))
    BY <2>1, <2>2
  <2>. QED BY <1>1, <2>1, <2>3 DEF AddsPlacing
<1>2. ASSUME NEW c \in Cores, CoreCrash(c)
      PROVE  AddsPlacing(k)
  BY <1>2, CutQueue DEF AddsPlacing
<1>3. ASSUME UNCHANGED toDB
      PROVE  AddsPlacing(k)
  BY <1>3 DEF AddsPlacing
<1>4. DBStep => UNCHANGED toDB \/ \E c \in Cores : Process(c)
  BY DEF DBStep
<1>5. EnvStep => UNCHANGED toDB \/ \E c \in Cores : CoreCrash(c)
  BY DEF EnvStep, DeadlinePasses, OwnerLogin, NoSend
<1>. QED BY <1>1, <1>2, <1>3, <1>4, <1>5, CoreAdds, ClientAdds DEF Next, GameStep

-----------------------------------------------------------------------------
\* Saves before payments, check-ins once.

LEMMA RowStep ==
    ASSUME TypeOK, StoreInv, Next, NEW i \in Items
    PROVE  \/ row'[i] = row[i]
           \/ row'[i] \in Customers /\ Stocked(i)
           \/ /\ row[i] = Owner /\ row'[i] = NoItem
              /\ \E c \in Cores : Process(c) /\ Head(toDB[c]).kind = "CheckinUpdate" /\ Head(toDB[c]).item = i
<1>1. row \in [Items -> Chars \cup {NoItem}] /\ CloseUnasked /\ TakeUnasked
  BY DEF TypeOK, DBTypeOK, StoreInv, OffersInv
<1>2. CASE SameItems
  BY <1>2 DEF SameItems
<1>3. ASSUME NEW c \in Cores, NEW m, m = Head(toDB[c]), Process(c),
             CheckedIn(m) \/ Saved(m) \/ Removed(m) \/ Moved(m)
      PROVE  \/ row'[i] = row[i]
             \/ row'[i] \in Customers /\ Stocked(i)
             \/ row[i] = Owner /\ row'[i] = NoItem /\ m.kind = "CheckinUpdate" /\ m.item = i
  <2>1. m \in Range(toDB[c])
    BY <1>3, TakenQueue
  <2>2. CASE CheckedIn(m)
    BY <1>1, <2>1, <2>2 DEF CheckedIn, StoreInv, CheckinsOwned
  <2>3. CASE Saved(m)
    <3>1. m.who \in Customers /\ Stocked(m.item)
      BY <2>1, <2>3, SaveIsStocked DEF Saved, StoreInv
    <3>. QED BY <1>1, <2>3, <3>1 DEF Saved
  <2>4. CASE Removed(m) \/ Moved(m)
    BY <2>4 DEF Removed, Moved
  <2>. QED BY <1>3, <2>2, <2>3, <2>4
<1>. QED BY <1>1, <1>2, <1>3, StepItems

LEMMA SaveIsWritten ==
    ASSUME TypeOK, NEW c \in Cores, Process(c), Head(toDB[c]).kind = "ItemSave"
    PROVE  row'[Head(toDB[c]).item] = Head(toDB[c]).who
<1> DEFINE m == Head(toDB[c])
<1>1. m \in MsgToDB /\ m.kind = "ItemSave"
  BY TakenQueue
<1>2. QueryItemSave(c, m)
  BY Zenon, <1>1 DEF Process, PrivateShopBuyRequest, PrivateShopBuy, PrivateShopFailedBuy, PrivateShopModifyRequest,
     PrivateShopItemPriceChangeRequest, PrivateShopItemMoveRequest, PrivateShopItemCheckinRequest,
     PrivateShopItemCheckinUpdate, PrivateShopItemCheckoutRequest, PrivateShopItemCheckoutUpdate,
     PrivateShopItemExpire, PrivateShopWithdrawRequest, PrivateShopWithdraw, PrivateShopClose,
     PrivateShopItemTransfer, PrivateShopDelete, PrivateShopLogout, AccountLogout
<1> HIDE DEF m
<1>3. m.item \in Items /\ row \in [Items -> Chars \cup {NoItem}]
  BY <1>1, DBMsgFields DEF TypeOK, DBTypeOK
<1>4. row'[m.item] = m.who
  BY <1>2, <1>3 DEF QueryItemSave
<1>. QED BY <1>4 DEF m

\* What is before a payment stays before it, unless it is read.
LEMMA BeforePayment ==
    ASSUME TypeOK, StoreInv, Next, NEW k \in Cores, NEW m \in Range(toDB'[k]), m.kind = "Buy",
           NEW s, <<s, m>> \in Before(toDB[k])
    PROVE  <<s, m>> \in Before(toDB'[k]) \/ (Process(k) /\ s = Head(toDB[k]))
<1>1. ASSUME NEW c \in Cores, CoreCrash(c)
      PROVE  <<s, m>> \in Before(toDB'[k])
  <2>1. PICK n \in 0 .. Len(toDB[k]) : toDB'[k] = SubSeq(toDB[k], 1, n)
    BY <1>1, CutQueue
  <2> DEFINE p == <<m, m>>
  <2>2. p[1] = m /\ p[2] = m
    OBVIOUS
  <2> HIDE DEF p
  <2>3. p \notin Before(toDB[k])
    BY <2>2 DEF StoreInv, OffersInv, AnsweredOnce, Answering
  <2>4. toDB[k] \in Seq(MsgToDB)
    BY DEF TypeOK, WireTypeOK
  <2>5. <<m, m>> \notin Before(toDB[k])
    BY <2>3 DEF p
  <2>. QED BY <2>1, <2>4, <2>5, BeforeCut
<1>2. AddsPlacing(k)
  BY StepAdds
<1> DEFINE p == <<s, m>>
<1>3. p[1] = s /\ p \in Before(toDB[k])
  OBVIOUS
<1> HIDE DEF p
<1>4. p \in Before(toDB'[k]) \/ (\E c \in Cores : CoreCrash(c)) \/ (Process(k) /\ s = Head(toDB[k]))
  BY <1>2, <1>3 DEF AddsPlacing
<1>. QED BY <1>1, <1>4 DEF p

LEMMA SavedFirstStep == ASSUME TypeOK, StoreInv, Next PROVE SavedFirst'
<1> SUFFICES ASSUME NEW k \in Cores, NEW m \in Range(toDB'[k]), m.kind = "Buy"
             PROVE  \/ row'[m.item] \in Customers
                    \/ \E s \in Range(toDB'[k]) : s.kind = "ItemSave" /\ s.item = m.item /\ <<s, m>> \in Before(toDB'[k])
  BY DEF SavedFirst
<1>1. AddsPlacing(k)
  BY StepAdds
<1>2. ASSUME m \notin Range(toDB[k])
      PROVE  \E s \in Range(toDB'[k]) : s.kind = "ItemSave" /\ s.item = m.item /\ <<s, m>> \in Before(toDB'[k])
  <2> DEFINE h == Head(toGame[k])
             s == Save(h)
  <2>1. AddedTo(k, m)
    BY <1>1, <1>2 DEF AddsPlacing, Placing
  <2>2. m \in {s, Payment(h)} /\ Buys(k)
    <3>1. ASSUME ChecksIn(k), m = Deposit(h)
          PROVE  FALSE
      <4>1. h \in MsgToGame /\ h.kind = "Checkin"
        BY <3>1, ReadQueue DEF ChecksIn, Presented
      <4> HIDE DEF h
      <4>. QED BY <3>1, <4>1, DepositIs
    <3>. QED BY <2>1, <3>1 DEF AddedTo
  <2>3. h \in MsgToGame /\ Bought(k, h)
    BY <2>2, ReadQueue DEF Buys
  <2> HIDE DEF h
  <2>4. m = Payment(h) /\ m.item = h.item /\ s.kind = "ItemSave" /\ s.item = h.item
    BY <2>2, PaymentNames
  <2>5. s \in Range(toDB'[k]) /\ <<s, m>> \in Before(toDB'[k])
    <3>1. /\ Range(toDB'[k]) = Range(toDB[k]) \cup {s, Payment(h)}
          /\ Before(toDB'[k]) = Before(toDB[k]) \cup ({<<s, Payment(h)>>} \cup (Range(toDB[k]) \X {s, Payment(h)}))
      BY <2>3, BoughtSends
    <3> HIDE DEF s
    <3>. QED BY <2>4, <3>1
  <2>. QED BY <2>4, <2>5
<1>3. ASSUME m \in Range(toDB[k])
      PROVE  \/ row'[m.item] \in Customers
             \/ \E s \in Range(toDB'[k]) : s.kind = "ItemSave" /\ s.item = m.item /\ <<s, m>> \in Before(toDB'[k])
  <2>1. m \in MsgToDB /\ m.item \in Items /\ Owner \notin Customers
    BY <1>3, PacketTypes, NamesItem, ShopAssumption
  <2>2. CASE row[m.item] \in Customers
    BY <2>1, <2>2, RowStep
  <2>3. ASSUME NEW s \in Range(toDB[k]), s.kind = "ItemSave", s.item = m.item, <<s, m>> \in Before(toDB[k])
        PROVE  \/ row'[m.item] \in Customers
               \/ \E a \in Range(toDB'[k]) : a.kind = "ItemSave" /\ a.item = m.item /\ <<a, m>> \in Before(toDB'[k])
    <3>1. CASE <<s, m>> \in Before(toDB'[k])
      <4>1. toDB'[k] \in Seq(MsgToDB)
        BY NextTypes DEF TypeOK, WireTypeOK
      <4>2. s \in Range(toDB'[k])
        BY <3>1, <4>1, BeforeIn
      <4>. QED BY <2>3, <3>1, <4>2
    <3>2. CASE Process(k) /\ s = Head(toDB[k])
      BY <2>3, <3>2, SaveIsWritten, SaveIsStocked DEF StoreInv
    <3>. QED BY <2>3, <3>1, <3>2, BeforePayment
  <2>. QED BY <1>3, <2>2, <2>3 DEF StoreInv, SavedFirst
<1>. QED BY <1>2, <1>3

\* What is bought is held for the core that hands it over, under the offer's token.
LEMMA BuysHeld ==
    ASSUME TypeOK, OffersInv, NEW k \in Cores, Buys(k)
    PROVE  LET h == Head(toGame[k])
           IN /\ h \in MsgToGame /\ h.item \in Items /\ h.cust \in Customers
              /\ h.pos \in Reserved(slot) /\ slot[h.pos].item = h.item
              /\ slot[h.pos].buyer = k /\ slot[h.pos].token = h.token
              /\ \A a \in Range(toDB[k]) : a.kind \in Answering => a.token # h.token
              /\ UNCHANGED slot
<1> DEFINE h == Head(toGame[k])
<1>1. h \in MsgToGame /\ h \in Range(toGame[k]) /\ Bought(k, h) /\ UNCHANGED slot
  BY ReadQueue DEF Buys, dbVars
<1> HIDE DEF h
<1>2. h.kind = "BuyRequest"
  BY <1>1 DEF Bought
<1>3. h.pos \in Positions /\ h.item \in Items /\ h.item # NoItem /\ h.cust \in Customers
  BY <1>1, <1>2, NamesItem, GameMsgFields
<1>4. HeldFor(k, h) /\ \A a \in Range(toDB[k]) : a.kind \in Answering => a.token # h.token
  BY <1>1, <1>2 DEF OffersInv, OffersHeld, AnsweredOnce
<1>5. h.pos \in Reserved(slot) /\ slot[h.pos].buyer = k /\ slot[h.pos].token = h.token /\ slot[h.pos].item = h.item
  BY <1>3, <1>4, HeldIsReserved DEF HeldFor
<1>. QED BY <1>1, <1>3, <1>4, <1>5 DEF h

\* A save that was added is the buyer's.
LEMMA SaveAdded ==
    ASSUME TypeOK, NEW k \in Cores, NEW m, AddedTo(k, m), m.kind = "ItemSave"
    PROVE  Buys(k) /\ m = Save(Head(toGame[k]))
<1> DEFINE h == Head(toGame[k])
<1>1. ASSUME ChecksIn(k), m = Deposit(h)
      PROVE  FALSE
  <2>1. h \in MsgToGame /\ h.kind = "Checkin"
    BY <1>1, ReadQueue DEF ChecksIn, Presented
  <2> HIDE DEF h
  <2>. QED BY <1>1, <2>1, DepositIs
<1>2. m # Payment(h)
  BY PaymentNames
<1>. QED BY <1>1, <1>2 DEF AddedTo

\* And a check-in that was added is the owner's.
LEMMA DepositAdded ==
    ASSUME TypeOK, NEW k \in Cores, NEW m, AddedTo(k, m), m.kind = "CheckinUpdate"
    PROVE  LET h == Head(toGame[k])
           IN /\ ChecksIn(k) /\ m = Deposit(h) /\ h \in MsgToGame /\ h.kind = "Checkin"
              /\ m.item = h.item /\ m.item \in Items
<1> DEFINE h == Head(toGame[k])
<1>2. Payment(h).kind # m.kind /\ Save(h).kind # m.kind
  BY PaymentNames
<1>3. ChecksIn(k) /\ m = Deposit(h)
  BY <1>2 DEF AddedTo
<1>4. h \in MsgToGame /\ h.kind = "Checkin"
  BY <1>3, ReadQueue DEF ChecksIn, Presented
<1> HIDE DEF h
<1>5. m.item = h.item /\ m.item \in Items
  BY <1>3, <1>4, DepositIs
<1>. QED BY <1>3, <1>4, <1>5 DEF h

LEMMA SavesHeldStep == ASSUME TypeOK, StoreInv, Next PROVE SavesHeld'
<1> SUFFICES ASSUME NEW k \in Cores, NEW m \in Range(toDB'[k]), m.kind = "ItemSave"
             PROVE  m.who \in Customers /\ \E p \in Reserved(slot') : slot'[p].item = m.item /\ slot'[p].buyer = k
  BY DEF SavesHeld
<1>0. OffersInv /\ AddsPlacing(k)
  BY StepAdds DEF StoreInv
<1>1. ASSUME m \in Range(toDB[k])
      PROVE  m.who \in Customers /\ \E p \in Reserved(slot') : slot'[p].item = m.item /\ slot'[p].buyer = k
  <2>1. PICK p \in Reserved(slot) : slot[p].item = m.item /\ slot[p].buyer = k
    BY <1>1 DEF StoreInv, SavesHeld
  <2>2. m.who \in Customers
    BY <1>1 DEF StoreInv, SavesHeld
  <2>3. k \in peers
    <3>1. toDB[k] # <<>>
      BY <1>1, QueueOfNone
    <3>. QED BY <1>0, <3>1 DEF OffersInv, GoneIsRead
  <2>4. ASSUME NEW c \in Cores, AnsweredBy(c, p)
        PROVE  FALSE
    <3> DEFINE a == Head(toDB[c])
               b == <<a, m>>
    <3>1. c = k /\ a.kind \in Answering /\ a.token = slot[p].token /\ Process(c)
      BY <2>1, <2>4 DEF AnsweredBy
    <3>2. <<a, m>> \in Before(toDB[k])
      BY <3>1, TakenQueue
    <3>3. b[1] = a /\ b[2] = m /\ b \in Before(toDB[k])
      BY <3>2
    <3> HIDE DEF b, a
    <3>4. ~(b[2].kind = "ItemSave" /\ b[2].item = slot[p].item /\ b[1].kind \in Answering /\ b[1].token = slot[p].token)
      BY <3>3 DEF StoreInv, SavesBefore
    <3>. QED BY <2>1, <3>1, <3>3, <3>4
  <2>5. Same(p)
    BY <1>0, <2>1, <2>3, <2>4, HoldsStay DEF OffersInv
  <2>6. p \in Reserved(slot')
    BY <2>5, ReservedIn, ReservedMember DEF Same
  <2>. QED BY <2>1, <2>2, <2>5, <2>6 DEF Same
<1>2. ASSUME m \notin Range(toDB[k])
      PROVE  m.who \in Customers /\ \E p \in Reserved(slot') : slot'[p].item = m.item /\ slot'[p].buyer = k
  <2> DEFINE h == Head(toGame[k])
  <2>1. AddedTo(k, m)
    BY <1>0, <1>2 DEF AddsPlacing, Placing
  <2>2. Buys(k) /\ m = Save(h)
    BY <2>1, SaveAdded
  <2>3. /\ h.cust \in Customers /\ h.pos \in Reserved(slot) /\ slot[h.pos].item = h.item
        /\ slot[h.pos].buyer = k /\ UNCHANGED slot
    BY <1>0, <2>2, BuysHeld
  <2> HIDE DEF h
  <2>4. m.item = h.item /\ m.who = h.cust
    BY <2>2, PaymentNames
  <2>. QED BY <2>3, <2>4
<1>. QED BY <1>1, <1>2

\* No answer to a hold is read before the save of what it holds.
LEMMA OldSaveFollows ==
    ASSUME TypeOK, StoreInv, Next, NEW k \in Cores, NEW b \in Before(toDB[k]), NEW p \in Reserved(slot'),
           b[2].kind = "ItemSave", b[2].item = slot'[p].item, b[1].kind \in Answering,
           b[1].token = slot'[p].token
    PROVE  FALSE
<1>1. /\ TokensName /\ HoldsAreDistinct /\ SavesBefore
      /\ p \in Positions /\ toDB[k] \in Seq(MsgToDB) /\ reservation \in Nat
  BY ReservedIn DEF StoreInv, OffersInv, AnswersInv, TypeOK, WireTypeOK, DBTypeOK
<1>2. b[1] \in Range(toDB[k])
  BY <1>1, BeforeIn
<1>3. b[1].token \in Nat /\ b[1].token <= reservation
  BY <1>1, <1>2, TokenTypes DEF TokensName, NamesIn
<1>4. ASSUME p \in Reserved(slot), slot'[p].token = slot[p].token, slot'[p].item = slot[p].item
      PROVE  FALSE
  BY <1>1, <1>4 DEF SavesBefore
<1>5. ASSUME MakesHold
      PROVE  FALSE
  <2>1. PICK q \in Positions : slot'[q].token = reservation' /\ \A r \in Positions \ {q} : slot'[r] = slot[r]
    BY <1>5 DEF MakesHold
  <2>2. reservation' = reservation + 1
    BY <1>5 DEF MakesHold
  <2>3. p # q
    BY <1>1, <1>3, <2>1, <2>2
  <2>4. slot'[p] = slot[p]
    BY <1>1, <2>1, <2>3
  <2>5. p \in Reserved(slot)
    BY <1>1, <2>4, ReservedMember
  <2>. QED BY <1>4, <2>4, <2>5
<1>6. KeepsHolds \/ MakesHold
  BY <1>1, StepHolds
<1>. QED BY <1>4, <1>5, <1>6 DEF KeepsHolds

LEMMA SavesBeforeStep == ASSUME TypeOK, StoreInv, Next PROVE SavesBefore'
<1> SUFFICES ASSUME NEW k \in Cores, NEW b \in Before(toDB'[k]), NEW p \in Reserved(slot'),
                    b[2].kind = "ItemSave", b[2].item = slot'[p].item, b[1].kind \in Answering,
                    b[1].token = slot'[p].token
             PROVE  FALSE
  BY DEF SavesBefore
<1>1. OffersInv /\ SlotsApart /\ AddsPlacing(k)
  BY StepAdds DEF StoreInv
<1>2. ASSUME b \notin Before(toDB[k])
      PROVE  FALSE
  <2> DEFINE h == Head(toGame[k])
  <2>1. AddedTo(k, b[2]) /\ (b[1] \in Range(toDB[k]) \/ b[2] = Payment(h))
    BY <1>1, <1>2 DEF AddsPlacing, Placing
  <2>2. Buys(k) /\ b[2] = Save(h) /\ b[1] \in Range(toDB[k])
    BY <2>1, SaveAdded, PaymentNames
  <2>3. /\ h.pos \in Reserved(slot) /\ slot[h.pos].item = h.item /\ slot[h.pos].token = h.token
        /\ \A a \in Range(toDB[k]) : a.kind \in Answering => a.token # h.token
        /\ UNCHANGED slot
    BY <1>1, <2>2, BuysHeld
  <2> HIDE DEF h
  <2>4. b[2].item = h.item
    BY <2>2, PaymentNames
  <2>5. p \in Reserved(slot) /\ slot[p].item = slot[h.pos].item
    BY <2>3, <2>4
  <2>6. p = h.pos
    BY <1>1, <2>3, <2>5, ReservedIn, ReservedMember DEF SlotsApart
  <2>. QED BY <2>2, <2>3, <2>6
<1>. QED BY <1>2, OldSaveFollows

\* A check-in under way is of an item in the owner's row, once.
LEMMA CheckinsOnceStep == ASSUME TypeOK, StoreInv, Next PROVE CheckinsOnce'
<1> SUFFICES ASSUME NEW k \in Cores, NEW b \in Before(toDB'[k]),
                    b[1].kind = "CheckinUpdate", b[2].kind = "CheckinUpdate", b[1].item = b[2].item
             PROVE  FALSE
  BY DEF CheckinsOnce
<1>1. CheckinsOnce /\ CarriesOwn /\ AddsPlacing(k)
  BY StepAdds DEF StoreInv
<1>2. ASSUME b \notin Before(toDB[k])
      PROVE  FALSE
  <2> DEFINE h == Head(toGame[k])
  <2>1. AddedTo(k, b[2]) /\ (b[1] \in Range(toDB[k]) \/ b[2] = Payment(h))
    BY <1>1, <1>2 DEF AddsPlacing, Placing
  <2>2. ChecksIn(k) /\ b[2].item = h.item /\ b[1] \in Range(toDB[k])
    BY <2>1, DepositAdded, PaymentNames
  <2>3. h.item \in bag[Owner] /\ ownerAt.sess # 0
    BY <2>2, ShopAssumption DEF ChecksIn, Presented, Present
  <2> HIDE DEF h
  <2>. QED BY <1>1, <2>2, <2>3 DEF CarriesOwn
<1>. QED BY <1>1, <1>2 DEF CheckinsOnce

LEMMA CheckinsOwnedStep == ASSUME TypeOK, StoreInv, Next PROVE CheckinsOwned'
<1> SUFFICES ASSUME NEW k \in Cores, NEW m \in Range(toDB'[k]), m.kind = "CheckinUpdate"
             PROVE  row'[m.item] = Owner
  BY DEF CheckinsOwned
<1>1. /\ CheckinsOnce /\ CarriesOwn /\ CheckinsOwned /\ RowsApart /\ PlaysThere /\ AddsPlacing(k)
  BY StepAdds DEF StoreInv, OffersInv, SessionsInv
<1>2. ASSUME m \notin Range(toDB[k])
      PROVE  row'[m.item] = Owner
  <2> DEFINE h == Head(toGame[k])
  <2>1. AddedTo(k, m)
    BY <1>1, <1>2 DEF AddsPlacing, Placing
  <2>2. ChecksIn(k) /\ m.item = h.item
    BY <2>1, DepositAdded
  <2>3. h.item \in bag[Owner] /\ ownerAt.sess # 0 /\ row' = row
    BY <2>2, ShopAssumption DEF ChecksIn, Presented, Present, dbVars
  <2> HIDE DEF h
  <2>. QED BY <1>1, <2>2, <2>3 DEF CarriesOwn
<1>3. ASSUME m \in Range(toDB[k])
      PROVE  row'[m.item] = Owner
  <2>1. m \in MsgToDB /\ m.item \in Items
    BY <1>3, PacketTypes, DBMsgFields
  <2>2. row[m.item] = Owner /\ ~Stocked(m.item)
    BY <1>1, <1>3, <2>1 DEF CheckinsOwned, RowsApart
  <2>3. ASSUME NEW c \in Cores, Process(c), Head(toDB[c]).kind = "CheckinUpdate", Head(toDB[c]).item = m.item
        PROVE  FALSE
    <3> DEFINE a == Head(toDB[c])
               b == <<a, m>>
    <3>1. a \in Range(toDB[c])
      BY <2>3, TakenQueue
    <3>2. c = playing /\ k = playing
      BY <1>1, <1>3, <2>3, <3>1 DEF PlaysThere, PlayKinds
    <3>3. <<a, m>> \in Before(toDB[k])
      BY <2>3, <3>2, TakenQueue
    <3>4. b[1] = a /\ b[2] = m /\ b \in Before(toDB[k])
      BY <3>3
    <3> HIDE DEF b, a
    <3>5. b[1].kind = "CheckinUpdate" /\ b[2].kind = "CheckinUpdate" => b[1].item # b[2].item
      BY <1>1, <3>4 DEF CheckinsOnce
    <3>. QED BY <2>3, <3>4, <3>5 DEF a
  <2>. QED BY <2>1, <2>2, <2>3, RowStep
<1>. QED BY <1>2, <1>3

\* The owner's inventory is filled at the login only.
LEMMA CarriesLess ==
    ASSUME TypeOK, CloseUnasked, TakeUnasked, Next, \A c \in Cores : ~OwnerLogin(c),
           ownerAt'.sess # 0 \/ crashed' = {}
    PROVE  (ownerAt.sess # 0 \/ crashed = {}) /\ bag'[Owner] \subseteq bag[Owner]
<1>1. bag \in [Chars -> SUBSET Items] /\ Owner \in Chars /\ Owner \notin Customers
  BY ShopAssumption DEF TypeOK, GameTypeOK, Chars
<1>2. Detached.sess = 0
  BY DEF Detached
<1>3. ASSUME UNCHANGED <<ownerAt, bag, crashed>>
      PROVE  (ownerAt.sess # 0 \/ crashed = {}) /\ bag'[Owner] \subseteq bag[Owner]
  BY <1>3
<1>4. CASE GameStep
  <2>1. PICK c \in Cores : Receive(c)
    BY <1>4 DEF GameStep
  <2> DEFINE m == Head(toGame[c])
  <2>2. /\ m \in MsgToGame /\ m \in Range(toGame[c])
        /\ \/ Idle(c, m) \/ Bought(c, m) \/ Declined(c, m) \/ Presented(c, m)
           \/ TookOut(c, m) \/ PaidOut(c, m) \/ HandedBack(c, m)
    BY <2>1, ReceiveCases, ReadQueue
  <2>3. m.kind # "Checkout" /\ m.kind # "Destroy"
    BY <2>2 DEF CloseUnasked, TakeUnasked
  <2> HIDE DEF m
  <2>4. ~TookOut(c, m) /\ ~HandedBack(c, m)
    BY <2>3 DEF TookOut, HandedBack
  <2>5. Idle(c, m) \/ Declined(c, m) \/ PaidOut(c, m) => UNCHANGED <<ownerAt, bag, crashed>>
    BY DEF Idle, Declined, PaidOut, Sessionless
  <2>6. ASSUME Bought(c, m)
        PROVE  UNCHANGED <<ownerAt, crashed>> /\ bag'[Owner] \subseteq bag[Owner]
    <3>1. m.kind = "BuyRequest" /\ UNCHANGED <<ownerAt, crashed>> /\ bag' = [bag EXCEPT ![m.cust] = @ \cup {m.item}]
      BY <2>6 DEF Bought, Sessionless
    <3>2. m.cust # Owner
      BY <1>1, <2>2, <3>1, GameMsgFields
    <3>. QED BY <1>1, <3>1, <3>2
  <2>7. ASSUME Presented(c, m)
        PROVE  UNCHANGED <<ownerAt, crashed>> /\ bag'[Owner] \subseteq bag[Owner]
    BY <1>1, <2>7 DEF Presented, Sessionless, TakeFromBag
  <2>. QED BY <1>3, <2>2, <2>4, <2>5, <2>6, <2>7
<1>5. CASE ClientStep
  <2>1. UNCHANGED <<bag, crashed>> /\ (UNCHANGED ownerAt \/ ownerAt' = Detached)
    BY <1>5, ClientCases DEF Standing, Sessionless, LoggedOut
  <2>. QED BY <1>2, <1>3, <2>1
<1>6. CASE EnvStep
  <2>1. UNCHANGED <<ownerAt, bag, crashed>> \/ \E c \in Cores : CoreCrash(c)
    BY <1>6 DEF EnvStep, DeadlinePasses, gameVars
  <2>2. ASSUME NEW c \in Cores, CoreCrash(c)
        PROVE  (ownerAt.sess # 0 \/ crashed = {}) /\ bag'[Owner] \subseteq bag[Owner]
    <3>0. ownerAt'.sess # 0
      BY <2>2 DEF CoreCrash
    <3>1. ownerAt.core # c /\ UNCHANGED ownerAt
      BY <1>2, <2>2, <3>0 DEF CoreCrash
    <3>2. bag'[Owner] = bag[Owner]
      BY <1>1, <2>2, <3>1 DEF CoreCrash
    <3>. QED BY <3>0, <3>1, <3>2
  <2>. QED BY <1>3, <2>1, <2>2
<1>7. CASE DBStep
  BY <1>3, <1>7, DBBinds DEF gameVars
<1>. QED BY <1>4, <1>5, <1>6, <1>7 DEF Next

LEMMA CarriesOwnStep == ASSUME TypeOK, StoreInv, Next PROVE CarriesOwn'
<1>1. /\ CarriesOwn /\ RowsApart /\ PlaysThere /\ CloseUnasked /\ TakeUnasked
      /\ bag \in [Chars -> SUBSET Items] /\ Owner \in Chars
  BY DEF StoreInv, OffersInv, SessionsInv, TypeOK, GameTypeOK, Chars
<1>2. ASSUME NEW c \in Cores, OwnerLogin(c)
      PROVE  CarriesOwn'
  <2>1. playing = NoCore /\ NoCore \notin Cores /\ UNCHANGED <<toDB, row>>
    BY <1>2, ShopAssumption DEF OwnerLogin, NoSend
  <2>2. bag'[Owner] = {i \in Items : row[i] = Owner}
    BY <1>1, <1>2 DEF OwnerLogin
  <2>3. \A k \in Cores : \A m \in Range(toDB[k]) : m.kind # "CheckinUpdate"
    BY <1>1, <2>1 DEF PlaysThere, PlayKinds
  <2>. QED BY <2>1, <2>2, <2>3 DEF CarriesOwn
<1>3. ASSUME \A c \in Cores : ~OwnerLogin(c)
      PROVE  CarriesOwn'
  <2> SUFFICES ASSUME ownerAt'.sess # 0 \/ crashed' = {}, NEW i \in bag'[Owner]
               PROVE  row'[i] = Owner /\ \A k \in Cores : \A m \in Range(toDB'[k]) : m.kind = "CheckinUpdate" => m.item # i
    BY DEF CarriesOwn
  <2>1. (ownerAt.sess # 0 \/ crashed = {}) /\ i \in bag[Owner] /\ i \in Items
    BY <1>1, <1>3, CarriesLess
  <2>2. /\ row[i] = Owner /\ ~Stocked(i)
        /\ \A k \in Cores : \A m \in Range(toDB[k]) : m.kind = "CheckinUpdate" => m.item # i
    BY <1>1, <2>1 DEF CarriesOwn, RowsApart
  <2>3. \A c \in Cores : Process(c) => Head(toDB[c]) \in Range(toDB[c])
    BY TakenQueue
  <2>4. row'[i] = Owner
    BY <2>1, <2>2, <2>3, RowStep
  <2>5. ASSUME NEW k \in Cores, NEW m \in Range(toDB'[k]), m.kind = "CheckinUpdate", m \notin Range(toDB[k])
        PROVE  m.item # i
    <3> DEFINE h == Head(toGame[k])
    <3>1. AddedTo(k, m)
      BY <2>5, StepAdds DEF AddsPlacing, Placing
    <3>2. ChecksIn(k) /\ m.item = h.item
      BY <2>5, <3>1, DepositAdded
    <3>3. bag' = TakeFromBag(h.item)
      BY <3>2 DEF ChecksIn, Presented
    <3>4. bag'[Owner] = bag[Owner] \ {h.item}
      BY <1>1, <3>3 DEF TakeFromBag
    <3>. QED BY <3>2, <3>4
  <2>. QED BY <2>2, <2>4, <2>5
<1>. QED BY <1>2, <1>3

LEMMA StoreInit == ASSUME NothingTaken, Init PROVE StoreInv
<1>1. OffersInv
  BY OffersInit
<1>2. \A k \in Cores : Range(toDB[k]) = {} /\ Before(toDB[k]) = {}
  BY StartIsEmpty
<1>3. SavedFirst /\ SavesHeld /\ SavesBefore /\ CheckinsOwned /\ CheckinsOnce
  BY <1>2 DEF SavedFirst, SavesHeld, SavesBefore, CheckinsOwned, CheckinsOnce
<1>4. /\ \A p \in Positions : slot[p].item = Stock[p]
      /\ row = [i \in Items |-> IF i \in Spare THEN Owner ELSE NoItem]
      /\ bag = [k \in Chars |-> IF k = Owner THEN Spare ELSE {}]
  BY DEF Init, EmptySlot, FreshSlot
<1>5. /\ Spare \subseteq Items /\ Owner \in Chars /\ Owner # NoItem
      /\ \A p \in Positions : Stock[p] \in (Items \ Spare) \cup {NoItem}
      /\ \A i \in Items \ Spare : \E p \in Positions : \A q \in Positions : Stock[q] = i <=> q = p
  BY ShopAssumption DEF Chars
<1>6. ItemsIn /\ RowsApart /\ SlotsApart
  BY <1>4, <1>5, ShopAssumption DEF ItemsIn, RowsApart, SlotsApart, Stocked
<1>7. CarriesOwn
  BY <1>2, <1>4, <1>5 DEF CarriesOwn
<1>. QED BY <1>1, <1>3, <1>6, <1>7 DEF StoreInv

LEMMA StoreStep == ASSUME TypeOK, StoreInv, [Next]_vars PROVE StoreInv'
<1>1. OffersInv'
  BY OffersStep DEF StoreInv
<1>2. CASE Next
  BY <1>1, <1>2, ItemsStep, SavedFirstStep, SavesHeldStep, SavesBeforeStep, CheckinsOwnedStep, CheckinsOnceStep,
     CarriesOwnStep DEF StoreInv
<1>3. ASSUME UNCHANGED vars
      PROVE  StoreInv'
  <2>1. UNCHANGED <<slot, row, toDB, ownerAt, bag, crashed>>
    BY <1>3 DEF vars, dbVars, gameVars
  <2>2. ItemsIn' /\ RowsApart' /\ SlotsApart'
    BY <2>1 DEF StoreInv, ItemsIn, RowsApart, SlotsApart, Stocked
  <2>3. SavedFirst' /\ SavesHeld' /\ SavesBefore'
    BY <2>1 DEF StoreInv, SavedFirst, SavesHeld, SavesBefore, Reserved, Occupied
  <2>4. CheckinsOwned' /\ CheckinsOnce' /\ CarriesOwn'
    BY <2>1 DEF StoreInv, CheckinsOwned, CheckinsOnce, CarriesOwn
  <2>. QED BY <1>1, <2>2, <2>3, <2>4 DEF StoreInv
<1>. QED BY <1>2, <1>3

LEMMA StoreInvariant == ASSUME NothingTaken PROVE Spec => []StoreInv
<1>1. Init => StoreInv
  BY StoreInit
<1>2. TypeOK /\ StoreInv /\ [Next]_vars => StoreInv'
  BY StoreStep
<1>. QED BY <1>1, <1>2, TypeInvariant, PTL DEF Spec

\* No item is lost, also when cores crash: the buyer's row is written before the payment takes
\* the item off its position, and a check-in takes an item out of the owner's row only when it
\* puts it at a position (ItemTransaction, PrivateShopBuy, PrivateShopItemCheckinUpdate).
THEOREM NothingIsLost == ASSUME NothingTaken PROVE Spec => []NoLoss
<1>1. TypeOK /\ StoreInv => NoLoss
  BY DEF StoreInv, ItemsIn, Stocked, NoLoss
<1>. QED BY <1>1, StoreInvariant, TypeInvariant, PTL

-----------------------------------------------------------------------------
\* What a customer has got and the payment has not yet taken off its position.

AllAlive == crashed = {} /\ peers = Cores

\* What a customer carries is not in the owner's row, is with no other customer, and is in
\* the shop only as long as it is held and its payment is under way.
ForeignRows == \A k \in Customers : \A i \in bag[k] : row[i] # Owner
BagsApart == \A k, l \in Customers : \A i \in bag[k] \cap bag[l] : k = l
AwaitsPayment ==
    \A k \in Customers : \A i \in bag[k] : \A p \in Positions : slot[p].item = i =>
        /\ p \in Reserved(slot)
        /\ \E m \in Range(toDB[slot[p].buyer]) : m.kind = "Buy" /\ m.token = slot[p].token

HandoverInv == StoreInv /\ GoldInv /\ AllAlive /\ ForeignRows /\ BagsApart /\ AwaitsPayment

\* What a step does to the inventories.
LEMMA BagCases ==
    ASSUME TypeOK, CloseUnasked, TakeUnasked, Next, budget["crash"] = 0
    PROVE  \/ UNCHANGED bag
           \/ \E c \in Cores : LET h == Head(toGame[c])
                               IN Buys(c) /\ bag' = [bag EXCEPT ![h.cust] = @ \cup {h.item}]
           \/ \E c \in Cores : ChecksIn(c) /\ bag' = TakeFromBag(Head(toGame[c]).item)
           \/ \E c \in Cores : OwnerLogin(c)
<1>1. CASE GameStep
  <2>1. PICK c \in Cores : Receive(c)
    BY <1>1 DEF GameStep
  <2>2. UNCHANGED dbVars
    BY <1>1 DEF GameStep
  <2> DEFINE m == Head(toGame[c])
  <2>3. /\ m \in Range(toGame[c])
        /\ \/ Idle(c, m) \/ Bought(c, m) \/ Declined(c, m) \/ Presented(c, m)
           \/ TookOut(c, m) \/ PaidOut(c, m) \/ HandedBack(c, m)
    BY <2>1, ReceiveCases, ReadQueue
  <2>4. Bought(c, m) => Buys(c) /\ bag' = [bag EXCEPT ![m.cust] = @ \cup {m.item}]
    BY <2>1, <2>2 DEF Bought, Buys
  <2>5. Presented(c, m) => ChecksIn(c) /\ bag' = TakeFromBag(m.item)
    BY <2>1, <2>2 DEF Presented, ChecksIn
  <2>6. m.kind # "Checkout" /\ m.kind # "Destroy"
    BY <2>3 DEF CloseUnasked, TakeUnasked
  <2>7. Bought(c, m) \/ Presented(c, m) \/ UNCHANGED bag
    <3> HIDE DEF m
    <3>. QED BY <2>3, <2>6 DEF Idle, Declined, PaidOut, TookOut, HandedBack
  <2>. QED BY <2>4, <2>5, <2>7
<1>2. CASE ClientStep
  BY <1>2, ClientCases DEF Standing, LoggedOut
<1>3. CASE EnvStep
  <2>1. \A c \in Cores : ~CoreCrash(c)
    BY DEF CoreCrash, Spend
  <2>. QED BY <1>3, <2>1 DEF EnvStep, DeadlinePasses, gameVars
<1>4. CASE DBStep
  BY <1>4, DBBinds DEF gameVars
<1>. QED BY <1>1, <1>2, <1>3, <1>4 DEF Next

LEMMA CustomerBags ==
    ASSUME TypeOK, CloseUnasked, TakeUnasked, Next, budget["crash"] = 0, NEW k \in Customers, NEW i \in bag'[k]
    PROVE  i \in bag[k] \/ \E c \in Cores : Buys(c) /\ k = Head(toGame[c]).cust /\ i = Head(toGame[c]).item
<1>1. bag \in [Chars -> SUBSET Items] /\ k \in Chars /\ Owner \in Chars /\ k # Owner
  BY ShopAssumption DEF TypeOK, GameTypeOK, Chars
<1>2. ASSUME NEW c \in Cores, Buys(c),
             bag' = [bag EXCEPT ![Head(toGame[c]).cust] = @ \cup {Head(toGame[c]).item}]
      PROVE  i \in bag[k] \/ (k = Head(toGame[c]).cust /\ i = Head(toGame[c]).item)
  BY <1>1, <1>2
<1>3. ASSUME NEW c \in Cores, bag' = TakeFromBag(Head(toGame[c]).item)
      PROVE  i \in bag[k]
  BY <1>1, <1>3 DEF TakeFromBag
<1>4. ASSUME NEW c \in Cores, OwnerLogin(c)
      PROVE  i \in bag[k]
  BY <1>1, <1>4 DEF OwnerLogin
<1>. QED BY <1>2, <1>3, <1>4, BagCases

\* An item that is being handed over is with nobody yet.
LEMMA FreshlyBought ==
    ASSUME TypeOK, HandoverInv, NEW c \in Cores, Buys(c)
    PROVE  \A k \in Chars : Head(toGame[c]).item \notin bag[k]
<1> DEFINE h == Head(toGame[c])
<1>1. /\ h.item \in Items /\ h.pos \in Reserved(slot) /\ slot[h.pos].item = h.item /\ slot[h.pos].buyer = c
      /\ slot[h.pos].token = h.token /\ h.pos \in Positions
      /\ \A a \in Range(toDB[c]) : a.kind \in Answering => a.token # h.token
  BY BuysHeld, ReservedIn DEF HandoverInv, StoreInv
<1> HIDE DEF h
<1>2. ASSUME NEW k \in Customers, h.item \in bag[k]
      PROVE  FALSE
  BY <1>1, <1>2 DEF HandoverInv, AwaitsPayment, Answering
<1>3. h.item \notin bag[Owner]
  BY <1>1 DEF HandoverInv, AllAlive, StoreInv, CarriesOwn, RowsApart, Stocked
<1>. QED BY <1>2, <1>3 DEF Chars, h

LEMMA ForeignRowsStep == ASSUME TypeOK, HandoverInv, Next PROVE ForeignRows'
<1> SUFFICES ASSUME NEW k \in Customers, NEW i \in bag'[k]
             PROVE  row'[i] # Owner
  BY DEF ForeignRows
<1>1. /\ StoreInv /\ RowsApart /\ ForeignRows /\ CloseUnasked /\ TakeUnasked /\ budget["crash"] = 0
      /\ Owner \notin Customers /\ Owner # NoItem /\ k \in Chars
  BY ShopAssumption DEF HandoverInv, StoreInv, OffersInv, GoldInv, Chars
<1>2. bag' \in [Chars -> SUBSET Items]
  BY NextTypes DEF TypeOK, GameTypeOK
<1>3. i \in Items
  BY <1>1, <1>2
<1>4. CASE i \in bag[k]
  BY <1>1, <1>3, <1>4, RowStep DEF ForeignRows
<1>5. ASSUME NEW c \in Cores, Buys(c), i = Head(toGame[c]).item
      PROVE  row'[i] # Owner
  <2> DEFINE h == Head(toGame[c])
  <2>1. slot[h.pos].item = i /\ h.pos \in Positions /\ row' = row
    BY <1>1, <1>5, BuysHeld, ReservedIn DEF StoreInv, Buys, dbVars
  <2>. QED BY <1>1, <1>3, <2>1 DEF RowsApart, Stocked
<1>. QED BY <1>1, <1>4, <1>5, CustomerBags

LEMMA BagsApartStep == ASSUME TypeOK, HandoverInv, Next PROVE BagsApart'
<1> SUFFICES ASSUME NEW k \in Customers, NEW l \in Customers, NEW i \in bag'[k], i \in bag'[l]
             PROVE  k = l
  BY DEF BagsApart
<1>1. /\ OffersInv /\ SlotsApart /\ BagsApart /\ CloseUnasked /\ TakeUnasked /\ budget["crash"] = 0
      /\ k \in Chars /\ l \in Chars
  BY DEF HandoverInv, StoreInv, OffersInv, GoldInv, Chars
<1>2. ASSUME NEW c \in Cores, Buys(c), i = Head(toGame[c]).item
      PROVE  i \notin bag[k] /\ i \notin bag[l]
  BY <1>1, <1>2, FreshlyBought
<1>3. ASSUME NEW c \in Cores, Buys(c), i = Head(toGame[c]).item,
             NEW d \in Cores, Buys(d), i = Head(toGame[d]).item
      PROVE  c = d
  <2> DEFINE g == Head(toGame[c])
             h == Head(toGame[d])
  <2>1. g.pos \in Reserved(slot) /\ slot[g.pos].item = i /\ slot[g.pos].buyer = c
    BY <1>1, <1>3, BuysHeld
  <2>2. h.pos \in Reserved(slot) /\ slot[h.pos].item = i /\ slot[h.pos].buyer = d
    BY <1>1, <1>3, BuysHeld
  <2> HIDE DEF g, h
  <2>3. g.pos = h.pos
    BY <1>1, <2>1, <2>2, ReservedIn, ReservedMember DEF SlotsApart
  <2>. QED BY <2>1, <2>2, <2>3
<1>4. i \in bag[k] \/ \E c \in Cores : Buys(c) /\ k = Head(toGame[c]).cust /\ i = Head(toGame[c]).item
  BY <1>1, CustomerBags
<1>5. i \in bag[l] \/ \E c \in Cores : Buys(c) /\ l = Head(toGame[c]).cust /\ i = Head(toGame[c]).item
  BY <1>1, CustomerBags
<1>. QED BY <1>1, <1>2, <1>3, <1>4, <1>5 DEF BagsApart

\* What is at a position after a step, and with a customer before, was at the position before.
LEMMA StaysAtPosition ==
    ASSUME TypeOK, HandoverInv, Next, NEW k \in Customers, NEW i \in bag[k], NEW p \in Positions,
           slot'[p].item = i
    PROVE  slot[p].item = i
<1>1. /\ StoreInv /\ ForeignRows /\ AwaitsPayment /\ HoldsAreDistinct /\ CloseUnasked /\ TakeUnasked
      /\ bag \in [Chars -> SUBSET Items] /\ k \in Chars /\ NoItem \notin Items
  BY ShopAssumption DEF HandoverInv, StoreInv, OffersInv, AnswersInv, TypeOK, GameTypeOK, Chars
<1>2. i \in Items
  BY <1>1
<1>3. CASE SameItems
  BY <1>3 DEF SameItems
<1>4. ASSUME NEW c \in Cores, NEW m, m = Head(toDB[c]), Process(c), CheckedIn(m)
      PROVE  slot[p].item = i
  <2>1. row[m.item] = Owner
    <3>1. m \in Range(toDB[c])
      BY <1>4, TakenQueue
    <3>. QED BY <1>1, <1>4, <3>1 DEF StoreInv, CheckinsOwned, CheckedIn
  <2>2. m.item # i
    BY <1>1, <2>1 DEF ForeignRows
  <2>. QED BY <1>4, <2>2 DEF CheckedIn
<1>5. ASSUME NEW m, Removed(m)
      PROVE  slot[p].item = i
  BY <1>1, <1>2, <1>5 DEF Removed
<1>6. ASSUME NEW m, Moved(m), state = "MODIFY"
      PROVE  slot[p].item = i
  <2>1. \A q \in Positions : slot[q].item # i
    BY <1>1, <1>6 DEF HoldsAreDistinct, AwaitsPayment
  <2>. QED BY <1>1, <1>2, <1>6, <2>1 DEF Moved
<1>7. \A m : Saved(m) => slot[p].item = i
  BY DEF Saved
<1>. QED BY <1>1, <1>3, <1>4, <1>5, <1>6, <1>7, StepItems

\* A payment that is read takes its item off the position.
LEMMA PaymentRemoves ==
    ASSUME TypeOK, OffersInv, NEW c \in Cores, Process(c), Head(toDB[c]).kind = "Buy", NEW p \in Reserved(slot),
           Head(toDB[c]).token = slot[p].token
    PROVE  slot'[p].item = NoItem
<1> DEFINE m == Head(toDB[c])
<1>1. m \in Range(toDB[c]) /\ PrivateShopBuy(c, m) /\ Holds(c, m)
  BY PaymentIsCredited, TakenQueue DEF Credited
<1>2. m.pos = p
  BY <1>1 DEF OffersInv, AnswersInv, TokensName, NamesIn, Answering
<1>3. slot' = Clear(slot, p) \/ (UNCHANGED slot /\ ~Holds(c, m))
  BY <1>1, <1>2 DEF PrivateShopBuy, Refused, dbVars
<1>4. p \in Positions /\ slot \in [Positions -> Slot]
  BY ReservedIn DEF TypeOK, DBTypeOK
<1>. QED BY <1>1, <1>3, <1>4, EmptySlotFields DEF Clear

LEMMA AwaitsPaymentStep == ASSUME TypeOK, HandoverInv, Next PROVE AwaitsPayment'
<1> SUFFICES ASSUME NEW k \in Customers, NEW i \in bag'[k], NEW p \in Positions, slot'[p].item = i
             PROVE  /\ p \in Reserved(slot')
                    /\ \E m \in Range(toDB'[slot'[p].buyer]) : m.kind = "Buy" /\ m.token = slot'[p].token
  BY DEF AwaitsPayment
<1>1. /\ OffersInv /\ SlotsApart /\ AwaitsPayment /\ AllAlive /\ HeldByCores /\ AnsweredOnce /\ AnswersInv
      /\ CloseUnasked /\ TakeUnasked /\ budget["crash"] = 0 /\ k \in Chars /\ NoItem \notin Items
  BY ShopAssumption DEF HandoverInv, StoreInv, OffersInv, AnswersInv, GoldInv, Chars
<1>2. bag' \in [Chars -> SUBSET Items] /\ i \in Items
  <2>1. bag' \in [Chars -> SUBSET Items]
    BY NextTypes DEF TypeOK, GameTypeOK
  <2>. QED BY <1>1, <2>1
<1>3. CASE i \in bag[k]
  <2>1. slot[p].item = i
    BY <1>3, StaysAtPosition
  <2> DEFINE c == slot[p].buyer
  <2>2. PICK m \in Range(toDB[c]) : m.kind = "Buy" /\ m.token = slot[p].token
    BY <1>1, <1>3, <2>1 DEF AwaitsPayment
  <2>3. p \in Reserved(slot) /\ c \in Cores /\ c \in peers
    BY <1>1, <1>3, <2>1 DEF AwaitsPayment, HeldByCores, AllAlive
  <2> HIDE DEF c
  <2>4. Process(c) /\ Head(toDB[c]).kind = "Buy" => Head(toDB[c]).token # slot[p].token
    BY <1>1, <1>2, <2>3, PaymentRemoves
  <2>5. \A d \in Cores : ~CoreCrash(d)
    BY <1>1 DEF CoreCrash, Spend
  <2>6. AddsPlacing(c)
    BY <2>3, StepAdds
  <2>7. m \in Range(toDB'[c])
    BY <2>2, <2>4, <2>5, <2>6 DEF AddsPlacing
  <2>8. ASSUME NEW d \in Cores, AnsweredBy(d, p)
        PROVE  FALSE
    <3> DEFINE a == Head(toDB[d])
               b == <<a, m>>
    <3>1. d = c /\ Process(d) /\ a.kind \in Answering /\ a.token = slot[p].token
      BY <2>8 DEF AnsweredBy, c
    <3>2. <<a, m>> \in Before(toDB[c])
      BY <2>3, <2>7, <3>1, TakenQueue
    <3>3. b[1] = a /\ b[2] = m /\ b \in Before(toDB[c])
      BY <3>2
    <3> HIDE DEF b, a
    <3>4. b[1].kind \in Answering /\ b[2].kind = "Buy" => b[1].token # b[2].token
      BY <1>1, <2>3, <3>3 DEF AnsweredOnce
    <3>. QED BY <2>2, <3>1, <3>3, <3>4
  <2>9. Same(p)
    BY <1>1, <2>3, <2>8, HoldsStay DEF c
  <2>10. p \in Reserved(slot') /\ slot'[p].buyer = c /\ slot'[p].token = slot[p].token
    BY <2>3, <2>9, ReservedMember DEF Same, c
  <2>. QED BY <2>2, <2>7, <2>10
<1>4. ASSUME NEW c \in Cores, Buys(c), i = Head(toGame[c]).item
      PROVE  /\ p \in Reserved(slot')
             /\ \E m \in Range(toDB'[slot'[p].buyer]) : m.kind = "Buy" /\ m.token = slot'[p].token
  <2> DEFINE h == Head(toGame[c])
             b == Payment(h)
  <2>1. /\ h \in MsgToGame /\ h.pos \in Reserved(slot) /\ slot[h.pos].item = i /\ slot[h.pos].buyer = c
        /\ slot[h.pos].token = h.token /\ UNCHANGED slot /\ Bought(c, h)
    BY <1>1, <1>4, BuysHeld DEF Buys
  <2> HIDE DEF h
  <2>2. b \in Range(toDB'[c])
    <3>1. Range(toDB'[c]) = Range(toDB[c]) \cup {Save(h), Payment(h)}
      BY <2>1, BoughtSends
    <3>. QED BY <3>1
  <2>3. b.kind = "Buy" /\ b.token = h.token
    BY PaymentNames
  <2> HIDE DEF b
  <2>4. h.pos = p
    BY <1>1, <1>2, <1>4, <2>1, ReservedIn DEF SlotsApart
  <2>. QED BY <2>1, <2>2, <2>3, <2>4
<1>. QED BY <1>1, <1>3, <1>4, CustomerBags

LEMMA HandoverInit == ASSUME NothingTaken, Limit["crash"] = 0, Init PROVE HandoverInv
<1>1. \A k \in Customers : bag[k] = {}
  BY ShopAssumption DEF Init, Chars
<1>2. ForeignRows /\ BagsApart /\ AwaitsPayment
  BY <1>1 DEF ForeignRows, BagsApart, AwaitsPayment
<1>. QED BY <1>2, StoreInit, GoldInvInit, StartIsEmpty DEF HandoverInv, AllAlive

\* No core is lost and no peer removed.
LEMMA AllAliveStep == ASSUME TypeOK, AllAlive, budget["crash"] = 0, Next PROVE AllAlive'
<1> SUFFICES UNCHANGED <<crashed, peers>>
  BY DEF AllAlive
<1>1. CASE DBStep
  <2>1. UNCHANGED crashed
    BY <1>1, DBBinds DEF gameVars
  <2>2. \A c \in Cores : Process(c) => UNCHANGED peers
    BY ProcessBinds
  <2>3. \A c \in Cores : ~RemovePeer(c)
    BY DEF RemovePeer, AllAlive
  <2>. QED BY <1>1, <2>1, <2>2, <2>3 DEF DBStep, UpdatePrivateShopPremiumEvent, RESULT_PRIVATE_SHOP_LOAD
<1>2. CASE GameStep
  <2>1. PICK c \in Cores : Receive(c)
    BY <1>2 DEF GameStep
  <2>. QED BY <1>2, <2>1, ReceiveAlive DEF GameStep, dbVars
<1>3. CASE ClientStep
  BY <1>3, ClientCases DEF ClientStep, dbVars, Standing, Sessionless, LoggedOut
<1>4. CASE EnvStep
  <2>1. \A c : ~CoreCrash(c)
    BY DEF CoreCrash, Spend
  <2>2. \A c : OwnerLogin(c) => UNCHANGED <<crashed, peers>>
    BY DEF OwnerLogin
  <2>3. \A p : ReservationDue(p) => UNCHANGED peers
    BY DEF ReservationDue
  <2>4. DeadlinePasses => UNCHANGED peers
    BY DEF DeadlinePasses
  <2>. QED BY <1>4, <2>1, <2>2, <2>3, <2>4 DEF EnvStep, gameVars
<1>. QED BY <1>1, <1>2, <1>3, <1>4 DEF Next

LEMMA HandoverStep == ASSUME TypeOK, HandoverInv, [Next]_vars PROVE HandoverInv'
<1>1. StoreInv' /\ GoldInv'
  BY StoreStep, GoldInvStep DEF HandoverInv
<1>2. ASSUME Next
      PROVE  AllAlive' /\ ForeignRows' /\ BagsApart' /\ AwaitsPayment'
  <2>1. AllAlive'
    BY <1>2, AllAliveStep DEF HandoverInv, GoldInv
  <2>. QED BY <1>2, <2>1, ForeignRowsStep, BagsApartStep, AwaitsPaymentStep
<1>3. ASSUME UNCHANGED vars
      PROVE  AllAlive' /\ ForeignRows' /\ BagsApart' /\ AwaitsPayment'
  <2>1. UNCHANGED <<slot, row, toDB, bag, crashed, peers>>
    BY <1>3 DEF vars, dbVars, gameVars
  <2>. QED BY <2>1 DEF HandoverInv, AllAlive, ForeignRows, BagsApart, AwaitsPayment, Reserved, Occupied
<1>. QED BY <1>1, <1>2, <1>3 DEF HandoverInv

LEMMA HandoverInvariant == ASSUME NothingTaken, Limit["crash"] = 0 PROVE Spec => []HandoverInv
<1>1. Init => HandoverInv
  BY HandoverInit
<1>2. TypeOK /\ HandoverInv /\ [Next]_vars => HandoverInv'
  BY HandoverStep
<1>. QED BY <1>1, <1>2, TypeInvariant, PTL DEF Spec

\* No item is duplicated: an item that a customer has and that is still at its position is
\* there only until the payment under way is read; the owner's row and inventory have
\* nothing that is in the shop or with a customer (ItemTransaction, PrivateShopBuy,
\* PrivateShopItemCheckinUpdate, QueryItemSave).  A check-out of an item that is being
\* bought does duplicate it, and so does a crash between the buyer's save and the payment.
THEOREM NothingIsDuplicated ==
    ASSUME NothingTaken, Limit["crash"] = 0 PROVE Spec => []NoDuplicate
<1>1. ASSUME TypeOK, HandoverInv
      PROVE  NoDuplicate
  <2>1. /\ ForeignRows /\ BagsApart /\ AwaitsPayment /\ SlotsApart /\ RowsApart /\ HeldByCores /\ TokensName
        /\ \A i \in bag[Owner] : row[i] = Owner
    BY <1>1 DEF HandoverInv, StoreInv, OffersInv, AnswersInv, CarriesOwn, AllAlive
  <2>2. ASSUME NEW i \in Items, NEW k \in Chars, NEW l \in Chars, i \in bag[k] \cap bag[l]
        PROVE  k = l
    BY <2>1, <2>2 DEF Chars, ForeignRows, BagsApart
  <2>3. ASSUME NEW i \in Items, NEW p \in Occupied(slot), NEW q \in Occupied(slot), slot[p].item = i, slot[q].item = i
        PROVE  p = q
    BY <2>1, <2>3 DEF SlotsApart, Occupied
  <2>4. ASSUME NEW i \in Items, NEW k \in Chars, NEW p \in Positions, i \in bag[k], slot[p].item = i
        PROVE  Buying(i)
    <3>1. k \in Customers
      BY <2>1, <2>4 DEF Chars, RowsApart, Stocked
    <3>2. p \in Reserved(slot) /\ slot[p].buyer \in Cores
      BY <2>1, <2>4, <3>1 DEF AwaitsPayment, HeldByCores
    <3>3. PICK m \in Range(toDB[slot[p].buyer]) : m.kind = "Buy" /\ m.token = slot[p].token
      BY <2>1, <2>4, <3>1 DEF AwaitsPayment
    <3>4. m.item = i
      BY <2>1, <2>4, <3>2, <3>3 DEF TokensName, NamesIn, Answering
    <3>5. \E n \in DOMAIN toDB[slot[p].buyer] : toDB[slot[p].buyer][n] = m
      BY <3>3 DEF Range
    <3>. QED BY <3>2, <3>3, <3>4, <3>5 DEF Buying
  <2>. QED BY <2>2, <2>3, <2>4 DEF NoDuplicate
<1>. QED BY <1>1, HandoverInvariant, TypeInvariant, PTL

-----------------------------------------------------------------------------
\* The contract.  What the refinement maps held and owed to, and where a bag puts an item.
HeldItems == {slot[p].item : p \in Reserved(slot)} \ UNION {bag[k] : k \in Chars}
OwedGold == gold + Sum("Buy", "price") - Sum("WithdrawDone", "gold")
With(at) == IF at = {} THEN NoCore ELSE CHOOSE k \in at : TRUE
PlaceBy(b) == [i \in Items |-> With({k \in Chars : i \in b[k]})]

\* An item is with one character at most, and what has left the purses is owed.
Books == /\ \A i \in Items : \A k, l \in Chars : i \in bag[k] /\ i \in bag[l] => k = l
         /\ OwedGold \in Nat /\ SumFunction(purse) \in Nat
         /\ OwedGold + SumFunction(purse) = SumFunction(Purse)

LEMMA PlaceIs == PlaceOf = PlaceBy(bag) /\ PlaceOf' = PlaceBy(bag')
BY DEF PlaceOf, PlaceBy, CharAt, With

LEMMA PlaceOfItem ==
    ASSUME NEW b, NEW i \in Items
    PROVE  /\ (\A k \in Chars : i \notin b[k]) => PlaceBy(b)[i] = NoCore
           /\ \A k \in Chars : i \in b[k] /\ (\A l \in Chars : i \in b[l] => l = k) => PlaceBy(b)[i] = k
<1> DEFINE at == {k \in Chars : i \in b[k]}
<1>1. PlaceBy(b)[i] = IF at = {} THEN NoCore ELSE CHOOSE k \in at : TRUE
  BY DEF PlaceBy, With
<1>2. ASSUME NEW k \in Chars, i \in b[k], \A l \in Chars : i \in b[l] => l = k
      PROVE  PlaceBy(b)[i] = k
  <2>1. at = {k}
    BY <1>2
  <2>. QED BY <1>1, <2>1
<1>. QED BY <1>1, <1>2

LEMMA PlaceSame ==
    ASSUME NEW a, NEW b, NEW i \in Items, \A k \in Chars : i \in a[k] <=> i \in b[k]
    PROVE  PlaceBy(a)[i] = PlaceBy(b)[i]
<1>1. {k \in Chars : i \in a[k]} = {k \in Chars : i \in b[k]}
  OBVIOUS
<1>. QED BY <1>1 DEF PlaceBy

LEMMA PlaceDomain == ASSUME NEW b PROVE PlaceBy(b) = [i \in Items |-> PlaceBy(b)[i]]
BY DEF PlaceBy

LEMMA HeldAreItems == ASSUME TypeOK PROVE HeldItems \subseteq Items
<1>1. \A p \in Reserved(slot) : p \in Positions /\ slot[p].item # NoItem
  BY ReservedIn, ReservedMember
<1>2. slot \in [Positions -> Slot]
  BY DEF TypeOK, DBTypeOK
<1>. QED BY <1>1, <1>2 DEF HeldItems, Slot

\* The steps of the contract in these terms.
LEMMA MapsHold ==
    ASSUME NEW i \in Items, ~expired, PlaceOf[i] = NoCore, i \notin HeldItems, HeldItems' = HeldItems \cup {i},
           UNCHANGED <<PlaceOf, purse, OwedGold, expired>>
    PROVE  C!CNext
<1>1. C!Hold(i)
  BY DEF C!Hold, HeldItems, OwedGold
<1>. QED BY <1>1 DEF C!CNext

LEMMA MapsRelease ==
    ASSUME TypeOK, HeldItems' \subseteq HeldItems, UNCHANGED <<PlaceOf, purse, OwedGold, expired>>
    PROVE  [C!CNext]_(C!cvars)
<1>1. PICK S \in SUBSET Items : S = HeldItems \ HeldItems'
  BY HeldAreItems
<1>2. CASE S = {}
  <2>1. HeldItems' = HeldItems
    BY <1>1, <1>2
  <2>. QED BY <2>1 DEF C!cvars, HeldItems, OwedGold
<1>3. CASE S # {}
  <2>1. HeldItems' = HeldItems \ S /\ S \subseteq HeldItems
    BY <1>1
  <2>2. C!Release(S)
    BY <1>3, <2>1 DEF C!Release, HeldItems, OwedGold
  <2>3. C!CNext
    BY <2>2 DEF C!CNext
  <2>. QED BY <2>3
<1>. QED BY <1>2, <1>3

LEMMA MapsSell ==
    ASSUME NEW i \in Items, NEW k \in Customers, NEW price \in 0 .. purse[k], purse[k] \in Nat, i \in HeldItems,
           HeldItems' = HeldItems \ {i}, PlaceOf' = [PlaceOf EXCEPT ![i] = k],
           purse' = [purse EXCEPT ![k] = @ - price], OwedGold' = OwedGold + price, expired' = expired
    PROVE  C!CNext
<1>1. price <= purse[k]
  OBVIOUS
<1>2. C!Sell(i, k, price)
  BY <1>1, Zenon DEF C!Sell, HeldItems, OwedGold
<1>. QED BY <1>2 DEF C!CNext

LEMMA MapsPutUp ==
    ASSUME NEW i \in Items, PlaceOf[i] = Owner, PlaceOf' = [PlaceOf EXCEPT ![i] = NoCore],
           UNCHANGED <<HeldItems, purse, OwedGold, expired>>
    PROVE  C!CNext
<1>1. C!PutUp(i)
  BY DEF C!PutUp, HeldItems, OwedGold
<1>. QED BY <1>1 DEF C!CNext

LEMMA MapsTakeBack ==
    ASSUME NEW S \in SUBSET Items, S # {}, S \cap HeldItems = {}, \A i \in S : PlaceOf[i] = NoCore,
           PlaceOf' = [i \in Items |-> IF i \in S THEN Owner ELSE PlaceOf[i]],
           UNCHANGED <<HeldItems, purse, OwedGold, expired>>
    PROVE  C!CNext
<1>1. C!TakeBack(S)
  BY DEF C!TakeBack, HeldItems, OwedGold
<1>. QED BY <1>1 DEF C!CNext

LEMMA MapsWithdraw ==
    ASSUME NEW n \in 1 .. OwedGold, OwedGold' = OwedGold - n, purse' = [purse EXCEPT ![Owner] = @ + n],
           UNCHANGED <<HeldItems, PlaceOf, expired>>
    PROVE  C!CNext
<1>1. C!Withdraw(n)
  BY DEF C!Withdraw, HeldItems, OwedGold
<1>2. n \in 1 .. (gold + Sum("Buy", "price") - Sum("WithdrawDone", "gold"))
  BY DEF OwedGold
<1>. QED BY <1>1, <1>2 DEF C!CNext

LEMMA MapsDeadline ==
    ASSUME ~expired, expired', UNCHANGED <<HeldItems, PlaceOf, purse, OwedGold>>, expired' \in BOOLEAN
    PROVE  C!CNext
<1>1. C!Deadline
  BY DEF C!Deadline, HeldItems, OwedGold
<1>. QED BY <1>1 DEF C!CNext

\* The invariants give the books.
LEMMA BooksKept == ASSUME TypeOK, HandoverInv PROVE Books
<1>1. ASSUME NEW i \in Items, NEW k \in Chars, NEW l \in Chars, i \in bag[k], i \in bag[l]
      PROVE  k = l
  <2>1. ForeignRows /\ BagsApart /\ \A j \in bag[Owner] : row[j] = Owner
    BY DEF HandoverInv, StoreInv, CarriesOwn, AllAlive
  <2>. QED BY <1>1, <2>1 DEF Chars, ForeignRows, BagsApart
<1>2. /\ SumFunction(purse) \in Nat /\ SumFunction(Purse) \in Nat
      /\ gold \in Nat /\ Total(toDB, PaidBy) \in Nat /\ Total(toDB, TakenBy) \in Nat
  BY PurseSums, TotalsAreNat
<1>3. Total(toDB, TakenBy) <= gold
  <2>1. Coming \in Nat /\ panel.gold \in Nat
    BY ComingIsNat DEF HandoverInv, GoldInv, BalanceInv, SessionsInv
  <2>. QED BY <1>2, <2>1 DEF HandoverInv, GoldInv, BalanceInv, PanelCovered
<1>4. OwedGold = gold + Total(toDB, PaidBy) - Total(toDB, TakenBy)
  BY SumIsTotal DEF OwedGold, TypeOK, WireTypeOK, MailToDB
<1>5. SumFunction(purse) + gold + Total(toDB, PaidBy) = SumFunction(Purse) + Total(toDB, TakenBy)
  BY DEF HandoverInv, GoldInv, Conserved
<1>6. OwedGold \in Nat /\ OwedGold + SumFunction(purse) = SumFunction(Purse)
  <2> HIDE DEF OwedGold
  <2>. QED BY <1>2, <1>3, <1>4, <1>5
<1>. QED BY <1>1, <1>2, <1>6 DEF Books

LEMMA OwedStays ==
    ASSUME Books, Books', purse' = purse
    PROVE  OwedGold' = OwedGold
<1> DEFINE g == OwedGold
           h == OwedGold'
           s == SumFunction(purse)
           t == SumFunction(Purse)
<1>1. g \in Nat /\ h \in Nat /\ s \in Nat /\ g + s = t /\ h + s = t
  BY DEF Books
<1> HIDE DEF g, h, s, t
<1>2. h = g
  BY <1>1
<1>. QED BY <1>2 DEF g, h

\* What the next hold is on is with nobody and not held.
LEMMA HoldMapped ==
    ASSUME TypeOK, HandoverInv, MakesHold, UNCHANGED <<PlaceOf, bag, purse, OwedGold, expired>>
    PROVE  C!CNext
<1>1. PICK p \in Positions : /\ slot[p].item # NoItem /\ slot[p].avail /\ ~slot'[p].avail
                             /\ slot'[p].item = slot[p].item
                             /\ \A q \in Positions \ {p} : slot'[q] = slot[q]
  BY DEF MakesHold
<1> DEFINE i == slot[p].item
<1>2. i \in Items
  BY <1>1 DEF TypeOK, DBTypeOK, Slot
<1>3. p \notin Reserved(slot) /\ p \in Reserved(slot')
  BY <1>1, ReservedMember
<1>4. \A q \in Positions : q # p => (q \in Reserved(slot') <=> q \in Reserved(slot)) /\ slot'[q].item = slot[q].item
  BY <1>1, ReservedMember
<1>5. ASSUME NEW k \in Chars, i \in bag[k]
      PROVE  FALSE
  <2>1. CASE k = Owner
    BY <1>5, <1>2, <2>1 DEF HandoverInv, StoreInv, CarriesOwn, AllAlive, RowsApart, Stocked
  <2>2. CASE k \in Customers
    BY <1>3, <1>5, <2>2 DEF HandoverInv, AwaitsPayment
  <2>. QED BY <2>1, <2>2 DEF Chars
<1>6. i \notin HeldItems
  <2>1. ASSUME NEW q \in Reserved(slot), slot[q].item = i
        PROVE  FALSE
    <3>1. q \in Positions
      BY ReservedIn
    <3>. QED BY <1>1, <1>3, <2>1, <3>1 DEF HandoverInv, StoreInv, SlotsApart
  <2>. QED BY <2>1 DEF HeldItems
<1>7. {slot'[q].item : q \in Reserved(slot')} = {slot[q].item : q \in Reserved(slot)} \cup {i}
  <2>1. Reserved(slot') = Reserved(slot) \cup {p} /\ slot'[p].item = i
    BY <1>1, <1>3, <1>4, ReservedIn
  <2>2. \A q \in Reserved(slot) : slot'[q].item = slot[q].item
    BY <1>3, <1>4, ReservedIn
  <2> HIDE DEF i
  <2>. QED BY <2>1, <2>2
<1> HIDE DEF i
<1>8. HeldItems' = HeldItems \cup {i}
  <2>1. i \notin UNION {bag[k] : k \in Chars}
    BY <1>5
  <2>. QED BY <1>7, <2>1 DEF HeldItems
<1>9. PlaceOf[i] = NoCore
  BY <1>2, <1>5, PlaceIs, PlaceOfItem
<1>10. ~expired
  BY DEF MakesHold, Selling
<1>. QED BY <1>2, <1>6, <1>8, <1>9, <1>10, MapsHold

\* A step that moves no item and no gold between characters makes a hold, releases some or
\* is no step of the contract.
LEMMA ShopSide ==
    ASSUME TypeOK, HandoverInv, Books, Books', Next, UNCHANGED <<bag, purse, expired>>
    PROVE  [C!CNext]_(C!cvars)
<1>1. PlaceOf' = PlaceOf
  BY PlaceIs
<1>2. OwedGold' = OwedGold
  BY OwedStays
<1>3. KeepsHolds \/ MakesHold
  <2>1. HoldsAreDistinct
    BY DEF HandoverInv, StoreInv, OffersInv, AnswersInv
  <2>. QED BY <2>1, StepHolds
<1>4. CASE KeepsHolds
  <2>1. \A p \in Reserved(slot') : p \in Reserved(slot) /\ slot'[p].item = slot[p].item
    BY <1>4 DEF KeepsHolds
  <2>2. HeldItems' \subseteq HeldItems
    BY <2>1 DEF HeldItems
  <2>. QED BY <1>1, <1>2, <2>2, MapsRelease
<1>5. CASE MakesHold
  <2>1. C!CNext
    BY <1>1, <1>2, <1>5, HoldMapped
  <2>. QED BY <2>1
<1>. QED BY <1>3, <1>4, <1>5

\* The item a customer pays for was held, and is the customer's.
LEMMA SaleMapped ==
    ASSUME TypeOK, HandoverInv, Books, Books', NEW c \in Cores, Buys(c)
    PROVE  C!CNext
<1> DEFINE h == Head(toGame[c])
           k == h.cust
           i == h.item
           v == h.price
<1>1. /\ h \in MsgToGame /\ i \in Items /\ k \in Customers /\ h.pos \in Reserved(slot) /\ slot[h.pos].item = i
      /\ h.kind = "BuyRequest" /\ CanBuy(h)
      /\ bag' = [bag EXCEPT ![k] = @ \cup {i}] /\ purse' = [purse EXCEPT ![k] = @ - v]
      /\ UNCHANGED <<slot, expired>>
  BY BuysHeld DEF HandoverInv, StoreInv, Buys, Bought, dbVars
<1>2. \A l \in Chars : i \notin bag[l]
  BY FreshlyBought
<1>3. v \in Nat
  BY <1>1, GameMsgFields
<1>4. v <= purse[k]
  BY <1>1 DEF CanBuy
<1> HIDE DEF h, k, i, v
<1>5. bag \in [Chars -> SUBSET Items] /\ purse \in [Chars -> Nat] /\ k \in Chars
  BY <1>1 DEF TypeOK, GameTypeOK, Chars
<1>6. i \in HeldItems /\ HeldItems' = HeldItems \ {i}
  <2>1. i \in HeldItems
    BY <1>1, <1>2 DEF HeldItems
  <2>2. UNION {bag'[l] : l \in Chars} = (UNION {bag[l] : l \in Chars}) \cup {i}
    <3>1. \A l \in Chars : bag'[l] = IF l = k THEN bag[l] \cup {i} ELSE bag[l]
      BY <1>1, <1>5
    <3>. QED BY <1>5, <3>1
  <2>3. Reserved(slot') = Reserved(slot) /\ \A p \in Positions : slot'[p].item = slot[p].item
    BY <1>1
  <2>. QED BY <1>1, <2>1, <2>2, <2>3 DEF HeldItems
<1>7. PlaceOf' = [PlaceOf EXCEPT ![i] = k]
  <2>1. PlaceBy(bag')[i] = k
    <3>1. i \in bag'[k] /\ \A l \in Chars : i \in bag'[l] => l = k
      BY <1>1, <1>2, <1>5
    <3>2. i \in Items /\ k \in Chars
      BY <1>1, <1>5
    <3> DEFINE b == bag'
    <3> HIDE DEF b
    <3>3. PlaceBy(b)[i] = k
      BY <3>1, <3>2, PlaceOfItem DEF b
    <3>. QED BY <3>3 DEF b
  <2>2. ASSUME NEW j \in Items, j # i
        PROVE  PlaceBy(bag')[j] = PlaceBy(bag)[j]
    <3>1. \A l \in Chars : j \in bag'[l] <=> j \in bag[l]
      BY <1>1, <1>5, <2>2
    <3>. QED BY <3>1, PlaceSame
  <2> DEFINE P == PlaceBy(bag)
             Q == PlaceBy(bag')
  <2>3. P = [j \in Items |-> P[j]] /\ Q = [j \in Items |-> Q[j]]
    BY PlaceDomain
  <2> HIDE DEF P, Q
  <2>4. Q = [P EXCEPT ![i] = k]
    BY <2>1, <2>2, <2>3 DEF P, Q
  <2>. QED BY <2>4, PlaceIs DEF P, Q
<1>8. OwedGold' = OwedGold + v
  <2>1. purse[k] \in Nat /\ purse[k] - v \in Nat
    BY <1>3, <1>4, <1>5
  <2>2. SumFunction(purse') = SumFunction(purse) + (purse[k] - v) - purse[k]
    BY <1>1, <1>5, <2>1, PurseSums
  <2> DEFINE a == OwedGold
             b == OwedGold'
             s == SumFunction(purse)
             t == SumFunction(purse')
             u == SumFunction(Purse)
             w == purse[k]
  <2>3. a \in Nat /\ b \in Nat /\ s \in Nat /\ t \in Nat /\ a + s = u /\ b + t = u
    BY DEF Books
  <2>4. w \in Nat /\ t = s + (w - v) - w
    BY <2>1, <2>2
  <2> HIDE DEF a, b, s, t, u, w
  <2>5. b = a + v
    BY <1>3, <2>3, <2>4
  <2>. QED BY <2>5 DEF a, b
<1>9. v \in 0 .. purse[k] /\ purse[k] \in Nat
  BY <1>3, <1>4, <1>5
<1>. QED BY <1>1, <1>6, <1>7, <1>8, <1>9, MapsSell

\* An item that is checked in was the owner's and not on sale.
LEMMA CheckinMapped ==
    ASSUME TypeOK, HandoverInv, Books, Books', NEW c \in Cores, ChecksIn(c)
    PROVE  C!CNext
<1> DEFINE i == Head(toGame[c]).item
<1>1. /\ i \in bag[Owner] /\ bag' = [bag EXCEPT ![Owner] = @ \ {i}] /\ UNCHANGED <<purse, slot, expired>>
  BY DEF ChecksIn, Presented, TakeFromBag, dbVars
<1> HIDE DEF i
<1>2. bag \in [Chars -> SUBSET Items] /\ Owner \in Chars
  BY DEF TypeOK, GameTypeOK, Chars
<1>3. i \in Items
  BY <1>1, <1>2
<1>4. \A l \in Chars : i \in bag[l] => l = Owner
  BY <1>1, <1>2, <1>3 DEF Books
<1>5. \A l \in Chars : bag'[l] = IF l = Owner THEN bag[l] \ {i} ELSE bag[l]
  BY <1>1, <1>2
<1>6. HeldItems' = HeldItems
  <2>1. ASSUME NEW p \in Reserved(slot)
        PROVE  slot[p].item # i
    BY <1>1, <1>3, ReservedIn DEF HandoverInv, StoreInv, CarriesOwn, AllAlive, RowsApart, Stocked
  <2>2. Reserved(slot') = Reserved(slot) /\ slot' = slot
    BY <1>1
  <2>3. \A j : j # i => (j \in UNION {bag'[l] : l \in Chars} <=> j \in UNION {bag[l] : l \in Chars})
    BY <1>5
  <2>. QED BY <2>1, <2>2, <2>3 DEF HeldItems
<1>7. PlaceOf[i] = Owner /\ PlaceOf' = [PlaceOf EXCEPT ![i] = NoCore]
  <2>1. PlaceBy(bag)[i] = Owner
    BY <1>1, <1>2, <1>3, <1>4, PlaceOfItem
  <2>2. PlaceBy(bag')[i] = NoCore
    <3>1. \A l \in Chars : i \notin bag'[l]
      BY <1>4, <1>5
    <3>. QED BY <1>3, <3>1, PlaceOfItem
  <2>3. ASSUME NEW j \in Items, j # i
        PROVE  PlaceBy(bag')[j] = PlaceBy(bag)[j]
    <3>1. \A l \in Chars : j \in bag'[l] <=> j \in bag[l]
      BY <1>5, <2>3
    <3>. QED BY <3>1, PlaceSame
  <2> DEFINE P == PlaceBy(bag)
             Q == PlaceBy(bag')
  <2>4. P = [j \in Items |-> P[j]] /\ Q = [j \in Items |-> Q[j]]
    BY PlaceDomain
  <2> HIDE DEF P, Q
  <2>5. Q = [P EXCEPT ![i] = NoCore]
    BY <2>2, <2>3, <2>4 DEF P, Q
  <2>. QED BY <2>1, <2>5, PlaceIs DEF P, Q
<1>8. OwedGold' = OwedGold
  BY <1>1, OwedStays
<1>. QED BY <1>1, <1>3, <1>6, <1>7, <1>8, MapsPutUp

\* What the owner withdraws was owed.
LEMMA WithdrawalMapped ==
    ASSUME TypeOK, Books, Books', NEW n \in Nat \ {0}, purse' = [purse EXCEPT ![Owner] = @ + n],
           UNCHANGED <<bag, slot, expired>>
    PROVE  C!CNext
<1>1. purse[Owner] \in Nat /\ purse[Owner] + n \in Nat /\ Owner \in Chars
  BY DEF TypeOK, GameTypeOK, Chars
<1>2. SumFunction(purse') = SumFunction(purse) + (purse[Owner] + n) - purse[Owner]
  BY <1>1, PurseSums
<1> DEFINE a == OwedGold
           b == OwedGold'
           s == SumFunction(purse)
           t == SumFunction(purse')
           u == SumFunction(Purse)
           w == purse[Owner]
<1>3. a \in Nat /\ b \in Nat /\ s \in Nat /\ t \in Nat /\ a + s = u /\ b + t = u
  BY DEF Books
<1>4. w \in Nat /\ t = s + (w + n) - w
  BY <1>1, <1>2
<1> HIDE DEF a, b, s, t, u, w
<1>5. b = a - n /\ n \in 1 .. a
  BY <1>3, <1>4
<1>6. OwedGold' = OwedGold - n /\ n \in 1 .. OwedGold
  BY <1>5 DEF a, b
<1>7. HeldItems' = HeldItems
  BY DEF HeldItems
<1>8. PlaceOf' = PlaceOf
  BY PlaceIs
<1>. QED BY <1>6, <1>7, <1>8, MapsWithdraw

\* What the owner's next login finds in the owner's rows was not on sale.
LEMMA LoginMapped ==
    ASSUME TypeOK, HandoverInv, Books, Books', NEW c, OwnerLogin(c)
    PROVE  [C!CNext]_(C!cvars)
<1>1. /\ bag' = [bag EXCEPT ![Owner] = {i \in Items : row[i] = Owner}] /\ UNCHANGED <<purse, slot, expired>>
  BY DEF OwnerLogin
<1>2. bag \in [Chars -> SUBSET Items] /\ Owner \in Chars
  BY DEF TypeOK, GameTypeOK, Chars
<1>3. \A l \in Chars : bag'[l] = IF l = Owner THEN {i \in Items : row[i] = Owner} ELSE bag[l]
  BY <1>1, <1>2
<1>4. \A i \in bag[Owner] : row[i] = Owner
  BY DEF HandoverInv, StoreInv, CarriesOwn, AllAlive
<1> DEFINE S == {i \in Items : row[i] = Owner} \ bag[Owner]
<1>5. \A j : j \notin S => \A l \in Chars : j \in bag'[l] <=> j \in bag[l]
  BY <1>2, <1>3, <1>4
<1>6. ASSUME NEW i \in S
      PROVE  /\ \A l \in Chars : i \notin bag[l]
             /\ \A l \in Chars : i \in bag'[l] <=> l = Owner
             /\ i \in Items /\ i \notin HeldItems
             /\ \A p \in Reserved(slot) : slot[p].item # i
  <2>1. i \in Items /\ row[i] = Owner /\ i \notin bag[Owner]
    OBVIOUS
  <2>2. \A l \in Chars : i \notin bag[l]
    BY <2>1 DEF Chars, HandoverInv, ForeignRows
  <2>3. \A p \in Reserved(slot) : slot[p].item # i
    BY <2>1, ReservedIn DEF HandoverInv, StoreInv, RowsApart, Stocked
  <2>4. i \notin HeldItems
    BY <2>3 DEF HeldItems
  <2>. QED BY <1>3, <2>1, <2>2, <2>3, <2>4
<1>7. S \in SUBSET Items /\ S \cap HeldItems = {}
  BY <1>6
<1> HIDE DEF S
<1>8. HeldItems' = HeldItems
  <2>1. Reserved(slot') = Reserved(slot) /\ slot' = slot
    BY <1>1
  <2>2. ASSUME NEW p \in Reserved(slot)
        PROVE  slot[p].item \in UNION {bag'[l] : l \in Chars} <=> slot[p].item \in UNION {bag[l] : l \in Chars}
    <3>1. slot[p].item \notin S
      BY <1>6
    <3>. QED BY <1>5, <3>1
  <2>. QED BY <2>1, <2>2 DEF HeldItems
<1>9. \A i \in S : PlaceOf[i] = NoCore
  BY <1>6, PlaceOfItem, PlaceIs
<1>10. PlaceOf' = [i \in Items |-> IF i \in S THEN Owner ELSE PlaceOf[i]]
  <2>1. \A i \in S : PlaceBy(bag')[i] = Owner
    BY <1>2, <1>6, PlaceOfItem
  <2>2. \A i \in Items : i \notin S => PlaceBy(bag')[i] = PlaceBy(bag)[i]
    BY <1>5, PlaceSame
  <2> DEFINE P == PlaceBy(bag)
             Q == PlaceBy(bag')
  <2>3. Q = [j \in Items |-> Q[j]]
    BY PlaceDomain
  <2> HIDE DEF P, Q
  <2>4. Q = [i \in Items |-> IF i \in S THEN Owner ELSE P[i]]
    BY <2>1, <2>2, <2>3 DEF P, Q
  <2>. QED BY <2>4, PlaceIs DEF P, Q
<1>11. OwedGold' = OwedGold
  BY <1>1, OwedStays
<1>12. CASE S = {}
  <2>1. HeldItems' \subseteq HeldItems
    BY <1>8
  <2>2. PlaceOf' = PlaceOf
    <3> DEFINE P == PlaceBy(bag)
    <3>1. P = [j \in Items |-> P[j]]
      BY PlaceDomain
    <3> HIDE DEF P
    <3>2. P = [j \in Items |-> IF j \in S THEN Owner ELSE P[j]]
      BY <1>12, <3>1
    <3>. QED BY <1>10, <3>2, PlaceIs DEF P
  <2>. QED BY <1>1, <1>11, <2>1, <2>2, MapsRelease
<1>13. CASE S # {}
  <2>1. PICK T \in SUBSET Items : T = S
    BY <1>7
  <2>2. /\ T # {} /\ T \cap HeldItems = {} /\ \A i \in T : PlaceOf[i] = NoCore
        /\ PlaceOf' = [i \in Items |-> IF i \in T THEN Owner ELSE PlaceOf[i]]
    BY <1>7, <1>9, <1>10, <1>13, <2>1
  <2>3. C!CNext
    BY <1>1, <1>8, <1>11, <2>1, <2>2, MapsTakeBack
  <2>. QED BY <2>3
<1>. QED BY <1>12, <1>13

LEMMA StepMapped ==
    ASSUME TypeOK, TypeOK', HandoverInv, Books, Books', [Next]_vars
    PROVE  [C!CNext]_(C!cvars)
<1>1. ASSUME Next, UNCHANGED <<bag, purse, expired>>
      PROVE  [C!CNext]_(C!cvars)
  BY <1>1, ShopSide
<1>2. CASE DBStep
  <2>1. UNCHANGED <<bag, purse>>
    BY <1>2, DBBinds DEF gameVars
  <2>2. \A c \in Cores : Process(c) => UNCHANGED expired
    BY ProcessBinds
  <2>3. UNCHANGED expired
    BY <1>2, <2>2 DEF DBStep, UpdatePrivateShopPremiumEvent, RESULT_PRIVATE_SHOP_LOAD, RemovePeer
  <2>. QED BY <1>1, <1>2, <2>1, <2>3 DEF Next
<1>3. CASE GameStep
  <2>1. PICK c \in Cores : Receive(c)
    BY <1>3 DEF GameStep
  <2>2. UNCHANGED dbVars
    BY <1>3 DEF GameStep
  <2> DEFINE m == Head(toGame[c])
  <2>3. /\ m \in Range(toGame[c])
        /\ \/ Idle(c, m) \/ Bought(c, m) \/ Declined(c, m) \/ Presented(c, m)
           \/ TookOut(c, m) \/ PaidOut(c, m) \/ HandedBack(c, m)
    BY <2>1, ReceiveCases, ReadQueue
  <2>4. Bought(c, m) => C!CNext
    BY <2>1, <2>2, SaleMapped DEF Buys
  <2>5. Presented(c, m) => C!CNext
    BY <2>1, <2>2, CheckinMapped DEF ChecksIn
  <2> HIDE DEF m
  <2>6. m.kind # "Checkout" /\ m.kind # "Destroy"
    BY <2>3 DEF HandoverInv, StoreInv, OffersInv, CloseUnasked, TakeUnasked
  <2>7. ASSUME PaidOut(c, m)
        PROVE  C!CNext
    <3>1. PICK n \in 1 .. panel.gold : purse' = [purse EXCEPT ![Owner] = @ + n]
      BY <2>7 DEF PaidOut
    <3>2. n \in Nat \ {0} /\ UNCHANGED <<bag, slot, expired>>
      BY <2>2, <2>7 DEF PaidOut, dbVars
    <3>. QED BY <3>1, <3>2, WithdrawalMapped
  <2>8. ASSUME Idle(c, m) \/ Declined(c, m)
        PROVE  UNCHANGED <<bag, purse, expired>>
    BY <2>2, <2>8 DEF Idle, Declined, dbVars
  <2>9. ~TookOut(c, m) /\ ~HandedBack(c, m)
    BY <2>6 DEF TookOut, HandedBack
  <2>10. [C!CNext]_(C!cvars) \/ UNCHANGED <<bag, purse, expired>>
    BY <2>3, <2>4, <2>5, <2>7, <2>8, <2>9
  <2>. QED BY <1>1, <1>3, <2>10 DEF Next
<1>4. CASE ClientStep
  <2>1. UNCHANGED <<bag, purse>>
    BY <1>4, ClientCases DEF Standing, LoggedOut
  <2>. QED BY <1>1, <1>4, <2>1 DEF Next, ClientStep, dbVars
<1>5. CASE EnvStep
  <2>1. \A c : ~CoreCrash(c)
    BY DEF HandoverInv, GoldInv, CoreCrash, Spend
  <2>2. \A p : ReservationDue(p) => UNCHANGED expired
    BY DEF ReservationDue
  <2>3. ASSUME DeadlinePasses, UNCHANGED gameVars
        PROVE  C!CNext
    <3>1. ~expired /\ expired' /\ expired' \in BOOLEAN /\ UNCHANGED <<slot, bag, purse>>
      BY <2>3 DEF DeadlinePasses, gameVars
    <3>2. HeldItems' = HeldItems
      BY <3>1 DEF HeldItems
    <3>3. PlaceOf' = PlaceOf
      BY <3>1, PlaceIs
    <3>4. OwedGold' = OwedGold
      BY <3>1, OwedStays
    <3>. QED BY <3>1, <3>2, <3>3, <3>4, MapsDeadline
  <2>4. \A c : OwnerLogin(c) => [C!CNext]_(C!cvars)
    BY LoginMapped
  <2>5. ASSUME NEW p, ReservationDue(p), UNCHANGED gameVars
        PROVE  UNCHANGED <<bag, purse, expired>>
    BY <2>2, <2>5 DEF gameVars
  <2>6. [C!CNext]_(C!cvars) \/ UNCHANGED <<bag, purse, expired>>
    BY <1>5, <2>1, <2>3, <2>4, <2>5 DEF EnvStep
  <2>. QED BY <1>1, <1>5, <2>6 DEF Next
<1>6. CASE UNCHANGED vars
  <2>1. UNCHANGED <<bag, slot, purse, expired>>
    BY <1>6 DEF vars, dbVars, gameVars
  <2>2. HeldItems' \subseteq HeldItems
    BY <2>1 DEF HeldItems
  <2>3. PlaceOf' = PlaceOf
    BY <2>1, PlaceIs
  <2>4. OwedGold' = OwedGold
    BY <2>1, OwedStays
  <2>. QED BY <2>1, <2>2, <2>3, <2>4, MapsRelease
<1>. QED BY <1>2, <1>3, <1>4, <1>5, <1>6 DEF Next

LEMMA StartMapped == ASSUME NothingTaken, Limit["crash"] = 0, Init PROVE C!CInit
<1>1. /\ gold = 0 /\ purse = Purse /\ expired = FALSE
      /\ bag = [k \in Chars |-> IF k = Owner THEN Spare ELSE {}]
  BY DEF Init
<1>2. {slot[p].item : p \in Reserved(slot)} \ UNION {bag[k] : k \in Chars} = {}
  <2>1. \A p \in Positions : slot[p].avail
    BY DEF Init, EmptySlot, FreshSlot
  <2>2. Reserved(slot) = {}
    BY <2>1, ReservedIn, ReservedMember
  <2>. QED BY <2>2
<1>3. gold + Sum("Buy", "price") - Sum("WithdrawDone", "gold") = 0
  <2>1. TypeOK /\ toDB \in MailToDB
    BY InitTypes DEF TypeOK, WireTypeOK, MailToDB
  <2>2. Total(toDB, TakenBy) = 0 /\ Total(toDB, PaidBy) = 0
    BY <2>1, StartIsEmpty, WeightTypes, TotalOfNothing
  <2>. QED BY <1>1, <2>1, <2>2, SumIsTotal
<1>4. PlaceOf = [i \in Items |-> IF i \in Items \ Spare THEN NoCore ELSE Owner]
  <2>1. Owner \in Chars /\ \A k \in Chars : bag[k] = IF k = Owner THEN Spare ELSE {}
    BY <1>1 DEF Chars
  <2>2. \A i \in Items : i \notin Spare => PlaceBy(bag)[i] = NoCore
    BY <2>1, PlaceOfItem
  <2>3. \A i \in Items : i \in Spare => PlaceBy(bag)[i] = Owner
    BY <2>1, PlaceOfItem
  <2> DEFINE P == PlaceBy(bag)
  <2>4. P = [i \in Items |-> P[i]]
    BY PlaceDomain
  <2> HIDE DEF P
  <2>5. P = [i \in Items |-> IF i \in Items \ Spare THEN NoCore ELSE Owner]
    BY <2>2, <2>3, <2>4 DEF P
  <2>. QED BY <2>5, PlaceIs DEF P
<1>. QED BY <1>1, <1>2, <1>3, <1>4 DEF C!CInit

\* The shop keeps its contract: whatever the packets, refusals, timeouts, relogs and edits,
\* for any number of cores, customers, items and positions, a run amounts to holds, releases,
\* whole sales, items put up and taken back and withdrawals of what is owed
\* (PrivateShopBuyRequest, ItemTransaction, PrivateShopBuy, PrivateShopFailedBuy,
\* UpdatePrivateShopPremiumEvent, WithdrawPrivateShop, RESULT_PRIVATE_SHOP_LOAD).
THEOREM ShopKeepsContract == ASSUME NothingTaken, Limit["crash"] = 0 PROVE Spec => KeepsContract
<1>1. Init => C!CInit
  BY StartMapped
<1>2. TypeOK /\ HandoverInv => Books
  BY BooksKept
<1>3. TypeOK /\ TypeOK' /\ HandoverInv /\ Books /\ Books' /\ [Next]_vars => [C!CNext]_(C!cvars)
  BY StepMapped
<1>. QED BY <1>1, <1>2, <1>3, HandoverInvariant, TypeInvariant, PTL DEF Spec, KeepsContract, C!Contract

-----------------------------------------------------------------------------
\* The host's copy.

\* The copies there can be, and what the host makes of each packet; an offer it may refuse.
Copies == {v \in HostType : ~v.up => v = NoHost}
Without(v, p) == [v EXCEPT !.items[p] = NoStall[p]]
After(m, v) ==
    IF m.kind = "Spawn" THEN [up |-> TRUE, state |-> "RECOVERY", items |-> m.stall]
    ELSE IF ~v.up THEN v
    ELSE IF m.kind = "State" THEN (IF m.state = "CLOSED" THEN NoHost ELSE [v EXCEPT !.state = m.state])
    ELSE IF m.kind = "RemoveItem" THEN Without(v, m.pos)
    ELSE IF m.kind = "AddItem" /\ v.items[m.pos].item = NoItem
         THEN [v EXCEPT !.items[m.pos] = [item |-> m.item, price |-> m.price]]
    ELSE IF m.kind = "Price" /\ v.items[m.pos].item # NoItem THEN [v EXCEPT !.items[m.pos].price = m.price]
    ELSE IF m.kind = "Move" /\ v.items[m.pos].item # NoItem /\ v.items[m.dst].item = NoItem
         THEN [v EXCEPT !.items[m.dst] = v.items[m.pos], !.items[m.pos] = NoStall[m.pos]]
    ELSE v
Steering == {"Spawn", "State", "RemoveItem", "AddItem", "Price", "Move"}

\* Reading all of q turns the copy u into v.
Shows(q, u, v) ==
    \E f \in [1 .. Len(q) + 1 -> Copies] :
        /\ f[1] = u /\ f[Len(q) + 1] = v
        /\ \A n \in 1 .. Len(q) : f[n + 1] = After(q[n], f[n])

LEMMA CopyFields ==
    /\ NoHost \in Copies /\ NoHost.up = FALSE /\ NoHost.items = NoStall
    /\ \A v \in Copies : /\ v \in HostType /\ v.items \in StallType
                         /\ v = [up |-> v.up, state |-> v.state, items |-> v.items]
    /\ \A p \in Positions : NoStall[p] = [item |-> NoItem, price |-> 0]
    /\ \A st \in ShopStates, s \in StallType : [up |-> TRUE, state |-> st, items |-> s] \in Copies
<1>1. NoHost \in HostType
  BY HostTypes
<1>. QED BY <1>1 DEF Copies, HostType, NoHost, NoStall

LEMMA StateSet ==
    ASSUME NEW v \in Copies, NEW st \in ShopStates
    PROVE  [v EXCEPT !.state = st] = [up |-> v.up, state |-> st, items |-> v.items]
<1>1. v \in [up : BOOLEAN, state : ShopStates, items : StallType]
  BY CopyFields DEF HostType
<1>. QED BY <1>1

LEMMA WithoutIs ==
    ASSUME NEW v \in Copies, NEW p \in Positions
    PROVE  /\ Without(v, p) \in Copies
           /\ ~v.up => Without(v, p) = v
           /\ Without(v, p) = [up |-> v.up, state |-> v.state, items |-> [v.items EXCEPT ![p] = NoStall[p]]]
<1>1. v.items \in StallType /\ NoStall[p] = [item |-> NoItem, price |-> 0]
      /\ v \in [up : BOOLEAN, state : ShopStates, items : StallType]
  BY CopyFields DEF HostType
<1>2. [v.items EXCEPT ![p] = NoStall[p]] \in StallType
  BY <1>1, HostTypes
<1>3. Without(v, p) = [up |-> v.up, state |-> v.state, items |-> [v.items EXCEPT ![p] = NoStall[p]]]
  BY <1>1 DEF Without
<1>4. ASSUME ~v.up
      PROVE  [v.items EXCEPT ![p] = NoStall[p]] = v.items
  <2>1. v.items = NoStall
    BY <1>4, CopyFields DEF Copies
  <2>. QED BY <2>1 DEF NoStall
<1>5. ~v.up => Without(v, p) = v
  BY <1>1, <1>3, <1>4
<1>. QED BY <1>1, <1>2, <1>3, <1>5 DEF Copies, HostType

LEMMA AfterType ==
    ASSUME NEW m \in MsgToGame, NEW v \in Copies
    PROVE  After(m, v) \in Copies
<1>1. v \in [up : BOOLEAN, state : ShopStates, items : StallType] /\ v.items \in StallType
  BY CopyFields DEF HostType
<1>2. CASE m.kind = "Spawn"
  <2>1. m.stall \in StallType /\ "RECOVERY" \in ShopStates
    BY <1>2 DEF MsgToGame, ShopStates
  <2>. QED BY <1>2, <2>1, CopyFields DEF After
<1>3. CASE m.kind # "Spawn" /\ ~v.up
  BY <1>3 DEF After
<1>4. CASE m.kind # "Spawn" /\ v.up
  <2>1. CASE m.kind = "State"
    <3>1. m.state \in ShopStates
      BY <2>1, GameMsgFields
    <3>2. m.state # "CLOSED" => After(m, v) = [up |-> TRUE, state |-> m.state, items |-> v.items]
      BY <1>1, <1>4, <2>1 DEF After
    <3>3. m.state = "CLOSED" => After(m, v) = NoHost
      BY <1>4, <2>1 DEF After
    <3>. QED BY <1>1, <3>1, <3>2, <3>3, CopyFields
  <2>2. CASE m.kind = "RemoveItem"
    <3>1. m.pos \in Positions /\ After(m, v) = Without(v, m.pos)
      BY <1>4, <2>2, GameMsgFields DEF After
    <3>. QED BY <3>1, WithoutIs
  <2>3. CASE m.kind = "AddItem"
    <3>1. m.pos \in Positions /\ m.item \in Items /\ m.price \in Nat
      BY <2>3, GameMsgFields
    <3>2. [v.items EXCEPT ![m.pos] = [item |-> m.item, price |-> m.price]] \in StallType
      BY <1>1, <3>1, HostTypes
    <3>3. \/ After(m, v) = v
          \/ After(m, v) = [up |-> TRUE, state |-> v.state,
                            items |-> [v.items EXCEPT ![m.pos] = [item |-> m.item, price |-> m.price]]]
      BY <1>1, <1>4, <2>3 DEF After
    <3>. QED BY <1>1, <3>2, <3>3, CopyFields
  <2>4. CASE m.kind = "Price"
    <3>1. m.pos \in Positions /\ m.price \in Nat
      BY <2>4, GameMsgFields
    <3>2. [v.items EXCEPT ![m.pos].price = m.price] \in StallType
      BY <1>1, <3>1, HostTypes
    <3>3. \/ After(m, v) = v
          \/ After(m, v) = [up |-> TRUE, state |-> v.state, items |-> [v.items EXCEPT ![m.pos].price = m.price]]
      BY <1>1, <1>4, <2>4 DEF After
    <3>. QED BY <1>1, <3>2, <3>3, CopyFields
  <2>5. CASE m.kind = "Move"
    <3> DEFINE s == [v.items EXCEPT ![m.dst] = v.items[m.pos]]
    <3>1. m.pos \in Positions /\ m.dst \in Positions
      BY <2>5 DEF MsgToGame
    <3>2. s \in StallType
      BY <1>1, <3>1 DEF StallType
    <3>3. NoStall[m.pos] = [item |-> NoItem, price |-> 0]
      BY <3>1, CopyFields
    <3>4. [s EXCEPT ![m.pos] = NoStall[m.pos]] \in StallType
      BY <3>1, <3>2, <3>3, HostTypes
    <3>5. \/ After(m, v) = v
          \/ After(m, v) = [up |-> TRUE, state |-> v.state, items |-> [s EXCEPT ![m.pos] = NoStall[m.pos]]]
      BY <1>1, <1>4, <2>5 DEF After
    <3>. QED BY <1>1, <3>4, <3>5, CopyFields
  <2>6. CASE m.kind \notin Steering
    BY <1>4, <2>6 DEF After, Steering
  <2>. QED BY <1>4, <2>1, <2>2, <2>3, <2>4, <2>5, <2>6 DEF Steering
<1>. QED BY <1>2, <1>3, <1>4

LEMMA AfterOthers ==
    ASSUME NEW m, NEW v, m.kind \notin Steering
    PROVE  After(m, v) = v
BY DEF After, Steering

-----------------------------------------------------------------------------
\* Reading queues.

LEMMA ShowsNone ==
    ASSUME NEW q \in Seq(MsgToGame), NEW v \in Copies, \A m \in Range(q) : After(m, v) = v
    PROVE  Shows(q, v, v)
<1>1. Len(q) \in Nat /\ \A n \in 1 .. Len(q) : q[n] \in Range(q)
  BY RangeIs
<1>2. \A n \in 1 .. Len(q) : n \in 1 .. Len(q) + 1 /\ n + 1 \in 1 .. Len(q) + 1
  BY <1>1
<1>3. 1 \in 1 .. Len(q) + 1 /\ Len(q) + 1 \in 1 .. Len(q) + 1
  BY <1>1
<1> DEFINE f == [n \in 1 .. Len(q) + 1 |-> v]
<1>4. f \in [1 .. Len(q) + 1 -> Copies] /\ f[1] = v /\ f[Len(q) + 1] = v
  BY <1>3
<1>5. \A n \in 1 .. Len(q) : f[n + 1] = After(q[n], f[n])
  BY <1>1, <1>2
<1> HIDE DEF f
<1>. QED BY <1>4, <1>5 DEF Shows

LEMMA ShowsOne ==
    ASSUME NEW m \in MsgToGame, NEW v \in Copies
    PROVE  Shows(<<m>>, v, After(m, v))
<1>1. After(m, v) \in Copies
  BY AfterType
<1> DEFINE w == After(m, v)
           f == [n \in 1 .. 2 |-> IF n = 1 THEN v ELSE w]
<1>2. f \in [1 .. 2 -> Copies] /\ f[1] = v /\ f[2] = w
  BY <1>1
<1>3. Len(<<m>>) = 1 /\ <<m>>[1] = m
  OBVIOUS
<1>4. \A n \in 1 .. 1 : n = 1
  OBVIOUS
<1> HIDE DEF f
<1>. QED BY <1>2, <1>3, <1>4 DEF Shows

LEMMA ShowsEnds ==
    ASSUME NEW q \in Seq(MsgToGame), NEW u, NEW v, Shows(q, u, v)
    PROVE  u \in Copies /\ v \in Copies /\ (q = <<>> => u = v)
<1>1. Len(q) \in Nat /\ 1 \in 1 .. Len(q) + 1 /\ Len(q) + 1 \in 1 .. Len(q) + 1
  OBVIOUS
<1>2. q = <<>> => Len(q) = 0
  OBVIOUS
<1>. QED BY <1>1, <1>2 DEF Shows

LEMMA ShowsCat ==
    ASSUME NEW q \in Seq(MsgToGame), NEW r \in Seq(MsgToGame), NEW u, NEW v, NEW w, Shows(q, u, v), Shows(r, v, w)
    PROVE  Shows(q \o r, u, w)
<1>1. PICK f \in [1 .. Len(q) + 1 -> Copies] :
          f[1] = u /\ f[Len(q) + 1] = v /\ \A n \in 1 .. Len(q) : f[n + 1] = After(q[n], f[n])
  BY DEF Shows
<1>2. PICK g \in [1 .. Len(r) + 1 -> Copies] :
          g[1] = v /\ g[Len(r) + 1] = w /\ \A n \in 1 .. Len(r) : g[n + 1] = After(r[n], g[n])
  BY DEF Shows
<1> DEFINE s == q \o r
           a == Len(q)
           b == Len(r)
           h == [n \in 1 .. a + b + 1 |-> IF n <= a + 1 THEN f[n] ELSE g[n - a]]
<1>3. /\ s \in Seq(MsgToGame) /\ Len(s) = a + b /\ a \in Nat /\ b \in Nat
      /\ \A n \in 1 .. a + b : s[n] = IF n <= a THEN q[n] ELSE r[n - a]
  BY ConcatProperties
<1> HIDE DEF s, a, b
<1>4. h \in [1 .. a + b + 1 -> Copies]
  <2> SUFFICES ASSUME NEW n \in 1 .. a + b + 1
               PROVE  (IF n <= a + 1 THEN f[n] ELSE g[n - a]) \in Copies
    OBVIOUS
  <2>1. n <= a + 1 => n \in 1 .. a + 1
    BY <1>3
  <2>2. ~(n <= a + 1) => n - a \in 1 .. b + 1
    BY <1>3
  <2>. QED BY <1>1, <1>2, <2>1, <2>2 DEF a, b
<1>5. h[1] = u /\ h[a + b + 1] = w
  <2>1. 1 \in 1 .. a + b + 1 /\ 1 <= a + 1 /\ a + b + 1 \in 1 .. a + b + 1
    BY <1>3
  <2>2. h[1] = u
    BY <1>1, <2>1
  <2>3. CASE b = 0
    <3>1. a + b + 1 = a + 1 /\ a + 1 <= a + 1
      BY <1>3, <2>3
    <3>2. v = w
      BY <1>2, <2>3 DEF b
    <3>. QED BY <1>1, <2>1, <2>2, <3>1, <3>2 DEF a
  <2>4. CASE b # 0
    <3>1. ~(a + b + 1 <= a + 1) /\ (a + b + 1) - a = b + 1
      BY <1>3, <2>4
    <3>. QED BY <1>2, <2>1, <2>2, <3>1 DEF b
  <2>. QED BY <2>3, <2>4
<1>6. ASSUME NEW n \in 1 .. a + b
      PROVE  h[n + 1] = After(s[n], h[n])
  <2>1. n \in 1 .. a + b + 1 /\ n + 1 \in 1 .. a + b + 1
    BY <1>3
  <2>2. CASE n <= a
    <3>1. n \in 1 .. a /\ n <= a + 1 /\ n + 1 <= a + 1
      BY <1>3, <2>2
    <3>. QED BY <1>1, <1>3, <2>1, <2>2, <3>1 DEF a
  <2>3. CASE n = a + 1
    <3>1. ~(n <= a) /\ n <= a + 1 /\ ~(n + 1 <= a + 1) /\ n - a = 1 /\ (n + 1) - a = 2 /\ 1 \in 1 .. b
      BY <1>3, <2>3
    <3>2. g[2] = After(r[1], v)
      <4>1. 1 + 1 = 2
        OBVIOUS
      <4>. QED BY <1>2, <3>1, <4>1 DEF b
    <3>3. s[n] = r[1] /\ h[n] = v /\ h[n + 1] = g[2]
      BY <1>1, <1>3, <2>1, <2>3, <3>1 DEF a
    <3>. QED BY <3>2, <3>3
  <2>4. CASE n > a + 1
    <3>1. ~(n <= a) /\ ~(n <= a + 1) /\ ~(n + 1 <= a + 1) /\ n - a \in 1 .. b /\ (n + 1) - a = (n - a) + 1
      BY <1>3, <2>4
    <3>. QED BY <1>2, <1>3, <2>1, <3>1 DEF b
  <2>. QED BY <1>3, <2>2, <2>3, <2>4
<1> HIDE DEF h
<1>7. Len(s) + 1 = a + b + 1
  BY <1>3
<1>8. Shows(s, u, w)
  BY <1>3, <1>4, <1>5, <1>6, <1>7 DEF Shows
<1>. QED BY <1>8 DEF s

LEMMA ShowsTail ==
    ASSUME NEW q \in Seq(MsgToGame), q # <<>>, NEW u, NEW v, Shows(q, u, v)
    PROVE  Shows(Tail(q), After(Head(q), u), v)
<1>1. PICK f \in [1 .. Len(q) + 1 -> Copies] :
          f[1] = u /\ f[Len(q) + 1] = v /\ \A n \in 1 .. Len(q) : f[n + 1] = After(q[n], f[n])
  BY DEF Shows
<1> DEFINE t == Tail(q)
           a == Len(q)
           h == [n \in 1 .. a |-> f[n + 1]]
<1>2. /\ a \in Nat \ {0} /\ t \in Seq(MsgToGame) /\ Len(t) = a - 1 /\ Head(q) = q[1]
      /\ \A n \in 1 .. a - 1 : t[n] = q[n + 1]
  OBVIOUS
<1> HIDE DEF t, a
<1>3. \A n \in 1 .. a : n + 1 \in 1 .. a + 1
  BY <1>2
<1>4. h \in [1 .. a -> Copies]
  BY <1>1, <1>3 DEF a
<1>5. h[1] = After(Head(q), u) /\ h[a] = v
  <2>1. 1 \in 1 .. a /\ a \in 1 .. a
    BY <1>2
  <2>. QED BY <1>1, <1>2, <2>1 DEF a
<1>6. ASSUME NEW n \in 1 .. a - 1
      PROVE  h[n + 1] = After(t[n], h[n])
  <2>1. n \in 1 .. a /\ n + 1 \in 1 .. a
    BY <1>2
  <2>2. f[(n + 1) + 1] = After(q[n + 1], f[n + 1])
    BY <1>1, <2>1 DEF a
  <2>. QED BY <1>2, <2>1, <2>2
<1> HIDE DEF h
<1>7. Len(t) + 1 = a
  BY <1>2
<1>8. Shows(t, After(Head(q), u), v)
  BY <1>2, <1>4, <1>5, <1>6, <1>7 DEF Shows
<1>. QED BY <1>8 DEF t

\* A packet that neither replaces the copy nor touches position p.
Beside(p, m) == /\ m.kind \notin {"Spawn", "Price", "Move"}
                /\ m.kind \in {"RemoveItem", "AddItem"} => m.pos # p

LEMMA AfterWithout ==
    ASSUME NEW m \in MsgToGame, NEW v \in Copies, NEW p \in Positions, Beside(p, m)
    PROVE  After(m, Without(v, p)) = Without(After(m, v), p)
<1> DEFINE w == Without(v, p)
<1>1. /\ w \in Copies /\ (~v.up => w = v)
      /\ w = [up |-> v.up, state |-> v.state, items |-> [v.items EXCEPT ![p] = NoStall[p]]]
  BY WithoutIs
<1>2. v.items \in StallType /\ v = [up |-> v.up, state |-> v.state, items |-> v.items]
  BY CopyFields
<1>3. w.up = v.up /\ w.state = v.state /\ w.items = [v.items EXCEPT ![p] = NoStall[p]]
  BY <1>1
<1>4. \A c \in Copies : Without(c, p) = [up |-> c.up, state |-> c.state, items |-> [c.items EXCEPT ![p] = NoStall[p]]]
  BY WithoutIs
<1> HIDE DEF w
<1>5. CASE ~v.up
  <2>1. m.kind # "Spawn" /\ w = v
    BY <1>1, <1>5 DEF Beside
  <2>2. After(m, w) = w /\ After(m, v) = v
    BY <1>5, <2>1 DEF After
  <2>. QED BY <2>1, <2>2 DEF w
<1>6. CASE v.up
  <2>1. CASE m.kind = "State"
    <3>1. CASE m.state = "CLOSED"
      <4>1. After(m, w) = NoHost /\ After(m, v) = NoHost
        BY <1>3, <1>6, <2>1, <3>1 DEF After
      <4>2. Without(NoHost, p) = NoHost
        BY CopyFields, WithoutIs
      <4>. QED BY <4>1, <4>2 DEF w
    <3>2. CASE m.state # "CLOSED"
      <4>1. After(m, w) = [w EXCEPT !.state = m.state] /\ After(m, v) = [v EXCEPT !.state = m.state]
        BY <1>3, <1>6, <2>1, <3>2 DEF After
      <4>2. After(m, w) = [up |-> v.up, state |-> m.state, items |-> [v.items EXCEPT ![p] = NoStall[p]]]
        BY <1>1, <4>1
      <4>3. After(m, v) = [up |-> v.up, state |-> m.state, items |-> v.items] /\ After(m, v) \in Copies
        BY <1>2, <4>1, AfterType
      <4>. QED BY <1>4, <4>2, <4>3 DEF w
    <3>. QED BY <3>1, <3>2
  <2>2. CASE m.kind = "RemoveItem"
    <3>1. m.pos \in Positions /\ m.pos # p
      BY <2>2, GameMsgFields DEF Beside
    <3>2. After(m, w) = Without(w, m.pos) /\ After(m, v) = Without(v, m.pos) /\ Without(v, m.pos) \in Copies
      BY <1>3, <1>6, <2>2, <3>1, WithoutIs DEF After
    <3>3. /\ Without(w, m.pos) = [up |-> v.up, state |-> v.state, items |-> [w.items EXCEPT ![m.pos] = NoStall[m.pos]]]
          /\ Without(v, m.pos) = [up |-> v.up, state |-> v.state, items |-> [v.items EXCEPT ![m.pos] = NoStall[m.pos]]]
      <4>1. Without(w, m.pos) = [up |-> w.up, state |-> w.state, items |-> [w.items EXCEPT ![m.pos] = NoStall[m.pos]]]
        BY <1>1, <3>1, WithoutIs
      <4>2. Without(v, m.pos) = [up |-> v.up, state |-> v.state, items |-> [v.items EXCEPT ![m.pos] = NoStall[m.pos]]]
        BY <3>1, WithoutIs
      <4>. QED BY <1>3, <4>1, <4>2
    <3>4. [w.items EXCEPT ![m.pos] = NoStall[m.pos]]
            = [[v.items EXCEPT ![m.pos] = NoStall[m.pos]] EXCEPT ![p] = NoStall[p]]
      BY <1>2, <1>3, <3>1 DEF StallType
    <3>. QED BY <1>4, <3>2, <3>3, <3>4 DEF w
  <2>3. CASE m.kind = "AddItem"
    <3> DEFINE e == [item |-> m.item, price |-> m.price]
    <3>1. m.pos \in Positions /\ m.pos # p
      BY <2>3, GameMsgFields DEF Beside
    <3>2. w.items[m.pos] = v.items[m.pos]
      BY <1>2, <1>3, <3>1 DEF StallType
    <3>3. CASE v.items[m.pos].item # NoItem
      <4>1. After(m, w) = w /\ After(m, v) = v
        BY <1>3, <1>6, <2>3, <3>2, <3>3 DEF After
      <4>. QED BY <4>1 DEF w
    <3>4. CASE v.items[m.pos].item = NoItem
      <4>1. After(m, w) = [w EXCEPT !.items[m.pos] = e] /\ After(m, v) = [v EXCEPT !.items[m.pos] = e]
        BY <1>3, <1>6, <2>3, <3>2, <3>4 DEF After
      <4> HIDE DEF e
      <4>2. After(m, w) = [up |-> v.up, state |-> v.state, items |-> [w.items EXCEPT ![m.pos] = e]]
        BY <1>1, <1>3, <4>1
      <4>3. After(m, v) = [up |-> v.up, state |-> v.state, items |-> [v.items EXCEPT ![m.pos] = e]]
            /\ After(m, v) \in Copies
        BY <1>2, <4>1, AfterType
      <4>4. [w.items EXCEPT ![m.pos] = e] = [[v.items EXCEPT ![m.pos] = e] EXCEPT ![p] = NoStall[p]]
        BY <1>2, <1>3, <3>1 DEF StallType
      <4>. QED BY <1>4, <4>2, <4>3, <4>4 DEF w
    <3>. QED BY <3>3, <3>4
  <2>4. CASE m.kind \notin Steering
    <3>1. After(m, w) = w /\ After(m, v) = v
      BY <2>4, AfterOthers
    <3>. QED BY <3>1 DEF w
  <2>. QED BY <2>1, <2>2, <2>3, <2>4 DEF Beside, Steering
<1>. QED BY <1>5, <1>6

LEMMA ShowsWithout ==
    ASSUME NEW q \in Seq(MsgToGame), NEW u, NEW v, Shows(q, u, v), NEW p \in Positions,
           \A m \in Range(q) : Beside(p, m)
    PROVE  Shows(q, Without(u, p), Without(v, p))
<1>1. PICK f \in [1 .. Len(q) + 1 -> Copies] :
          f[1] = u /\ f[Len(q) + 1] = v /\ \A n \in 1 .. Len(q) : f[n + 1] = After(q[n], f[n])
  BY DEF Shows
<1> DEFINE h == [n \in 1 .. Len(q) + 1 |-> Without(f[n], p)]
<1>2. Len(q) \in Nat /\ \A n \in 1 .. Len(q) : q[n] \in Range(q) /\ q[n] \in MsgToGame
  BY RangeIs
<1>3. \A n \in 1 .. Len(q) : n \in 1 .. Len(q) + 1 /\ n + 1 \in 1 .. Len(q) + 1
  BY <1>2
<1>4. 1 \in 1 .. Len(q) + 1 /\ Len(q) + 1 \in 1 .. Len(q) + 1
  BY <1>2
<1>5. h \in [1 .. Len(q) + 1 -> Copies]
  BY <1>1, WithoutIs
<1>6. h[1] = Without(u, p) /\ h[Len(q) + 1] = Without(v, p)
  BY <1>1, <1>4
<1>7. ASSUME NEW n \in 1 .. Len(q)
      PROVE  h[n + 1] = After(q[n], h[n])
  <2>1. f[n] \in Copies /\ f[n + 1] = After(q[n], f[n])
    BY <1>1, <1>3
  <2>2. After(q[n], Without(f[n], p)) = Without(After(q[n], f[n]), p)
    BY <1>2, <2>1, AfterWithout
  <2>. QED BY <1>3, <2>1, <2>2
<1> HIDE DEF h
<1>. QED BY <1>5, <1>6, <1>7 DEF Shows

-----------------------------------------------------------------------------
\* What the host's copy should be, and mail that brings it there.

\* The stock of the shop but what a customer on the host has paid for.
Shown(s, paid) == [p \in Positions |-> IF p \in paid THEN NoStall[p] ELSE [item |-> s[p].item, price |-> s[p].price]]
Copy(st, s, paid) == IF st \in {"none", "CLOSED"} THEN NoHost
                     ELSE [up |-> TRUE, state |-> st, items |-> Shown(s, paid)]
Paid(q) == {m.pos : m \in {a \in Range(q) : a.kind = "Buy"}}
Truth == Copy(state, slot, Paid(toDB[Host]))

Shaping == {"Spawn", "RemoveItem", "AddItem"}
\* A packet the host's copy can take whatever the host's customers are offered.
Fits(m) == /\ m.kind # "BuyRequest" /\ (m.kind = "Spawn" => m.state = "RECOVERY")
           /\ \A p \in Reserved(slot) : slot[p].buyer = Host => Beside(p, m)
Brings(f, u, v) ==
    /\ f \in MailToGame /\ Shows(f[Host], u, v) /\ \A m \in Range(f[Host]) : Fits(m)
    /\ \A c \in Cores \ {Host} : \A m \in Range(f[c]) : m.kind \notin Shaping
Delivers(v) == (UNCHANGED toGame /\ v = Truth) \/ \E f : Brings(f, Truth, v) /\ Post(f)

StateFits == /\ state # "UNAVAILABLE"
             /\ state \notin {"none", "CLOSED"} => ~NoItems(slot)
             /\ state = "CLOSED" => Reserved(slot) = {}
HostReads ==
    /\ Shows(toGame[Host], host, Truth)
    /\ \A m \in Range(toGame[Host]) : m.kind = "Spawn" => m.state = "RECOVERY"
    /\ \A b \in Before(toGame[Host]) : b[1].kind = "BuyRequest" => Beside(b[1].pos, b[2])
    /\ \A c \in Cores \ {Host} : \A m \in Range(toGame[c]) : m.kind \notin Shaping

\* The strengthening of HostAgrees, while the host lives.
HostInv == OffersInv /\ (Host \notin crashed => StateFits /\ HostReads)

LEMMA ShownType ==
    ASSUME NEW st \in ShopStates, NEW s \in [Positions -> Slot], NEW paid
    PROVE  /\ Copy(st, s, paid) \in Copies /\ Shown(s, paid) \in StallType
           /\ Copy(st, s, paid).up = (st \notin {"none", "CLOSED"})
           /\ st \notin {"none", "CLOSED"} =>
                Copy(st, s, paid).state = st /\ Copy(st, s, paid).items = Shown(s, paid)
           /\ \A p \in Positions : Shown(s, paid)[p] =
                IF p \in paid THEN NoStall[p] ELSE [item |-> s[p].item, price |-> s[p].price]
<1>1. \A p \in Positions : NoStall[p] \in [item : Items \cup {NoItem}, price : Nat]
  BY CopyFields
<1>2. \A p \in Positions : [item |-> s[p].item, price |-> s[p].price] \in [item : Items \cup {NoItem}, price : Nat]
  BY DEF Slot
<1>3. Shown(s, paid) \in StallType
  BY <1>1, <1>2 DEF Shown, StallType
<1>4. \A p \in Positions : Shown(s, paid)[p] =
                IF p \in paid THEN NoStall[p] ELSE [item |-> s[p].item, price |-> s[p].price]
  BY DEF Shown
<1>5. /\ st \in {"none", "CLOSED"} => Copy(st, s, paid) = NoHost
      /\ st \notin {"none", "CLOSED"} => Copy(st, s, paid) = [up |-> TRUE, state |-> st, items |-> Shown(s, paid)]
  BY DEF Copy
<1>6. NoHost \in Copies /\ NoHost.up = FALSE /\ [up |-> TRUE, state |-> st, items |-> Shown(s, paid)] \in Copies
  BY <1>3, CopyFields
<1>7. CASE st \in {"none", "CLOSED"}
  <2>1. Copy(st, s, paid) = NoHost
    BY <1>5, <1>7
  <2>. QED BY <1>3, <1>4, <1>6, <1>7, <2>1
<1>8. CASE st \notin {"none", "CLOSED"}
  <2> DEFINE v == Copy(st, s, paid)
             some == Shown(s, paid)
  <2>1. v = [up |-> TRUE, state |-> st, items |-> some] /\ v \in Copies
    BY <1>5, <1>6, <1>8
  <2> HIDE DEF v, some
  <2>2. v.up = TRUE /\ v.state = st /\ v.items = some
    BY <2>1
  <2>. QED BY <1>3, <1>4, <1>8, <2>1, <2>2 DEF v, some
<1>. QED BY <1>7, <1>8

LEMMA CopyIs ==
    ASSUME NEW st \in ShopStates \ {"none", "CLOSED"}, NEW s \in [Positions -> Slot], NEW paid
    PROVE  /\ Copy(st, s, paid) = [up |-> TRUE, state |-> st, items |-> Shown(s, paid)]
           /\ Copy(st, s, paid) \in Copies /\ Copy(st, s, paid).up
<1>1. st \in ShopStates /\ ~(st \in {"none", "CLOSED"})
  OBVIOUS
<1>2. Copy(st, s, paid) = [up |-> TRUE, state |-> st, items |-> Shown(s, paid)]
  BY <1>1 DEF Copy
<1>3. Copy(st, s, paid) \in Copies
  BY <1>1, ShownType
<1>. QED BY <1>2, <1>3

LEMMA SameShown ==
    ASSUME NEW st, NEW s, NEW r, NEW paid, NEW done,
           \A p \in Positions : /\ p \in paid <=> p \in done
                                /\ p \notin paid => s[p].item = r[p].item /\ s[p].price = r[p].price
    PROVE  Copy(st, s, paid) = Copy(st, r, done)
<1>1. \A p \in Positions : (IF p \in paid THEN NoStall[p] ELSE [item |-> s[p].item, price |-> s[p].price])
                         = (IF p \in done THEN NoStall[p] ELSE [item |-> r[p].item, price |-> r[p].price])
  OBVIOUS
<1>2. Shown(s, paid) = Shown(r, done)
  BY <1>1 DEF Shown
<1>. QED BY <1>2 DEF Copy

-----------------------------------------------------------------------------
\* Mail that brings a copy on.

LEMMA BringsOn ==
    ASSUME NEW f, NEW g, NEW u, NEW v, NEW w, Brings(f, u, v), Brings(g, v, w)
    PROVE  Brings(f ++ g, u, w)
<1>1. f \in MailToGame /\ g \in MailToGame
  BY DEF Brings
<1>2. \A c \in Cores : (f ++ g)[c] = f[c] \o g[c]
  BY DEF ++
<1>3. ASSUME NEW c \in Cores
      PROVE  /\ f[c] \in Seq(MsgToGame) /\ g[c] \in Seq(MsgToGame) /\ f[c] \o g[c] \in Seq(MsgToGame)
             /\ Range((f ++ g)[c]) = Range(f[c]) \cup Range(g[c])
  <2>1. f[c] \in Seq(MsgToGame) /\ g[c] \in Seq(MsgToGame)
    BY <1>1 DEF MailToGame
  <2>2. Range(f[c] \o g[c]) = Range(f[c]) \cup Range(g[c]) /\ f[c] \o g[c] \in Seq(MsgToGame)
    BY <2>1, QueueCat, RangeConcat
  <2>. QED BY <1>2, <2>1, <2>2
<1>6. (f ++ g) \in MailToGame
  BY <1>3 DEF MailToGame, ++
<1>4. Host \in Cores
  BY ShopAssumption
<1>5. Shows((f ++ g)[Host], u, w)
  <2>1. Shows(f[Host], u, v) /\ Shows(g[Host], v, w) /\ f[Host] \in Seq(MsgToGame) /\ g[Host] \in Seq(MsgToGame)
    BY <1>3, <1>4 DEF Brings
  <2>2. Shows(f[Host] \o g[Host], u, w)
    BY <2>1, ShowsCat
  <2>. QED BY <1>2, <1>4, <2>2
<1>7. /\ \A c \in Cores : \A m \in Range((f ++ g)[c]) : m \in Range(f[c]) \/ m \in Range(g[c])
      /\ \A m \in Range(f[Host]) \cup Range(g[Host]) : Fits(m)
      /\ \A c \in Cores \ {Host} : \A m \in Range(f[c]) \cup Range(g[c]) : m.kind \notin Shaping
  BY <1>3 DEF Brings
<1>. QED BY <1>4, <1>5, <1>6, <1>7 DEF Brings

LEMMA BringsNothing ==
    ASSUME NEW v \in Copies, NEW K, K \cap (Steering \cup {"BuyRequest"}) = {}, NEW f \in MailOf(K)
    PROVE  Brings(f, v, v)
<1>1. f \in MailToGame /\ \A c \in Cores : f[c] \in Seq(MsgToGame) /\ f[c] \in Seq(Of(K))
  BY DEF MailOf, MailToGame
<1>2. \A c \in Cores : \A m \in Range(f[c]) : m.kind \in K
  <2>1. \A c \in Cores : Range(f[c]) \subseteq Of(K)
    BY <1>1, RangeTypes
  <2>. QED BY <2>1 DEF Of
<1>3. Host \in Cores
  BY ShopAssumption
<1>4. ASSUME NEW m, m.kind \in K
      PROVE  m.kind \notin Shaping /\ Fits(m) /\ After(m, v) = v
  <2>1. m.kind \notin Steering /\ m.kind # "BuyRequest"
    BY <1>4
  <2>. QED BY <2>1, AfterOthers DEF Fits, Beside, Steering, Shaping
<1>5. Shows(f[Host], v, v)
  BY <1>1, <1>2, <1>3, <1>4, ShowsNone
<1>. QED BY <1>1, <1>2, <1>3, <1>4, <1>5 DEF Brings

LEMMA BringsNone == ASSUME NEW v \in Copies PROVE Brings(Nothing, v, v)
<1>1. Nothing \in MailOf({}) /\ {} \cap (Steering \cup {"BuyRequest"}) = {}
  BY MailOfTypes
<1>. QED BY <1>1, BringsNothing

\* One packet, to the host or to another core.
LEMMA BringsTo ==
    ASSUME NEW c, NEW m \in MsgToGame, NEW v \in Copies,
           c = Host => Fits(m), c # Host => m.kind \notin Shaping
    PROVE  Brings(To(c, m), v, IF c = Host THEN After(m, v) ELSE v)
<1>1. To(c, m) \in MailToGame /\ \A k \in Cores : To(c, m)[k] = IF k = c THEN <<m>> ELSE <<>>
  BY ToMail DEF To
<1>2. Host \in Cores /\ Range(<<m>>) = {m} /\ Range(<<>>) = {}
  BY ShopAssumption, QueueOfOne, QueueOfNone
<1>3. Shows(<<>>, v, v)
  <2>1. <<>> \in Seq(MsgToGame)
    OBVIOUS
  <2>. QED BY <1>2, <2>1, ShowsNone
<1>4. Shows(<<m>>, v, After(m, v))
  BY ShowsOne
<1>. QED BY <1>1, <1>2, <1>3, <1>4 DEF Brings

LEMMA BringsState ==
    ASSUME NEW c, NEW sess \in Nat, NEW st \in ShopStates, NEW v \in Copies
    PROVE  /\ Brings(To(c, StateMsg(sess, st)), v, IF c = Host THEN After(StateMsg(0, st), v) ELSE v)
           /\ After(StateMsg(0, st), v) = IF ~v.up THEN v
                                          ELSE IF st = "CLOSED" THEN NoHost ELSE [v EXCEPT !.state = st]
<1> DEFINE m == StateMsg(sess, st)
           o == StateMsg(0, st)
<1>1. m \in MsgToGame /\ m.kind = "State" /\ m.state = st /\ o.kind = "State" /\ o.state = st
  <2>1. m \in Of(Dull)
    BY DullPackets
  <2>. QED BY <2>1 DEF Of, StateMsg
<1> HIDE DEF m, o
<1>2. Fits(m) /\ m.kind \notin Shaping
  BY <1>1 DEF Fits, Beside, Shaping
<1>3. After(m, v) = IF ~v.up THEN v ELSE IF st = "CLOSED" THEN NoHost ELSE [v EXCEPT !.state = st]
  BY <1>1 DEF After
<1>4. After(o, v) = IF ~v.up THEN v ELSE IF st = "CLOSED" THEN NoHost ELSE [v EXCEPT !.state = st]
  BY <1>1 DEF After
<1>5. Brings(To(c, m), v, IF c = Host THEN After(m, v) ELSE v)
  BY <1>1, <1>2, BringsTo
<1>. QED BY <1>3, <1>4, <1>5 DEF m, o

LEMMA BringsNews ==
    ASSUME owner \in Session, Host \in peers, NEW st \in ShopStates, NEW v \in Copies
    PROVE  Brings(TellState(st), v, After(StateMsg(0, st), v))
<1> DEFINE w == After(StateMsg(0, st), v)
           f == ToOwner(StateMsg(owner.sess, st))
           g == IF owner.core = Host THEN Nothing ELSE Notify(Host, StateMsg(0, st))
<1>1. owner.sess \in Nat /\ 0 \in Nat /\ w \in Copies
  <2>1. StateMsg(0, st) \in MsgToGame
    BY DullPackets DEF Of
  <2>. QED BY <2>1, AfterType DEF Session
<1>2. Brings(To(owner.core, StateMsg(owner.sess, st)), v, IF owner.core = Host THEN w ELSE v)
  BY <1>1, BringsState
<1>3. Brings(To(Host, StateMsg(0, st)), v, w)
  BY <1>1, BringsState
<1>4. /\ f = IF owner.core \in peers THEN To(owner.core, StateMsg(owner.sess, st)) ELSE Nothing
      /\ g = IF owner.core = Host THEN Nothing ELSE To(Host, StateMsg(0, st))
  BY DEF ToOwner, Notify
<1>5. TellState(st) = f ++ g
  BY DEF TellState
<1> HIDE DEF f, g, w
<1>6. Brings(f, v, IF owner.core = Host THEN w ELSE v)
  BY <1>2, <1>4, BringsNone
<1>7. Brings(g, IF owner.core = Host THEN w ELSE v, w)
  BY <1>1, <1>3, <1>4, BringsNone
<1>. QED BY <1>5, <1>6, <1>7, BringsOn DEF w

\* A notice to the owner that does not concern the host's copy.
LEMMA BringsNotice ==
    ASSUME NEW c, NEW m \in MsgToGame, m.kind \notin Steering \cup {"BuyRequest"}, NEW v \in Copies
    PROVE  Brings(To(c, m), v, v) /\ Brings(Notify(c, m), v, v)
<1>1. m \in Of({m.kind}) /\ {m.kind} \cap (Steering \cup {"BuyRequest"}) = {}
  BY DEF Of
<1>. QED BY <1>1, MailOfTypes, BringsNothing

-----------------------------------------------------------------------------
\* What the DB process does to the host's copy.

LEMMA HostFacts ==
    ASSUME TypeOK, HostInv, Host \notin crashed
    PROVE  /\ Host \in Cores /\ Host \in peers /\ StateFits /\ HostReads /\ OffersInv /\ Truth \in Copies
           /\ toGame[Host] \in Seq(MsgToGame) /\ owner \in Session /\ slot \in [Positions -> Slot]
           /\ \A p \in Paid(toDB[Host]) : p \in Reserved(slot) /\ slot[p].buyer = Host
           /\ \A m \in Range(toGame[Host]) : m.kind = "BuyRequest" =>
                m \in MsgToGame /\ m.pos \in Reserved(slot) /\ slot[m.pos].buyer = Host
           /\ state \in {"none", "CLOSED", "MODIFY"} => Reserved(slot) = {}
<1>1. Host \in Cores /\ Host \in peers
  BY ShopAssumption DEF HostInv, OffersInv, GoneIsRead
<1>2. StateFits /\ HostReads /\ OffersInv
  BY DEF HostInv
<1>3. owner \in Session /\ slot \in [Positions -> Slot] /\ state \in ShopStates /\ toGame[Host] \in Seq(MsgToGame)
  BY <1>1 DEF TypeOK, DBTypeOK, WireTypeOK
<1>4. Truth \in Copies
  BY <1>3, ShownType DEF Truth
<1>5. ASSUME NEW p \in Paid(toDB[Host])
      PROVE  p \in Reserved(slot) /\ slot[p].buyer = Host
  <2>1. PICK a \in Range(toDB[Host]) : a.kind = "Buy" /\ a.pos = p
    BY DEF Paid
  <2>2. a \in MsgToDB /\ HeldFor(Host, a)
    BY <1>1, <1>2, <2>1, PacketTypes DEF OffersInv, OffersHeld
  <2>. QED BY <2>1, <2>2, NamesItem, HeldIsReserved
<1>6. ASSUME NEW m \in Range(toGame[Host]), m.kind = "BuyRequest"
      PROVE  m \in MsgToGame /\ m.pos \in Reserved(slot) /\ slot[m.pos].buyer = Host
  <2>1. m \in MsgToGame /\ HeldFor(Host, m)
    BY <1>1, <1>2, <1>6, PacketTypes DEF OffersInv, OffersHeld
  <2>. QED BY <1>6, <2>1, NamesItem, HeldIsReserved
<1>7. state \in {"none", "CLOSED", "MODIFY"} => Reserved(slot) = {}
  BY <1>2 DEF OffersInv, AnswersInv, GoneIsEmpty, HoldsAreDistinct, StateFits
<1>. QED BY <1>1, <1>2, <1>3, <1>4, <1>5, <1>6, <1>7

LEMMA Delivered ==
    ASSUME TypeOK, HostInv, Host \notin crashed, UNCHANGED <<host, crashed>>, Delivers(Truth')
    PROVE  HostReads'
<1>1. /\ Host \in Cores /\ HostReads /\ toGame[Host] \in Seq(MsgToGame)
      /\ \A m \in Range(toGame[Host]) : m.kind = "BuyRequest" =>
                m \in MsgToGame /\ m.pos \in Reserved(slot) /\ slot[m.pos].buyer = Host
  BY HostFacts
<1>2. CASE UNCHANGED toGame /\ Truth' = Truth
  BY <1>1, <1>2 DEF HostReads
<1>3. ASSUME NEW f, Brings(f, Truth, Truth'), Post(f)
      PROVE  HostReads'
  <2>1. f \in MailToGame /\ f[Host] \in Seq(MsgToGame)
    BY <1>1, <1>3 DEF Brings, MailToGame
  <2>2. /\ toGame'[Host] = toGame[Host] \o f[Host]
        /\ \A c \in Cores : toGame'[c] = IF c \in crashed THEN <<>> ELSE toGame[c] \o f[c]
    BY <1>1, <1>3 DEF Post
  <2>3. Shows(toGame[Host] \o f[Host], host, Truth')
    <3>1. Shows(toGame[Host], host, Truth) /\ Shows(f[Host], Truth, Truth')
      BY <1>1, <1>3 DEF HostReads, Brings
    <3>. QED BY <1>1, <2>1, <3>1, ShowsCat
  <2>4. /\ Range(toGame[Host] \o f[Host]) = Range(toGame[Host]) \cup Range(f[Host])
        /\ Before(toGame[Host] \o f[Host]) =
             Before(toGame[Host]) \cup Before(f[Host]) \cup (Range(toGame[Host]) \X Range(f[Host]))
    BY <1>1, <2>1, RangeConcat, BeforeCat
  <2>5. \A b \in Before(f[Host]) : b[1] \in Range(f[Host])
    BY <2>1, BeforeIn
  <2>6. \A m \in Range(f[Host]) : Fits(m)
    BY <1>3 DEF Brings
  <2>7. \A b \in Before(toGame'[Host]) : b[1].kind = "BuyRequest" => Beside(b[1].pos, b[2])
    <3>1. ASSUME NEW b \in Range(toGame[Host]) \X Range(f[Host]), b[1].kind = "BuyRequest"
          PROVE  Beside(b[1].pos, b[2])
      BY <1>1, <2>6, <3>1 DEF Fits
    <3>2. ASSUME NEW b \in Before(f[Host])
          PROVE  b[1].kind # "BuyRequest"
      BY <2>5, <2>6 DEF Fits
    <3>. QED BY <1>1, <2>2, <2>4, <3>1, <3>2 DEF HostReads
  <2>8. \A m \in Range(toGame'[Host]) : m.kind = "Spawn" => m.state = "RECOVERY"
    BY <1>1, <2>2, <2>4, <2>6 DEF HostReads, Fits
  <2>9. ASSUME NEW c \in Cores \ {Host}, NEW m \in Range(toGame'[c])
        PROVE  m.kind \notin Shaping
    <3>1. toGame[c] \in Seq(MsgToGame) /\ f[c] \in Seq(MsgToGame)
      BY <2>1 DEF TypeOK, WireTypeOK, MailToGame
    <3>2. Range(toGame[c] \o f[c]) = Range(toGame[c]) \cup Range(f[c]) /\ Range(<<>>) = {}
      BY <3>1, RangeConcat, RangeTypes
    <3>. QED BY <1>1, <1>3, <2>2, <3>2 DEF HostReads, Brings
  <2>. QED BY <1>3, <2>2, <2>3, <2>7, <2>8, <2>9 DEF HostReads
<1>. QED BY <1>2, <1>3 DEF Delivers

\* What is paid for on the host, as the DB process reads and cores send.
LEMMA PaidRead ==
    ASSUME TypeOK, NEW c \in Cores, Process(c), c = Host => Head(toDB[c]).kind # "Buy"
    PROVE  Paid(toDB'[Host]) = Paid(toDB[Host])
<1>1. Host \in Cores
  BY ShopAssumption
<1>2. /\ Range(toDB'[Host]) \subseteq Range(toDB[Host])
      /\ Range(toDB[Host]) \subseteq Range(toDB'[Host]) \cup (IF Host = c THEN {Head(toDB[c])} ELSE {})
  BY <1>1, TakenQueue
<1>3. {a \in Range(toDB'[Host]) : a.kind = "Buy"} = {a \in Range(toDB[Host]) : a.kind = "Buy"}
  BY <1>2
<1>. QED BY <1>3, Zenon DEF Paid

LEMMA PaidSame ==
    ASSUME {a \in Range(toDB'[Host]) : a.kind = "Buy"} = {a \in Range(toDB[Host]) : a.kind = "Buy"}
    PROVE  Paid(toDB'[Host]) = Paid(toDB[Host])
BY Zenon DEF Paid

\* The shop looks as before.
LooksSame == \A p \in Positions : slot'[p].item = slot[p].item /\ slot'[p].price = slot[p].price

LEMMA KeepsTruth ==
    ASSUME UNCHANGED state, LooksSame, Paid(toDB'[Host]) = Paid(toDB[Host])
    PROVE  Truth' = Truth
BY SameShown DEF Truth, LooksSame

LEMMA FitsStill ==
    ASSUME TypeOK, StateFits, KeepsHolds \/ MakesHold, UNCHANGED state, LooksSame
    PROVE  StateFits'
<1>1. state = "CLOSED" => Reserved(slot') = {}
  BY DEF StateFits, KeepsHolds, MakesHold, Selling
<1>2. NoItems(slot') <=> NoItems(slot)
  BY DEF NoItems, Occupied, LooksSame
<1>. QED BY <1>1, <1>2 DEF StateFits

\* A step that changes nothing the host shows.
LEMMA QuietStep ==
    ASSUME TypeOK, HostInv, Host \notin crashed, KeepsHolds \/ MakesHold, UNCHANGED state,
           LooksSame, Paid(toDB'[Host]) = Paid(toDB[Host]),
           UNCHANGED toGame \/ \E f : Brings(f, Truth, Truth) /\ Post(f)
    PROVE  Delivers(Truth') /\ StateFits'
<1>1. Truth' = Truth /\ StateFits
  BY KeepsTruth DEF HostInv
<1>. QED BY <1>1, FitsStill DEF Delivers

LEMMA SameLooks == UNCHANGED slot => LooksSame
BY DEF LooksSame

LEMMA RefusalQuiet ==
    ASSUME TypeOK, HostInv, Host \notin crashed, NEW c \in Cores, Process(c), Refused,
           c = Host => Head(toDB[c]).kind # "Buy"
    PROVE  Delivers(Truth') /\ StateFits'
<1>1. KeepsHolds /\ UNCHANGED <<state, slot, toGame>>
  BY RefusedKeeps DEF Refused, dbVars, HostInv, OffersInv, AnswersInv
<1>. QED BY <1>1, SameLooks, PaidRead, QuietStep

\* A sale: the host's own customer's core has already taken the item off the copy.
LEMMA BuyShows ==
    ASSUME TypeOK, HostInv, Host \notin crashed, NEW c \in Cores, Process(c), Head(toDB[c]).kind = "Buy"
    PROVE  Delivers(Truth') /\ StateFits'
<1> DEFINE m == Head(toDB[c])
           p == m.pos
           done == Paid(toDB'[Host])
           was == Paid(toDB[Host])
           w == Copy(state, slot', done)
           sale == [kind |-> "Sale", sess |-> owner.sess, pos |-> p, price |-> m.price]
           off == [kind |-> "RemoveItem", pos |-> p]
           f == ToOwner(sale)
           g == IF c = Host THEN Nothing ELSE Notify(Host, off)
<1>1. /\ Host \in Cores /\ Host \in peers /\ StateFits /\ OffersInv /\ Truth \in Copies /\ owner \in Session
      /\ slot \in [Positions -> Slot] /\ state \in ShopStates
      /\ \A q \in was : q \in Reserved(slot) /\ slot[q].buyer = Host
      /\ state \in {"none", "CLOSED", "MODIFY"} => Reserved(slot) = {}
  BY HostFacts DEF TypeOK, DBTypeOK
<1>2. m \in MsgToDB /\ PrivateShopBuy(c, m) /\ Holds(c, m) /\ p \in Positions /\ m.price \in Nat /\ m.item # NoItem
  BY <1>1, PaymentIsCredited, TakenQueue, DBMsgFields, NamesItem DEF Credited
<1>3. p \in Reserved(slot) /\ slot[p].buyer = c
  BY <1>2, ReservedMember DEF Holds
<1>4. state \notin {"none", "CLOSED"}
  BY <1>1, <1>3
<1>5. slot' = [slot EXCEPT ![p] = EmptySlot] /\ slot' \in [Positions -> Slot]
  BY <1>1, <1>2, SlotTypes DEF PrivateShopBuy, Refused, Clear, dbVars, Holds
<1>6. /\ ~NoItems(slot') => UNCHANGED state /\ Post(f ++ g)
      /\ NoItems(slot') => state' = "CLOSED" /\ Post((f ++ g) ++ TellState("CLOSED"))
  BY <1>2 DEF PrivateShopBuy, Refused, SaleNotice, dbVars, Holds
<1>7. sale \in MsgToGame /\ off \in MsgToGame
  BY <1>1, <1>2 DEF Session, MsgToGame
<1>8. /\ \A q \in Positions \ {p} : slot'[q] = slot[q]
      /\ slot'[p].item = NoItem /\ slot'[p].price = 0 /\ NoStall[p] = [item |-> NoItem, price |-> 0]
  BY <1>1, <1>2, <1>5, CopyFields DEF EmptySlot, FreshSlot
<1>9. /\ Truth = [up |-> TRUE, state |-> state, items |-> Shown(slot, was)]
      /\ w = [up |-> TRUE, state |-> state, items |-> Shown(slot', done)]
      /\ w \in Copies /\ w.up
  BY <1>1, <1>4, <1>5, CopyIs DEF Truth
<1>10. Brings(f, Truth, Truth)
  BY <1>1, <1>7, BringsNotice, BringsNone DEF ToOwner, Notify, Steering
<1>11. Brings(g, Truth, w)
  <2>1. CASE c = Host
    <3>1. \A q \in Positions \ {p} : q \in done <=> q \in was
      <4>1. /\ Range(toDB'[Host]) \subseteq Range(toDB[Host])
            /\ Range(toDB[Host]) \subseteq Range(toDB'[Host]) \cup {m}
        BY <1>1, <2>1, TakenQueue
      <4>2. done = {a.pos : a \in {b \in Range(toDB'[Host]) : b.kind = "Buy"}}
            /\ was = {a.pos : a \in {b \in Range(toDB[Host]) : b.kind = "Buy"}}
        BY DEF Paid
      <4> HIDE DEF m, done, was
      <4>. QED BY <4>1, <4>2 DEF m
    <3>2. p \in was
      <4>1. m \in Range(toDB[Host]) /\ m.kind = "Buy"
        BY <1>1, <2>1, TakenQueue
      <4> HIDE DEF m
      <4>. QED BY <4>1 DEF Paid
    <3>3. Shown(slot', done) = Shown(slot, was)
      <4> HIDE DEF done, was, p
      <4>. QED BY <1>8, <3>1, <3>2 DEF Shown
    <3>. QED BY <1>1, <1>9, <2>1, <3>3, BringsNone
  <2>2. CASE c # Host
    <3>1. done = was /\ p \notin was
      BY <1>1, <1>3, <2>2, PaidRead
    <3>2. Shown(slot', done) = [Shown(slot, was) EXCEPT ![p] = NoStall[p]]
      <4> HIDE DEF done, was, p
      <4>. QED BY <1>8, <3>1 DEF Shown
    <3>3. After(off, Truth) = w
      <4>1. After(off, Truth) = Without(Truth, p)
        BY <1>9 DEF After
      <4>2. Without(Truth, p) = [up |-> TRUE, state |-> state, items |-> [Shown(slot, was) EXCEPT ![p] = NoStall[p]]]
        <5>1. Without(Truth, p) = [up |-> Truth.up, state |-> Truth.state, items |-> [Truth.items EXCEPT ![p] = NoStall[p]]]
          BY <1>1, <1>2, WithoutIs
        <5>2. Truth.up = TRUE /\ Truth.state = state /\ Truth.items = Shown(slot, was)
          BY <1>9
        <5>. QED BY <5>1, <5>2
      <4>. QED BY <1>9, <3>2, <4>1, <4>2
    <3>4. Fits(off)
      BY <1>3, <2>2 DEF Fits, Beside
    <3>. QED BY <1>1, <1>7, <2>2, <3>3, <3>4, BringsTo DEF Notify
  <2>. QED BY <2>1, <2>2
<1>12. CASE ~NoItems(slot')
  <2>1. Truth' = w
    BY <1>6, <1>12 DEF Truth
  <2>2. Brings(f ++ g, Truth, w)
    BY <1>10, <1>11, BringsOn
  <2>3. StateFits'
    BY <1>1, <1>4, <1>6, <1>12 DEF StateFits
  <2>. QED BY <1>6, <1>12, <2>1, <2>2, <2>3 DEF Delivers
<1>13. CASE NoItems(slot')
  <2>1. Truth' = NoHost
    BY <1>6, <1>13 DEF Truth, Copy
  <2>2. Brings(TellState("CLOSED"), w, NoHost)
    <3>1. Brings(TellState("CLOSED"), w, After(StateMsg(0, "CLOSED"), w)) /\ "CLOSED" \in ShopStates
      BY <1>1, <1>9, BringsNews DEF ShopStates
    <3>2. After(StateMsg(0, "CLOSED"), w) = NoHost
      BY <1>9, <3>1, BringsState
    <3>. QED BY <3>1, <3>2
  <2> HIDE DEF f, g, w
  <2>3. Brings((f ++ g) ++ TellState("CLOSED"), Truth, NoHost)
    BY <1>10, <1>11, <2>2, BringsOn
  <2>4. Reserved(slot') = {}
    BY <1>13 DEF Reserved, NoItems
  <2>5. StateFits'
    BY <1>6, <1>13, <2>4 DEF StateFits
  <2>. QED BY <1>6, <1>13, <2>1, <2>3, <2>5 DEF Delivers
<1>. QED BY <1>12, <1>13

-----------------------------------------------------------------------------
\* The owner's edits: the echo goes to the host, and behind every offer.

LEMMA EchoBrings ==
    ASSUME NEW c, NEW m \in MsgToGame, NEW n \in MsgToGame, NEW v \in Copies, NEW w,
           Fits(m), Fits(n), m.kind \notin Shaping, After(m, v) = w, After(n, v) = w
    PROVE  Brings(To(c, m) ++ (IF c = Host THEN Nothing ELSE To(Host, n)), v, w)
<1>1. w \in Copies
  BY AfterType
<1>2. Brings(To(c, m), v, IF c = Host THEN w ELSE v) /\ Brings(To(Host, n), v, w) /\ Brings(Nothing, w, w)
  BY <1>1, BringsTo, BringsNone
<1>3. Brings(IF c = Host THEN Nothing ELSE To(Host, n), IF c = Host THEN w ELSE v, w)
  BY <1>2
<1>. QED BY <1>2, <1>3, BringsOn

LEMMA ModifyShows ==
    ASSUME TypeOK, HostInv, Host \notin crashed, NEW c \in Cores, Process(c),
           PrivateShopModifyRequest(c, Head(toDB[c]))
    PROVE  Delivers(Truth') /\ StateFits'
<1> DEFINE m == Head(toDB[c])
           next == CASE state = "OPEN" -> "MODIFY" [] state = "MODIFY" -> "OPEN" [] OTHER -> state
           was == Paid(toDB[Host])
<1>1. /\ Host \in Cores /\ StateFits /\ Truth \in Copies /\ slot \in [Positions -> Slot] /\ state \in ShopStates
  BY HostFacts DEF TypeOK, DBTypeOK
<1>2. m \in MsgToDB /\ m.kind = "Modify" /\ m.sess \in Nat
  BY TakenQueue, DBMsgFields DEF PrivateShopModifyRequest
<1>3. Paid(toDB'[Host]) = was
  BY <1>2, PaidRead
<1>4. CASE Refused
  BY <1>2, <1>4, RefusalQuiet
<1>5. CASE ~Refused
  <2>1. /\ MayModify /\ state' = next /\ UNCHANGED slot
        /\ Post(To(c, StateMsg(m.sess, next)) ++ (IF c = Host THEN Nothing ELSE To(Host, StateMsg(0, next))))
    BY <1>5 DEF PrivateShopModifyRequest
  <2>2. state \in {"OPEN", "MODIFY"} /\ next \in {"OPEN", "MODIFY"}
    BY <1>1, <2>1 DEF MayModify, StateFits, ShopStates
  <2> HIDE DEF m, next, was
  <2>3. next \in ShopStates \ {"none", "CLOSED"} /\ state \in ShopStates \ {"none", "CLOSED"} /\ 0 \in Nat
    BY <2>2 DEF ShopStates
  <2>4. /\ Truth = [up |-> TRUE, state |-> state, items |-> Shown(slot, was)]
        /\ Truth' = [up |-> TRUE, state |-> next, items |-> Shown(slot, was)]
        /\ Truth' \in Copies
    BY <1>1, <1>3, <2>1, <2>3, CopyIs DEF Truth, was
  <2>5. \A sess \in Nat : /\ StateMsg(sess, next) \in MsgToGame /\ StateMsg(sess, next).kind = "State"
                          /\ StateMsg(sess, next).state = next
    BY <2>3, DullPackets DEF Of, StateMsg
  <2>6. \A sess \in Nat : After(StateMsg(sess, next), Truth) = Truth'
    <3>1. next # "CLOSED" /\ Truth.up
      BY <2>2, <2>4
    <3>2. [Truth EXCEPT !.state = next] = [up |-> Truth.up, state |-> next, items |-> Truth.items]
      BY <1>1, <2>3, StateSet
    <3>3. [Truth EXCEPT !.state = next] = Truth'
      BY <2>4, <3>2
    <3>. QED BY <2>5, <3>1, <3>3 DEF After
  <2>7. \A sess \in Nat : Fits(StateMsg(sess, next)) /\ StateMsg(sess, next).kind \notin Shaping
    BY <2>5 DEF Fits, Beside, Shaping
  <2>8. Brings(To(c, StateMsg(m.sess, next)) ++ (IF c = Host THEN Nothing ELSE To(Host, StateMsg(0, next))), Truth, Truth')
    <3>1. 0 \in Nat /\ m.sess \in Nat
      BY <1>2 DEF m
    <3>. QED BY <1>1, <2>5, <2>6, <2>7, <3>1, EchoBrings
  <2>9. StateFits'
    BY <1>1, <2>1, <2>2 DEF StateFits
  <2>. QED BY <2>1, <2>8, <2>9 DEF Delivers
<1>. QED BY <1>4, <1>5

\* What the shop is while it is edited.
LEMMA WhileEdited ==
    ASSUME TypeOK, HostInv, Host \notin crashed, state = "MODIFY", UNCHANGED state,
           NEW c \in Cores, Process(c), Head(toDB[c]).kind # "Buy", slot' \in [Positions -> Slot],
           ~NoItems(slot')
    PROVE  /\ Truth = [up |-> TRUE, state |-> state, items |-> Shown(slot, {})] /\ Truth.up
           /\ Truth.items = Shown(slot, {}) /\ Truth.items \in StallType
           /\ Truth' = [up |-> TRUE, state |-> state, items |-> Shown(slot', {})]
           /\ StateFits'
           /\ \A m : m.kind \in {"Price", "Move"} => Fits(m)
           /\ \A p \in Positions : /\ Shown(slot, {})[p] = [item |-> slot[p].item, price |-> slot[p].price]
                                   /\ Shown(slot', {})[p] = [item |-> slot'[p].item, price |-> slot'[p].price]
           /\ Shown(slot', {}) \in StallType
<1>1. /\ Reserved(slot) = {} /\ Host \in Cores /\ StateFits /\ slot \in [Positions -> Slot]
      /\ \A p \in Paid(toDB[Host]) : p \in Reserved(slot)
  BY HostFacts
<1>2. Paid(toDB[Host]) = {} /\ Paid(toDB'[Host]) = {}
  BY <1>1, PaidRead
<1>3. state \in ShopStates \ {"none", "CLOSED"}
  BY DEF ShopStates
<1>4. /\ Truth = [up |-> TRUE, state |-> state, items |-> Shown(slot, {})] /\ Truth.up
      /\ Truth' = [up |-> TRUE, state |-> state, items |-> Shown(slot', {})]
  BY <1>1, <1>2, <1>3, CopyIs DEF Truth
<1>5. /\ Shown(slot, {}) \in StallType /\ Shown(slot', {}) \in StallType
      /\ \A p \in Positions : /\ Shown(slot, {})[p] = [item |-> slot[p].item, price |-> slot[p].price]
                              /\ Shown(slot', {})[p] = [item |-> slot'[p].item, price |-> slot'[p].price]
  <2>1. \A p \in Positions : p \notin {}
    OBVIOUS
  <2>. QED BY <1>1, <1>3, <2>1, ShownType
<1>6. StateFits'
  BY DEF StateFits
<1>7. \A m : m.kind \in {"Price", "Move"} => Fits(m)
  BY <1>1 DEF Fits
<1>. QED BY <1>4, <1>5, <1>6, <1>7

LEMMA PriceShows ==
    ASSUME TypeOK, HostInv, Host \notin crashed, NEW c \in Cores, Process(c),
           PrivateShopItemPriceChangeRequest(c, Head(toDB[c]))
    PROVE  Delivers(Truth') /\ StateFits'
<1> DEFINE m == Head(toDB[c])
           n == [m EXCEPT !.sess = 0]
           p == m.pos
<1>1. /\ m \in MsgToDB /\ m.kind = "Price" /\ m \in MsgToGame /\ n \in MsgToGame
      /\ p \in Positions /\ m.price \in Nat /\ n.kind = "Price" /\ n.pos = p /\ n.price = m.price
  <2>1. m \in MsgToDB /\ m.kind = "Price"
    BY TakenQueue DEF PrivateShopItemPriceChangeRequest
  <2>2. m \in [kind : {"Price"}, sess : Nat, pos : Positions, price : Nat]
    BY <2>1 DEF MsgToDB
  <2>3. n \in [kind : {"Price"}, sess : Nat, pos : Positions, price : Nat] /\ n.pos = p /\ n.price = m.price
    BY <2>2
  <2>. QED BY <2>1, <2>2, <2>3 DEF MsgToGame
<1>2. CASE Refused
  BY <1>1, <1>2, RefusalQuiet
<1>3. CASE ~Refused
  <2>1. /\ state = "MODIFY" /\ slot[p].item # NoItem /\ slot' = [slot EXCEPT ![p].price = m.price] /\ Echo(c, m)
        /\ UNCHANGED state
    BY <1>3 DEF PrivateShopItemPriceChangeRequest, Editable
  <2>2. slot \in [Positions -> Slot] /\ slot' \in [Positions -> Slot]
    BY <1>1, <2>1 DEF TypeOK, DBTypeOK, Slot
  <2>3. /\ slot'[p].item = slot[p].item /\ slot'[p].price = m.price
        /\ \A q \in Positions \ {p} : slot'[q] = slot[q]
    BY <1>1, <2>1, <2>2 DEF Slot
  <2>4. ~NoItems(slot')
    BY <1>1, <2>1, <2>3 DEF NoItems, Occupied
  <2> DEFINE was == Shown(slot, {})
             now == Shown(slot', {})
  <2>5. /\ Truth = [up |-> TRUE, state |-> state, items |-> was] /\ Truth.up /\ Truth.items = was
        /\ Truth' = [up |-> TRUE, state |-> state, items |-> now] /\ StateFits' /\ Fits(m) /\ Fits(n)
        /\ was \in StallType /\ now \in StallType
        /\ \A q \in Positions : /\ was[q] = [item |-> slot[q].item, price |-> slot[q].price]
                                /\ now[q] = [item |-> slot'[q].item, price |-> slot'[q].price]
    <3>1. Head(toDB[c]).kind # "Buy" /\ state = "MODIFY" /\ UNCHANGED state
      BY <1>1, <2>1
    <3>2. \A a : a.kind \in {"Price", "Move"} => Fits(a)
      BY <2>2, <2>4, <3>1, WhileEdited
    <3>3. Fits(m) /\ Fits(n)
      <4> HIDE DEF m, n, p
      <4>. QED BY <1>1, <3>2
    <3>4. /\ Truth = [up |-> TRUE, state |-> state, items |-> was] /\ Truth.up /\ Truth.items = was
          /\ Truth' = [up |-> TRUE, state |-> state, items |-> now] /\ StateFits'
      BY <2>2, <2>4, <3>1, WhileEdited
    <3>5. /\ was \in StallType /\ now \in StallType
          /\ \A q \in Positions : /\ was[q] = [item |-> slot[q].item, price |-> slot[q].price]
                                  /\ now[q] = [item |-> slot'[q].item, price |-> slot'[q].price]
      BY <2>2, <2>4, <3>1, WhileEdited
    <3> HIDE DEF m, n, p, was, now
    <3>. QED BY <3>3, <3>4, <3>5
  <2> HIDE DEF was, now, m, n, p
  <2>13. /\ was[p] = [item |-> slot[p].item, price |-> slot[p].price]
         /\ now[p] = [item |-> slot[p].item, price |-> m.price]
         /\ \A q \in Positions \ {p} : now[q] = was[q]
    <3>1. \A q \in Positions : /\ was[q] = [item |-> slot[q].item, price |-> slot[q].price]
                              /\ now[q] = [item |-> slot'[q].item, price |-> slot'[q].price]
      BY <2>5
    <3>2. p \in Positions
      BY <1>1
    <3>. QED BY <2>3, <3>1, <3>2
  <2>6. now = [was EXCEPT ![p].price = m.price]
    <3>1. [was[p] EXCEPT !.price = m.price] = now[p]
      <4>1. was[p] \in [item : Items \cup {NoItem}, price : Nat] /\ now[p] \in [item : Items \cup {NoItem}, price : Nat]
        BY <1>1, <2>5 DEF StallType
      <4>2. now[p].item = was[p].item /\ now[p].price = m.price
        BY <2>13
      <4>. QED BY <4>1, <4>2
    <3>. QED BY <1>1, <2>5, <2>13, <3>1 DEF StallType
  <2>7. [Truth EXCEPT !.items[p].price = m.price] = Truth'
    <3>1. Truth \in [up : BOOLEAN, state : ShopStates, items : StallType]
      BY HostFacts, CopyFields DEF HostType
    <3>2. [Truth EXCEPT !.items[p].price = m.price]
            = [up |-> Truth.up, state |-> Truth.state, items |-> [Truth.items EXCEPT ![p].price = m.price]]
      BY <3>1
    <3>3. Truth.up = TRUE /\ Truth.state = state /\ Truth.items = was
      BY <2>5
    <3>. QED BY <2>5, <2>6, <3>2, <3>3
  <2>8. was[p].item # NoItem
    <3>1. slot[p].item # NoItem
      BY <2>1 DEF p, m
    <3>. QED BY <2>13, <3>1
  <2>9. \A a \in MsgToGame : a.kind = "Price" /\ a.pos = p /\ a.price = m.price => After(a, Truth) = Truth'
    BY <2>5, <2>7, <2>8 DEF After
  <2>10. After(m, Truth) = Truth' /\ After(n, Truth) = Truth'
    BY <1>1, <2>9 DEF p
  <2>11. Brings(To(c, m) ++ (IF c = Host THEN Nothing ELSE To(Host, n)), Truth, Truth')
    BY <1>1, <2>5, <2>10, HostFacts, EchoBrings DEF Shaping
  <2>12. Post(To(c, m) ++ (IF c = Host THEN Nothing ELSE To(Host, n)))
    BY <2>1 DEF Echo, n
  <2>. QED BY <2>5, <2>11, <2>12 DEF Delivers
<1>. QED BY <1>2, <1>3

LEMMA MoveShows ==
    ASSUME TypeOK, HostInv, Host \notin crashed, NEW c \in Cores, Process(c),
           PrivateShopItemMoveRequest(c, Head(toDB[c]))
    PROVE  Delivers(Truth') /\ StateFits'
<1> DEFINE m == Head(toDB[c])
           n == [m EXCEPT !.sess = 0]
           p == m.pos
           d == m.dst
<1>1. /\ m \in MsgToDB /\ m.kind = "Move" /\ m \in MsgToGame /\ n \in MsgToGame
      /\ p \in Positions /\ d \in Positions /\ n.kind = "Move" /\ n.pos = p /\ n.dst = d
  <2>1. m \in MsgToDB /\ m.kind = "Move"
    BY TakenQueue DEF PrivateShopItemMoveRequest
  <2>2. m \in [kind : {"Move"}, sess : Nat, pos : Positions, dst : Positions]
    BY <2>1 DEF MsgToDB
  <2>3. n \in [kind : {"Move"}, sess : Nat, pos : Positions, dst : Positions] /\ n.pos = p /\ n.dst = d
    BY <2>2
  <2>. QED BY <2>1, <2>2, <2>3 DEF MsgToGame
<1>2. CASE Refused
  BY <1>1, <1>2, RefusalQuiet
<1>3. CASE ~Refused
  <2>1. /\ state = "MODIFY" /\ slot[p].item # NoItem /\ Clear(slot, p)[d] = EmptySlot
        /\ slot' = [Clear(slot, p) EXCEPT ![d] = slot[p]] /\ Echo(c, m) /\ UNCHANGED state
    BY <1>3 DEF PrivateShopItemMoveRequest, Editable
  <2>2. slot \in [Positions -> Slot] /\ Clear(slot, p) \in [Positions -> Slot] /\ slot' \in [Positions -> Slot]
    BY <1>1, <2>1, SlotTypes DEF TypeOK, DBTypeOK
  <2>3. /\ slot'[d] = slot[p] /\ (p # d => slot'[p] = EmptySlot)
        /\ \A q \in Positions \ {p, d} : slot'[q] = slot[q]
        /\ p # d => slot[d] = EmptySlot
    BY <1>1, <2>1, <2>2 DEF Clear
  <2>4. ~NoItems(slot')
    <3>1. d \in Positions /\ slot'[d].item # NoItem
      BY <1>1, <2>1, <2>3
    <3>. QED BY <3>1 DEF NoItems, Occupied
  <2>5. EmptySlot.item = NoItem /\ EmptySlot.price = 0
    BY DEF EmptySlot, FreshSlot
  <2> DEFINE was == Shown(slot, {})
             now == Shown(slot', {})
  <2>6. Head(toDB[c]).kind # "Buy" /\ state = "MODIFY" /\ UNCHANGED state
    BY <1>1, <2>1
  <2>7. /\ Truth = [up |-> TRUE, state |-> state, items |-> was] /\ Truth.up /\ Truth.items = was
        /\ Truth' = [up |-> TRUE, state |-> state, items |-> now] /\ StateFits'
    BY <2>2, <2>4, <2>6, WhileEdited
  <2>8. /\ was \in StallType /\ now \in StallType
        /\ \A q \in Positions : /\ was[q] = [item |-> slot[q].item, price |-> slot[q].price]
                                /\ now[q] = [item |-> slot'[q].item, price |-> slot'[q].price]
    BY <2>2, <2>4, <2>6, WhileEdited
  <2>9. \A a : a.kind \in {"Price", "Move"} => Fits(a)
    BY <2>2, <2>4, <2>6, WhileEdited
  <2> HIDE DEF was, now, m, n, p, d
  <2>10. Fits(m) /\ Fits(n)
    BY <1>1, <2>9
  <2>11. was[p].item # NoItem
    <3>1. was[p] = [item |-> slot[p].item, price |-> slot[p].price]
      BY <1>1, <2>8
    <3>. QED BY <2>1, <3>1
  <2>12. \A a \in MsgToGame : a.kind = "Move" /\ a.pos = p /\ a.dst = d => After(a, Truth) = Truth'
    <3> SUFFICES ASSUME NEW a \in MsgToGame, a.kind = "Move", a.pos = p, a.dst = d
                 PROVE  After(a, Truth) = Truth'
      OBVIOUS
    <3>1. CASE p = d
      <4>1. After(a, Truth) = Truth
        BY <2>7, <2>11, <3>1 DEF After
      <4>2. \A q \in Positions : now[q] = was[q]
        <5>1. \A q \in Positions : slot'[q] = slot[q]
          BY <2>3, <3>1
        <5>. QED BY <2>8, <5>1
      <4>3. now = was
        BY <2>8, <4>2 DEF StallType
      <4>. QED BY <2>7, <4>1, <4>3
    <3>2. CASE p # d
      <4>1. was[d].item = NoItem
        <5>1. was[d] = [item |-> slot[d].item, price |-> slot[d].price]
          BY <1>1, <2>8
        <5>. QED BY <2>3, <2>5, <3>2, <5>1
      <4>2. After(a, Truth) = [Truth EXCEPT !.items[d] = was[p], !.items[p] = NoStall[p]]
        BY <2>7, <2>11, <3>2, <4>1 DEF After
      <4>3. [Truth EXCEPT !.items[d] = was[p], !.items[p] = NoStall[p]]
              = [up |-> Truth.up, state |-> Truth.state,
                 items |-> [Truth.items EXCEPT ![d] = was[p], ![p] = NoStall[p]]]
        <5>1. Truth \in [up : BOOLEAN, state : ShopStates, items : StallType]
          BY HostFacts, CopyFields DEF HostType
        <5> DEFINE w == [Truth EXCEPT !.items[d] = was[p]]
        <5>2. w = [up |-> Truth.up, state |-> Truth.state, items |-> [Truth.items EXCEPT ![d] = was[p]]]
          BY <5>1
        <5>3. Truth.items \in StallType /\ [Truth.items EXCEPT ![d] = was[p]] \in StallType
          BY <1>1, <2>7, <2>8 DEF StallType
        <5>4. w \in [up : BOOLEAN, state : ShopStates, items : StallType] /\ w.up = Truth.up
              /\ w.state = Truth.state /\ w.items = [Truth.items EXCEPT ![d] = was[p]]
          BY <5>1, <5>2, <5>3
        <5> HIDE DEF w
        <5>5. [w EXCEPT !.items[p] = NoStall[p]]
                = [up |-> w.up, state |-> w.state, items |-> [w.items EXCEPT ![p] = NoStall[p]]]
          BY <5>4
        <5>. QED BY <5>4, <5>5 DEF w
      <4>4. /\ now[d] = was[p] /\ now[p] = NoStall[p] /\ \A q \in Positions \ {p, d} : now[q] = was[q]
        <5>1. /\ was[p] = [item |-> slot[p].item, price |-> slot[p].price]
              /\ now[d] = [item |-> slot'[d].item, price |-> slot'[d].price]
              /\ now[p] = [item |-> slot'[p].item, price |-> slot'[p].price]
          BY <1>1, <2>8
        <5>2. slot'[p] = EmptySlot /\ slot'[d] = slot[p]
          BY <2>3, <3>2
        <5>3. NoStall[p] = [item |-> NoItem, price |-> 0]
          BY <1>1, CopyFields
        <5>4. now[d] = was[p] /\ now[p] = NoStall[p]
          BY <2>5, <5>1, <5>2, <5>3
        <5>5. \A q \in Positions \ {p, d} : now[q] = was[q]
          <6>1. \A q \in Positions : /\ was[q] = [item |-> slot[q].item, price |-> slot[q].price]
                                    /\ now[q] = [item |-> slot'[q].item, price |-> slot'[q].price]
            BY <2>8
          <6> TAKE q \in Positions \ {p, d}
          <6>2. slot'[q] = slot[q]
            BY <2>3
          <6>. QED BY <6>1, <6>2
        <5>. QED BY <5>4, <5>5
      <4>5. [was EXCEPT ![d] = was[p], ![p] = NoStall[p]] = now
        BY <1>1, <2>8, <3>2, <4>4 DEF StallType
      <4>6. Truth.up = TRUE /\ Truth.state = state /\ Truth.items = was
        BY <2>7
      <4>. QED BY <2>7, <4>2, <4>3, <4>5, <4>6
    <3>. QED BY <3>1, <3>2
  <2>13. After(m, Truth) = Truth' /\ After(n, Truth) = Truth'
    BY <1>1, <2>12 DEF p, d
  <2>14. Brings(To(c, m) ++ (IF c = Host THEN Nothing ELSE To(Host, n)), Truth, Truth')
    BY <1>1, <2>10, <2>13, HostFacts, EchoBrings DEF Shaping
  <2>15. Post(To(c, m) ++ (IF c = Host THEN Nothing ELSE To(Host, n)))
    BY <2>1 DEF Echo, n
  <2>. QED BY <2>7, <2>14, <2>15 DEF Delivers
<1>. QED BY <1>2, <1>3

LEMMA DepositShows ==
    ASSUME TypeOK, HostInv, Host \notin crashed, NEW c \in Cores, Process(c),
           PrivateShopItemCheckinUpdate(c, Head(toDB[c]))
    PROVE  Delivers(Truth') /\ StateFits'
<1> DEFINE m == Head(toDB[c])
           p == m.pos
           e == [item |-> m.item, price |-> m.price]
           add == [kind |-> "AddItem", pos |-> p, item |-> m.item, price |-> m.price]
           paid == Paid(toDB[Host])
           was == Shown(slot, paid)
           now == Shown(slot', paid)
<1>1. /\ m.kind = "CheckinUpdate" /\ p \in Positions /\ m.item \in Items /\ m.price \in Nat
      /\ add \in MsgToGame /\ add.kind = "AddItem" /\ add.pos = p /\ add.item = m.item /\ add.price = m.price
  <2>1. m \in MsgToDB /\ m.kind = "CheckinUpdate"
    BY TakenQueue DEF PrivateShopItemCheckinUpdate
  <2>2. p \in Positions /\ m.item \in Items /\ m.price \in Nat
    BY <2>1 DEF MsgToDB
  <2>. QED BY <2>1, <2>2 DEF MsgToGame
<1>2. CASE Refused
  BY <1>1, <1>2, RefusalQuiet
<1>3. CASE ~Refused
  <2>1. /\ Exists /\ slot[p].item = NoItem /\ slot' = [slot EXCEPT ![p] = FreshSlot(m.item, m.price)]
        /\ Post(Notify(Host, add)) /\ UNCHANGED state
    BY <1>3 DEF PrivateShopItemCheckinUpdate
  <2>2. /\ Host \in Cores /\ Host \in peers /\ StateFits /\ Truth \in Copies
        /\ slot \in [Positions -> Slot] /\ state \in ShopStates /\ \A q \in paid : q \in Reserved(slot)
    BY HostFacts DEF TypeOK, DBTypeOK
  <2>3. slot' \in [Positions -> Slot] /\ FreshSlot(m.item, m.price).item = m.item /\ FreshSlot(m.item, m.price).price = m.price
    BY <1>1, <2>1, <2>2, SlotTypes DEF FreshSlot
  <2>4. Post(To(Host, add))
    BY <2>1, <2>2 DEF Notify
  <2>5. Paid(toDB'[Host]) = paid
    BY <1>1, PaidRead
  <2>6. p \notin paid /\ Fits(add)
    BY <1>1, <2>1, <2>2, ReservedMember DEF Fits, Beside
  <2>7. Brings(To(Host, add), Truth, After(add, Truth))
    <3> HIDE DEF add
    <3>. QED BY <1>1, <2>2, <2>6, BringsTo
  <2>8. CASE state = "CLOSED"
    <3>1. Truth = NoHost /\ Truth' = NoHost
      BY <2>1, <2>8 DEF Truth, Copy
    <3>2. After(add, Truth) = Truth
      BY <1>1, <3>1, CopyFields DEF After
    <3>3. Reserved(slot') \subseteq Reserved(slot)
      BY <2>8, ProcessHolds DEF HostInv, OffersInv, AnswersInv, KeepsHolds, MakesHold, Selling
    <3>4. StateFits'
      BY <2>1, <2>2, <2>8, <3>3 DEF StateFits
    <3>. QED BY <2>4, <2>7, <3>1, <3>2, <3>4 DEF Delivers
  <2>9. CASE state # "CLOSED"
    <3>1. state \in ShopStates \ {"none", "CLOSED"}
      BY <2>1, <2>2, <2>9 DEF Exists
    <3>2. /\ Truth = [up |-> TRUE, state |-> state, items |-> was] /\ Truth.up
          /\ Truth' = [up |-> TRUE, state |-> state, items |-> now]
      <4>1. Truth' = Copy(state, slot', paid)
        BY <2>1, <2>5 DEF Truth
      <4>2. /\ Copy(state, slot, paid) = [up |-> TRUE, state |-> state, items |-> was] /\ Copy(state, slot, paid).up
            /\ Copy(state, slot', paid) = [up |-> TRUE, state |-> state, items |-> now]
        <5> HIDE DEF paid
        <5>. QED BY <2>2, <2>3, <3>1, CopyIs
      <4>. QED BY <4>1, <4>2 DEF Truth
    <3>3. /\ was \in StallType /\ now \in StallType
          /\ \A q \in Positions : was[q] = IF q \in paid THEN NoStall[q] ELSE [item |-> slot[q].item, price |-> slot[q].price]
          /\ \A q \in Positions : now[q] = IF q \in paid THEN NoStall[q] ELSE [item |-> slot'[q].item, price |-> slot'[q].price]
      BY <2>2, <2>3, <3>1, ShownType
    <3>4. slot'[p] = FreshSlot(m.item, m.price) /\ \A q \in Positions \ {p} : slot'[q] = slot[q]
      BY <1>1, <2>1, <2>2
    <3> HIDE DEF add, paid, was, now, m, p, e
    <3>5. was[p].item = NoItem
      <4>1. was[p] = [item |-> slot[p].item, price |-> slot[p].price]
        BY <1>1, <2>6, <3>3
      <4>. QED BY <2>1, <4>1
    <3>6. now[p] = e
      <4>1. now[p] = [item |-> slot'[p].item, price |-> slot'[p].price]
        BY <1>1, <2>6, <3>3
      <4>. QED BY <2>3, <3>4, <4>1 DEF e
    <3>7. \A q \in Positions \ {p} : now[q] = was[q]
      <4> TAKE q \in Positions \ {p}
      <4>1. slot'[q] = slot[q]
        BY <3>4
      <4>. QED BY <3>3, <4>1
    <3>8. now = [was EXCEPT ![p] = e]
      BY <1>1, <3>3, <3>6, <3>7 DEF StallType
    <3>9. After(add, Truth) = [Truth EXCEPT !.items[p] = e]
      <4>1. Truth.items[p].item = NoItem
        BY <3>2, <3>5
      <4>. QED BY <1>1, <3>2, <4>1 DEF After, e
    <3>10. [Truth EXCEPT !.items[p] = e] = Truth'
      <4>1. Truth \in [up : BOOLEAN, state : ShopStates, items : StallType]
        BY <2>2, CopyFields DEF HostType
      <4>2. [Truth EXCEPT !.items[p] = e] = [up |-> Truth.up, state |-> Truth.state, items |-> [Truth.items EXCEPT ![p] = e]]
        BY <4>1
      <4>3. Truth.up = TRUE /\ Truth.state = state /\ Truth.items = was
        BY <3>2
      <4>. QED BY <3>2, <3>8, <4>2, <4>3
    <3>11. StateFits'
      <4>1. ~NoItems(slot')
        <5>1. slot'[p].item # NoItem
          BY <1>1, <2>3, <3>4, ShopAssumption
        <5>. QED BY <1>1, <5>1 DEF NoItems, Occupied
      <4>. QED BY <2>1, <2>2, <2>9, <4>1 DEF StateFits
    <3>. QED BY <2>4, <2>7, <3>9, <3>10, <3>11 DEF Delivers
  <2>. QED BY <2>8, <2>9
<1>. QED BY <1>2, <1>3

-----------------------------------------------------------------------------
\* Offers, and the packets that leave the host's copy alone.

LEMMA OfferShows ==
    ASSUME TypeOK, HostInv, Host \notin crashed, UNCHANGED <<host, crashed>>, NEW c \in Cores, Offered(c)
    PROVE  HostReads' /\ StateFits'
<1> DEFINE m == Head(toDB[c])
           o == Offer(m)
<1>1. /\ Process(c) /\ m \in MsgToDB /\ PrivateShopBuyRequest(c, m) /\ Sellable(m) /\ m.kind = "BuyRequest"
  BY TakenQueue DEF Offered, PrivateShopBuyRequest
<1>2. /\ m.pos \in Positions /\ MakesHold /\ o \in MsgToGame /\ Post(To(c, o)) /\ UNCHANGED state
      /\ slot'[m.pos].item = slot[m.pos].item /\ slot'[m.pos].price = slot[m.pos].price
      /\ \A q \in Positions \ {m.pos} : slot'[q] = slot[q]
  BY <1>1, Accepted DEF MakesHold
<1>3. LooksSame
  BY <1>2 DEF LooksSame
<1>4. o.kind = "BuyRequest"
  BY DEF Offer
<1>5. Host \in Cores /\ StateFits /\ HostReads /\ SessionsInv /\ Truth \in Copies /\ toGame[Host] \in Seq(MsgToGame)
  BY HostFacts DEF OffersInv
<1>6. StateFits' /\ Truth' = Truth
  BY <1>1, <1>2, <1>3, <1>5, FitsStill, PaidRead, KeepsTruth
<1>7. \A k \in Cores : /\ \A a \in Range(toGame'[k]) : a \in Range(toGame[k]) \/ a = o
                       /\ \A b \in Before(toGame'[k]) : b \in Before(toGame[k]) \/ b[2] = o
  BY <1>5, OfferIsNew
<1> HIDE DEF o
<1>8. Shows(toGame'[Host], host, Truth)
  <2>1. toGame'[Host] = toGame[Host] \o To(c, o)[Host]
    BY <1>2, <1>5 DEF Post
  <2>2. To(c, o)[Host] = IF Host = c THEN <<o>> ELSE <<>>
    BY <1>5 DEF To
  <2>3. Shows(<<o>>, Truth, Truth)
    BY <1>2, <1>4, <1>5, ShowsOne, AfterOthers DEF Steering
  <2>4. Shows(<<>>, Truth, Truth) /\ <<>> \in Seq(MsgToGame) /\ <<o>> \in Seq(MsgToGame)
    <3>1. <<>> \in Seq(MsgToGame) /\ <<o>> \in Seq(MsgToGame)
      BY <1>2
    <3>. QED BY <1>5, <3>1, QueueOfNone, ShowsNone
  <2>5. Shows(To(c, o)[Host], Truth, Truth) /\ To(c, o)[Host] \in Seq(MsgToGame)
    BY <2>2, <2>3, <2>4
  <2>6. Shows(toGame[Host] \o To(c, o)[Host], host, Truth)
    BY <1>5, <2>5, ShowsCat DEF HostReads
  <2>. QED BY <2>1, <2>6
<1>9. \A a \in Range(toGame'[Host]) : a.kind = "Spawn" => a.state = "RECOVERY"
  BY <1>4, <1>5, <1>7 DEF HostReads
<1>10. \A b \in Before(toGame'[Host]) : b[1].kind = "BuyRequest" => Beside(b[1].pos, b[2])
  BY <1>4, <1>5, <1>7 DEF HostReads, Beside
<1>11. \A k \in Cores \ {Host} : \A a \in Range(toGame'[k]) : a.kind \notin Shaping
  BY <1>4, <1>5, <1>7 DEF HostReads, Shaping
<1>. QED BY <1>6, <1>8, <1>9, <1>10, <1>11 DEF HostReads

LEMMA QuietShows ==
    ASSUME TypeOK, HostInv, Host \notin crashed, NEW c \in Cores, NEW m, m = Head(toDB[c]), Process(c),
           \/ PrivateShopFailedBuy(c, m) \/ QueryItemSave(c, m) \/ PrivateShopItemCheckinRequest(c, m)
           \/ PrivateShopWithdrawRequest(c, m) \/ PrivateShopLogout(c, m) \/ AccountLogout(c, m)
    PROVE  Delivers(Truth') /\ StateFits'
<1>1. m \in MsgToDB /\ m.kind # "Buy"
  BY TakenQueue DEF PrivateShopFailedBuy, QueryItemSave, PrivateShopItemCheckinRequest,
                    PrivateShopWithdrawRequest, PrivateShopLogout, AccountLogout
<1>2. UNCHANGED state /\ LooksSame
  <2>1. CASE UNCHANGED slot
    BY <2>1, SameLooks DEF PrivateShopFailedBuy, QueryItemSave, PrivateShopItemCheckinRequest,
                    PrivateShopWithdrawRequest, PrivateShopLogout, AccountLogout, Refused, dbVars
  <2>2. CASE PrivateShopFailedBuy(c, m) /\ Answers(m)
    <3>1. m.pos \in Positions /\ slot[m.pos] \in Slot /\ slot \in [Positions -> Slot] /\ UNCHANGED state
          /\ slot' = [slot EXCEPT ![m.pos] = [@ EXCEPT !.avail = TRUE, !.due = FALSE]]
      BY <2>2, ReservedIn DEF PrivateShopFailedBuy, Answers, TypeOK, DBTypeOK
    <3>. QED
      <4>1. LooksSame
        BY <3>1 DEF LooksSame, Slot
      <4>. QED BY <3>1, <4>1
  <2>. QED BY <2>1, <2>2 DEF PrivateShopFailedBuy, QueryItemSave, PrivateShopItemCheckinRequest,
                    PrivateShopWithdrawRequest, PrivateShopLogout, AccountLogout, Refused, dbVars
<1>3. Paid(toDB'[Host]) = Paid(toDB[Host])
  BY <1>1, PaidRead
<1>4. KeepsHolds \/ MakesHold
  BY ProcessHolds DEF HostInv, OffersInv, AnswersInv
<1>5. Truth \in Copies /\ gold \in Nat
  BY HostFacts DEF TypeOK, DBTypeOK
<1>6. UNCHANGED toGame \/ \E f : Brings(f, Truth, Truth) /\ Post(f)
  <2>1. CASE PrivateShopItemCheckinRequest(c, m) /\ Free # {}
    <3> DEFINE yes == [m EXCEPT !.kind = "Checkin", !.pos = BlankFor(m.pos)]
    <3>1. BlankFor(m.pos) \in Positions
      BY <2>1, BlankForType DEF TypeOK
    <3>2. m \in [kind : {"CheckinRequest", "CheckinUpdate"}, sess : Nat, pos : Positions, item : Items, price : Nat]
      BY <1>1, <2>1 DEF PrivateShopItemCheckinRequest, MsgToDB
    <3>3. yes \in MsgToGame /\ yes.kind = "Checkin"
      BY <3>1, <3>2 DEF MsgToGame
    <3>4. UNCHANGED toGame \/ Post(To(c, yes))
      BY <2>1 DEF PrivateShopItemCheckinRequest, NoPost
    <3> HIDE DEF yes
    <3>5. Brings(To(c, yes), Truth, Truth)
      BY <1>5, <3>3, BringsNotice DEF Steering
    <3>. QED BY <3>4, <3>5
  <2>2. CASE PrivateShopWithdrawRequest(c, m)
    <3> DEFINE yes == [kind |-> "Withdraw", sess |-> m.sess, gold |-> gold]
    <3>1. yes \in MsgToGame /\ yes.kind = "Withdraw"
      BY <1>1, <1>5, <2>2, DBMsgFields DEF PrivateShopWithdrawRequest, MsgToGame
    <3>2. UNCHANGED toGame \/ Post(To(c, yes))
      BY <2>2 DEF PrivateShopWithdrawRequest, NoPost
    <3> HIDE DEF yes
    <3>3. Brings(To(c, yes), Truth, Truth)
      BY <1>5, <3>1, BringsNotice DEF Steering
    <3>. QED BY <3>2, <3>3
  <2>. QED BY <2>1, <2>2 DEF PrivateShopFailedBuy, QueryItemSave, PrivateShopItemCheckinRequest,
                    PrivateShopLogout, AccountLogout, Refused, NoPost
<1>. QED BY <1>2, <1>3, <1>4, <1>6, QuietStep

\* A withdrawal destroys a shop that no longer stands.
LEMMA WithdrawShows ==
    ASSUME TypeOK, HostInv, Host \notin crashed, NEW c \in Cores, Process(c),
           PrivateShopWithdraw(c, Head(toDB[c]))
    PROVE  Delivers(Truth') /\ StateFits'
<1> DEFINE m == Head(toDB[c])
           bye == [kind |-> "Close", sess |-> owner.sess]
<1>1. /\ m.kind = "WithdrawDone" /\ Paid(toDB'[Host]) = Paid(toDB[Host])
      /\ Truth \in Copies /\ owner \in Session /\ StateFits
  BY HostFacts, PaidRead DEF PrivateShopWithdraw
<1>2. KeepsHolds \/ MakesHold
  BY ProcessHolds DEF HostInv, OffersInv, AnswersInv
<1>3. CASE UNCHANGED <<state, slot, toGame>>
  BY <1>1, <1>2, <1>3, SameLooks, QuietStep
<1>4. CASE ~UNCHANGED <<state, slot, toGame>>
  <2>1. /\ Exists /\ NoItems(slot) /\ Vanish /\ Post(ToOwner(bye))
    BY <1>4 DEF PrivateShopWithdraw, Refused, NoPost, dbVars
  <2>2. state = "CLOSED"
    BY <1>1, <2>1 DEF StateFits, Exists
  <2>3. Truth' = Truth /\ StateFits'
    BY <2>1, <2>2 DEF Vanish, Truth, Copy, StateFits
  <2>4. bye \in MsgToGame /\ bye.kind = "Close"
    BY <1>1 DEF Session, MsgToGame
  <2> HIDE DEF bye
  <2>5. Brings(ToOwner(bye), Truth, Truth)
    BY <1>1, <2>4, BringsNotice DEF ToOwner, Steering
  <2>. QED BY <2>1, <2>3, <2>5 DEF Delivers
<1>. QED BY <1>3, <1>4

LEMMA ProcessShows ==
    ASSUME TypeOK, HostInv, Host \notin crashed, UNCHANGED <<host, crashed>>, NEW c \in Cores, Process(c)
    PROVE  StateFits' /\ HostReads'
<1> DEFINE m == Head(toDB[c])
<1>1. m \in Range(toDB[c]) /\ CloseUnasked /\ TakeUnasked
  BY TakenQueue DEF HostInv, OffersInv
<1>2. m.kind \notin {"CheckoutRequest", "CheckoutUpdate", "ItemExpire", "Close", "ItemTransfer", "Delete"}
  BY <1>1 DEF CloseUnasked, TakeUnasked
<1>3. \/ PrivateShopBuyRequest(c, m)          \/ PrivateShopBuy(c, m)
      \/ PrivateShopFailedBuy(c, m)           \/ QueryItemSave(c, m)
      \/ PrivateShopModifyRequest(c, m)       \/ PrivateShopItemPriceChangeRequest(c, m)
      \/ PrivateShopItemMoveRequest(c, m)     \/ PrivateShopItemCheckinRequest(c, m)
      \/ PrivateShopItemCheckinUpdate(c, m)   \/ PrivateShopWithdrawRequest(c, m)
      \/ PrivateShopWithdraw(c, m)            \/ PrivateShopLogout(c, m)
      \/ AccountLogout(c, m)
  BY <1>2, Zenon DEF Process, PrivateShopItemCheckoutRequest, PrivateShopItemCheckoutUpdate,
                     PrivateShopItemExpire, PrivateShopClose, PrivateShopItemTransfer, PrivateShopDelete
<1>4. CASE Offered(c)
  BY <1>4, OfferShows
<1>5. CASE ~Offered(c)
  <2>1. PrivateShopBuyRequest(c, m) => Refused /\ m.kind # "Buy"
    BY <1>5 DEF Offered, PrivateShopBuyRequest
  <2>2. PrivateShopBuy(c, m) => m.kind = "Buy"
    BY DEF PrivateShopBuy
  <2>3. Delivers(Truth') /\ StateFits'
    BY <1>3, <2>1, <2>2, RefusalQuiet, BuyShows, QuietShows, ModifyShows, PriceShows, MoveShows,
       DepositShows, WithdrawShows
  <2>. QED BY <2>3, Delivered
<1>. QED BY <1>4, <1>5

-----------------------------------------------------------------------------
\* The update, and the load of a session, with what the update does first.

LEMMA UpdateBrings ==
    ASSUME TypeOK, HostInv, Host \notin crashed
    PROVE  /\ Brings(UpdateOut, Truth, Copy(UpdatedState, UpdatedSlot, Paid(toDB[Host])))
           /\ ~Emptied /\ Copy(UpdatedState, UpdatedSlot, Paid(toDB[Host])) \in Copies
           /\ UpdatedSlot \in [Positions -> Slot] /\ UpdatedState \in ShopStates \ {"UNAVAILABLE"}
           /\ NoItems(UpdatedSlot) <=> NoItems(slot)
<1> DEFINE paid == Paid(toDB[Host])
           w == Copy(UpdatedState, UpdatedSlot, paid)
           news == IF Lapsed /\ state # "RECOVERY" THEN TellState("RECOVERY") ELSE Nothing
           bye == IF Emptied THEN ToOwner([kind |-> "Close", sess |-> owner.sess]) ELSE Nothing
<1>1. /\ StateFits /\ Truth \in Copies /\ owner \in Session /\ Host \in peers /\ DBTypeOK
      /\ slot \in [Positions -> Slot] /\ state \in ShopStates
  BY HostFacts DEF TypeOK, DBTypeOK
<1>2. ~Emptied
  BY <1>1 DEF Emptied, Lapsed, StateFits
<1>3. UpdatedSlot \in [Positions -> Slot] /\ UpdatedState \in ShopStates \ {"UNAVAILABLE"}
  BY <1>1, UpdatedSlotType DEF UpdatedState, ShopStates, StateFits
<1>4. \A p \in Positions : UpdatedSlot[p].item = slot[p].item /\ UpdatedSlot[p].price = slot[p].price
  BY UpdatedSlotKeeps
<1>5. NoItems(UpdatedSlot) <=> NoItems(slot)
  BY <1>4 DEF NoItems, Occupied
<1>6. w = Copy(UpdatedState, slot, paid) /\ w \in Copies
  <2> HIDE DEF paid
  <2>. QED BY <1>3, <1>4, SameShown, ShownType
<1>7. Brings(Cancels, Truth, Truth)
  <2>1. Cancels \in MailOf({"Cancel"}) /\ {"Cancel"} \cap (Steering \cup {"BuyRequest"}) = {}
    BY <1>1, CancelMail DEF Steering
  <2>. QED BY <1>1, <2>1, BringsNothing
<1>8. Brings(news, Truth, w)
  <2>1. CASE Lapsed /\ state # "RECOVERY"
    <3>1. state \in ShopStates \ {"none", "CLOSED"} /\ "RECOVERY" \in ShopStates \ {"none", "CLOSED"}
      BY <1>1, <2>1 DEF Lapsed, ShopStates
    <3>2. /\ Truth = [up |-> TRUE, state |-> state, items |-> Shown(slot, paid)] /\ Truth.up
          /\ Copy("RECOVERY", slot, paid) = [up |-> TRUE, state |-> "RECOVERY", items |-> Shown(slot, paid)]
      <4> HIDE DEF paid
      <4>1. /\ Copy(state, slot, paid) = [up |-> TRUE, state |-> state, items |-> Shown(slot, paid)]
            /\ Copy(state, slot, paid).up
            /\ Copy("RECOVERY", slot, paid) = [up |-> TRUE, state |-> "RECOVERY", items |-> Shown(slot, paid)]
        BY <1>1, <3>1, CopyIs
      <4>. QED BY <4>1 DEF Truth, paid
    <3>3. UpdatedState = "RECOVERY" /\ news = TellState("RECOVERY")
      BY <2>1 DEF UpdatedState
    <3>4. 0 \in Nat /\ "RECOVERY" \in ShopStates
      BY <3>1
    <3>5. Brings(TellState("RECOVERY"), Truth, After(StateMsg(0, "RECOVERY"), Truth))
      BY <1>1, <3>4, BringsNews
    <3>6. After(StateMsg(0, "RECOVERY"), Truth) = [Truth EXCEPT !.state = "RECOVERY"]
      BY <1>1, <3>2, <3>4, BringsState
    <3>7. [Truth EXCEPT !.state = "RECOVERY"] = [up |-> Truth.up, state |-> "RECOVERY", items |-> Truth.items]
      BY <1>1, <3>4, StateSet
    <3>8. Truth.up = TRUE /\ Truth.items = Shown(slot, paid)
      BY <3>2
    <3>9. After(StateMsg(0, "RECOVERY"), Truth) = Copy("RECOVERY", slot, paid)
      <4> HIDE DEF paid
      <4>. QED BY <3>2, <3>6, <3>7, <3>8
    <3> HIDE DEF news, w, paid
    <3>. QED BY <1>6, <3>3, <3>5, <3>9
  <2>2. CASE ~(Lapsed /\ state # "RECOVERY")
    <3>1. UpdatedState = state /\ news = Nothing
      BY <2>2 DEF UpdatedState
    <3>2. w = Truth
      BY <1>6, <3>1 DEF Truth
    <3> HIDE DEF news, w, paid
    <3>. QED BY <1>1, <3>1, <3>2, BringsNone
  <2>. QED BY <2>1, <2>2
<1>9. Brings(bye, w, w)
  <2>1. bye = Nothing
    BY <1>2
  <2> HIDE DEF bye, w
  <2>. QED BY <1>6, <2>1, BringsNone
<1>10. UpdateOut = (Cancels ++ news) ++ bye
  BY DEF UpdateOut
<1> HIDE DEF news, bye, w
<1>11. Brings(Cancels ++ news, Truth, w)
  BY <1>7, <1>8, BringsOn
<1>12. Brings(UpdateOut, Truth, w)
  BY <1>9, <1>10, <1>11, BringsOn
<1>. QED BY <1>2, <1>3, <1>5, <1>6, <1>12 DEF w

LEMMA UpdateShows ==
    ASSUME TypeOK, HostInv, Host \notin crashed, UNCHANGED toDB, UpdatePrivateShopPremiumEvent
    PROVE  Delivers(Truth') /\ StateFits'
<1>1. /\ Brings(UpdateOut, Truth, Copy(UpdatedState, UpdatedSlot, Paid(toDB[Host]))) /\ ~Emptied
      /\ NoItems(UpdatedSlot) <=> NoItems(slot)
      /\ UpdatedState # "UNAVAILABLE" /\ StateFits
  BY UpdateBrings, HostFacts
<1>2. Post(UpdateOut) /\ slot' = UpdatedSlot /\ state' = UpdatedState
  BY <1>1 DEF UpdatePrivateShopPremiumEvent
<1>3. Truth' = Copy(UpdatedState, UpdatedSlot, Paid(toDB[Host]))
  BY <1>2 DEF Truth
<1>4. Reserved(slot') \subseteq Reserved(slot)
  BY UpdateKeeps DEF HostInv, OffersInv, AnswersInv, KeepsHolds
<1>5. StateFits'
  BY <1>1, <1>2, <1>4 DEF StateFits, UpdatedState, Lapsed
<1>. QED BY <1>1, <1>2, <1>3, <1>5 DEF Delivers

LEMMA LoadShows ==
    ASSUME TypeOK, HostInv, Host \notin crashed, UNCHANGED toDB, RESULT_PRIVATE_SHOP_LOAD
    PROVE  Delivers(Truth') /\ StateFits'
<1> DEFINE q == Head(loads)
           paid == Paid(toDB[Host])
           w == Copy(UpdatedState, UpdatedSlot, paid)
           l == [kind |-> "Load", sess |-> q.sess, state |-> LoadState, gold |-> gold,
                 items |-> Listing(UpdatedSlot)]
           spawn == [kind |-> "Spawn", state |-> LoadState, stall |-> Stall(UpdatedSlot)]
           s == IF Restored THEN Notify(Host, spawn) ELSE Nothing
<1>1. /\ Brings(UpdateOut, Truth, w) /\ ~Emptied /\ w \in Copies
      /\ NoItems(UpdatedSlot) <=> NoItems(slot)
      /\ UpdatedSlot \in [Positions -> Slot] /\ UpdatedState \in ShopStates \ {"UNAVAILABLE"}
  BY UpdateBrings
<1>2. /\ StateFits /\ Host \in Cores /\ Host \in peers /\ state \in ShopStates /\ gold \in Nat /\ Truth \in Copies
      /\ \A p \in paid : p \in Reserved(slot)
      /\ state \in {"none", "CLOSED"} => Reserved(slot) = {}
  BY HostFacts DEF TypeOK, DBTypeOK
<1>3. Reserved(slot') \subseteq Reserved(slot)
  BY UpdateKeeps DEF HostInv, OffersInv, AnswersInv, KeepsHolds
<1>4. CASE UNCHANGED <<state, slot, toGame>>
  <2>1. Truth' = Truth /\ StateFits'
    BY <1>2, <1>4 DEF Truth, StateFits
  <2>. QED BY <1>4, <2>1 DEF Delivers
<1>5. CASE ~Exists /\ UNCHANGED <<state, slot>> /\ Post(UpdateOut)
  <2>1. Truth' = NoHost /\ w = NoHost
    BY <1>5 DEF Truth, Copy, Exists, UpdatedState, Lapsed
  <2>2. StateFits'
    BY <1>2, <1>5 DEF StateFits
  <2> HIDE DEF w
  <2>. QED BY <1>1, <1>5, <2>1, <2>2 DEF Delivers
<1>6. CASE /\ Exists /\ slot' = UpdatedSlot /\ state' = LoadState
           /\ Post((UpdateOut ++ To(q.core, l)) ++ s) /\ loads # <<>>
  <2>1. l \in MsgToGame /\ l.kind = "Load"
    <3>1. q \in Session /\ LoadState \in ShopStates
      BY <1>1, <1>6 DEF TypeOK, DBTypeOK, LoadState, ShopStates
    <3>2. q.sess \in Nat /\ Listing(UpdatedSlot) \in Seq(Entry)
      BY <1>1, <3>1, ListingType DEF Session
    <3>. QED BY <1>2, <3>1, <3>2 DEF MsgToGame
  <2>2. Brings(To(q.core, l), w, w)
    <3> HIDE DEF l, w
    <3>. QED BY <1>1, <2>1, BringsNotice DEF Steering
  <2>3. Truth' = Copy(LoadState, UpdatedSlot, paid)
    BY <1>6 DEF Truth
  <2>4. Brings(s, w, Truth')
    <3>1. CASE ~Restored
      <4>1. s = Nothing /\ Truth' = w
        BY <2>3, <3>1 DEF LoadState
      <4> HIDE DEF s, w
      <4>. QED BY <1>1, <4>1, BringsNone
    <3>2. CASE Restored
      <4>1. UpdatedState = "CLOSED" /\ state = "CLOSED" /\ LoadState = "RECOVERY" /\ Reserved(slot) = {}
        BY <1>2, <3>2 DEF Restored, UpdatedState, LoadState
      <4>2. w = NoHost /\ paid = {} /\ s = To(Host, spawn)
        BY <1>2, <3>2, <4>1 DEF Copy, Notify
      <4>3. spawn \in MsgToGame /\ spawn.kind = "Spawn" /\ spawn.state = "RECOVERY"
            /\ spawn.stall = Stall(UpdatedSlot)
        <5>1. Stall(UpdatedSlot) \in StallType /\ "RECOVERY" \in ShopStates
          BY <1>1, StallOfSlots DEF ShopStates
        <5>. QED BY <4>1, <5>1 DEF MsgToGame
      <4>4. Stall(UpdatedSlot) = Shown(UpdatedSlot, {})
        BY DEF Stall, Shown
      <4>5. Truth' = [up |-> TRUE, state |-> "RECOVERY", items |-> Stall(UpdatedSlot)]
        BY <2>3, <4>1, <4>2, <4>4 DEF Copy
      <4> HIDE DEF spawn, s, w, paid
      <4>6. Fits(spawn)
        BY <4>1, <4>3 DEF Fits
      <4>7. After(spawn, w) = Truth'
        BY <4>3, <4>5 DEF After
      <4>. QED BY <1>1, <4>2, <4>3, <4>6, <4>7, BringsTo
    <3>. QED BY <3>1, <3>2
  <2>5. StateFits'
    <3>1. LoadState # "UNAVAILABLE" /\ (LoadState = "CLOSED" => Reserved(slot') = {})
      BY <1>1, <1>2, <1>3 DEF LoadState, UpdatedState, Lapsed
    <3>2. LoadState \notin {"none", "CLOSED"} => ~NoItems(slot)
      <4>1. CASE Restored
        BY <4>1 DEF Restored, NoItems
      <4>2. CASE ~Restored
        BY <1>2, <1>6, <4>2 DEF LoadState, UpdatedState, Lapsed, StateFits
      <4>. QED BY <4>1, <4>2
    <3>. QED BY <1>1, <1>6, <3>1, <3>2 DEF StateFits
  <2> HIDE DEF l, s, w
  <2>6. Brings(UpdateOut ++ To(q.core, l), Truth, w)
    BY <1>1, <2>2, BringsOn
  <2>7. Brings((UpdateOut ++ To(q.core, l)) ++ s, Truth, Truth')
    BY <2>4, <2>6, BringsOn
  <2>. QED BY <1>6, <2>5, <2>7 DEF Delivers
<1>. QED BY <1>1, <1>4, <1>5, <1>6 DEF RESULT_PRIVATE_SHOP_LOAD

LEMMA DBShows ==
    ASSUME TypeOK, HostInv, Host \notin crashed, DBStep
    PROVE  StateFits' /\ HostReads'
<1>1. UNCHANGED <<host, crashed>>
  BY DEF DBStep, gameVars
<1>2. ASSUME NEW c \in Cores, RemovePeer(c), UNCHANGED toDB
      PROVE  Delivers(Truth') /\ StateFits'
  <2>1. c # Host
    BY <1>2 DEF RemovePeer
  <2>2. UNCHANGED <<state, slot, toGame>>
    BY <1>2, <2>1 DEF RemovePeer
  <2>3. Truth' = Truth /\ StateFits'
    BY <1>2, <2>2, HostFacts DEF Truth, StateFits
  <2>. QED BY <2>2, <2>3 DEF Delivers
<1>. QED BY <1>1, <1>2, ProcessShows, UpdateShows, LoadShows, Delivered DEF DBStep

-----------------------------------------------------------------------------
\* What the cores and the clients do to the host's copy.

LEMMA CoreTells ==
    ASSUME TypeOK, NEW c \in Cores, Receive(c), ~Bought(c, Head(toGame[c])), NEW k \in Cores
    PROVE  {a \in Range(toDB'[k]) : a.kind = "Buy"} = {a \in Range(toDB[k]) : a.kind = "Buy"}
<1> DEFINE m == Head(toGame[c])
<1>1. /\ m \in MsgToGame /\ panel.gold \in Nat
      /\ Idle(c, m) \/ Declined(c, m) \/ Presented(c, m) \/ TookOut(c, m) \/ PaidOut(c, m) \/ HandedBack(c, m)
  BY ReceiveCases DEF TypeOK, GameTypeOK
<1> HIDE DEF m
<1>2. NoSend \/ \E K : Sends(c, K) /\ "Buy" \notin K
  BY <1>1, CoreSends
<1>3. CASE NoSend
  BY <1>3 DEF NoSend
<1>4. ASSUME NEW K, Sends(c, K), "Buy" \notin K
      PROVE  {a \in Range(toDB'[k]) : a.kind = "Buy"} = {a \in Range(toDB[k]) : a.kind = "Buy"}
  <2>1. /\ Range(toDB'[k]) \subseteq Range(toDB[k]) \cup (IF k = c THEN Packets(K) ELSE {})
        /\ Range(toDB[k]) \subseteq Range(toDB'[k])
    BY <1>4, SendsOf
  <2>. QED BY <1>4, <2>1 DEF Packets
<1>. QED BY <1>2, <1>3, <1>4

LEMMA HostTakes ==
    ASSUME TypeOK, NEW c \in Cores, Receive(c), host \in Copies,
           Head(toGame[c]).kind # "Destroy",
           Head(toGame[c]).kind = "Spawn" => Head(toGame[c]).state = "RECOVERY",
           c # Host => Head(toGame[c]).kind \notin Shaping
    PROVE  LET m == Head(toGame[c])
           IN \/ Bought(c, m) /\ host' = IF c = Host THEN Without(host, m.pos) ELSE host
              \/ ~Bought(c, m) /\ host' = IF c = Host THEN After(m, host) ELSE host
<1> DEFINE m == Head(toGame[c])
           Taken == \/ Bought(c, m) /\ host' = IF c = Host THEN Without(host, m.pos) ELSE host
                    \/ ~Bought(c, m) /\ host' = IF c = Host THEN After(m, host) ELSE host
<1> SUFFICES Taken
  OBVIOUS
<1>1. m \in MsgToGame /\ c \notin crashed
  BY ReceiveCases
<1> HIDE DEF m
<1>2. CASE m.kind = "BuyRequest"
  <2>1. m.pos \in Positions
    BY <1>1, <1>2, Zenon, NamesItem
  <2>2. Without(host, m.pos) = Unstall(m.pos) /\ (~host.up => Without(host, m.pos) = host)
    BY <2>1, WithoutIs DEF Without, Unstall
  <2>3. GameBuyRequest(c, m)
    BY <1>2, Zenon DEF m, Receive, GameBuyRequest, GameCancel, GameRemoveItem, GameAddItem, GameSpawn, GameStateUpdate,
       GamePriceChange, GameItemMove, GameSaleUpdate, GameItemExpire, GameClosed, GameLoad, GameCheckin,
       GameCheckout, GameWithdraw, GameDestroy
  <2>4. After(m, host) = host
    BY <1>2, AfterOthers DEF Steering
  <2>5. CASE Refuse(c, m) /\ UNCHANGED gameVars
    <3>1. ~Bought(c, m)
      <4>1. SUFFICES ASSUME Bought(c, m) PROVE FALSE
        OBVIOUS
      <4>2. toDB'[c] = toDB[c] \o <<Save(m), Payment(m)>>
        BY <1>1, <4>1, BoughtSends
      <4>3. Payment(m) \in MsgToDB /\ Save(m) \in MsgToDB
        BY <1>1, <4>1, BoughtSends
      <4>4. Refusal(m) \in MsgToDB /\ Send(c, <<Refusal(m)>>)
        BY <1>1, <1>2, <2>5 DEF Refuse, Refusal, MsgToGame, MsgToDB
      <4>5. toDB'[c] = toDB[c] \o <<Refusal(m)>> /\ toDB[c] \in Seq(MsgToDB)
        BY <4>4 DEF Send, TypeOK, WireTypeOK
      <4>6. Len(toDB[c] \o <<Refusal(m)>>) = Len(toDB[c]) + 1
            /\ Len(toDB[c] \o <<Save(m), Payment(m)>>) = Len(toDB[c]) + 2 /\ Len(toDB[c]) \in Nat
        BY <4>3, <4>4, <4>5
      <4>. QED BY <4>2, <4>5, <4>6
    <3>. QED BY <2>4, <2>5, <3>1 DEF gameVars
  <2>6. CASE /\ CanBuy(m) /\ Send(c, Delivery(m))
             /\ bag' = [bag EXCEPT ![m.cust] = @ \cup {m.item}]
             /\ purse' = [purse EXCEPT ![m.cust] = @ - m.price]
             /\ host' = (IF c = Host /\ host.up THEN Unstall(m.pos) ELSE host)
             /\ UNCHANGED <<panel, ownerAt, lastSess, locked, online, crashed>>
    BY <1>2, <2>2, <2>6 DEF Bought, Sessionless
  <2>. QED BY <2>3, <2>5, <2>6 DEF GameBuyRequest
<1>3. CASE m.kind # "BuyRequest"
  <2>1. ~Bought(c, m)
    BY <1>3 DEF Bought
  <2>2. UNCHANGED host /\ m.kind \notin Steering => host' = IF c = Host THEN After(m, host) ELSE host
    BY AfterOthers
  <2>3. GameRemoveItem(c, m) => host' = IF c = Host THEN After(m, host) ELSE host
    BY DEF m, Shaping, GameRemoveItem, After, Unstall, Without
  <2>4. GameAddItem(c, m) => host' = IF c = Host THEN After(m, host) ELSE host
    BY DEF m, Shaping, GameAddItem, After
  <2>5. GameSpawn(c, m) => host' = IF c = Host THEN After(m, host) ELSE host
    BY DEF m, Shaping, GameSpawn, After
  <2>6. GameStateUpdate(c, m) => host' = IF c = Host THEN After(m, host) ELSE host
    BY DEF GameStateUpdate, After
  <2>7. GamePriceChange(c, m) => host' = IF c = Host THEN After(m, host) ELSE host
    BY DEF GamePriceChange, After
  <2>8. GameItemMove(c, m) => host' = IF c = Host THEN After(m, host) ELSE host
    BY DEF GameItemMove, After
  <2>9. ASSUME \/ GameCancel(c, m) \/ GameSaleUpdate(c, m) \/ GameItemExpire(c, m) \/ GameClosed(c, m)
               \/ GameLoad(c, m) \/ GameCheckin(c, m) \/ GameCheckout(c, m) \/ GameWithdraw(c, m)
        PROVE  UNCHANGED host /\ m.kind \notin Steering
    BY <2>9 DEF GameCancel, GameSaleUpdate, GameItemExpire, GameClosed, GameLoad, GameCheckin, GameCheckout,
       GameWithdraw, gameVars, Steering
  <2>10. \/ GameCancel(c, m) \/ GameRemoveItem(c, m) \/ GameAddItem(c, m) \/ GameSpawn(c, m)
         \/ GameStateUpdate(c, m) \/ GamePriceChange(c, m) \/ GameItemMove(c, m) \/ GameSaleUpdate(c, m)
         \/ GameItemExpire(c, m) \/ GameClosed(c, m) \/ GameLoad(c, m) \/ GameCheckin(c, m)
         \/ GameCheckout(c, m) \/ GameWithdraw(c, m)
    BY <1>3 DEF m, Receive, GameBuyRequest, GameDestroy
  <2>. QED BY <2>1, <2>2, <2>3, <2>4, <2>5, <2>6, <2>7, <2>8, <2>9, <2>10
<1>. QED BY <1>2, <1>3

LEMMA PaidMore ==
    ASSUME NEW st \in ShopStates, NEW s \in [Positions -> Slot], NEW paid, NEW p \in Positions
    PROVE  Copy(st, s, paid \cup {p}) = Without(Copy(st, s, paid), p)
<1>1. CASE st \in {"none", "CLOSED"}
  <2>1. Copy(st, s, paid) = NoHost /\ Copy(st, s, paid \cup {p}) = NoHost
    BY <1>1 DEF Copy
  <2>2. NoHost \in Copies /\ ~NoHost.up
    BY CopyFields
  <2>3. Without(NoHost, p) = NoHost
    BY <2>2, WithoutIs
  <2>. QED BY <2>1, <2>3
<1>2. CASE st \notin {"none", "CLOSED"}
  <2> DEFINE some == Shown(s, paid)
             more == Shown(s, paid \cup {p})
  <2>1. /\ Copy(st, s, paid) = [up |-> TRUE, state |-> st, items |-> some] /\ Copy(st, s, paid) \in Copies
        /\ Copy(st, s, paid \cup {p}) = [up |-> TRUE, state |-> st, items |-> more]
    BY <1>2, CopyIs
  <2>2. more = [some EXCEPT ![p] = NoStall[p]]
    BY DEF Shown
  <2> HIDE DEF some, more
  <2> DEFINE v == Copy(st, s, paid)
  <2>3. v.up = TRUE /\ v.state = st /\ v.items = some /\ v \in Copies
    BY <2>1
  <2> HIDE DEF v
  <2>4. Without(v, p) = [up |-> TRUE, state |-> st, items |-> [some EXCEPT ![p] = NoStall[p]]]
    BY <2>3, WithoutIs
  <2>. QED BY <2>1, <2>2, <2>4 DEF v
<1>. QED BY <1>1, <1>2

LEMMA CoreShows ==
    ASSUME TypeOK, HostInv, Host \notin crashed, NEW c \in Cores, Receive(c), UNCHANGED dbVars
    PROVE  StateFits' /\ HostReads'
<1> DEFINE m == Head(toGame[c])
           q == toGame[Host]
           paid == Paid(toDB[Host])
<1>1. /\ Host \in Cores /\ StateFits /\ HostReads /\ CloseUnasked /\ slot \in [Positions -> Slot] /\ state \in ShopStates
      /\ UNCHANGED <<state, slot>>
  BY HostFacts DEF OffersInv, dbVars, TypeOK, DBTypeOK
<1>2. /\ m \in Range(toGame[c]) /\ m \in MsgToGame /\ toGame[c] \in Seq(MsgToGame) /\ toGame[c] # <<>>
      /\ \A a \in Range(toGame'[c]) : <<m, a>> \in Before(toGame[c])
  BY ReadQueue
<1>3. \A k \in Cores : /\ toGame'[k] = IF k = c THEN Tail(toGame[c]) ELSE toGame[k]
                       /\ Range(toGame'[k]) \subseteq Range(toGame[k]) /\ Before(toGame'[k]) \subseteq Before(toGame[k])
  BY ReadQueue
<1> HIDE DEF m
<1>4. /\ m.kind # "Destroy" /\ (m.kind = "Spawn" => m.state = "RECOVERY")
      /\ c # Host => m.kind \notin Shaping
  BY <1>1, <1>2 DEF CloseUnasked, HostReads, Shaping
<1>5. q \in Seq(MsgToGame) /\ Shows(q, host, Truth) /\ host \in Copies /\ Truth \in Copies
  <2>1. q \in Seq(MsgToGame) /\ Shows(q, host, Truth)
    BY <1>1, HostFacts DEF HostReads
  <2>. QED BY <2>1, ShowsEnds
<1>6. \/ Bought(c, m) /\ host' = IF c = Host THEN Without(host, m.pos) ELSE host
      \/ ~Bought(c, m) /\ host' = IF c = Host THEN After(m, host) ELSE host
  BY <1>4, <1>5, HostTakes DEF m
<1>7. StateFits'
  BY <1>1 DEF StateFits
<1>8. Truth' = Copy(state, slot, Paid(toDB'[Host]))
  BY <1>1 DEF Truth
<1>9. ASSUME ~(c = Host /\ Bought(c, m))
      PROVE  Truth' = Truth
  <2>1. {a \in Range(toDB'[Host]) : a.kind = "Buy"} = {a \in Range(toDB[Host]) : a.kind = "Buy"}
    <3>1. CASE Bought(c, m)
      <4>1. toDB'[Host] = toDB[Host]
        BY <1>1, <1>2, <1>9, <3>1, BoughtSends
      <4>. QED BY <4>1
    <3>2. CASE ~Bought(c, m)
      BY <1>1, <3>2, CoreTells DEF m
    <3>. QED BY <3>1, <3>2
  <2>2. Paid(toDB'[Host]) = Paid(toDB[Host])
    BY <2>1, PaidSame
  <2>. QED BY <1>8, <2>2 DEF Truth
<1>10. Shows(toGame'[Host], host', Truth')
  <2>1. CASE c # Host
    <3>1. toGame'[Host] = q /\ host' = host /\ Truth' = Truth
      BY <1>1, <1>3, <1>6, <1>9, <2>1
    <3>. QED BY <1>5, <3>1
  <2>2. CASE c = Host
    <3>1. toGame'[Host] = Tail(q) /\ q # <<>> /\ Head(q) = m
      BY <1>2, <1>3, <2>2 DEF m
    <3>2. Shows(Tail(q), After(m, host), Truth)
      BY <1>5, <3>1, ShowsTail
    <3>3. CASE ~Bought(c, m)
      <4>1. host' = After(m, host) /\ Truth' = Truth
        BY <1>6, <1>9, <2>2, <3>3
      <4>. QED BY <3>1, <3>2, <4>1
    <3>4. CASE Bought(c, m)
      <4>1. m.kind = "BuyRequest" /\ m.pos \in Positions /\ host' = Without(host, m.pos)
        <5>1. m.kind = "BuyRequest"
          BY <3>4 DEF Bought
        <5>. QED BY <1>2, <1>6, <2>2, <3>4, <5>1, NamesItem
      <4>2. After(m, host) = host
        BY <4>1, AfterOthers DEF Steering
      <4>3. \A a \in Range(Tail(q)) : Beside(m.pos, a)
        <5>1. \A a \in Range(Tail(q)) : <<m, a>> \in Before(q)
          BY <1>2, <2>2, <3>1
        <5>. QED BY <1>1, <4>1, <5>1 DEF HostReads
      <4>4. Tail(q) \in Seq(MsgToGame)
        BY <1>5, <3>1
      <4> HIDE DEF q
      <4>5. Shows(Tail(q), host, Truth)
        BY <3>2, <4>2
      <4>6. Shows(Tail(q), Without(host, m.pos), Without(Truth, m.pos))
        BY <4>1, <4>3, <4>4, <4>5, ShowsWithout
      <4>7. Paid(toDB'[Host]) = paid \cup {m.pos}
        <5>1. Range(toDB'[Host]) = Range(toDB[Host]) \cup {Save(m), Payment(m)}
          BY <1>1, <1>2, <2>2, <3>4, BoughtSends
        <5>2. Save(m).kind # "Buy" /\ Payment(m).kind = "Buy" /\ Payment(m).pos = m.pos
          BY DEF Save, Payment
        <5>. QED BY <5>1, <5>2 DEF Paid
      <4>8. Truth' = Without(Truth, m.pos)
        <5>1. Truth = Copy(state, slot, paid)
          BY DEF Truth
        <5> HIDE DEF paid
        <5>. QED BY <1>1, <1>8, <4>1, <4>7, <5>1, PaidMore
      <4>. QED BY <3>1, <4>1, <4>6, <4>8
    <3>. QED BY <3>3, <3>4
  <2>. QED BY <2>1, <2>2
<1>11. HostReads'
  <2>1. \A k \in Cores : Range(toGame'[k]) \subseteq Range(toGame[k])
    BY <1>3
  <2>2. Before(toGame'[Host]) \subseteq Before(toGame[Host])
    BY <1>1, <1>3
  <2>. QED BY <1>1, <1>10, <2>1, <2>2 DEF HostReads
<1>. QED BY <1>7, <1>11

\* A step that neither the host's copy nor its mail takes part in.
LEMMA Undisturbed ==
    ASSUME TypeOK, HostInv, Host \notin crashed, UNCHANGED <<state, host>>, LooksSame, KeepsHolds,
           toGame'[Host] = toGame[Host],
           \A k \in Cores : Range(toGame'[k]) \subseteq Range(toGame[k]),
           {a \in Range(toDB'[Host]) : a.kind = "Buy"} = {a \in Range(toDB[Host]) : a.kind = "Buy"}
    PROVE  StateFits' /\ HostReads'
<1>1. StateFits /\ HostReads
  BY HostFacts
<1>2. Truth' = Truth
  BY PaidSame, KeepsTruth
<1>3. StateFits'
  BY <1>1, FitsStill
<1>4. HostReads'
  BY <1>1, <1>2 DEF HostReads
<1>. QED BY <1>3, <1>4

LEMMA ClientShows ==
    ASSUME TypeOK, HostInv, Host \notin crashed, ClientStep
    PROVE  StateFits' /\ HostReads'
<1>1. TakeUnasked /\ HoldsAreDistinct /\ Host \in Cores
  BY HostFacts DEF OffersInv, AnswersInv
<1>2. UNCHANGED <<state, slot, reservation, toGame>>
  BY DEF ClientStep, dbVars
<1>3. UNCHANGED host
  <2>1. \A p \in Positions : ~SendItemExpire(p)
    BY <1>1 DEF TakeUnasked, SendItemExpire, Spend
  <2>. QED BY <2>1 DEF ClientStep, PrivateShopBuyClient, CustomerLeaves, OwnerModify, OwnerClose, OwnerWithdraw,
     OwnerLogout, OwnerCheckout, OwnerMove, OwnerPriceChange, OwnerCheckin, gameVars
<1>4. NoSend \/ \E d, K : Sends(d, K) /\ "Buy" \notin K
  <2>1. LoggedOut => Sends(ownerAt.core, {"Logout", "AccountLogout"})
    BY LoggedOutSends
  <2>2. /\ "Buy" \notin {"BuyRequest"} /\ "Buy" \notin Asking /\ "Buy" \notin {"Close"} /\ "Buy" \notin {"ItemExpire"}
        /\ "Buy" \notin {"CheckoutRequest"} /\ "Buy" \notin {"Logout", "AccountLogout"}
    BY DEF Asking
  <2>. QED BY <2>1, <2>2, ClientCases
<1>5. {a \in Range(toDB'[Host]) : a.kind = "Buy"} = {a \in Range(toDB[Host]) : a.kind = "Buy"}
  <2>1. CASE NoSend
    BY <2>1 DEF NoSend
  <2>2. ASSUME NEW d, NEW K, Sends(d, K), "Buy" \notin K
        PROVE  {a \in Range(toDB'[Host]) : a.kind = "Buy"} = {a \in Range(toDB[Host]) : a.kind = "Buy"}
    <3>1. /\ Range(toDB'[Host]) \subseteq Range(toDB[Host]) \cup (IF Host = d THEN Packets(K) ELSE {})
          /\ Range(toDB[Host]) \subseteq Range(toDB'[Host])
      BY <1>1, <2>2, SendsOf
    <3>. QED BY <2>2, <3>1 DEF Packets
  <2>. QED BY <1>4, <2>1, <2>2
<1>6. LooksSame /\ KeepsHolds
  BY <1>1, <1>2, SameLooks, SameSlots
<1>. QED BY <1>2, <1>3, <1>5, <1>6, Undisturbed

LEMMA EnvShows ==
    ASSUME TypeOK, HostInv, EnvStep, Host \notin crashed'
    PROVE  StateFits' /\ HostReads'
<1>1. crashed \subseteq crashed'
  BY DEF EnvStep, gameVars, OwnerLogin, CoreCrash
<1>2. Host \notin crashed /\ Host \in Cores /\ HoldsAreDistinct
  BY <1>1, HostFacts DEF OffersInv, AnswersInv
<1>3. ASSUME UNCHANGED <<state, host, toGame, toDB>>, LooksSame, KeepsHolds
      PROVE  StateFits' /\ HostReads'
  BY <1>2, <1>3, Undisturbed
<1>4. ASSUME NEW p \in Positions, ReservationDue(p), UNCHANGED <<gameVars, toDB, toGame, budget>>
      PROVE  StateFits' /\ HostReads'
  <2>1. UNCHANGED <<state, host, toGame, toDB>> /\ slot' = [slot EXCEPT ![p].due = TRUE]
    BY <1>4 DEF ReservationDue, gameVars
  <2>2. LooksSame
    <3>1. slot \in [Positions -> Slot]
      BY DEF TypeOK, DBTypeOK
    <3>. QED BY <2>1, <3>1 DEF LooksSame, Slot
  <2>3. KeepsHolds
    BY <1>2, <1>4, DueKeeps
  <2>. QED BY <1>3, <2>1, <2>2, <2>3
<1>5. ASSUME DeadlinePasses, UNCHANGED <<gameVars, toDB, toGame>>
      PROVE  StateFits' /\ HostReads'
  <2>1. UNCHANGED <<state, slot, host, toGame, toDB, reservation>>
    BY <1>5 DEF DeadlinePasses, gameVars
  <2>2. LooksSame /\ KeepsHolds
    BY <1>2, <2>1, SameLooks, SameSlots
  <2>. QED BY <1>3, <2>1, <2>2
<1>6. ASSUME NEW c \in Cores, OwnerLogin(c), UNCHANGED toGame
      PROVE  StateFits' /\ HostReads'
  <2>1. UNCHANGED <<state, slot, host, toGame, toDB, reservation>>
    BY <1>6 DEF OwnerLogin, NoSend
  <2>2. LooksSame /\ KeepsHolds
    BY <1>2, <2>1, SameLooks, SameSlots
  <2>. QED BY <1>3, <2>1, <2>2
<1>7. ASSUME NEW c \in Cores, CoreCrash(c), UNCHANGED dbVars
      PROVE  StateFits' /\ HostReads'
  <2>1. c # Host
    BY <1>7 DEF CoreCrash
  <2>2. UNCHANGED <<state, slot, host, reservation>>
    BY <1>7, <2>1 DEF CoreCrash, dbVars
  <2>3. toDB'[Host] = toDB[Host] /\ toGame'[Host] = toGame[Host]
    BY <1>2, <1>7, <2>1, CutQueue
  <2>4. \A k \in Cores : Range(toGame'[k]) \subseteq Range(toGame[k])
    BY <1>7, CutQueue
  <2>5. LooksSame /\ KeepsHolds
    BY <1>2, <2>2, SameLooks, SameSlots
  <2>. QED BY <1>2, <2>2, <2>3, <2>4, <2>5, Undisturbed
<1>. QED BY <1>4, <1>5, <1>6, <1>7 DEF EnvStep

-----------------------------------------------------------------------------
\* The host agrees with the DB process.

LEMMA HostStep == ASSUME TypeOK, HostInv, [Next]_vars PROVE HostInv'
<1>1. OffersInv /\ OffersInv'
  BY OffersStep DEF HostInv
<1>2. ASSUME Next, Host \notin crashed'
      PROVE  StateFits' /\ HostReads'
  <2>1. CASE DBStep
    <3>1. Host \notin crashed
      BY <1>2, <2>1 DEF DBStep, gameVars
    <3>. QED BY <2>1, <3>1, DBShows
  <2>2. CASE GameStep
    <3>1. PICK c \in Cores : Receive(c) /\ UNCHANGED dbVars
      BY <2>2, Zenon DEF GameStep
    <3>2. crashed' = crashed
      BY <3>1, Zenon DEF Receive, GameBuyRequest, GameCancel, GameRemoveItem, GameAddItem, GameSpawn, GameStateUpdate,
         GamePriceChange, GameItemMove, GameSaleUpdate, GameItemExpire, GameClosed, GameLoad, GameCheckin,
         GameCheckout, GameWithdraw, GameDestroy, gameVars
    <3>. QED BY <1>2, <3>1, <3>2, CoreShows
  <2>3. CASE ClientStep
    <3>1. crashed' = crashed
      BY <2>3 DEF ClientStep, PrivateShopBuyClient, CustomerLeaves, OwnerModify, OwnerClose,
         OwnerWithdraw, OwnerLogout, OwnerCheckout, SendItemExpire, OwnerMove, OwnerPriceChange,
         OwnerCheckin, gameVars
    <3>. QED BY <1>2, <2>3, <3>1, ClientShows
  <2>4. CASE EnvStep
    BY <1>2, <2>4, EnvShows
  <2>. QED BY <1>2, <2>1, <2>2, <2>3, <2>4 DEF Next
<1>3. ASSUME UNCHANGED vars, Host \notin crashed'
      PROVE  StateFits' /\ HostReads'
  <2>1. Host \notin crashed /\ StateFits /\ HostReads /\ UNCHANGED <<state, slot, host, toGame, toDB>>
    BY <1>3 DEF vars, gameVars, dbVars, HostInv
  <2>2. Truth' = Truth
    BY <2>1 DEF Truth
  <2>. QED BY <2>1, <2>2 DEF StateFits, HostReads
<1>. QED BY <1>1, <1>2, <1>3 DEF HostInv

LEMMA HostInit == ASSUME NothingTaken, Items # Spare, Init PROVE HostInv
<1>1. OffersInv /\ TypeOK
  BY OffersInit, InitTypes
<1>2. /\ Host \in Cores /\ Spare \subseteq Items /\ NoItem \notin Items
      /\ \A i \in Items \ Spare : \E p \in Positions : \A q \in Positions : Stock[q] = i <=> q = p
  BY ShopAssumption
<1>3. /\ toGame[Host] = <<>> /\ toDB[Host] = <<>> /\ Range(toDB[Host]) = {}
      /\ \A c \in Cores : Range(toGame[c]) = {} /\ Before(toGame[c]) = {}
  BY <1>2, StartIsEmpty
<1>4. /\ state = "OPEN" /\ host = [up |-> TRUE, state |-> "OPEN", items |-> Stall(slot)]
      /\ slot = [p \in Positions |-> IF Stock[p] = NoItem THEN EmptySlot ELSE FreshSlot(Stock[p], StockPrice)]
  BY DEF Init
<1>5. Paid(toDB[Host]) = {}
  BY <1>3 DEF Paid
<1>6. Shown(slot, {}) = Stall(slot)
  BY DEF Shown, Stall
<1>7. Truth = host
  BY <1>4, <1>5, <1>6 DEF Truth, Copy
<1>8. Truth \in Copies
  <2>1. slot \in [Positions -> Slot] /\ state \in ShopStates
    BY <1>1 DEF TypeOK, DBTypeOK
  <2>. QED BY <2>1, ShownType DEF Truth
<1>9. ~NoItems(slot)
  <2>1. PICK i \in Items \ Spare : TRUE
    BY <1>2
  <2>2. PICK p \in Positions : Stock[p] = i
    BY <1>2, <2>1
  <2>3. slot[p].item = i
    BY <1>2, <1>4, <2>2 DEF FreshSlot
  <2>. QED BY <1>2, <2>3 DEF NoItems, Occupied
<1>10. StateFits
  BY <1>4, <1>9 DEF StateFits
<1>11. Shows(toGame[Host], host, Truth)
  <2>1. <<>> \in Seq(MsgToGame) /\ \A m \in Range(<<>>) : After(m, Truth) = Truth
    BY <1>2, <1>3
  <2>2. Shows(<<>>, Truth, Truth)
    BY <1>8, <2>1, ShowsNone
  <2>. QED BY <1>3, <1>7, <2>2
<1>12. HostReads
  BY <1>2, <1>3, <1>11 DEF HostReads
<1>. QED BY <1>1, <1>10, <1>12 DEF HostInv

LEMMA HostInvariant == ASSUME NothingTaken, Items # Spare PROVE Spec => []HostInv
<1>1. Init => HostInv
  BY HostInit
<1>2. TypeOK /\ HostInv /\ [Next]_vars => HostInv'
  BY HostStep
<1>. QED BY <1>1, <1>2, TypeInvariant, PTL DEF Spec

\* Once every packet is delivered the host core shows the shop as the DB process has it
\* - or nothing, when it is closed or gone - state, stock and prices, whatever order its
\* own sales, those of other cores, the owner's edits, the deadline and the owner's
\* return were carried out and told in, and whatever other core was lost meanwhile
\* (PrivateShopSendItemRemove, PrivateShopStateUpdate, PrivateShopItemPriceChange,
\* PrivateShopItemMove, PrivateShopItemCheckinUpdate, SpawnPrivateShop, ItemTransaction).
\* The shop has been built with an item in it: BuildPrivateShop refuses to build any other.
THEOREM HostCopyAgrees == ASSUME NothingTaken, Items # Spare PROVE Spec => []HostAgrees
<1>1. TypeOK /\ HostInv => HostAgrees
  <2> SUFFICES ASSUME TypeOK, HostInv, Quiet, Host \notin crashed
               PROVE  /\ host.up = (state \notin {"none", "CLOSED"})
                      /\ host.up => host.state = state /\ host.items = Stall(slot)
    BY DEF HostAgrees
  <2>1. /\ Host \in Cores /\ toGame[Host] \in Seq(MsgToGame) /\ Shows(toGame[Host], host, Truth)
        /\ slot \in [Positions -> Slot] /\ state \in ShopStates
    BY HostFacts DEF HostReads, TypeOK, DBTypeOK
  <2>2. toGame[Host] = <<>> /\ toDB[Host] = <<>>
    BY <2>1 DEF Quiet
  <2>3. host = Truth
    BY <2>1, <2>2, ShowsEnds
  <2>4. Paid(toDB[Host]) = {}
    BY <2>2, QueueOfNone DEF Paid
  <2>5. Shown(slot, {}) = Stall(slot)
    BY DEF Shown, Stall
  <2>6. host = Copy(state, slot, {})
    BY <2>3, <2>4 DEF Truth
  <2>7. /\ Copy(state, slot, {}).up = (state \notin {"none", "CLOSED"})
        /\ state \notin {"none", "CLOSED"} =>
             Copy(state, slot, {}).state = state /\ Copy(state, slot, {}).items = Shown(slot, {})
    BY <2>1, ShownType
  <2>. QED BY <2>5, <2>6, <2>7
<1>. QED BY <1>1, HostInvariant, TypeInvariant, PTL
=============================================================================
