------------------------------ MODULE TradeProofs ------------------------------
(***************************************************************************)
(* The invariants of Trade, for any characters, items, purses and limits.  *)
(***************************************************************************)
EXTENDS Trade, DataLemmas

\* What a character saw when he accepted is what is offered as long as he has not
\* taken it back, except that stacks may have grown and items have perished.
SeenIsOffered ==
    \A c \in Chars : seen[c] # NoTrade =>
        /\ trade[c] # NoTrade /\ Offer(c).accept
        /\ seen[c].give = Offer(c).items /\ seen[c].pay = Offer(c).gold
        /\ DOMAIN seen[c].get = Offer(With(c)).items /\ seen[c].receive = Offer(With(c)).gold
        /\ \A i \in Offer(With(c)).items \cap Somewhere : count[i] >= seen[c].get[i]

TradeInv ==
    /\ TradeTypeOK /\ OneWindow /\ OffersAreHeld /\ Conserved /\ PayerIsSaved /\ ListedIsHeld
    /\ SeenIsOffered

-----------------------------------------------------------------------------
\* Where items are.

LEMMA SomewhereIs ==
    /\ \A i : i \in Somewhere <=> i \in ground \/ i \in lost \/ \E c \in Chars : i \in bag[c] \/ i \in store[c]
    /\ \A i : i \in Somewhere' <=> i \in ground' \/ i \in lost' \/ \E c \in Chars : i \in bag'[c] \/ i \in store'[c]
BY DEF Somewhere

LEMMA ReferredIs ==
    \A i : i \in Referred <=> \E c \in Chars : i \in DOMAIN list[c] \/ (trade[c] # NoTrade /\ i \in trade[c].items)
BY DEF Referred

\* An inventory is finite; with a cell free it has room for one item.
LEMMA BagSize ==
    ASSUME ThingsTypeOK, NEW c \in Chars
    PROVE  /\ IsFiniteSet(bag[c]) /\ Cardinality(bag[c]) \in Nat /\ Cardinality(bag[c]) <= Cells
           /\ \A S : S \subseteq bag[c] => Cardinality(S) <= Cells
           /\ HasCell(c) => \A i : Cardinality(bag[c] \cup {i}) <= Cells
<1>1. bag[c] \in SUBSET Items /\ Cardinality(bag[c]) <= Cells
  BY DEF ThingsTypeOK
<1>2. IsFiniteSet(bag[c]) /\ Cardinality(bag[c]) \in Nat
  BY <1>1, FS_Subset, FS_CardinalityType, InventoryAssumption
<1>3. ASSUME NEW S, S \subseteq bag[c] PROVE Cardinality(S) <= Cells
  <2>1. Cardinality(S) <= Cardinality(bag[c]) /\ Cardinality(S) \in Nat
    BY <1>2, <1>3, FS_Subset, FS_CardinalityType
  <2>. QED BY <1>1, <1>2, <2>1, InventoryAssumption
<1>4. ASSUME HasCell(c), NEW i PROVE Cardinality(bag[c] \cup {i}) <= Cells
  <2>1. Cardinality(bag[c] \cup {i}) = IF i \in bag[c] THEN Cardinality(bag[c]) ELSE Cardinality(bag[c]) + 1
    BY <1>2, FS_AddElement
  <2>2. Cardinality(bag[c]) < Cells
    BY <1>4 DEF HasCell
  <2>. QED BY <1>2, <2>1, <2>2, InventoryAssumption
<1>. QED BY <1>1, <1>2, <1>3, <1>4

\* Inventories that lose items, or gain one where a cell is free, fit.
Fits == \A c \in Chars : bag'[c] \subseteq bag[c] \/ (HasCell(c) /\ \E i \in Items : bag'[c] = bag[c] \cup {i})

LEMMA BagsFit ==
    ASSUME ThingsTypeOK, Fits
    PROVE  \A c \in Chars : Cardinality(bag'[c]) <= Cells
BY BagSize DEF Fits

-----------------------------------------------------------------------------
\* Steps that move items and leave the windows alone.  What such a step may do: it
\* brings back no item that a window refers to, takes none from who offers it but
\* when it perishes, and leaves what a shop shows.
Spares ==
    /\ exchanging' = exchanging \cap Somewhere'
    /\ \A i \in Items : i \in Referred /\ i \in Somewhere' => i \in Somewhere
    /\ \A d \in Chars : \A i \in bag[d] :
          /\ i \in exchanging => i \notin Somewhere' \/ (i \in bag'[d] /\ count'[i] >= count[i])
          /\ d \in stand => \/ i \in bag'[d] /\ count'[i] >= count[i]
                            \/ i \in Perishable /\ i \notin Somewhere'

ThingsGoal == ThingsTypeOK' /\ InOnePlace' /\ PiecesKept' /\ Spares

\* The parts of ThingsTypeOK that SMT sees.
Held ==
    /\ bag \in [Chars -> SUBSET Items] /\ store \in [Chars -> SUBSET Items]
    /\ ground \subseteq Items /\ lost \subseteq Items
    /\ count \in [Items -> 0 .. StackMax] /\ made \in Int /\ exchanging \subseteq Somewhere
    /\ \A i \in exchanging : \E c \in Chars : i \in bag[c] /\ trade[c] # NoTrade

LEMMA HeldHolds == TradeInv => Held
BY DEF TradeInv, TradeTypeOK, ThingsTypeOK, Held, OffersAreHeld

\* Pieces that change in one or two stacks.
LEMMA PiecesMoved ==
    ASSUME PiecesKept, made \in Int, NEW i, NEW j, ChangedAt(count, count', Items, i, j),
           made' = made + (count'[i] - count[i]) + (IF i = j THEN 0 ELSE count'[j] - count[j])
    PROVE  PiecesKept'
<1>1. /\ SumFunction(count) \in Int /\ SumFunction(count') \in Int
      /\ SumFunction(count') = SumFunction(count) + (count'[i] - count[i]) + (IF i = j THEN 0 ELSE count'[j] - count[j])
  BY SumChange
<1>2. count[i] \in Int /\ count[j] \in Int /\ count'[i] \in Int /\ count'[j] \in Int
  BY DEF ChangedAt
<1>3. Pieces \in [Items -> Int] /\ IsFiniteSet(Items)
  BY InventoryAssumption, TradeAssumption
<1>4. SumFunction(Pieces) \in Int
  BY <1>3, SumType
<1>. QED BY <1>1, <1>2, <1>4 DEF PiecesKept

LEMMA DropItemKeeps ==
    ASSUME TradeInv, NEW c \in Chars, NEW i \in bag[c], NEW lands \in BOOLEAN, DropItem(c, i, lands)
    PROVE  ThingsGoal
<1>1. Held /\ InOnePlace /\ ThingsTypeOK /\ PiecesKept
  BY HeldHolds DEF TradeInv, TradeTypeOK, Conserved
<1>2. /\ bag' = [bag EXCEPT ![c] = @ \ {i}] /\ i \notin exchanging /\ c \notin stand /\ i \in Items
      /\ \/ ground' = ground \cup {i} /\ lost' = lost
         \/ ground' = ground /\ lost' = lost \cup {i}
      /\ store' = store /\ count' = count /\ exchanging' = exchanging /\ made' = made
  BY <1>1 DEF DropItem, Drop, Movable, CanHandleItem, Held
<1>3. InOnePlace' /\ Spares
  BY <1>1, <1>2, SomewhereIs, InventoryAssumption DEF InOnePlace, Held, Spares
<1>4. ThingsTypeOK'
  BY <1>1, <1>2, BagSize, InventoryAssumption DEF ThingsTypeOK
<1>5. PiecesKept'
  BY <1>1, <1>2 DEF PiecesKept
<1>. QED BY <1>3, <1>4, <1>5 DEF ThingsGoal

LEMMA MoveItemKeeps ==
    ASSUME TradeInv, NEW c \in Chars, NEW i \in bag[c], NEW j \in Items \ {i}, NEW n \in 1 .. count[i],
           MoveItem(c, i, j, n)
    PROVE  ThingsGoal
<1>1. Held /\ InOnePlace /\ ThingsTypeOK /\ PiecesKept
  BY HeldHolds DEF TradeInv, TradeTypeOK, Conserved
<1> DEFINE m == Least(StackMax - count[j], n)
<1>2. m \in 1 .. count[i] /\ count[i] \in Int /\ count[j] \in Int /\ count[j] + m <= StackMax
  BY <1>1, InventoryAssumption DEF MoveItem, Held, Least
<1>3. /\ ChangedAt(count, count', Items, i, j) /\ i # j /\ made' = made
      /\ count'[i] = count[i] - m /\ count'[j] = count[j] + m
  BY <1>1, <1>2, InventoryAssumption DEF MoveItem, ChangedAt, Held
<1>4. bag' = IF m = count[i] THEN [bag EXCEPT ![c] = @ \ {i}] ELSE bag
  BY DEF MoveItem
<1> HIDE DEF m
<1>5. InOnePlace' /\ Spares
  <2>1. /\ i \notin exchanging /\ c \notin stand /\ j \in bag[c] /\ i \in Items /\ j \in Items
        /\ UNCHANGED <<store, ground, lost, exchanging>>
        /\ \A k \in Items : k # i /\ k # j => count'[k] = count[k]
    BY <1>1, <1>3 DEF MoveItem, Movable, CanHandleItem, Held, ChangedAt
  <2>2. \A k \in Items : k # i => count'[k] >= count[k] /\ (count'[k] > 0 <=> count[k] > 0)
    <3>1. count[j] > 0
      BY <1>1, <2>1, SomewhereIs DEF InOnePlace
    <3>2. count'[j] >= count[j] /\ count'[j] > 0
      BY <1>2, <1>3, <3>1
    <3>3. \A k \in Items : count[k] \in Int
      BY <1>1 DEF Held
    <3>. QED BY <2>1, <3>1, <3>2, <3>3
  <2>3. \A d \in Chars : i \in bag[d] => d = c
    BY <1>1 DEF InOnePlace
  <2>4. CASE m = count[i]
    <3>1. /\ bag' = [bag EXCEPT ![c] = @ \ {i}] /\ count'[i] = 0
          /\ \A d \in Chars : bag'[d] = bag[d] \ {i}
      BY <1>1, <1>2, <1>3, <1>4, <2>3, <2>4 DEF Held
    <3>2. Somewhere' = Somewhere \ {i}
      BY <1>1, <2>1, <3>1, SomewhereIs DEF InOnePlace
    <3>3. InOnePlace'
      BY <1>1, <2>1, <2>2, <3>1, <3>2 DEF InOnePlace
    <3>4. Spares
      BY <1>1, <2>1, <2>2, <2>3, <3>1, <3>2 DEF Spares, Held
    <3>. QED BY <3>3, <3>4
  <2>5. CASE m # count[i]
    <3>1. bag' = bag /\ (count'[i] > 0 <=> count[i] > 0)
      BY <1>2, <1>3, <1>4, <2>5
    <3>2. Somewhere' = Somewhere
      BY <2>1, <3>1 DEF Somewhere
    <3>3. InOnePlace'
      BY <1>1, <2>1, <2>2, <3>1, <3>2 DEF InOnePlace
    <3>4. Spares
      BY <1>1, <2>1, <2>2, <2>3, <3>1, <3>2 DEF Spares, Held
    <3>. QED BY <3>3, <3>4
  <2>. QED BY <2>4, <2>5
<1>6. count' \in [Items -> 0 .. StackMax]
  BY <1>1, <1>2, <1>3, InventoryAssumption DEF Held, ChangedAt
<1>7. ThingsTypeOK'
  BY <1>1, <1>4, <1>6, BagSize, InventoryAssumption DEF MoveItem, ThingsTypeOK
<1>8. PiecesKept'
  BY <1>1, <1>2, <1>3, PiecesMoved DEF Held
<1>. QED BY <1>5, <1>7, <1>8 DEF ThingsGoal

LEMMA SplitItemKeeps ==
    ASSUME TradeInv, NEW c \in Chars, NEW i \in bag[c], NEW k \in Items \ {i}, NEW n \in 1 .. count[i],
           SplitItem(c, i, k, n)
    PROVE  ThingsGoal
<1>1. Held /\ InOnePlace /\ ThingsTypeOK /\ PiecesKept
  BY HeldHolds DEF TradeInv, TradeTypeOK, Conserved
<1>2. /\ n \in 1 .. count[i] - 1 /\ count[i] \in Int /\ count[k] = 0
      /\ k \notin Somewhere /\ k \notin Referred /\ HasCell(c)
  BY <1>1, InventoryAssumption DEF SplitItem, Unborn, InOnePlace, Held
<1>3. /\ ChangedAt(count, count', Items, i, k) /\ i # k /\ made' = made
      /\ count'[i] = count[i] - n /\ count'[k] = count[k] + n
  BY <1>1, <1>2, InventoryAssumption DEF SplitItem, ChangedAt, Held
<1>4. bag' = [bag EXCEPT ![c] = @ \cup {k}]
  BY DEF SplitItem
<1>5. InOnePlace' /\ Spares
  BY <1>1, <1>2, <1>3, <1>4, SomewhereIs, InventoryAssumption
     DEF SplitItem, Movable, CanHandleItem, money, windows, InOnePlace, Held, Spares, ChangedAt
<1>6. count' \in [Items -> 0 .. StackMax]
  BY <1>1, <1>2, <1>3, InventoryAssumption DEF Held, ChangedAt
<1>7. ThingsTypeOK'
  <2>1. bag' \in [Chars -> SUBSET Items] /\ Fits
    BY <1>1, <1>2, <1>4 DEF Held, Fits
  <2>2. store' = store /\ ground' = ground /\ lost' = lost
    BY DEF SplitItem
  <2>. QED BY <1>1, <1>3, <1>6, <2>1, <2>2, BagsFit DEF ThingsTypeOK
<1>8. PiecesKept'
  BY <1>1, <1>2, <1>3, PiecesMoved DEF Held
<1>. QED BY <1>5, <1>7, <1>8 DEF ThingsGoal

LEMMA DropPiecesKeeps ==
    ASSUME TradeInv, NEW c \in Chars, NEW i \in bag[c], NEW k \in Items \ {i}, NEW n \in 1 .. count[i],
           NEW lands \in BOOLEAN, DropPieces(c, i, k, n, lands)
    PROVE  ThingsGoal
<1>1. Held /\ InOnePlace /\ ThingsTypeOK /\ PiecesKept
  BY HeldHolds DEF TradeInv, TradeTypeOK, Conserved
<1>2. /\ n \in 1 .. count[i] - 1 /\ count[i] \in Int /\ count[k] = 0
      /\ k \notin Somewhere /\ k \notin Referred
  BY <1>1, InventoryAssumption DEF DropPieces, Unborn, InOnePlace, Held
<1>3. /\ ChangedAt(count, count', Items, i, k) /\ i # k /\ made' = made
      /\ count'[i] = count[i] - n /\ count'[k] = count[k] + n
  BY <1>1, <1>2, InventoryAssumption DEF DropPieces, ChangedAt, Held
<1>4. /\ i \notin exchanging /\ c \notin stand
      /\ \/ ground' = ground \cup {k} /\ lost' = lost
         \/ ground' = ground /\ lost' = lost \cup {k}
      /\ bag' = bag /\ store' = store /\ exchanging' = exchanging
  BY DEF DropPieces, Drop, Movable, CanHandleItem
<1>5. InOnePlace' /\ Spares
  BY <1>1, <1>2, <1>3, <1>4, SomewhereIs, InventoryAssumption DEF InOnePlace, Held, Spares, ChangedAt
<1>6. count' \in [Items -> 0 .. StackMax]
  BY <1>1, <1>2, <1>3, InventoryAssumption DEF Held, ChangedAt
<1>7. ThingsTypeOK'
  BY <1>1, <1>3, <1>4, <1>6 DEF ThingsTypeOK
<1>8. PiecesKept'
  BY <1>1, <1>2, <1>3, PiecesMoved DEF Held
<1>. QED BY <1>5, <1>7, <1>8 DEF ThingsGoal

\* What the timer destroys on the ground nobody offers or lists.
LEMMA ItemDestroyEventKeeps ==
    ASSUME TradeInv, NEW i \in ground, ItemDestroyEvent(i)
    PROVE  ThingsGoal
<1>1. Held /\ InOnePlace /\ ThingsTypeOK /\ PiecesKept
  BY HeldHolds DEF TradeInv, TradeTypeOK, Conserved
<1>2. i \in Items /\ count[i] \in Int
  BY <1>1, InventoryAssumption DEF Held
<1>3. /\ ChangedAt(count, count', Items, i, i) /\ count'[i] = 0 /\ made' = made + (count'[i] - count[i])
  BY <1>1, <1>2, InventoryAssumption DEF ItemDestroyEvent, ChangedAt, Held
<1>4. ground' = ground \ {i} /\ lost' = lost /\ bag' = bag /\ store' = store /\ exchanging' = exchanging
  BY DEF ItemDestroyEvent
<1>5. InOnePlace' /\ Spares
  BY <1>1, <1>2, <1>3, <1>4, SomewhereIs, InventoryAssumption DEF InOnePlace, Held, Spares, ChangedAt
<1>6. count' \in [Items -> 0 .. StackMax]
  BY <1>1, <1>2, <1>3, InventoryAssumption DEF Held, ChangedAt
<1>7. ThingsTypeOK'
  BY <1>1, <1>3, <1>4, <1>6, InventoryAssumption DEF ThingsTypeOK, ChangedAt
<1>8. PiecesKept'
  BY <1>1, <1>2, <1>3, PiecesMoved DEF Held
<1>. QED BY <1>5, <1>7, <1>8 DEF ThingsGoal

LEMMA ExpireKeeps ==
    ASSUME TradeInv, NEW i \in Perishable, Expire(i)
    PROVE  ThingsGoal
<1>1. Held /\ InOnePlace /\ ThingsTypeOK /\ PiecesKept
  BY HeldHolds DEF TradeInv, TradeTypeOK, Conserved
<1>2. i \in Items /\ count[i] \in Int
  BY <1>1, InventoryAssumption DEF Held
<1>3. /\ ChangedAt(count, count', Items, i, i) /\ count'[i] = 0 /\ made' = made + (count'[i] - count[i])
  BY <1>1, <1>2, InventoryAssumption DEF Expire, ChangedAt, Held
<1>4. \A d \in Chars : bag'[d] = bag[d] \ {i} /\ store'[d] = store[d] \ {i}
  BY DEF Expire
<1>5. InOnePlace' /\ Spares
  BY <1>1, <1>2, <1>3, <1>4, SomewhereIs, InventoryAssumption
     DEF Expire, money, windows, InOnePlace, Held, Spares, ChangedAt
<1>6. count' \in [Items -> 0 .. StackMax]
  BY <1>1, <1>2, <1>3, InventoryAssumption DEF Held, ChangedAt
<1>7. ThingsTypeOK'
  BY <1>1, <1>2, <1>4, <1>6, BagSize DEF Expire, ThingsTypeOK
<1>8. PiecesKept'
  BY <1>1, <1>2, <1>3, PiecesMoved DEF Held
<1>. QED BY <1>5, <1>7, <1>8 DEF ThingsGoal

-----------------------------------------------------------------------------
\* What Fill makes of the stacks: as many pieces as there were, and only i shrinks.
Poured(c, i) ==
    {n \in [Items -> 0 .. StackMax] :
        /\ SumFunction(n) = SumFunction(count)
        /\ \A k \in Items \ {i} : n[k] >= count[k] /\ (k \notin bag[c] => n[k] = count[k])}

LEMMA FillPours ==
    ASSUME Held, NEW c \in Chars, NEW i \in Items, NEW order \in SetToSeqs({j \in bag[c] : Alike(i, j)})
    PROVE  Fill(i, order) \in Poured(c, i)
<1> DEFINE D == DOMAIN order
           V == Poured(c, i)
           M(n, j) == Least(StackMax - n[j], n[i])
           Pour(n, j) == [n EXCEPT ![j] = @ + M(n, j), ![i] = @ - M(n, j)]
           ch == [T \in SUBSET D |-> Max(T)]
           op == [p \in D \X V |-> Pour(p[2], order[p[1]])]
           Eq(g) == g = [T \in SUBSET D |-> IF T = {} THEN count ELSE Pour(g[T \ {Max(T)}], order[Max(T)])]
           iter == CHOOSE g : Eq(g)
<1>1. IsFiniteSet(D) /\ D \subseteq Int /\ \A x \in D : order[x] \in bag[c] /\ order[x] # i /\ order[x] \in Items
  <2> DEFINE K == {j \in bag[c] : Alike(i, j)}
  <2>1. IsFiniteSet(K)
    BY FS_Subset, InventoryAssumption DEF Held
  <2>2. Cardinality(K) \in Nat /\ IsFiniteSet(1 .. Cardinality(K))
    BY <2>1, FS_CardinalityType, FS_Interval
  <2>3. order \in [1 .. Cardinality(K) -> K]
    BY DEF SetToSeqs
  <2>. QED BY <2>2, <2>3 DEF Held, Alike
<1>2. \A T \in SUBSET D : T # {} => Max(T) \in T
  BY <1>1, FS_Subset, MaxIn
<1>3. count \in V
  BY DEF Held, Poured
<1>4. ASSUME NEW n \in V, NEW j \in bag[c], j # i, j \in Items
      PROVE  Pour(n, j) \in V
  <2> DEFINE m == M(n, j)
             h == Pour(n, j)
  <2>1. n \in [Items -> 0 .. StackMax] /\ SumFunction(n) = SumFunction(count)
    BY DEF Poured
  <2>2. m \in 0 .. n[i] /\ n[j] + m <= StackMax /\ n[j] \in Nat /\ n[i] \in Nat
    BY <1>4, <2>1, InventoryAssumption DEF Least
  <2>3. h[i] = n[i] - m /\ h[j] = n[j] + m
    BY <1>4, <2>1
  <2>4. \A k \in Items : k # i /\ k # j => h[k] = n[k]
    BY <1>4, <2>1
  <2>5. DOMAIN h = Items /\ h = [k \in Items |-> h[k]]
    BY <2>1
  <2> HIDE DEF h, m
  <2>6. h \in [Items -> 0 .. StackMax]
    BY <1>4, <2>1, <2>2, <2>3, <2>4, <2>5, InventoryAssumption
  <2>7. ChangedAt(n, h, Items, i, j)
    BY <1>4, <2>1, <2>4, <2>6, InventoryAssumption DEF ChangedAt
  <2>8. /\ SumFunction(n) \in Int /\ SumFunction(h) \in Int
        /\ SumFunction(h) = SumFunction(n) + (h[i] - n[i]) + (IF i = j THEN 0 ELSE h[j] - n[j])
    BY <2>7, SumChange
  <2>9. SumFunction(h) = SumFunction(count)
    BY <1>4, <2>1, <2>2, <2>3, <2>8
  <2>10. \A k \in Items \ {i} : n[k] >= count[k] /\ (k \notin bag[c] => n[k] = count[k])
    BY DEF Poured
  <2>11. \A k \in Items \ {i} : h[k] >= count[k] /\ (k \notin bag[c] => h[k] = count[k])
    BY <1>4, <2>1, <2>2, <2>3, <2>4, <2>10 DEF Held
  <2>12. h \in Poured(c, i)
    BY <2>6, <2>9, <2>11 DEF Poured
  <2>. QED BY <2>12 DEF h
<1>5. PICK g \in [SUBSET D -> V] : IsFold(g, D, count, ch, op)
  <2>1. \A T \in SUBSET D : T # {} => ch[T] \in T
    BY <1>2
  <2>2. \A x \in D, n \in V : op[<<x, n>>] \in V
    BY <1>1, <1>4
  <2> HIDE DEF ch, op, V, D
  <2>3. Foldable(D, V, count, ch, op)
    BY <1>1, <1>3, <2>1, <2>2 DEF Foldable
  <2>. QED BY <2>3, FoldExists
<1>6. \A T \in SUBSET D : g[T] = IF T = {} THEN count ELSE Pour(g[T \ {Max(T)}], order[Max(T)])
  <2> SUFFICES ASSUME NEW T \in SUBSET D, T # {}
               PROVE  g[T] = Pour(g[T \ {Max(T)}], order[Max(T)])
    BY <1>5 DEF IsFold
  <2>1. ch[T] = Max(T) /\ Max(T) \in D /\ T \ {Max(T)} \in SUBSET D
    BY <1>2
  <2>2. g[T] = op[<<Max(T), g[T \ {Max(T)}]>>]
    BY <1>5, <2>1 DEF IsFold
  <2>3. g[T \ {Max(T)}] \in V
    BY <2>1
  <2>4. \A x \in D, n \in V : op[<<x, n>>] = Pour(n, order[x])
    OBVIOUS
  <2> HIDE DEF op, V, Pour
  <2>. QED BY <2>1, <2>2, <2>3, <2>4
<1>7. Eq(g)
  <2> HIDE DEF Pour, V
  <2>. QED BY <1>6
<1>8. Eq(iter)
  <2> HIDE DEF Eq
  <2>. QED BY <1>7, Zenon
<1>9. Fill(i, order) = iter[D]
  BY DEF Fill, FoldLeft, MapThenFoldSet
<1>10. \A T \in SUBSET D : iter[T] = IF T = {} THEN count ELSE Pour(iter[T \ {Max(T)}], order[Max(T)])
  <2> HIDE DEF Pour, iter, D
  <2>. QED BY <1>8
<1>11. D \in {T \in SUBSET D : iter[T] \in V}
  <2> DEFINE G == {T \in SUBSET D : iter[T] \in V}
  <2> HIDE DEF iter, V, Pour, D
  <2>1. {} \in G
    BY <1>3, <1>10
  <2>2. ASSUME NEW T \in SUBSET D, T # {}
        PROVE  \E x \in T : T \ {x} \in G => T \in G
    <3>1. Max(T) \in T /\ Max(T) \in D
      BY <1>2, <2>2
    <3>2. T \ {Max(T)} \in G => T \in G
      <4>1. SUFFICES ASSUME iter[T \ {Max(T)}] \in V PROVE iter[T] \in V
        OBVIOUS
      <4>2. Pour(iter[T \ {Max(T)}], order[Max(T)]) \in V
        BY <1>1, <1>4, <3>1, <4>1
      <4>. QED BY <1>10, <2>2, <4>2
    <3>. QED BY <3>1, <3>2
  <2> HIDE DEF G
  <2>3. Inductive(D, G)
    BY <1>1, <2>1, <2>2 DEF Inductive
  <2>4. SUBSET D \subseteq G
    BY <2>3, SubsetInduction
  <2>. QED BY <2>4 DEF G
<1>. QED BY <1>9, <1>11

LEMMA PickupItemKeeps ==
    ASSUME TradeInv, NEW c \in Chars, NEW i \in ground, PickupItem(c, i)
    PROVE  ThingsGoal
<1>1. Held /\ InOnePlace /\ ThingsTypeOK /\ PiecesKept
  BY HeldHolds DEF TradeInv, TradeTypeOK, Conserved
<1>2. i \in Items
  BY <1>1 DEF Held
<1>3. PICK order \in SetToSeqs({j \in bag[c] : Alike(i, j)}) :
         LET rest == Fill(i, order)[i]
         IN /\ count' = Fill(i, order)
            /\ ground' = IF rest = 0 \/ HasCell(c) THEN ground \ {i} ELSE ground
            /\ bag' = IF rest > 0 /\ HasCell(c) THEN [bag EXCEPT ![c] = @ \cup {i}] ELSE bag
  BY DEF PickupItem
<1>4. count' \in Poured(c, i)
  BY <1>1, <1>2, <1>3, FillPours
<1>5. /\ count' \in [Items -> 0 .. StackMax] /\ SumFunction(count') = SumFunction(count)
      /\ \A k \in Items \ {i} : count'[k] >= count[k] /\ (k \notin bag[c] => count'[k] = count[k])
  BY <1>4 DEF Poured
<1>6. /\ ground' = IF count'[i] = 0 \/ HasCell(c) THEN ground \ {i} ELSE ground
      /\ bag' = IF count'[i] > 0 /\ HasCell(c) THEN [bag EXCEPT ![c] = @ \cup {i}] ELSE bag
      /\ store' = store /\ lost' = lost /\ exchanging' = exchanging /\ made' = made /\ count'[i] \in Nat
  BY <1>2, <1>3, <1>5 DEF PickupItem
<1>7. InOnePlace'
  BY <1>1, <1>2, <1>5, <1>6, SomewhereIs, InventoryAssumption DEF InOnePlace, Held
<1>8. Spares
  BY <1>1, <1>2, <1>5, <1>6, SomewhereIs, InventoryAssumption DEF InOnePlace, Held, Spares
<1>9. ThingsTypeOK'
  <2>1. bag' \in [Chars -> SUBSET Items] /\ Fits
    BY <1>1, <1>2, <1>6 DEF Held, Fits
  <2>. QED BY <1>1, <1>5, <1>6, <2>1, BagsFit DEF ThingsTypeOK
<1>10. PiecesKept'
  BY <1>1, <1>5, <1>6 DEF PiecesKept
<1>. QED BY <1>7, <1>8, <1>9, <1>10 DEF ThingsGoal

LEMMA SafeboxCheckinKeeps ==
    ASSUME TradeInv, NEW c \in Chars, NEW i \in bag[c], SafeboxCheckin(c, i)
    PROVE  ThingsGoal
<1>1. Held /\ InOnePlace /\ ThingsTypeOK /\ PiecesKept /\ OneWindow
  BY HeldHolds DEF TradeInv, TradeTypeOK, Conserved
<1>2. /\ c \in box /\ c \notin stand /\ trade[c] = NoTrade
      /\ bag' = [bag EXCEPT ![c] = @ \ {i}] /\ store' = [store EXCEPT ![c] = @ \cup {i}]
      /\ UNCHANGED <<ground, lost, count, exchanging, made>>
  BY <1>1 DEF SafeboxCheckin, CanHandleItem, OneWindow, OtherWindow
<1>3. InOnePlace' /\ Spares
  BY <1>1, <1>2, SomewhereIs, InventoryAssumption DEF InOnePlace, Held, Spares
<1>4. ThingsTypeOK'
  <2>1. bag' \in [Chars -> SUBSET Items] /\ store' \in [Chars -> SUBSET Items] /\ Fits
    BY <1>1, <1>2 DEF Held, Fits
  <2>. QED BY <1>1, <1>2, <2>1, BagsFit DEF ThingsTypeOK
<1>5. PiecesKept'
  BY <1>1, <1>2 DEF PiecesKept
<1>. QED BY <1>3, <1>4, <1>5 DEF ThingsGoal

LEMMA SafeboxCheckoutKeeps ==
    ASSUME TradeInv, NEW c \in Chars, NEW i \in store[c], SafeboxCheckout(c, i)
    PROVE  ThingsGoal
<1>1. Held /\ InOnePlace /\ ThingsTypeOK /\ PiecesKept
  BY HeldHolds DEF TradeInv, TradeTypeOK, Conserved
<1>2. /\ HasCell(c) /\ i \in Items
      /\ bag' = [bag EXCEPT ![c] = @ \cup {i}] /\ store' = [store EXCEPT ![c] = @ \ {i}]
      /\ UNCHANGED <<ground, lost, count, exchanging, made>>
  BY <1>1 DEF SafeboxCheckout, Held
<1>3. InOnePlace' /\ Spares
  BY <1>1, <1>2, SomewhereIs, InventoryAssumption DEF InOnePlace, Held, Spares
<1>4. ThingsTypeOK'
  <2>1. bag' \in [Chars -> SUBSET Items] /\ store' \in [Chars -> SUBSET Items] /\ Fits
    BY <1>1, <1>2 DEF Held, Fits
  <2>. QED BY <1>1, <1>2, <2>1, BagsFit DEF ThingsTypeOK
<1>5. PiecesKept'
  BY <1>1, <1>2 DEF PiecesKept
<1>. QED BY <1>3, <1>4, <1>5 DEF ThingsGoal

LEMMA SafeboxItemMoveKeeps ==
    ASSUME TradeInv, NEW c \in Chars, NEW i \in store[c], NEW j \in store[c], NEW n \in 0 .. count[i],
           SafeboxItemMove(c, i, j, n)
    PROVE  ThingsGoal
<1>1. Held /\ InOnePlace /\ ThingsTypeOK /\ PiecesKept
  BY HeldHolds DEF TradeInv, TradeTypeOK, Conserved
<1> DEFINE m == Least(StackMax - count[j], IF n = 0 THEN count[i] ELSE n)
<1>2. i \in Items /\ j \in Items /\ i # j
  BY <1>1 DEF Held, SafeboxItemMove, Alike
<1>3. m \in 0 .. count[i] /\ count[i] \in Int /\ count[j] \in Int /\ count[j] + m <= StackMax
  BY <1>1, <1>2, InventoryAssumption DEF Held, Least
<1>4. /\ count' = [count EXCEPT ![i] = 0, ![j] = @ + m] /\ made' = made - (count[i] - m)
      /\ store' = [store EXCEPT ![c] = @ \ {i}] /\ UNCHANGED <<bag, ground, lost, exchanging>>
  BY DEF SafeboxItemMove
<1> HIDE DEF m
<1>5. /\ ChangedAt(count, count', Items, i, j) /\ count'[i] = 0 /\ count'[j] = count[j] + m
      /\ made' = made + (count'[i] - count[i]) + (count'[j] - count[j])
  BY <1>1, <1>2, <1>3, <1>4, InventoryAssumption DEF Held, ChangedAt
<1>6. count' \in [Items -> 0 .. StackMax]
  BY <1>1, <1>2, <1>3, <1>5, InventoryAssumption DEF Held, ChangedAt
<1>7. InOnePlace'
  BY <1>1, <1>2, <1>3, <1>4, <1>5, SomewhereIs, InventoryAssumption DEF InOnePlace, Held, ChangedAt
<1>8. Spares
  BY <1>1, <1>2, <1>3, <1>4, <1>5, SomewhereIs, InventoryAssumption DEF InOnePlace, Held, Spares, ChangedAt
<1>9. ThingsTypeOK'
  BY <1>1, <1>2, <1>4, <1>5, <1>6 DEF Held, ThingsTypeOK
<1>10. PiecesKept'
  BY <1>1, <1>2, <1>5, PiecesMoved DEF Held
<1>. QED BY <1>7, <1>8, <1>9, <1>10 DEF ThingsGoal

LEMMA SellKeeps ==
    ASSUME TradeInv, NEW c \in Chars, NEW i \in bag[c], NEW m \in 1 .. count[i], NEW n \in Amounts,
           Sell(c, i, m, n)
    PROVE  ThingsGoal
<1>1. Held /\ InOnePlace /\ ThingsTypeOK /\ PiecesKept /\ OneWindow
  BY HeldHolds DEF TradeInv, TradeTypeOK, Conserved
<1>2. /\ c \notin stand /\ trade[c] = NoTrade /\ i \in Items /\ i \notin exchanging
  BY <1>1, InventoryAssumption
     DEF Sell, CanHandleItem, OneWindow, OtherWindow, Held, InOnePlace
<1>3. /\ ChangedAt(count, count', Items, i, i) /\ count'[i] = count[i] - m /\ count[i] \in Nat
      /\ made' = made + (count'[i] - count[i]) /\ count[i] <= StackMax
  BY <1>1, <1>2, InventoryAssumption DEF Sell, ChangedAt, Held
<1>4. /\ bag' = IF m = count[i] THEN [bag EXCEPT ![c] = @ \ {i}] ELSE bag
      /\ exchanging' = exchanging /\ store' = store /\ ground' = ground /\ lost' = lost
  BY <1>2 DEF Sell
<1>5. count' \in [Items -> 0 .. StackMax] /\ made' \in Int
  BY <1>1, <1>2, <1>3, InventoryAssumption DEF Held, ChangedAt
<1>6. InOnePlace' /\ Spares
  BY <1>1, <1>2, <1>3, <1>4, SomewhereIs, InventoryAssumption DEF InOnePlace, Held, Spares, ChangedAt
<1>7. ThingsTypeOK'
  <2>1. bag' \in [Chars -> SUBSET Items] /\ Fits
    BY <1>1, <1>2, <1>4 DEF Held, Fits
  <2>. QED BY <1>1, <1>4, <1>5, <2>1, BagsFit DEF ThingsTypeOK
<1>8. PiecesKept'
  BY <1>1, <1>3, PiecesMoved DEF Held
<1>. QED BY <1>6, <1>7, <1>8 DEF ThingsGoal

LEMMA BuyFromKeeperKeeps ==
    ASSUME TradeInv, NEW c \in Chars, NEW i \in Items, NEW n \in Amounts, BuyFromKeeper(c, i, n)
    PROVE  ThingsGoal
<1>1. Held /\ InOnePlace /\ ThingsTypeOK /\ PiecesKept
  BY HeldHolds DEF TradeInv, TradeTypeOK, Conserved
<1>2. count[i] = 0 /\ i \notin Somewhere /\ i \notin Referred /\ HasCell(c)
  BY <1>1 DEF BuyFromKeeper, Unborn, InOnePlace, Held
<1>3. /\ ChangedAt(count, count', Items, i, i) /\ count'[i] = 1 /\ made' = made + (count'[i] - count[i])
  BY <1>1, <1>2, InventoryAssumption DEF BuyFromKeeper, ChangedAt, Held
<1>4. bag' = [bag EXCEPT ![c] = @ \cup {i}] /\ UNCHANGED <<store, ground, lost, exchanging>>
  BY DEF BuyFromKeeper
<1>5. count' \in [Items -> 0 .. StackMax] /\ made' \in Int
  BY <1>1, <1>2, <1>3, InventoryAssumption DEF Held, ChangedAt
<1>6. InOnePlace' /\ Spares
  BY <1>1, <1>2, <1>3, <1>4, SomewhereIs, InventoryAssumption DEF InOnePlace, Held, Spares, ChangedAt
<1>7. ThingsTypeOK'
  <2>1. bag' \in [Chars -> SUBSET Items] /\ Fits
    BY <1>1, <1>2, <1>4 DEF Held, Fits
  <2>. QED BY <1>1, <1>4, <1>5, <2>1, BagsFit DEF ThingsTypeOK
<1>8. PiecesKept'
  BY <1>1, <1>3, PiecesMoved DEF Held
<1>. QED BY <1>6, <1>7, <1>8 DEF ThingsGoal

-----------------------------------------------------------------------------
\* What windows refer to.

OffersHeld ==
    \A c \in Chars : trade[c] # NoTrade =>
        /\ trade[With(c)] # NoTrade /\ With(With(c)) = c /\ With(c) # c
        /\ \A i \in Offer(c).items : i \in Somewhere => i \in bag[c]
OffersMarked ==
    \A i : i \in exchanging <=> i \in Somewhere /\ \E c \in Chars : trade[c] # NoTrade /\ i \in Offer(c).items

LEMMA OffersAre ==
    /\ OffersAreHeld <=> OffersHeld /\ OffersMarked
    /\ OffersAreHeld' <=> OffersHeld' /\ OffersMarked'
<1>1. OffersAreHeld <=> OffersHeld /\ OffersMarked
  BY DEF OffersAreHeld, OffersHeld, OffersMarked
<1>2. OffersAreHeld' <=> OffersHeld' /\ OffersMarked'
  BY DEF OffersAreHeld, OffersHeld, OffersMarked
<1>. QED BY <1>1, <1>2

OffersTyped ==
    \A c \in Chars : trade[c] # NoTrade =>
        /\ Offer(c) = [with |-> With(c), accept |-> Offer(c).accept, items |-> Offer(c).items, gold |-> Offer(c).gold]
        /\ With(c) \in Chars /\ Offer(c).accept \in BOOLEAN /\ Offer(c).items \subseteq Items
        /\ Offer(c).gold \in 0 .. GoldMax - 1
SightsTyped ==
    \A c \in Chars : seen[c] # NoTrade =>
        /\ seen[c].get \in [DOMAIN seen[c].get -> 0 .. StackMax]
        /\ seen[c].receive \in 0 .. GoldMax - 1 /\ seen[c].pay \in 0 .. GoldMax - 1
SalesTyped ==
    \A c \in Chars :
        /\ DOMAIN list[c] \subseteq Items /\ (c \notin stand => DOMAIN list[c] = {})
        /\ \A i \in DOMAIN list[c] : list[c][i].count \in 1 .. StackMax /\ list[c][i].price \in Amounts

LEMMA WindowTypes == WindowsTypeOK => OffersTyped /\ SightsTyped /\ SalesTyped
<1> SUFFICES ASSUME WindowsTypeOK PROVE OffersTyped /\ SightsTyped /\ SalesTyped
  OBVIOUS
<1>1. OffersTyped
  BY InventoryAssumption DEF WindowsTypeOK, Offers, OffersTyped, Offer, With
<1>2. SightsTyped
  <2> SUFFICES ASSUME NEW c \in Chars, seen[c] # NoTrade
               PROVE  /\ seen[c].get \in [DOMAIN seen[c].get -> 0 .. StackMax]
                      /\ seen[c].receive \in 0 .. GoldMax - 1 /\ seen[c].pay \in 0 .. GoldMax - 1
    BY DEF SightsTyped
  <2>1. seen[c] \in Sights
    BY DEF WindowsTypeOK
  <2>2. /\ seen[c].get \in UNION {[S -> 0 .. StackMax] : S \in SUBSET Items}
        /\ seen[c].receive \in 0 .. GoldMax - 1 /\ seen[c].pay \in 0 .. GoldMax - 1
    BY <2>1 DEF Sights
  <2>. QED BY <2>2
<1>3. SalesTyped
  <2> SUFFICES ASSUME NEW c \in Chars
               PROVE  /\ DOMAIN list[c] \subseteq Items /\ (c \notin stand => DOMAIN list[c] = {})
                      /\ \A i \in DOMAIN list[c] : list[c][i].count \in 1 .. StackMax /\ list[c][i].price \in Amounts
    BY DEF SalesTyped
  <2>1. list[c] \in Sales
    BY DEF WindowsTypeOK
  <2>2. PICK S \in SUBSET Items : list[c] \in [S -> [count : 1 .. StackMax, price : Amounts]]
    BY <2>1 DEF Sales
  <2>3. c \notin stand => DOMAIN list[c] = {}
    BY DEF WindowsTypeOK, NoSale
  <2>. QED BY <2>2, <2>3
<1>. QED BY <1>1, <1>2, <1>3

-----------------------------------------------------------------------------
\* The invariant in three parts, by what is in them.
MoneyInv == MoneyTypeOK /\ GoldKept /\ PayerIsSaved
ThingsInv == ThingsTypeOK /\ PiecesKept /\ InOnePlace
WindowsInv == WindowsTypeOK /\ OneWindow /\ OffersAreHeld /\ ListedIsHeld /\ SeenIsOffered

LEMMA ThreeParts == (TradeInv <=> MoneyInv /\ ThingsInv /\ WindowsInv) /\ (TradeInv' <=> MoneyInv' /\ ThingsInv' /\ WindowsInv')
<1>1. TradeInv <=> MoneyInv /\ ThingsInv /\ WindowsInv
  BY DEF TradeInv, TradeTypeOK, Conserved, MoneyInv, ThingsInv, WindowsInv
<1>2. TradeInv' <=> MoneyInv' /\ ThingsInv' /\ WindowsInv'
  BY DEF TradeInv, TradeTypeOK, Conserved, MoneyInv, ThingsInv, WindowsInv
<1>. QED BY <1>1, <1>2

\* A step that spares what windows refer to and changes no window.
LEMMA WindowsStay ==
    ASSUME TradeInv, UNCHANGED windows, on' = on, ThingsGoal
    PROVE  WindowsInv'
<1>1. /\ Held /\ OffersHeld /\ OffersMarked /\ OffersTyped /\ SightsTyped /\ SalesTyped
      /\ WindowsTypeOK /\ OneWindow /\ ListedIsHeld /\ SeenIsOffered
  BY HeldHolds, OffersAre, WindowTypes DEF TradeInv, TradeTypeOK
<1>2. Spares /\ count' \in [Items -> 0 .. StackMax]
  BY DEF ThingsGoal, ThingsTypeOK
<1>3. /\ trade' = trade /\ box' = box /\ opening' = opening /\ recent' = recent /\ shop' = shop
      /\ stand' = stand /\ list' = list /\ cube' = cube /\ seen' = seen
  BY DEF windows
<1>4. WindowsTypeOK' /\ OneWindow'
  BY <1>1, <1>3 DEF WindowsTypeOK, OneWindow, OtherWindow
<1>5. \A i : /\ i \in Referred /\ i \in Items /\ i \in Somewhere' => i \in Somewhere
             /\ i \in exchanging' <=> i \in exchanging /\ i \in Somewhere'
  BY <1>2 DEF Spares
<1>6. \A c \in Chars : trade[c] # NoTrade => \A i \in Offer(c).items : i \in Referred /\ i \in Items
  BY <1>1, ReferredIs DEF Offer, OffersTyped
<1>7. \A c \in Chars : trade[c] # NoTrade => \A i \in Offer(c).items :
         i \in Somewhere' => i \in Somewhere /\ i \in bag'[c] /\ count'[i] >= count[i]
  <2> SUFFICES ASSUME NEW c \in Chars, trade[c] # NoTrade, NEW i \in Offer(c).items, i \in Somewhere'
               PROVE  i \in Somewhere /\ i \in bag'[c] /\ count'[i] >= count[i]
    OBVIOUS
  <2>1. i \in Somewhere
    BY <1>5, <1>6
  <2>2. i \in bag[c] /\ i \in exchanging
    BY <1>1, <2>1 DEF OffersHeld, OffersMarked
  <2>. QED BY <1>2, <2>1, <2>2 DEF Spares
<1>8. OffersHeld'
  BY <1>1, <1>3, <1>7 DEF OffersHeld, Offer, With
<1>9. OffersMarked'
  <2> SUFFICES ASSUME NEW i
               PROVE  i \in exchanging' <=> i \in Somewhere' /\ \E c \in Chars : trade'[c] # NoTrade /\ i \in trade'[c].items
    BY DEF OffersMarked, Offer
  <2>. QED BY <1>1, <1>3, <1>5, <1>6, <1>7 DEF OffersMarked, Offer
<1>10. ListedIsHeld'
  <2> SUFFICES ASSUME NEW c \in Chars, NEW i \in DOMAIN list[c]
               PROVE  \/ (i \in bag'[c] /\ count'[i] >= list[c][i].count)
                      \/ i \in Perishable \ Somewhere'
    BY <1>3 DEF ListedIsHeld
  <2>1. c \in stand /\ i \in Items /\ i \in Referred /\ list[c][i].count \in Int /\ count[i] \in Int /\ count'[i] \in Int
    BY <1>1, <1>2, ReferredIs DEF SalesTyped, Held
  <2>2. CASE i \in bag[c] /\ count[i] >= list[c][i].count
    BY <1>2, <2>1, <2>2 DEF Spares
  <2>3. CASE i \in Perishable \ Somewhere
    BY <1>5, <2>1, <2>3
  <2>. QED BY <1>1, <2>2, <2>3 DEF ListedIsHeld
<1>11. SeenIsOffered'
  <2> SUFFICES ASSUME NEW c \in Chars, seen[c] # NoTrade
               PROVE  /\ trade[c] # NoTrade /\ Offer(c).accept
                      /\ seen[c].give = Offer(c).items /\ seen[c].pay = Offer(c).gold
                      /\ DOMAIN seen[c].get = Offer(With(c)).items /\ seen[c].receive = Offer(With(c)).gold
                      /\ \A i \in Offer(With(c)).items \cap Somewhere' : count'[i] >= seen[c].get[i]
    BY <1>3 DEF SeenIsOffered, Offer, With
  <2>1. /\ trade[c] # NoTrade /\ Offer(c).accept
        /\ seen[c].give = Offer(c).items /\ seen[c].pay = Offer(c).gold
        /\ DOMAIN seen[c].get = Offer(With(c)).items /\ seen[c].receive = Offer(With(c)).gold
        /\ \A i \in Offer(With(c)).items \cap Somewhere : count[i] >= seen[c].get[i]
    BY <1>1 DEF SeenIsOffered
  <2>2. With(c) \in Chars /\ trade[With(c)] # NoTrade /\ seen[c].get \in [DOMAIN seen[c].get -> 0 .. StackMax]
    BY <1>1, <2>1 DEF OffersHeld, OffersTyped, SightsTyped
  <2>3. ASSUME NEW i \in Offer(With(c)).items, i \in Somewhere' PROVE count'[i] >= seen[c].get[i]
    <3>1. i \in Somewhere /\ count'[i] >= count[i] /\ i \in Items
      BY <1>6, <1>7, <2>2, <2>3
    <3>2. count[i] >= seen[c].get[i] /\ seen[c].get[i] \in Int /\ count[i] \in Int /\ count'[i] \in Int
      BY <1>1, <1>2, <2>1, <2>2, <3>1 DEF Held
    <3>. QED BY <3>1, <3>2
  <2>. QED BY <2>1, <2>3
<1>. QED BY <1>4, <1>8, <1>9, <1>10, <1>11, OffersAre DEF WindowsInv

-----------------------------------------------------------------------------
\* Gold.

\* Purses that change at one or two characters, with the gold elsewhere.
LEMMA GoldMoved ==
    ASSUME MoneyInv, coins' \in Nat, burnt' \in Nat, till' \in Int, NEW a, NEW b,
           ChangedAt(gold, gold', Chars, a, b),
           (gold'[a] - gold[a]) + (IF a = b THEN 0 ELSE gold'[b] - gold[b])
               + (coins' - coins) + (burnt' - burnt) + (till' - till) = 0
    PROVE  GoldKept'
<1>1. /\ SumFunction(gold) \in Int /\ SumFunction(gold') \in Int
      /\ SumFunction(gold') = SumFunction(gold) + (gold'[a] - gold[a]) + (IF a = b THEN 0 ELSE gold'[b] - gold[b])
  BY SumChange
<1>2. gold[a] \in Int /\ gold[b] \in Int /\ gold'[a] \in Int /\ gold'[b] \in Int
  BY DEF ChangedAt
<1>3. coins \in Int /\ burnt \in Int /\ till \in Int /\ GoldKept
  BY DEF MoneyInv, MoneyTypeOK
<1>4. Purse \in [Chars -> Int] /\ IsFiniteSet(Chars)
  BY InventoryAssumption, TradeAssumption
<1>5. SumFunction(Purse) \in Int
  BY <1>4, SumType
<1>6. CASE a = b
  BY <1>1, <1>2, <1>3, <1>5, <1>6 DEF GoldKept
<1>7. CASE a # b
  BY <1>1, <1>2, <1>3, <1>5, <1>7 DEF GoldKept
<1>. QED BY <1>6, <1>7

LEMMA GoldMovedOnce ==
    ASSUME MoneyInv, MoneyTypeOK', NEW c \in Chars,
           \A d \in Chars : d # c => gold'[d] = gold[d],
           gold'[c] + coins' + burnt' + till' = gold[c] + coins + burnt + till
    PROVE  GoldKept'
<1>1. ChangedAt(gold, gold', Chars, c, c)
  BY InventoryAssumption DEF ChangedAt, MoneyInv, MoneyTypeOK
<1>2. /\ coins \in Int /\ burnt \in Int /\ till \in Int /\ gold[c] \in Int
      /\ coins' \in Nat /\ burnt' \in Nat /\ till' \in Int /\ gold'[c] \in Int
  BY DEF MoneyInv, MoneyTypeOK
<1>3. (gold'[c] - gold[c]) + (IF c = c THEN 0 ELSE gold'[c] - gold[c])
        + (coins' - coins) + (burnt' - burnt) + (till' - till) = 0
  BY <1>2
<1>. QED BY <1>1, <1>2, <1>3, GoldMoved

LEMMA DropGoldKeeps ==
    ASSUME TradeInv, NEW c \in Chars, NEW n \in Amounts, NEW lands \in BOOLEAN, DropGold(c, n, lands)
    PROVE  MoneyInv'
<1>1. MoneyInv /\ MoneyTypeOK /\ PayerIsSaved
  BY ThreeParts DEF MoneyInv
<1> DEFINE m == IF lands THEN n ELSE 0
<1>2. /\ coins = 0 /\ m \in 0 .. gold[c] /\ gold[c] \in Nat /\ gold' = [gold EXCEPT ![c] = @ - m] /\ coins' = m
      /\ c \in on /\ delayed' = delayed \cup {c} /\ UNCHANGED <<on, row, burnt, till>>
  <2>1. /\ coins = 0 /\ n \in 1 .. gold[c] /\ gold[c] \in Nat /\ gold \in [Chars -> Nat]
        /\ c \in on /\ delayed' = delayed \cup {c} /\ UNCHANGED <<on, row, burnt, till>>
    BY <1>1, InventoryAssumption DEF DropGold, CanHandleItem, Save, MoneyTypeOK
  <2>2. CASE lands
    BY <2>1, <2>2 DEF DropGold
  <2>3. CASE ~lands
    <3>1. gold' = gold /\ coins' = coins
      BY <2>3 DEF DropGold
    <3>. QED BY <2>1, <2>3, <3>1
  <2>. QED BY <2>2, <2>3
<1> HIDE DEF m
<1>3. MoneyTypeOK'
  BY <1>1, <1>2, InventoryAssumption DEF MoneyTypeOK
<1>4. (\A d \in Chars : d # c => gold'[d] = gold[d]) /\ gold'[c] = gold[c] - m
  BY <1>1, <1>2, <1>3, InventoryAssumption DEF MoneyTypeOK
<1>5. GoldKept'
  BY <1>1, <1>2, <1>3, <1>4, GoldMovedOnce DEF MoneyTypeOK
<1>6. PayerIsSaved'
  BY <1>1, <1>2, <1>4 DEF PayerIsSaved
<1>. QED BY <1>3, <1>5, <1>6 DEF MoneyInv

\* Gold left on the ground is lost and accounted for.
LEMMA GoldDestroyEventKeeps ==
    ASSUME TradeInv, GoldDestroyEvent
    PROVE  MoneyInv'
<1>1. MoneyTypeOK /\ GoldKept /\ PayerIsSaved
  BY ThreeParts DEF MoneyInv
<1>2. /\ coins \in Nat /\ burnt \in Nat /\ till \in Int /\ coins' = 0 /\ burnt' = burnt + coins
      /\ UNCHANGED <<on, gold, row, delayed, till>>
  BY <1>1 DEF GoldDestroyEvent, MoneyTypeOK
<1>3. MoneyTypeOK' /\ PayerIsSaved'
  BY <1>1, <1>2 DEF MoneyTypeOK, PayerIsSaved
<1>4. SumFunction(gold) \in Int
  BY <1>1, SumType, InventoryAssumption DEF MoneyTypeOK
<1>5. GoldKept'
  BY <1>1, <1>2, <1>4 DEF GoldKept
<1>. QED BY <1>3, <1>5 DEF MoneyInv

LEMMA PickupGoldKeeps ==
    ASSUME TradeInv, NEW c \in Chars, PickupGold(c)
    PROVE  MoneyInv'
<1>1. MoneyInv /\ MoneyTypeOK /\ PayerIsSaved
  BY ThreeParts DEF MoneyInv
<1>2. /\ c \in on /\ coins \in Nat /\ burnt \in Nat /\ gold[c] \in 0 .. GoldMax - 1 /\ GoldMax \in Nat
      /\ gold' = [gold EXCEPT ![c] = Paid(@, coins)] /\ burnt' = burnt + Lost(gold[c], coins)
      /\ coins' = 0 /\ delayed' = delayed \cup {c} /\ UNCHANGED <<on, row, till>>
  BY <1>1, InventoryAssumption DEF PickupGold, Save, MoneyTypeOK
<1>3. /\ Paid(gold[c], coins) \in 0 .. GoldMax - 1 /\ Lost(gold[c], coins) \in Nat
      /\ Paid(gold[c], coins) + Lost(gold[c], coins) = gold[c] + coins
  BY <1>2 DEF Paid, Lost, Takes
<1>4. MoneyTypeOK'
  BY <1>1, <1>2, <1>3 DEF MoneyTypeOK
<1>5. (\A d \in Chars : d # c => gold'[d] = gold[d]) /\ gold'[c] = Paid(gold[c], coins)
  BY <1>1, <1>2, <1>4, InventoryAssumption DEF MoneyTypeOK
<1>6. GoldKept'
  BY <1>1, <1>2, <1>3, <1>4, <1>5, GoldMovedOnce DEF MoneyTypeOK
<1>7. PayerIsSaved'
  BY <1>1, <1>2, <1>5 DEF PayerIsSaved
<1>. QED BY <1>4, <1>6, <1>7 DEF MoneyInv

\* Saves: what a character was saved as is his purse once the save is written.
LEMMA SavesKeep ==
    ASSUME TradeInv, \/ ProcessDelayedSave
                     \/ \E c \in Chars : SaveEvent(c)
    PROVE  MoneyInv'
<1>1. MoneyTypeOK /\ PayerIsSaved /\ GoldKept
  BY ThreeParts DEF MoneyInv
<1>2. GoldKept'
  BY <1>1 DEF GoldKept, ProcessDelayedSave, SaveEvent
<1>3. MoneyTypeOK' /\ PayerIsSaved'
  <2>1. CASE ProcessDelayedSave
    BY <1>1, <2>1, InventoryAssumption DEF ProcessDelayedSave, MoneyTypeOK, PayerIsSaved
  <2>2. CASE \E c \in Chars : SaveEvent(c)
    BY <1>1, <2>2 DEF SaveEvent, Save, MoneyTypeOK, PayerIsSaved
  <2>. QED BY <2>1, <2>2
<1>. QED BY <1>2, <1>3 DEF MoneyInv

LEMMA SellPays ==
    ASSUME TradeInv, NEW c \in Chars, NEW i \in bag[c], NEW m \in 1 .. count[i], NEW n \in Amounts,
           Sell(c, i, m, n)
    PROVE  MoneyInv'
<1>1. MoneyInv /\ MoneyTypeOK /\ PayerIsSaved
  BY ThreeParts DEF MoneyInv
<1>2. /\ n \in Nat /\ till \in Int /\ gold[c] \in Nat /\ gold[c] + n < GoldMax /\ GoldMax \in Nat
      /\ gold' = [gold EXCEPT ![c] = @ + n] /\ till' = till - n
      /\ UNCHANGED <<on, row, delayed, coins, burnt>>
  BY <1>1, InventoryAssumption DEF Sell, Takes, MoneyTypeOK
<1>3. MoneyTypeOK'
  BY <1>1, <1>2 DEF MoneyTypeOK
<1>4. (\A d \in Chars : d # c => gold'[d] = gold[d]) /\ gold'[c] = gold[c] + n
  BY <1>1, <1>2, <1>3, InventoryAssumption DEF MoneyTypeOK
<1>5. GoldKept'
  BY <1>1, <1>2, <1>3, <1>4, GoldMovedOnce DEF MoneyTypeOK
<1>6. PayerIsSaved'
  BY <1>1, <1>2, <1>4 DEF PayerIsSaved, MoneyTypeOK
<1>. QED BY <1>3, <1>5, <1>6 DEF MoneyInv

LEMMA BuyFromKeeperPays ==
    ASSUME TradeInv, NEW c \in Chars, NEW i \in Items, NEW n \in Amounts, BuyFromKeeper(c, i, n)
    PROVE  MoneyInv'
<1>1. MoneyInv /\ MoneyTypeOK /\ PayerIsSaved
  BY ThreeParts DEF MoneyInv
<1>2. /\ c \in on /\ n \in Nat /\ till \in Int /\ gold[c] \in Nat /\ gold[c] >= n
      /\ gold' = [gold EXCEPT ![c] = @ - n] /\ till' = till + n /\ delayed' = delayed \cup {c}
      /\ UNCHANGED <<on, row, coins, burnt>>
  BY <1>1, InventoryAssumption DEF BuyFromKeeper, Save, MoneyTypeOK
<1>3. MoneyTypeOK'
  BY <1>1, <1>2, InventoryAssumption DEF MoneyTypeOK
<1>4. (\A d \in Chars : d # c => gold'[d] = gold[d]) /\ gold'[c] = gold[c] - n
  BY <1>1, <1>2, <1>3, InventoryAssumption DEF MoneyTypeOK
<1>5. GoldKept'
  BY <1>1, <1>2, <1>3, <1>4, GoldMovedOnce DEF MoneyTypeOK
<1>6. PayerIsSaved'
  BY <1>1, <1>2, <1>4 DEF PayerIsSaved
<1>. QED BY <1>3, <1>5, <1>6 DEF MoneyInv

\* The seller may be his own guest.
LEMMA BuyFromShopPays ==
    ASSUME TradeInv, NEW c \in Chars, NEW g \in Chars, NEW i \in DOMAIN list[c], BuyFromShop(g, c, i)
    PROVE  MoneyInv'
<1> DEFINE p == list[c][i].price
           paid == [gold EXCEPT ![g] = @ - p]
<1>1. MoneyInv /\ MoneyTypeOK /\ PayerIsSaved /\ WindowsTypeOK /\ SalesTyped
  BY ThreeParts, WindowTypes DEF MoneyInv, WindowsInv
<1>2. p \in Nat
  BY <1>1, InventoryAssumption DEF SalesTyped
<1>3. /\ gold[g] >= p /\ gold' = [paid EXCEPT ![c] = Paid(@, p)] /\ burnt' = burnt + Lost(paid[c], p)
      /\ delayed' = delayed \cup {g} /\ shop[g] = c /\ UNCHANGED <<on, row, coins, till>>
  BY DEF BuyFromShop, Save
<1>4. g \in on
  BY <1>1, <1>3, InventoryAssumption DEF WindowsTypeOK
<1> HIDE DEF p
<1>5. /\ gold[g] \in 0 .. GoldMax - 1 /\ gold[c] \in 0 .. GoldMax - 1 /\ GoldMax \in Nat
      /\ burnt \in Nat /\ coins \in Nat /\ till \in Int
  BY <1>1, InventoryAssumption DEF MoneyTypeOK
<1>6. /\ paid[c] \in 0 .. GoldMax - 1 /\ paid[c] = IF c = g THEN gold[c] - p ELSE gold[c]
      /\ paid[g] = gold[g] - p /\ paid \in [Chars -> 0 .. GoldMax - 1]
      /\ \A d \in Chars : d # g => paid[d] = gold[d]
  BY <1>1, <1>2, <1>3, <1>5 DEF MoneyTypeOK
<1> HIDE DEF paid
<1>7. /\ Paid(paid[c], p) \in 0 .. GoldMax - 1 /\ Lost(paid[c], p) \in Nat
      /\ Paid(paid[c], p) + Lost(paid[c], p) = paid[c] + p /\ Paid(paid[c], p) >= paid[c]
  BY <1>2, <1>5, <1>6 DEF Paid, Lost, Takes
<1>8. /\ gold' \in [Chars -> 0 .. GoldMax - 1] /\ gold'[c] = Paid(paid[c], p)
      /\ \A d \in Chars : d # c => gold'[d] = paid[d]
  BY <1>3, <1>6, <1>7
<1>9. MoneyTypeOK'
  BY <1>1, <1>3, <1>4, <1>5, <1>7, <1>8 DEF MoneyTypeOK
<1>10. ChangedAt(gold, gold', Chars, g, c)
  BY <1>1, <1>6, <1>8, InventoryAssumption DEF ChangedAt, MoneyTypeOK
<1>11. (gold'[g] - gold[g]) + (IF g = c THEN 0 ELSE gold'[c] - gold[c])
         + (coins' - coins) + (burnt' - burnt) + (till' - till) = 0
  BY <1>2, <1>3, <1>5, <1>6, <1>7, <1>8
<1>12. GoldKept'
  BY <1>1, <1>9, <1>10, <1>11, GoldMoved DEF MoneyTypeOK
<1>13. PayerIsSaved'
  BY <1>1, <1>2, <1>3, <1>5, <1>6, <1>7, <1>8 DEF PayerIsSaved, MoneyTypeOK
<1>. QED BY <1>9, <1>12, <1>13 DEF MoneyInv

-----------------------------------------------------------------------------
\* Steps at windows.  Where no item moves, what is offered stays so until the
\* exchange changes, and what is listed stays so.

LEMMA OffersStay ==
    ASSUME TradeInv, UNCHANGED <<trade, seen, exchanging, count>>, Somewhere' = Somewhere,
           \A c \in Chars : trade[c] # NoTrade => bag'[c] = bag[c]
    PROVE  OffersAreHeld' /\ SeenIsOffered'
<1>1. OffersAreHeld'
  <2>1. OffersAreHeld
    BY DEF TradeInv
  <2>. QED BY <2>1 DEF OffersAreHeld, Offer, With
<1>2. SeenIsOffered'
  BY DEF TradeInv, SeenIsOffered, Offer, With
<1>. QED BY <1>1, <1>2

LEMMA OffersStayWithThings ==
    ASSUME TradeInv, UNCHANGED things, UNCHANGED <<trade, seen>>
    PROVE  OffersAreHeld' /\ SeenIsOffered'
<1>1. Somewhere' = Somewhere /\ bag' = bag
  BY DEF things, Somewhere
<1>. QED BY <1>1, OffersStay DEF things

LEMMA ListsStay ==
    ASSUME TradeInv, Somewhere' = Somewhere, count' = count,
           \A c \in Chars : \A i \in DOMAIN list'[c] :
               i \in DOMAIN list[c] /\ list'[c][i] = list[c][i] /\ bag'[c] = bag[c]
    PROVE  ListedIsHeld'
BY DEF TradeInv, ListedIsHeld

LEMMA ListsStayWithThings ==
    ASSUME TradeInv, UNCHANGED <<bag, store, ground, lost, count>>,
           \A c \in Chars : \A i \in DOMAIN list'[c] : i \in DOMAIN list[c] /\ list'[c][i] = list[c][i]
    PROVE  ListedIsHeld'
<1>1. bag' = bag /\ count' = count /\ Somewhere' = Somewhere
  BY DEF Somewhere
<1>. QED BY <1>1, ListsStay

LEMMA NoSaleIsOne == NoSale \in Sales
<1>1. [i \in {} |-> 0] \in [{} -> [count : 1 .. StackMax, price : Amounts]]
  OBVIOUS
<1>2. {} \in SUBSET Items
  OBVIOUS
<1> DEFINE F(S) == [S -> [count : 1 .. StackMax, price : Amounts]]
<1>3. NoSale \in F({}) /\ F({}) \in {F(S) : S \in SUBSET Items}
  BY <1>1, <1>2 DEF NoSale
<1>. QED BY <1>3, Zenon DEF Sales

\* Windows but the exchange: every one looks at the others.
LEMMA SafeboxWindows ==
    ASSUME TradeInv, NEW c \in Chars,
           \/ ReqSafeboxLoad(c) \/ LimitOver(c) \/ SafeboxLoad(c) \/ SafeboxWrongPassword(c) \/ CloseSafebox(c)
    PROVE  WindowsInv'
<1> USE DEF TradeInv, TradeTypeOK, WindowsTypeOK, OneWindow, OtherWindow
<1>1. UNCHANGED things /\ UNCHANGED <<on, trade, seen, shop, stand, list, cube>>
  BY DEF ReqSafeboxLoad, LimitOver, SafeboxLoad, SafeboxWrongPassword, CloseSafebox
<1>2. OffersAreHeld' /\ SeenIsOffered' /\ ListedIsHeld'
  BY <1>1, OffersStayWithThings, ListsStayWithThings DEF things
<1>3. WindowsTypeOK' /\ OneWindow'
  <2>1. CASE ReqSafeboxLoad(c)
    BY <1>1, <2>1 DEF ReqSafeboxLoad
  <2>2. CASE LimitOver(c)
    BY <1>1, <2>2 DEF LimitOver
  <2>3. CASE SafeboxLoad(c)
    BY <1>1, <2>3 DEF SafeboxLoad, Asked, MayOpen
  <2>4. CASE SafeboxWrongPassword(c)
    BY <1>1, <2>4 DEF SafeboxWrongPassword, Asked
  <2>5. CASE CloseSafebox(c)
    BY <1>1, <2>5 DEF CloseSafebox, Shut
  <2>. QED BY <2>1, <2>2, <2>3, <2>4, <2>5
<1>. QED BY <1>2, <1>3 DEF WindowsInv

LEMMA ShopWindows ==
    ASSUME TradeInv, NEW c \in Chars,
           \/ StartShopping(c) \/ StopShopping(c) \/ CubeOpen(c) \/ CubeClose(c) \/ CloseMyShop(c)
           \/ \E g \in Chars : OnClick(g, c)
    PROVE  WindowsInv'
<1> USE DEF TradeInv, TradeTypeOK, WindowsTypeOK, OneWindow, OtherWindow
<1>1. UNCHANGED things /\ UNCHANGED <<on, trade, seen, box, opening, recent>>
  BY DEF StartShopping, StopShopping, CubeOpen, CubeClose, CloseMyShop, OnClick
<1>2. \A d \in Chars : \A i \in DOMAIN list'[d] : i \in DOMAIN list[d] /\ list'[d][i] = list[d][i]
  BY DEF StartShopping, StopShopping, CubeOpen, CubeClose, CloseMyShop, OnClick, Unstand, NoSale
<1>3. OffersAreHeld' /\ SeenIsOffered' /\ ListedIsHeld'
  BY <1>1, <1>2, OffersStayWithThings, ListsStayWithThings DEF things
<1>4. WindowsTypeOK' /\ OneWindow'
  <2>1. CASE StartShopping(c)
    BY <1>1, <2>1, InventoryAssumption DEF StartShopping
  <2>2. CASE StopShopping(c)
    BY <1>1, <2>2, InventoryAssumption DEF StopShopping
  <2>3. CASE CubeOpen(c)
    BY <1>1, <2>3 DEF CubeOpen
  <2>4. CASE CubeClose(c)
    BY <1>1, <2>4 DEF CubeClose
  <2>5. CASE CloseMyShop(c)
    <3>1. NoSale \in Sales
      BY NoSaleIsOne
    <3>2. /\ c \in stand /\ stand' = stand \ {c} /\ cube' = cube
          /\ list' = [d \in Chars |-> IF d = c THEN NoSale ELSE list[d]]
          /\ shop' = [g \in Chars |-> IF shop[g] = c THEN NoShop ELSE shop[g]]
      BY <2>5 DEF CloseMyShop, Unstand
    <3>3. shop' \in [Chars -> stand' \cup {Keeper, NoShop}]
      BY <3>2, InventoryAssumption
    <3>4. list' \in [Chars -> Sales] /\ \A d \in Chars \ stand' : list'[d] = NoSale
      BY <3>1, <3>2
    <3>5. WindowsTypeOK'
      BY <1>1, <3>2, <3>3, <3>4
    <3>. QED BY <1>1, <3>2, <3>5
  <2>6. CASE \E g \in Chars : OnClick(g, c)
    <3>1. PICK g \in Chars : OnClick(g, c)
      BY <2>6
    <3>2. /\ c \in stand /\ g \in on /\ trade[g] = NoTrade /\ g \notin box /\ g \notin cube /\ (g = c \/ g \notin stand)
          /\ shop' = [shop EXCEPT ![g] = c] /\ UNCHANGED <<stand, list, cube>>
      BY <3>1 DEF OnClick, MayEnter
    <3>3. WindowsTypeOK'
      BY <1>1, <3>2
    <3>4. OneWindow'
      BY <1>1, <3>2, InventoryAssumption
    <3>. QED BY <3>3, <3>4
  <2>. QED BY <2>1, <2>2, <2>3, <2>4, <2>5, <2>6
<1>. QED BY <1>3, <1>4 DEF WindowsInv

LEMMA OpenMyShopKeeps ==
    ASSUME TradeInv, NEW c \in Chars, NEW S \in SUBSET bag[c], NEW price \in [S -> Amounts],
           OpenMyShop(c, price)
    PROVE  WindowsInv'
<1>1. UNCHANGED things /\ UNCHANGED <<on, trade, seen, box, opening, recent, shop, cube>>
  BY DEF OpenMyShop
<1>2. /\ c \notin stand /\ stand' = stand \cup {c} /\ S = DOMAIN price
      /\ c \in on /\ trade[c] = NoTrade /\ c \notin box /\ shop[c] = NoShop /\ c \notin cube
      /\ list' = [list EXCEPT ![c] = [i \in S |-> [count |-> count[i], price |-> price[i]]]]
  BY DEF OpenMyShop, MayOpenMyShop
<1>3. WindowsTypeOK /\ OneWindow /\ Held /\ InOnePlace /\ ListedIsHeld
  BY HeldHolds DEF TradeInv, TradeTypeOK, Conserved
<1>4. OffersAreHeld' /\ SeenIsOffered'
  BY <1>1, OffersStayWithThings
<1>5. \A i \in S : i \in Items /\ count[i] \in 1 .. StackMax /\ price[i] \in Amounts
  BY <1>3, SomewhereIs, InventoryAssumption DEF Held, InOnePlace
<1>6. [i \in S |-> [count |-> count[i], price |-> price[i]]] \in Sales
  BY <1>5 DEF Sales
<1>7. WindowsTypeOK' /\ OneWindow'
  BY <1>1, <1>2, <1>3, <1>6, InventoryAssumption DEF WindowsTypeOK, OneWindow, OtherWindow
<1>8. ListedIsHeld'
  <2> SUFFICES ASSUME NEW d \in Chars, NEW i \in DOMAIN list'[d]
               PROVE  (i \in bag[d] /\ count[i] >= list'[d][i].count) \/ i \in Perishable \ Somewhere
    BY <1>1 DEF ListedIsHeld, things, Somewhere
  <2>1. CASE d = c
    BY <1>2, <1>3, <1>5, <2>1 DEF WindowsTypeOK
  <2>2. CASE d # c
    BY <1>2, <1>3, <2>2 DEF ListedIsHeld, WindowsTypeOK
  <2>. QED BY <2>1, <2>2
<1>. QED BY <1>4, <1>7, <1>8 DEF WindowsInv

-----------------------------------------------------------------------------
\* The exchange.

\* What c offers is marked, and of his items only that.
LEMMA Marks ==
    ASSUME TradeInv
    PROVE  /\ Held /\ InOnePlace /\ OffersHeld /\ OffersMarked /\ OffersTyped /\ SightsTyped
           /\ WindowsTypeOK /\ OneWindow /\ SeenIsOffered
           /\ \A c \in Chars : trade[c] # NoTrade => \A i \in bag[c] : i \in exchanging <=> i \in Offer(c).items
           /\ \A c, d \in Chars : trade[c] # NoTrade /\ trade[d] # NoTrade /\ c # d =>
                 \A i : i \in Offer(c).items /\ i \in Offer(d).items => i \notin Somewhere
<1>1. /\ Held /\ InOnePlace /\ OffersHeld /\ OffersMarked /\ OffersTyped /\ SightsTyped
      /\ WindowsTypeOK /\ OneWindow /\ SeenIsOffered
  BY HeldHolds, OffersAre, WindowTypes DEF TradeInv, TradeTypeOK, Conserved
<1>2. \A c, d \in Chars : trade[c] # NoTrade /\ trade[d] # NoTrade /\ c # d =>
         \A i : i \in Offer(c).items /\ i \in Offer(d).items => i \notin Somewhere
  <2> SUFFICES ASSUME NEW c \in Chars, NEW d \in Chars, trade[c] # NoTrade, trade[d] # NoTrade, c # d,
                      NEW i \in Offer(c).items, i \in Offer(d).items, i \in Somewhere
               PROVE  FALSE
    OBVIOUS
  <2>1. i \in bag[c] /\ i \in bag[d]
    BY <1>1 DEF OffersHeld
  <2>. QED BY <1>1, <2>1 DEF InOnePlace
<1>3. \A c \in Chars : trade[c] # NoTrade => \A i \in bag[c] : i \in exchanging <=> i \in Offer(c).items
  <2> SUFFICES ASSUME NEW c \in Chars, trade[c] # NoTrade, NEW i \in bag[c]
               PROVE  i \in exchanging <=> i \in Offer(c).items
    OBVIOUS
  <2>1. i \in Somewhere
    BY SomewhereIs
  <2>2. ASSUME NEW d \in Chars, trade[d] # NoTrade, i \in Offer(d).items PROVE d = c
    BY <1>1, <2>1, <2>2 DEF OffersHeld, InOnePlace
  <2>. QED BY <1>1, <2>1, <2>2 DEF OffersMarked
<1>. QED BY <1>1, <1>2, <1>3

\* Where only the exchange's windows change.
LEMMA TradeWindows ==
    ASSUME TradeInv, UNCHANGED <<on, bag, store, ground, lost, count, box, opening, recent, shop, stand, list, cube>>,
           trade' \in [Chars -> Offers \cup {NoTrade}], seen' \in [Chars -> Sights \cup {NoTrade}],
           \A c \in Chars : trade'[c] # NoTrade => c \in on /\ ~OtherWindow(c),
           OffersHeld', OffersMarked', SeenIsOffered'
    PROVE  WindowsInv'
<1>1. ListedIsHeld'
  BY ListsStayWithThings
<1>2. OffersAreHeld'
  BY OffersAre
<1>3. WindowsTypeOK /\ OneWindow
  BY DEF TradeInv, TradeTypeOK
<1>4. WindowsTypeOK'
  BY <1>3 DEF WindowsTypeOK
<1>5. OneWindow'
  BY <1>3 DEF OneWindow, OtherWindow
<1>. QED BY <1>1, <1>2, <1>4, <1>5 DEF WindowsInv

LEMMA ExchangeStartKeeps ==
    ASSUME TradeInv, NEW a \in Chars, NEW b \in Chars, ExchangeStart(a, b)
    PROVE  WindowsInv'
<1>1. /\ Held /\ InOnePlace /\ OffersHeld /\ OffersMarked /\ OffersTyped /\ WindowsTypeOK /\ OneWindow
      /\ SeenIsOffered
  BY Marks
<1>2. /\ a # b /\ a \in on /\ b \in on /\ ~OtherWindow(a) /\ ~OtherWindow(b)
      /\ trade[a] = NoTrade /\ trade[b] = NoTrade
      /\ trade' = [trade EXCEPT ![a] = NewTrade(b), ![b] = NewTrade(a)]
      /\ UNCHANGED <<on, bag, store, ground, lost, count, exchanging, box, opening, recent, shop, stand, list, cube, seen>>
  BY DEF ExchangeStart, FreeToTrade, MayTrade, CanHandleItem, things
<1>3. \A c \in Chars : NewTrade(c) \in Offers /\ NewTrade(c).with = c /\ NewTrade(c).items = {}
  <2>1. \A c \in Chars : {} \in SUBSET Items /\ FALSE \in BOOLEAN
    OBVIOUS
  <2>2. 0 \in 0 .. GoldMax - 1
    BY TradeAssumption, InventoryAssumption
  <2>. QED BY <2>1, <2>2 DEF NewTrade, Offers
<1>4. /\ trade'[a] = NewTrade(b) /\ trade'[b] = NewTrade(a) /\ NewTrade(a) # NoTrade /\ NewTrade(b) # NoTrade
      /\ \A d \in Chars : d # a /\ d # b => trade'[d] = trade[d]
  BY <1>1, <1>2, <1>3, InventoryAssumption DEF WindowsTypeOK
<1>5. trade' \in [Chars -> Offers \cup {NoTrade}]
  BY <1>1, <1>2, <1>3 DEF WindowsTypeOK
<1>6. \A d \in Chars : trade[d] # NoTrade =>
         /\ d # a /\ d # b /\ With(d) \in Chars /\ With(d) # a /\ With(d) # b
         /\ trade'[d] = trade[d] /\ trade'[With(d)] = trade[With(d)]
  BY <1>1, <1>2, <1>4 DEF OffersHeld, OffersTyped
<1>7. \A c \in Chars : trade'[c] # NoTrade => c \in on /\ ~OtherWindow(c)
  BY <1>1, <1>2, <1>4 DEF WindowsTypeOK, OneWindow
<1>8. Somewhere' = Somewhere
  BY <1>2 DEF Somewhere
<1>9. OffersHeld'
  <2> SUFFICES ASSUME NEW d \in Chars, trade'[d] # NoTrade
               PROVE  /\ trade'[trade'[d].with] # NoTrade /\ trade'[trade'[d].with].with = d /\ trade'[d].with # d
                      /\ \A i \in trade'[d].items : i \in Somewhere => i \in bag[d]
    BY <1>2, <1>8 DEF OffersHeld, Offer, With
  <2>0. trade'[a].with = b /\ trade'[a].items = {} /\ trade'[b].with = a /\ trade'[b].items = {}
    BY <1>3, <1>4
  <2>1. CASE d = a
    BY <1>2, <1>4, <2>0, <2>1
  <2>2. CASE d = b
    BY <1>2, <1>4, <2>0, <2>2
  <2>3. CASE d # a /\ d # b
    <3>1. trade[d] # NoTrade /\ trade'[d] = trade[d] /\ trade'[With(d)] = trade[With(d)]
      BY <1>4, <1>6, <2>3
    <3>. QED BY <1>1, <3>1 DEF OffersHeld, Offer, With
  <2>. QED BY <2>1, <2>2, <2>3
<1>10. OffersMarked'
  BY <1>1, <1>2, <1>3, <1>4, <1>6, <1>8 DEF OffersMarked, Offer
<1>11. SeenIsOffered'
  <2> SUFFICES ASSUME NEW d \in Chars, seen[d] # NoTrade
               PROVE  /\ trade'[d] # NoTrade /\ trade'[d].accept
                      /\ seen[d].give = trade'[d].items /\ seen[d].pay = trade'[d].gold
                      /\ DOMAIN seen[d].get = trade'[trade'[d].with].items
                      /\ seen[d].receive = trade'[trade'[d].with].gold
                      /\ \A i \in trade'[trade'[d].with].items \cap Somewhere : count[i] >= seen[d].get[i]
    BY <1>2, <1>8 DEF SeenIsOffered, Offer, With
  <2>1. trade[d] # NoTrade /\ trade'[d] = trade[d] /\ trade'[With(d)] = trade[With(d)]
    BY <1>1, <1>6 DEF SeenIsOffered
  <2>. QED BY <1>1, <2>1 DEF SeenIsOffered, Offer, With
<1>12. seen' \in [Chars -> Sights \cup {NoTrade}]
  BY <1>1, <1>2 DEF WindowsTypeOK
<1>. QED BY <1>2, <1>12, <1>5, <1>7, <1>9, <1>10, <1>11, TradeWindows

\* c changes his offer to r.
LEMMA ChangedKeeps ==
    ASSUME TradeInv, NEW c \in Chars, trade[c] # NoTrade, NEW r \in Offers, r.with = With(c), Changed(c, r),
           \A i \in r.items : i \in Somewhere => i \in bag[c],
           \A i : i \in exchanging' <=> IF i \in bag[c] THEN i \in r.items ELSE i \in exchanging,
           UNCHANGED <<on, bag, store, ground, lost, count, box, opening, recent, shop, stand, list, cube>>
    PROVE  WindowsInv'
<1> DEFINE b == With(c)
           I == r.items
<1>1. /\ Held /\ InOnePlace /\ OffersHeld /\ OffersMarked /\ OffersTyped /\ WindowsTypeOK /\ OneWindow
      /\ SeenIsOffered
  BY Marks
<1>2. b \in Chars /\ b # c /\ trade[b] # NoTrade /\ With(b) = c
  BY <1>1 DEF OffersHeld, OffersTyped
<1>3. trade[b] \in Offers /\ trade[c] \in Offers
  BY <1>1, <1>2 DEF WindowsTypeOK
<1>4. /\ trade'[c] \in Offers /\ trade'[c].with = b /\ trade'[c].items = I
      /\ trade'[b] \in Offers /\ trade'[b].with = c /\ trade'[b].items = trade[b].items
      /\ \A d \in Chars : d # c /\ d # b => trade'[d] = trade[d]
      /\ seen'[c] = NoTrade /\ seen'[b] = NoTrade
      /\ \A d \in Chars : d # c /\ d # b => seen'[d] = seen[d]
      /\ trade' = [d \in Chars |-> trade'[d]] /\ seen' = [d \in Chars |-> seen'[d]]
  <2> DEFINE X == [r EXCEPT !.accept = FALSE]
             Y == [trade[b] EXCEPT !.accept = FALSE]
             u == [trade EXCEPT ![c] = X]
  <2>1. trade' = [u EXCEPT ![b] = [u[b] EXCEPT !.accept = FALSE]]
    BY DEF Changed
  <2>2. seen' = [seen EXCEPT ![c] = NoTrade, ![b] = NoTrade]
    BY DEF Changed
  <2>3. X \in Offers /\ X.with = b /\ X.items = I
    <3>1. r \in Offers /\ r.with = b
      OBVIOUS
    <3> HIDE DEF b
    <3>. QED BY <3>1 DEF Offers
  <2>4. Y \in Offers /\ Y.with = c /\ Y.items = trade[b].items
    <3>1. trade[b].with = c
      BY <1>2 DEF With
    <3> HIDE DEF b
    <3>. QED BY <1>3, <3>1 DEF Offers
  <2> HIDE DEF b, X
  <2>5. u[b] = trade[b] /\ u[c] = X /\ DOMAIN u = Chars /\ \A d \in Chars : d # c => u[d] = trade[d]
    BY <1>1, <1>2 DEF WindowsTypeOK
  <2> HIDE DEF u
  <2>6. /\ trade'[c] = X /\ trade'[b] = Y
        /\ \A d \in Chars : d # c /\ d # b => trade'[d] = trade[d]
        /\ trade' = [d \in Chars |-> trade'[d]]
    BY <1>2, <2>1, <2>5
  <2>7. /\ seen'[c] = NoTrade /\ seen'[b] = NoTrade /\ seen' = [d \in Chars |-> seen'[d]]
        /\ \A d \in Chars : d # c /\ d # b => seen'[d] = seen[d]
    BY <1>1, <1>2, <2>2 DEF WindowsTypeOK
  <2> HIDE DEF Y
  <2>. QED BY <2>3, <2>4, <2>6, <2>7
<1> HIDE DEF b
<1>6. trade' \in [Chars -> Offers \cup {NoTrade}] /\ seen' \in [Chars -> Sights \cup {NoTrade}]
  BY <1>1, <1>4 DEF WindowsTypeOK
<1>7. \A d \in Chars : trade[d] # NoTrade /\ d # c /\ d # b =>
         /\ With(d) \in Chars /\ With(d) # c /\ With(d) # b
         /\ trade'[d] = trade[d] /\ trade'[With(d)] = trade[With(d)]
  BY <1>1, <1>2, <1>4 DEF OffersHeld, OffersTyped, b
<1>8. \A d \in Chars : trade'[d] # NoTrade => trade[d] # NoTrade
  BY <1>2, <1>4
<1>9. \A d \in Chars : trade'[d] # NoTrade => d \in on /\ ~OtherWindow(d)
  BY <1>1, <1>8 DEF WindowsTypeOK, OneWindow
<1>10. Somewhere' = Somewhere
  BY DEF Somewhere
<1>11. trade'[c] # NoTrade /\ trade'[b] # NoTrade
  BY <1>4, InventoryAssumption
<1>12. /\ trade'[c].with = b /\ trade'[c].items = I /\ trade'[b].with = c /\ trade'[b].items = trade[b].items
  BY <1>4
<1>13. OffersHeld'
  <2> SUFFICES ASSUME NEW d \in Chars, trade'[d] # NoTrade
               PROVE  /\ trade'[trade'[d].with] # NoTrade /\ trade'[trade'[d].with].with = d /\ trade'[d].with # d
                      /\ \A i \in trade'[d].items : i \in Somewhere => i \in bag[d]
    BY <1>10 DEF OffersHeld, Offer, With
  <2>1. CASE d = c
    BY <1>2, <1>11, <1>12, <2>1
  <2>2. CASE d = b
    BY <1>1, <1>2, <1>11, <1>12, <2>2 DEF OffersHeld, Offer
  <2>3. CASE d # c /\ d # b
    BY <1>1, <1>7, <1>8, <2>3 DEF OffersHeld, Offer, With
  <2>. QED BY <2>1, <2>2, <2>3
<1>14. OffersMarked'
  <2> SUFFICES ASSUME NEW i
               PROVE  i \in exchanging' <=> i \in Somewhere /\ \E d \in Chars : trade'[d] # NoTrade /\ i \in trade'[d].items
    BY <1>10 DEF OffersMarked, Offer
  <2>1. CASE i \in bag[c]
    <3>1. i \in Somewhere
      BY <2>1, SomewhereIs
    <3>2. ASSUME NEW d \in Chars, d # c, trade'[d] # NoTrade PROVE i \notin trade'[d].items
      <4>1. trade'[d].items = trade[d].items /\ trade[d] # NoTrade
        BY <1>4, <1>8, <1>12, <3>2
      <4>2. i \notin bag[d]
        BY <1>1, <2>1, <3>2 DEF InOnePlace
      <4>. QED BY <1>1, <3>1, <4>1, <4>2 DEF OffersHeld, Offer
    <3>. QED BY <1>11, <1>12, <2>1, <3>1, <3>2
  <2>2. CASE i \notin bag[c] /\ i \in Somewhere
    <3>1. i \notin I /\ i \notin trade[c].items
      BY <1>1, <2>2 DEF OffersHeld, Offer
    <3>2. \A d \in Chars : d # c => (trade'[d] # NoTrade <=> trade[d] # NoTrade)
                                  /\ (trade[d] # NoTrade => trade'[d].items = trade[d].items)
      BY <1>2, <1>4, <1>11, <1>12
    <3>. QED BY <1>1, <1>12, <2>2, <3>1, <3>2 DEF OffersMarked, Offer
  <2>3. CASE i \notin bag[c] /\ i \notin Somewhere
    BY <1>1, <2>3 DEF OffersMarked
  <2>. QED BY <2>1, <2>2, <2>3
<1>15. SeenIsOffered'
  <2> SUFFICES ASSUME NEW d \in Chars, seen'[d] # NoTrade
               PROVE  /\ trade'[d] # NoTrade /\ trade'[d].accept
                      /\ seen'[d].give = trade'[d].items /\ seen'[d].pay = trade'[d].gold
                      /\ DOMAIN seen'[d].get = trade'[trade'[d].with].items
                      /\ seen'[d].receive = trade'[trade'[d].with].gold
                      /\ \A i \in trade'[trade'[d].with].items \cap Somewhere : count[i] >= seen'[d].get[i]
    BY <1>10 DEF SeenIsOffered, Offer, With
  <2>1. d # c /\ d # b /\ seen'[d] = seen[d]
    BY <1>4
  <2>. QED BY <1>1, <1>7, <2>1 DEF SeenIsOffered, Offer, With
<1>. QED BY <1>6, <1>9, <1>13, <1>14, <1>15, TradeWindows

LEMMA AddItemKeeps ==
    ASSUME TradeInv, NEW c \in Chars, NEW i \in bag[c], AddItem(c, i)
    PROVE  WindowsInv'
<1> DEFINE r == [Offer(c) EXCEPT !.items = @ \cup {i}]
<1>1. /\ trade[c] # NoTrade /\ Changed(c, r) /\ exchanging' = exchanging \cup {i}
      /\ UNCHANGED <<on, bag, store, ground, lost, count, box, opening, recent, shop, stand, list, cube>>
  BY DEF AddItem, MayChange, Trading
<1>2. trade[c] \in Offers /\ i \in Items
  BY <1>1, Marks DEF WindowsTypeOK, Held
<1>3. r \in Offers /\ r.with = With(c) /\ r.items = Offer(c).items \cup {i}
  BY <1>2 DEF Offers, Offer, With
<1> HIDE DEF r
<1>4. \A j \in r.items : j \in Somewhere => j \in bag[c]
  BY <1>1, <1>3, Marks DEF OffersHeld
<1>5. \A j : j \in exchanging' <=> IF j \in bag[c] THEN j \in r.items ELSE j \in exchanging
  BY <1>1, <1>3, Marks
<1>. QED BY <1>1, <1>3, <1>4, <1>5, ChangedKeeps

LEMMA RemoveItemKeeps ==
    ASSUME TradeInv, NEW c \in Chars, NEW i \in Items, RemoveItem(c, i)
    PROVE  WindowsInv'
<1> DEFINE r == [Offer(c) EXCEPT !.items = @ \ {i}]
<1>1. /\ trade[c] # NoTrade /\ Changed(c, r) /\ exchanging' = exchanging \ {i} /\ i \in Offer(c).items
      /\ UNCHANGED <<on, bag, store, ground, lost, count, box, opening, recent, shop, stand, list, cube>>
  BY DEF RemoveItem, MayChange, Trading
<1>2. trade[c] \in Offers
  BY <1>1, Marks DEF WindowsTypeOK
<1>3. r \in Offers /\ r.with = With(c) /\ r.items = Offer(c).items \ {i}
  BY <1>2 DEF Offers, Offer, With
<1> HIDE DEF r
<1>4. \A j \in r.items : j \in Somewhere => j \in bag[c]
  BY <1>1, <1>3, Marks DEF OffersHeld
<1>5. i \in bag[c] \/ i \notin exchanging
  BY <1>1, Marks DEF OffersHeld, OffersMarked
<1>6. \A j : j \in exchanging' <=> IF j \in bag[c] THEN j \in r.items ELSE j \in exchanging
  BY <1>1, <1>3, <1>5, Marks
<1>. QED BY <1>1, <1>3, <1>4, <1>6, ChangedKeeps

LEMMA AddGoldKeeps ==
    ASSUME TradeInv, NEW c \in Chars, NEW n \in Amounts, AddGold(c, n)
    PROVE  WindowsInv'
<1> DEFINE r == [Offer(c) EXCEPT !.gold = n]
<1>1. /\ trade[c] # NoTrade /\ Changed(c, r) /\ n \in 1 .. gold[c]
      /\ UNCHANGED <<on, bag, store, ground, lost, count, exchanging, box, opening, recent, shop, stand, list, cube>>
  BY DEF AddGold, MayChange, Trading, things
<1>2. trade[c] \in Offers
  BY <1>1, Marks DEF WindowsTypeOK
<1>3. n \in 0 .. GoldMax - 1
  BY <1>1, InventoryAssumption DEF TradeInv, TradeTypeOK, MoneyTypeOK
<1>4. r \in Offers /\ r.with = With(c) /\ r.items = Offer(c).items
  BY <1>2, <1>3 DEF Offers, Offer, With
<1> HIDE DEF r
<1>5. \A j \in r.items : j \in Somewhere => j \in bag[c]
  BY <1>1, <1>4, Marks DEF OffersHeld
<1>6. \A j : j \in exchanging' <=> IF j \in bag[c] THEN j \in r.items ELSE j \in exchanging
  BY <1>1, <1>4, Marks
<1>. QED BY <1>1, <1>4, <1>5, <1>6, ChangedKeeps

\* What c sees when he accepts first is what he is offered from then on.
LEMMA FirstAcceptKeeps ==
    ASSUME TradeInv, NEW c \in Chars, FirstAccept(c)
    PROVE  WindowsInv'
<1> DEFINE r == [trade[c] EXCEPT !.accept = TRUE]
<1>1. /\ trade[c] # NoTrade /\ c \in on /\ trade' = [trade EXCEPT ![c] = r] /\ seen' = [seen EXCEPT ![c] = Sight(c)]
      /\ UNCHANGED <<on, bag, store, ground, lost, count, exchanging, box, opening, recent, shop, stand, list, cube>>
  BY DEF FirstAccept, Trading, MayTrade, CanHandleItem, things
<1>2. /\ Held /\ OffersHeld /\ OffersMarked /\ OffersTyped /\ WindowsTypeOK /\ OneWindow /\ SeenIsOffered
  BY Marks
<1>3. trade[c] \in Offers
  BY <1>1, <1>2 DEF WindowsTypeOK
<1>4. r \in Offers /\ r.with = trade[c].with /\ r.items = trade[c].items /\ r.gold = trade[c].gold /\ r.accept
  BY <1>3 DEF Offers
<1> HIDE DEF r
<1>5. /\ trade' \in [Chars -> Offers \cup {NoTrade}] /\ trade'[c] = r /\ r # NoTrade
      /\ \A d \in Chars : d # c => trade'[d] = trade[d]
  BY <1>1, <1>2, <1>4, InventoryAssumption DEF WindowsTypeOK
<1>6. \A d \in Chars : trade'[d] # NoTrade <=> trade[d] # NoTrade
  BY <1>1, <1>5
<1>7. \A d \in Chars : trade'[d].with = trade[d].with /\ trade'[d].items = trade[d].items /\ trade'[d].gold = trade[d].gold
  BY <1>4, <1>5
<1>8. With(c) \in Chars /\ trade[With(c)] # NoTrade /\ trade[With(c)].items \subseteq Items /\ trade[With(c)].gold \in 0 .. GoldMax - 1
  BY <1>1, <1>2 DEF OffersHeld, OffersTyped, Offer
<1>9. /\ Sight(c).get = [i \in trade[With(c)].items |-> count[i]] /\ Sight(c).receive = trade[With(c)].gold
      /\ Sight(c).give = trade[c].items /\ Sight(c).pay = trade[c].gold
  BY DEF Sight, Offer
<1>10. Sight(c) \in Sights
  <2>1. [i \in trade[With(c)].items |-> count[i]] \in [trade[With(c)].items -> 0 .. StackMax]
    BY <1>2, <1>8 DEF Held
  <2>2. trade[c].items \in SUBSET Items /\ trade[c].gold \in 0 .. GoldMax - 1
    BY <1>3 DEF Offers
  <2>. QED BY <1>8, <2>1, <2>2 DEF Sight, Sights, Offer
<1>11. /\ seen' \in [Chars -> Sights \cup {NoTrade}] /\ seen'[c] = Sight(c)
       /\ \A d \in Chars : d # c => seen'[d] = seen[d]
  BY <1>1, <1>2, <1>10 DEF WindowsTypeOK
<1>12. Somewhere' = Somewhere
  BY <1>1 DEF Somewhere
<1>13. \A d \in Chars : trade'[d] # NoTrade => d \in on /\ ~OtherWindow(d)
  BY <1>2, <1>6 DEF WindowsTypeOK, OneWindow
<1>14. OffersHeld'
  <2> SUFFICES ASSUME NEW d \in Chars, trade'[d] # NoTrade
               PROVE  /\ trade'[trade'[d].with] # NoTrade /\ trade'[trade'[d].with].with = d /\ trade'[d].with # d
                      /\ \A i \in trade'[d].items : i \in Somewhere => i \in bag[d]
    BY <1>1, <1>12 DEF OffersHeld, Offer, With
  <2>1. trade[d].with \in Chars
    BY <1>2, <1>6 DEF OffersTyped, With
  <2>. QED BY <1>2, <1>6, <1>7, <2>1 DEF OffersHeld, Offer, With
<1>15. OffersMarked'
  <2> SUFFICES ASSUME NEW i
               PROVE  i \in exchanging' <=> i \in Somewhere /\ \E d \in Chars : trade'[d] # NoTrade /\ i \in trade'[d].items
    BY <1>12 DEF OffersMarked, Offer
  <2>. QED BY <1>1, <1>2, <1>6, <1>7 DEF OffersMarked, Offer
<1>16. SeenIsOffered'
  <2> SUFFICES ASSUME NEW d \in Chars, seen'[d] # NoTrade
               PROVE  /\ trade'[d] # NoTrade /\ trade'[d].accept
                      /\ seen'[d].give = trade'[d].items /\ seen'[d].pay = trade'[d].gold
                      /\ DOMAIN seen'[d].get = trade'[trade'[d].with].items
                      /\ seen'[d].receive = trade'[trade'[d].with].gold
                      /\ \A i \in trade'[trade'[d].with].items \cap Somewhere : count[i] >= seen'[d].get[i]
    BY <1>1, <1>12 DEF SeenIsOffered, Offer, With
  <2>1. CASE d = c
    <3>1. trade'[c].with = With(c) /\ trade'[c].accept /\ trade'[c] # NoTrade
      BY <1>4, <1>5 DEF With
    <3>2. \A i \in trade[With(c)].items : count[i] \in Int
      BY <1>2, <1>8 DEF Held
    <3>. QED BY <1>7, <1>8, <1>9, <1>11, <2>1, <3>1, <3>2
  <2>2. CASE d # c
    <3>1. seen[d] # NoTrade /\ seen'[d] = seen[d] /\ trade'[d] = trade[d]
      BY <1>5, <1>11, <2>2
    <3>2. trade[d] # NoTrade /\ With(d) \in Chars
      BY <1>2, <3>1 DEF SeenIsOffered, OffersTyped
    <3>. QED BY <1>2, <1>7, <3>1, <3>2 DEF SeenIsOffered, Offer, With
  <2>. QED BY <2>1, <2>2
<1>. QED BY <1>1, <1>5, <1>11, <1>13, <1>14, <1>15, <1>16, TradeWindows

\* The end of c's exchange: both sides' windows close, the others stay as they were,
\* and what the others offer is what is marked.
EndedAt(c) ==
    /\ With(c) \in Chars /\ With(c) # c /\ trade[With(c)] # NoTrade /\ With(With(c)) = c
    /\ trade' \in [Chars -> Offers \cup {NoTrade}] /\ seen' \in [Chars -> Sights \cup {NoTrade}]
    /\ \A d \in {c, With(c)} : trade'[d] = NoTrade /\ seen'[d] = NoTrade
    /\ \A d \in Chars \ {c, With(c)} :
          /\ trade'[d] = trade[d] /\ seen'[d] = seen[d]
          /\ trade[d] # NoTrade => /\ With(d) \in Chars \ {c, With(c)}
                                   /\ trade'[With(d)] = trade[With(d)]
    /\ \A i : i \in exchanging' <=> i \in Somewhere /\ \E d \in Chars : trade'[d] # NoTrade /\ i \in trade'[d].items

LEMMA OverEnds ==
    ASSUME TradeInv, NEW c \in Chars, trade[c] # NoTrade, Over(c)
    PROVE  EndedAt(c)
<1> DEFINE b == With(c)
<1>1. /\ Held /\ OffersHeld /\ OffersMarked /\ OffersTyped /\ WindowsTypeOK
      /\ \A d, e \in Chars : trade[d] # NoTrade /\ trade[e] # NoTrade /\ d # e =>
             \A i : i \in Offer(d).items /\ i \in Offer(e).items => i \notin Somewhere
  BY Marks
<1>2. b \in Chars /\ b # c /\ trade[b] # NoTrade /\ With(b) = c
  BY <1>1 DEF OffersHeld, OffersTyped
<1>3. /\ trade' = [trade EXCEPT ![c] = NoTrade, ![b] = NoTrade] /\ seen' = [seen EXCEPT ![c] = NoTrade, ![b] = NoTrade]
      /\ exchanging' = exchanging \ (Offer(c).items \cup Offer(b).items)
  BY DEF Over, Released
<1> HIDE DEF b
<1>4. /\ trade' \in [Chars -> Offers \cup {NoTrade}] /\ seen' \in [Chars -> Sights \cup {NoTrade}]
      /\ trade'[c] = NoTrade /\ trade'[b] = NoTrade /\ seen'[c] = NoTrade /\ seen'[b] = NoTrade
      /\ \A d \in Chars \ {c, b} : trade'[d] = trade[d] /\ seen'[d] = seen[d]
  BY <1>1, <1>2, <1>3 DEF WindowsTypeOK
<1>5. \A d \in Chars \ {c, b} : trade[d] # NoTrade => With(d) \in Chars \ {c, b} /\ trade'[With(d)] = trade[With(d)]
  BY <1>1, <1>2, <1>4 DEF OffersHeld, OffersTyped, b
<1>6. ASSUME NEW i
      PROVE  i \in exchanging' <=> i \in Somewhere /\ \E d \in Chars : trade'[d] # NoTrade /\ i \in trade'[d].items
  <2>1. CASE i \in exchanging'
    <3>1. i \in Somewhere /\ i \notin Offer(c).items /\ i \notin Offer(b).items
      BY <1>1, <1>3, <2>1 DEF OffersMarked
    <3>2. PICK d \in Chars : trade[d] # NoTrade /\ i \in Offer(d).items
      BY <1>1, <1>3, <2>1 DEF OffersMarked
    <3>. QED BY <1>4, <2>1, <3>1, <3>2 DEF Offer
  <2>2. CASE i \in Somewhere /\ \E d \in Chars : trade'[d] # NoTrade /\ i \in trade'[d].items
    <3>1. PICK d \in Chars : trade'[d] # NoTrade /\ i \in trade'[d].items
      BY <2>2
    <3>2. d # c /\ d # b /\ trade[d] # NoTrade /\ i \in Offer(d).items
      BY <1>4, <3>1 DEF Offer
    <3>3. i \notin Offer(c).items /\ i \notin Offer(b).items
      BY <1>1, <1>2, <2>2, <3>2
    <3>. QED BY <1>1, <1>3, <2>2, <3>2, <3>3 DEF OffersMarked
  <2>. QED BY <2>1, <2>2
<1>. QED BY <1>2, <1>4, <1>5, <1>6 DEF EndedAt, b

\* What the others offer is theirs as long as nothing of theirs changes.
LEMMA EndedKeeps ==
    ASSUME TradeInv, NEW c \in Chars, EndedAt(c), Somewhere' = Somewhere, count' = count,
           \A d \in Chars \ {c, With(c)} : bag'[d] = bag[d]
    PROVE  OffersAreHeld' /\ SeenIsOffered'
<1>1. OffersHeld /\ OffersTyped /\ SeenIsOffered
  BY Marks
<1>2. OffersHeld'
  <2> SUFFICES ASSUME NEW d \in Chars, trade'[d] # NoTrade
               PROVE  /\ trade'[trade'[d].with] # NoTrade /\ trade'[trade'[d].with].with = d /\ trade'[d].with # d
                      /\ \A i \in trade'[d].items : i \in Somewhere => i \in bag'[d]
    BY DEF OffersHeld, Offer, With
  <2>1. /\ d \in Chars \ {c, With(c)} /\ trade[d] # NoTrade /\ trade'[d] = trade[d]
        /\ trade'[With(d)] = trade[With(d)] /\ bag'[d] = bag[d]
    BY DEF EndedAt
  <2>. QED BY <1>1, <2>1 DEF OffersHeld, Offer, With
<1>3. OffersMarked'
  BY DEF OffersMarked, EndedAt, Offer
<1>4. SeenIsOffered'
  <2> SUFFICES ASSUME NEW d \in Chars, seen'[d] # NoTrade
               PROVE  /\ trade'[d] # NoTrade /\ trade'[d].accept
                      /\ seen'[d].give = trade'[d].items /\ seen'[d].pay = trade'[d].gold
                      /\ DOMAIN seen'[d].get = trade'[trade'[d].with].items
                      /\ seen'[d].receive = trade'[trade'[d].with].gold
                      /\ \A i \in trade'[trade'[d].with].items \cap Somewhere : count[i] >= seen'[d].get[i]
    BY DEF SeenIsOffered, Offer, With
  <2>1. d \in Chars \ {c, With(c)} /\ trade'[d] = trade[d] /\ seen'[d] = seen[d]
    BY DEF EndedAt
  <2>2. trade[d] # NoTrade
    BY <1>1, <2>1 DEF SeenIsOffered
  <2>3. trade'[With(d)] = trade[With(d)]
    BY <2>1, <2>2 DEF EndedAt
  <2>. QED BY <1>1, <2>1, <2>2, <2>3 DEF SeenIsOffered, Offer, With
<1>. QED BY <1>2, <1>3, <1>4, OffersAre

LEMMA OverKeeps ==
    ASSUME TradeInv, NEW c \in Chars, Cancel(c) \/ WalkAway(c)
    PROVE  WindowsInv'
<1>1. /\ trade[c] # NoTrade /\ Over(c)
      /\ UNCHANGED <<on, bag, store, ground, lost, count, box, opening, recent, shop, stand, list, cube>>
  BY DEF Cancel, WalkAway, Trading
<1>2. EndedAt(c)
  BY <1>1, OverEnds
<1>3. Somewhere' = Somewhere
  BY <1>1 DEF Somewhere
<1>4. OffersAreHeld' /\ SeenIsOffered'
  BY <1>1, <1>2, <1>3, EndedKeeps
<1>5. \A d \in Chars : trade'[d] # NoTrade => d \in on /\ ~OtherWindow(d)
  BY <1>2, Marks DEF EndedAt, WindowsTypeOK, OneWindow
<1>6. trade' \in [Chars -> Offers \cup {NoTrade}] /\ seen' \in [Chars -> Sights \cup {NoTrade}]
  BY <1>2 DEF EndedAt
<1>. QED BY <1>1, <1>4, <1>5, <1>6, OffersAre, TradeWindows

\* Death and disconnection end everything at once.
LEMMA PartKeeps ==
    ASSUME TradeInv, NEW c \in Chars, Part(c), Somewhere' = Somewhere, count' = count,
           \A d \in Chars \ {c} : bag'[d] = bag[d]
    PROVE  /\ OffersAreHeld' /\ SeenIsOffered'
           /\ trade' \in [Chars -> Offers \cup {NoTrade}] /\ seen' \in [Chars -> Sights \cup {NoTrade}]
           /\ trade'[c] = NoTrade /\ \A d \in Chars : trade'[d] # NoTrade => trade[d] # NoTrade
<1>1. CASE trade[c] = NoTrade
  <2>1. UNCHANGED <<trade, seen, exchanging>>
    BY <1>1 DEF Part
  <2>2. \A d \in Chars : trade[d] # NoTrade => bag'[d] = bag[d]
    BY <1>1
  <2>. QED BY <1>1, <2>1, <2>2, OffersStay, Marks DEF WindowsTypeOK
<1>2. CASE trade[c] # NoTrade
  <2>1. EndedAt(c)
    BY <1>2, OverEnds DEF Part
  <2>. QED BY <1>2, <2>1, EndedKeeps DEF EndedAt
<1>. QED BY <1>1, <1>2

\* What a death makes fall leaves one inventory for the ground, or is lost.
LEMMA DeadDrops ==
    ASSUME TradeInv, NEW c \in Chars, NEW landed \in SUBSET bag[c], NEW missed \in SUBSET (bag[c] \ landed),
           Dead(c, landed, missed)
    PROVE  /\ ThingsInv' /\ Somewhere' = Somewhere /\ count' = count
           /\ \A d \in Chars \ {c} : bag'[d] = bag[d]
<1>1. Held /\ InOnePlace /\ ThingsTypeOK /\ PiecesKept
  BY HeldHolds DEF TradeInv, TradeTypeOK, Conserved
<1>2. /\ bag' = [bag EXCEPT ![c] = @ \ (landed \cup missed)]
      /\ ground' = ground \cup landed /\ lost' = lost \cup missed
      /\ store' = store /\ count' = count /\ made' = made
  BY DEF Dead, ItemDropPenalty, Drop
<1>3. /\ bag'[c] = bag[c] \ (landed \cup missed) /\ \A d \in Chars \ {c} : bag'[d] = bag[d]
      /\ bag' \in [Chars -> SUBSET Items]
  BY <1>1, <1>2 DEF Held
<1>4. \A i : i \in Somewhere' <=> i \in Somewhere
  BY <1>2, <1>3, SomewhereIs
<1>5. Somewhere' = Somewhere
  BY <1>4
<1>6. InOnePlace'
  BY <1>1, <1>2, <1>3, <1>5 DEF InOnePlace
<1>7. ThingsTypeOK'
  <2>1. Fits
    BY <1>1, <1>3 DEF Fits
  <2>. QED BY <1>1, <1>2, <1>3, <2>1, BagsFit DEF ThingsTypeOK, Held
<1>8. PiecesKept'
  BY <1>1, <1>2 DEF PiecesKept
<1>. QED BY <1>2, <1>3, <1>5, <1>6, <1>7, <1>8 DEF ThingsInv

\* Who dies or leaves: what the step does to all the windows.
Ends(c) ==
    \/ Disconnect(c)
    \/ \E landed \in SUBSET bag[c] : \E missed \in SUBSET (bag[c] \ landed) : Dead(c, landed, missed)

LEMMA EndThings ==
    ASSUME TradeInv, NEW c \in Chars, Ends(c)
    PROVE  /\ ThingsInv' /\ Somewhere' = Somewhere /\ count' = count
           /\ \A d \in Chars \ {c} : bag'[d] = bag[d]
<1>1. CASE Disconnect(c)
  <2>1. UNCHANGED <<bag, store, ground, lost, count, made>>
    BY <1>1 DEF Disconnect
  <2>2. ThingsInv /\ Somewhere' = Somewhere
    BY <2>1, ThreeParts DEF Somewhere
  <2>. QED BY <2>1, <2>2 DEF ThingsInv, ThingsTypeOK, PiecesKept, InOnePlace
<1>. QED BY <1>1, DeadDrops DEF Ends

LEMMA EndKeeps ==
    ASSUME TradeInv, NEW c \in Chars, Ends(c)
    PROVE  WindowsInv'
<1>1. /\ c \in on /\ Part(c) /\ cube' = cube \ {c} /\ stand' = stand \ {c}
      /\ list' = [d \in Chars |-> IF d = c THEN NoSale ELSE list[d]]
      /\ shop' = [g \in Chars |-> IF g = c \/ shop[g] = c THEN NoShop ELSE shop[g]]
      /\ box' = box \ {c}
  BY DEF Ends, Dead, Disconnect, Leave, Unstand, Shut
<1>0. Somewhere' = Somewhere /\ count' = count /\ \A d \in Chars \ {c} : bag'[d] = bag[d]
  BY EndThings
<1>2. /\ OffersAreHeld' /\ SeenIsOffered'
      /\ trade' \in [Chars -> Offers \cup {NoTrade}] /\ seen' \in [Chars -> Sights \cup {NoTrade}]
      /\ trade'[c] = NoTrade /\ \A d \in Chars : trade'[d] # NoTrade => trade[d] # NoTrade
  BY <1>0, <1>1, PartKeeps
<1>3. WindowsTypeOK /\ OneWindow
  BY Marks
<1>4. ListedIsHeld'
  <2>1. \A d \in Chars : \A i \in DOMAIN list'[d] :
           i \in DOMAIN list[d] /\ list'[d][i] = list[d][i] /\ bag'[d] = bag[d]
    BY <1>0, <1>1 DEF NoSale
  <2>. QED BY <1>0, <2>1, ListsStay
<1>5. OneWindow'
  BY <1>1, <1>2, <1>3, InventoryAssumption DEF OneWindow, OtherWindow
<1>6. /\ on' \in {on, on \ {c}} /\ box' \subseteq opening' /\ opening' \subseteq on' /\ recent' \subseteq on'
      /\ on' = on \ {c} \/ on' = on
  BY <1>1, <1>3 DEF Ends, Dead, Disconnect, Shut, WindowsTypeOK
<1>7. cube' \subseteq on' /\ stand' \subseteq on'
  BY <1>1, <1>3, <1>6 DEF WindowsTypeOK
<1>8. shop' \in [Chars -> stand' \cup {Keeper, NoShop}] /\ \A d \in Chars : trade'[d] # NoTrade \/ shop'[d] # NoShop => d \in on'
  BY <1>1, <1>2, <1>3, <1>6 DEF WindowsTypeOK
<1>9. list' \in [Chars -> Sales] /\ \A d \in Chars \ stand' : list'[d] = NoSale
  BY <1>1, <1>3, NoSaleIsOne DEF WindowsTypeOK
<1>10. WindowsTypeOK'
  BY <1>2, <1>6, <1>7, <1>8, <1>9 DEF WindowsTypeOK
<1>. QED BY <1>2, <1>4, <1>5, <1>10 DEF WindowsInv

\* Death, disconnection, the safebox's closing and logging in leave the gold alone;
\* who leaves is saved.
LEMMA EndPays ==
    ASSUME TradeInv, NEW c \in Chars, Ends(c) \/ Login(c) \/ CloseSafebox(c)
    PROVE  MoneyInv'
<1>1. MoneyTypeOK /\ GoldKept /\ PayerIsSaved /\ WindowsTypeOK
  BY ThreeParts DEF MoneyInv, WindowsInv
<1>2. UNCHANGED <<gold, coins, burnt, till>>
  BY DEF Ends, Dead, Disconnect, Login, CloseSafebox, money
<1>3. GoldKept'
  BY <1>1, <1>2 DEF GoldKept
<1>4. MoneyTypeOK' /\ PayerIsSaved'
  <2>1. ASSUME NEW landed, NEW missed, Dead(c, landed, missed) PROVE MoneyTypeOK' /\ PayerIsSaved'
    BY <1>1, <1>2, <2>1 DEF Dead, Shut, MoneyTypeOK, PayerIsSaved, WindowsTypeOK
  <2>2. CASE Disconnect(c)
    BY <1>1, <1>2, <2>2 DEF Disconnect, MoneyTypeOK, PayerIsSaved
  <2>3. CASE Login(c)
    BY <1>1, <1>2, <2>3 DEF Login, money, MoneyTypeOK, PayerIsSaved
  <2>4. CASE CloseSafebox(c)
    BY <1>1, <1>2, <2>4 DEF CloseSafebox, Shut, MoneyTypeOK, PayerIsSaved, WindowsTypeOK
  <2>. QED BY <2>1, <2>2, <2>3, <2>4 DEF Ends
<1>. QED BY <1>3, <1>4 DEF MoneyInv

LEMMA LoginKeeps ==
    ASSUME TradeInv, NEW c \in Chars, Login(c)
    PROVE  ThingsInv' /\ WindowsInv'
<1>1. /\ on' = on \cup {c} /\ UNCHANGED <<bag, store, ground, lost, count, exchanging, made>>
      /\ UNCHANGED <<trade, box, opening, recent, shop, stand, list, cube, seen>>
  BY DEF Login, things, windows
<1>2. ThingsInv /\ WindowsInv
  BY ThreeParts
<1>3. ThingsInv'
  BY <1>1, <1>2 DEF ThingsInv, ThingsTypeOK, PiecesKept, InOnePlace, Somewhere
<1>4. WindowsTypeOK' /\ OneWindow'
  BY <1>1, <1>2 DEF WindowsInv, WindowsTypeOK, OneWindow, OtherWindow
<1>5. OffersAreHeld' /\ SeenIsOffered' /\ ListedIsHeld'
  BY <1>1, OffersStayWithThings, ListsStayWithThings, <1>2 DEF things, WindowsInv
<1>. QED BY <1>3, <1>4, <1>5 DEF WindowsInv

-----------------------------------------------------------------------------
\* The exchange carried out.

\* What is swapped: each side's offer, which he has, for the other's.
Swap(a, b) ==
    /\ Offer(a).items \subseteq bag[a] /\ Offer(b).items \subseteq bag[b]
    /\ bag'[a] = (bag[a] \ Offer(a).items) \cup Offer(b).items
    /\ bag'[b] = (bag[b] \ Offer(b).items) \cup Offer(a).items
    /\ \A d \in Chars \ {a, b} : bag'[d] = bag[d]
    /\ bag' = [d \in Chars |-> bag'[d]]

\* The offers are disjoint from what the other side keeps, so the swap fits in the
\* cells: CheckSpace counts the items to come and not the ones that go.
LEMMA SwapFits ==
    ASSUME TradeInv, NEW a \in Chars, NEW b \in Chars, Swap(a, b), a # b,
           Cardinality(bag[a]) + Cardinality(Offer(b).items) <= Cells
    PROVE  Cardinality(bag'[a]) <= Cells
<1>1. /\ IsFiniteSet(bag[a]) /\ IsFiniteSet(bag[b]) /\ Cardinality(bag[a]) \in Nat
  BY BagSize DEF TradeInv, TradeTypeOK
<1>2. IsFiniteSet(bag[a] \ Offer(a).items) /\ Cardinality(bag[a] \ Offer(a).items) <= Cardinality(bag[a])
  BY <1>1, FS_Subset
<1>3. IsFiniteSet(Offer(b).items)
  BY <1>1, FS_Subset DEF Swap
<1>4. /\ Cardinality(Offer(b).items) \in Nat /\ Cardinality(bag[a] \ Offer(a).items) \in Nat
      /\ Cardinality((bag[a] \ Offer(a).items) \cap Offer(b).items) \in Nat
  BY <1>2, <1>3, FS_CardinalityType, FS_Subset
<1>5. Cardinality((bag[a] \ Offer(a).items) \cup Offer(b).items)
        = Cardinality(bag[a] \ Offer(a).items) + Cardinality(Offer(b).items)
            - Cardinality((bag[a] \ Offer(a).items) \cap Offer(b).items)
  BY <1>2, <1>3, FS_Union
<1>6. Cardinality((bag[a] \ Offer(a).items) \cup Offer(b).items) <= Cells
  BY <1>1, <1>2, <1>4, <1>5, InventoryAssumption
<1>. QED BY <1>6 DEF Swap

LEMMA SwapKeeps ==
    ASSUME TradeInv, NEW a \in Chars, NEW b \in Chars, a # b, Swap(a, b),
           UNCHANGED <<store, ground, lost, count, made>>, \A c \in Chars : Cardinality(bag'[c]) <= Cells
    PROVE  ThingsInv' /\ Somewhere' = Somewhere
<1>1. Held /\ InOnePlace /\ ThingsTypeOK /\ PiecesKept
  BY HeldHolds DEF TradeInv, TradeTypeOK, Conserved
<1>2. \A i : i \in Somewhere' <=> i \in Somewhere
  BY <1>1, SomewhereIs DEF Swap
<1>3. InOnePlace'
  <2>1. \A i : i \in bag'[a] \/ i \in bag'[b] <=> i \in bag[a] \/ i \in bag[b]
    BY DEF Swap
  <2>2. \A i : ~(i \in bag'[a] /\ i \in bag'[b])
    BY <1>1 DEF Swap, InOnePlace
  <2>0. store' = store /\ ground' = ground /\ lost' = lost
    OBVIOUS
  <2>3. \A c, d \in Chars : \A i \in bag'[c] : i \notin store'[d] /\ i \notin ground' /\ i \notin lost' /\ (c # d => i \notin bag'[d])
    BY <1>1, <2>0, <2>1, <2>2 DEF Swap, InOnePlace
  <2>4. \A i \in Items : count'[i] > 0 <=> i \in Somewhere'
    BY <1>1, <1>2 DEF InOnePlace
  <2>5. ASSUME NEW c \in Chars, NEW d \in Chars
        PROVE  /\ bag'[c] \cap store'[d] = {} /\ (bag'[c] \cup store'[c]) \cap (ground' \cup lost') = {}
               /\ c # d => bag'[c] \cap bag'[d] = {} /\ store'[c] \cap store'[d] = {}
    <3>1. store'[c] \cap (ground' \cup lost') = {} /\ (c # d => store'[c] \cap store'[d] = {})
      BY <1>1, <2>0 DEF InOnePlace
    <3>. QED BY <2>3, <3>1
  <2>6. ground' \cap lost' = {}
    BY <1>1, <2>0 DEF InOnePlace
  <2>. QED BY <2>4, <2>5, <2>6 DEF InOnePlace
<1>4. bag' \in [Chars -> SUBSET Items]
  BY <1>1 DEF Swap, Held
<1>5. ThingsTypeOK' /\ PiecesKept'
  BY <1>1, <1>4 DEF ThingsTypeOK, PiecesKept
<1>. QED BY <1>2, <1>3, <1>5, SomewhereIs DEF ThingsInv, Somewhere

\* What is paid, a first: nobody pays more than he has, and what GOLD_MAX refuses is
\* burnt.
LEMMA SwapPays ==
    ASSUME TradeInv, NEW a \in Chars, NEW b \in Chars, a # b, a \in on, b \in on,
           trade[a] # NoTrade, trade[b] # NoTrade,
           gold[a] >= Offer(a).gold, gold[b] >= Offer(b).gold,
           gold' = AfterDone(a, b), burnt' = burnt + Vanished(a, b), Save(Payers(a, b)),
           UNCHANGED <<on, row, coins, till>>
    PROVE  /\ MoneyInv'
           /\ gold'[a] = Paid(gold[a] - Offer(a).gold, Offer(b).gold)
           /\ gold'[b] = Paid(gold[b], Offer(a).gold) - Offer(b).gold
<1> DEFINE A == Offer(a).gold
           B == Offer(b).gold
           g == [gold EXCEPT ![a] = @ - A, ![b] = Paid(@, A)]
<1>1. MoneyInv /\ MoneyTypeOK /\ PayerIsSaved
  BY ThreeParts DEF MoneyInv
<1>2. A \in Nat /\ B \in Nat
  BY Marks DEF OffersTyped
<1>3. gold' = [g EXCEPT ![b] = @ - B, ![a] = Paid(@, B)]
  BY DEF AfterDone
<1>4. Vanished(a, b) = Lost(gold[b], A) + Lost(gold[a] - A, B) /\ gold[a] >= A /\ gold[b] >= B
  BY DEF Vanished
<1>5. delayed' = delayed \cup {c \in {a, b} : Offer(c).gold > 0}
  BY DEF Save, Payers
<1>6. /\ gold[a] \in 0 .. GoldMax - 1 /\ gold[b] \in 0 .. GoldMax - 1 /\ GoldMax \in Nat
      /\ burnt \in Nat /\ coins \in Nat /\ till \in Int
  BY <1>1, InventoryAssumption DEF MoneyTypeOK
<1> HIDE DEF A, B
<1>7. /\ g[a] = gold[a] - A /\ g[b] = Paid(gold[b], A) /\ \A d \in Chars : d # a /\ d # b => g[d] = gold[d]
      /\ DOMAIN g = Chars
  BY <1>1 DEF MoneyTypeOK
<1> HIDE DEF g
<1>8. /\ gold'[a] = Paid(gold[a] - A, B) /\ gold'[b] = Paid(gold[b], A) - B
      /\ \A d \in Chars : d # a /\ d # b => gold'[d] = gold[d]
      /\ gold' = [d \in Chars |-> gold'[d]]
  BY <1>3, <1>7
<1>9. /\ Paid(gold[b], A) \in gold[b] .. GoldMax - 1 /\ Lost(gold[b], A) \in Nat
      /\ Paid(gold[b], A) + Lost(gold[b], A) = gold[b] + A
      /\ Paid(gold[a] - A, B) \in gold[a] - A .. GoldMax - 1 /\ Lost(gold[a] - A, B) \in Nat
      /\ Paid(gold[a] - A, B) + Lost(gold[a] - A, B) = gold[a] - A + B
  BY <1>2, <1>4, <1>6 DEF Paid, Lost, Takes
<1>10. gold'[a] \in 0 .. GoldMax - 1 /\ gold'[b] \in 0 .. GoldMax - 1
  BY <1>2, <1>4, <1>6, <1>8, <1>9
<1>11. gold' \in [Chars -> 0 .. GoldMax - 1]
  BY <1>1, <1>8, <1>10 DEF MoneyTypeOK
<1>12. MoneyTypeOK'
  BY <1>1, <1>4, <1>5, <1>6, <1>9, <1>11 DEF MoneyTypeOK
<1>13. ChangedAt(gold, gold', Chars, a, b)
  BY <1>1, <1>8, <1>11, InventoryAssumption DEF ChangedAt, MoneyTypeOK
<1>14. (gold'[a] - gold[a]) + (IF a = b THEN 0 ELSE gold'[b] - gold[b])
         + (coins' - coins) + (burnt' - burnt) + (till' - till) = 0
  BY <1>2, <1>4, <1>6, <1>8, <1>9
<1>15. GoldKept'
  BY <1>1, <1>12, <1>13, <1>14, GoldMoved DEF MoneyTypeOK
<1>16. PayerIsSaved'
  <2> SUFFICES ASSUME NEW c \in Chars, row[c] > gold'[c] PROVE c \in delayed'
    BY DEF PayerIsSaved
  <2>1. row[c] \in Int /\ gold[c] \in Int
    BY <1>1 DEF MoneyTypeOK
  <2>2. CASE row[c] > gold[c]
    BY <1>1, <1>5, <2>2 DEF PayerIsSaved
  <2>3. CASE c = a /\ gold'[a] < gold[a]
    <3>1. A > 0
      BY <1>2, <1>4, <1>6, <1>8, <1>9, <2>3
    <3>. QED BY <1>5, <2>3, <3>1 DEF A
  <2>4. CASE c = b /\ gold'[b] < gold[b]
    <3>1. B > 0
      BY <1>2, <1>4, <1>6, <1>8, <1>9, <2>4
    <3>. QED BY <1>5, <2>4, <3>1 DEF B
  <2>. QED BY <1>8, <1>10, <2>1, <2>2, <2>3, <2>4
<1>. QED BY <1>8, <1>12, <1>15, <1>16 DEF MoneyInv, A, B

LEMMA SecondAcceptKeeps ==
    ASSUME TradeInv, NEW c \in Chars, NEW linked \in BOOLEAN, SecondAccept(c, linked)
    PROVE  TradeInv'
<1> DEFINE b == With(c)
<1>1. /\ trade[c] # NoTrade /\ c \in on /\ Over(c)
      /\ UNCHANGED <<on, row, store, ground, lost, coins, count, box, opening, recent, shop, stand, list, cube, till, made>>
  BY DEF SecondAccept, Trading, MayTrade, CanHandleItem
<1>2. EndedAt(c)
  BY <1>1, OverEnds
<1>3. /\ Held /\ InOnePlace /\ OffersHeld /\ WindowsTypeOK /\ OneWindow
  BY Marks
<1>4. b \in Chars /\ b # c /\ trade[b] # NoTrade /\ With(b) = c /\ b \in on /\ c \notin stand /\ b \notin stand
  BY <1>1, <1>2, <1>3 DEF EndedAt, WindowsTypeOK, OneWindow, OtherWindow
<1>5. ThingsInv /\ WindowsInv /\ MoneyInv /\ SalesTyped
  BY ThreeParts, WindowTypes DEF WindowsInv
<1>6. MoneyInv' /\ ThingsInv' /\ Somewhere' = Somewhere /\ \A d \in Chars \ {c, b} : bag'[d] = bag[d]
  <2>1. CASE Check(c) /\ CheckSpace(c) /\ Check(b) /\ CheckSpace(b) /\ linked
    <3>1. Done(c, b)
      BY <2>1 DEF SecondAccept
    <3>2. bag' = [bag EXCEPT ![c] = (@ \ Offer(c).items) \cup Offer(b).items,
                             ![b] = (@ \ Offer(b).items) \cup Offer(c).items]
      BY <3>1 DEF Done
    <3>3. /\ gold' = AfterDone(c, b) /\ burnt' = burnt + Vanished(c, b) /\ Save(Payers(c, b))
      BY <3>1 DEF Done
    <3>4. /\ Offer(c).items \subseteq bag[c] /\ Offer(b).items \subseteq bag[b]
          /\ gold[c] >= Offer(c).gold /\ gold[b] >= Offer(b).gold
      BY <2>1 DEF Check
    <3>5. Cardinality(bag[b]) + Cardinality(Offer(c).items) <= Cells
      BY <2>1 DEF CheckSpace
    <3>6. Cardinality(bag[c]) + Cardinality(Offer(b).items) <= Cells
      BY <1>4, <2>1 DEF CheckSpace
    <3> HIDE DEF b
    <3>7. Swap(c, b) /\ Swap(b, c)
      BY <1>3, <1>4, <3>2, <3>4 DEF Swap, Held
    <3>8. Cardinality(bag'[c]) <= Cells /\ Cardinality(bag'[b]) <= Cells
      BY <1>4, <3>5, <3>6, <3>7, SwapFits
    <3>9. \A d \in Chars : Cardinality(bag'[d]) <= Cells
      BY <1>5, <3>7, <3>8 DEF Swap, ThingsInv, ThingsTypeOK
    <3>10. ThingsInv' /\ Somewhere' = Somewhere
      BY <1>1, <1>4, <3>7, <3>9, SwapKeeps
    <3>11. MoneyInv'
      BY <1>1, <1>4, <3>3, <3>4, SwapPays
    <3>. QED BY <3>7, <3>10, <3>11 DEF Swap
  <2>2. CASE ~(Check(c) /\ CheckSpace(c) /\ Check(b) /\ CheckSpace(b) /\ linked)
    <3>1. UNCHANGED <<bag, gold, burnt, delayed>>
      BY <2>2 DEF SecondAccept
    <3>2. MoneyInv'
      BY <1>1, <1>5, <3>1 DEF MoneyInv, MoneyTypeOK, GoldKept, PayerIsSaved
    <3>3. ThingsInv' /\ Somewhere' = Somewhere
      BY <1>1, <1>5, <3>1 DEF ThingsInv, ThingsTypeOK, PiecesKept, InOnePlace, Somewhere
    <3>. QED BY <3>1, <3>2, <3>3
  <2>. QED BY <2>1, <2>2
<1>7. OffersAreHeld' /\ SeenIsOffered'
  BY <1>1, <1>2, <1>6, EndedKeeps
<1> HIDE DEF b
<1>8. ListedIsHeld'
  <2> SUFFICES ASSUME NEW d \in Chars, NEW i \in DOMAIN list[d]
               PROVE  (i \in bag'[d] /\ count[i] >= list[d][i].count) \/ i \in Perishable \ Somewhere
    BY <1>1, <1>6 DEF ListedIsHeld
  <2>1. d # c /\ d # b
    BY <1>4, <1>5 DEF SalesTyped
  <2>. QED BY <1>5, <1>6, <2>1 DEF WindowsInv, ListedIsHeld
<1>9. WindowsTypeOK' /\ OneWindow'
  BY <1>1, <1>2, <1>3 DEF EndedAt, WindowsTypeOK, OneWindow, OtherWindow
<1>. QED BY <1>6, <1>7, <1>8, <1>9, ThreeParts DEF WindowsInv

-----------------------------------------------------------------------------
\* A sale at a character's shop.

LEMMA BuyFromShopKeeps ==
    ASSUME TradeInv, NEW c \in Chars, NEW g \in Chars, NEW i \in DOMAIN list[c], BuyFromShop(g, c, i)
    PROVE  ThingsInv' /\ WindowsInv'
<1>1. /\ shop[g] = c /\ i \in bag[c] /\ HasCell(g)
      /\ bag' = [[bag EXCEPT ![c] = @ \ {i}] EXCEPT ![g] = @ \cup {i}]
      /\ list' = [list EXCEPT ![c] = [j \in DOMAIN @ \ {i} |-> @[j]]]
      /\ UNCHANGED <<on, store, ground, lost, count, exchanging, made>>
      /\ UNCHANGED <<trade, box, opening, recent, shop, stand, cube, seen>>
  BY DEF BuyFromShop, StillThere
<1>2. /\ Held /\ InOnePlace /\ OffersHeld /\ OffersMarked /\ OffersTyped /\ WindowsTypeOK /\ OneWindow
      /\ SeenIsOffered
  BY Marks
<1>3. ThingsInv /\ WindowsInv /\ SalesTyped
  BY ThreeParts, WindowTypes DEF WindowsInv
<1>4. c \in stand /\ trade[c] = NoTrade /\ trade[g] = NoTrade /\ i \in Items
  BY <1>1, <1>2, <1>3, InventoryAssumption DEF SalesTyped, OneWindow, OtherWindow
<1>5. /\ \A d \in Chars : d # c /\ d # g => bag'[d] = bag[d]
      /\ bag'[g] = bag[g] \cup {i} /\ (c # g => bag'[c] = bag[c] \ {i})
      /\ bag' \in [Chars -> SUBSET Items]
  BY <1>1, <1>2, <1>4 DEF Held
<1>6. Somewhere' = Somewhere
  <2>1. \A j : (\E d \in Chars : j \in bag'[d]) <=> \E d \in Chars : j \in bag[d]
    BY <1>1, <1>5
  <2>2. \A j : j \in Somewhere' <=> j \in Somewhere
    BY <1>1, <2>1, SomewhereIs
  <2>. QED BY <2>2 DEF Somewhere
<1>7. ThingsInv'
  <2>1. Fits
    BY <1>1, <1>4, <1>5 DEF Fits
  <2>2. \A d \in Chars : Cardinality(bag'[d]) <= Cells
    BY <1>3, <2>1, BagsFit DEF ThingsInv
  <2>3. ThingsTypeOK' /\ PiecesKept'
    BY <1>1, <1>3, <1>5, <2>2 DEF ThingsInv, ThingsTypeOK, PiecesKept
  <2>4. InOnePlace'
    BY <1>1, <1>2, <1>5, <1>6 DEF InOnePlace
  <2>. QED BY <2>3, <2>4 DEF ThingsInv
<1>8. \A d \in Chars : trade[d] # NoTrade => bag'[d] = bag[d]
  BY <1>4, <1>5
<1>9. OffersAreHeld'
  <2>1. OffersHeld'
    BY <1>1, <1>2, <1>6, <1>8 DEF OffersHeld, Offer, With
  <2>2. OffersMarked'
    BY <1>1, <1>2, <1>6 DEF OffersMarked, Offer
  <2>. QED BY <2>1, <2>2, OffersAre
<1>10. SeenIsOffered'
  BY <1>1, <1>2, <1>6 DEF SeenIsOffered, Offer, With
<1>11. /\ \A d \in Chars : d # c => list'[d] = list[d]
       /\ list'[c] = [j \in DOMAIN list[c] \ {i} |-> list[c][j]]
       /\ list' = [d \in Chars |-> list'[d]]
  BY <1>1, <1>2 DEF WindowsTypeOK
<1>12. ListedIsHeld'
  <2> SUFFICES ASSUME NEW d \in Chars, NEW j \in DOMAIN list'[d]
               PROVE  (j \in bag'[d] /\ count[j] >= list'[d][j].count) \/ j \in Perishable \ Somewhere
    BY <1>1, <1>6 DEF ListedIsHeld
  <2>1. j \in DOMAIN list[d] /\ list'[d][j] = list[d][j] /\ (d = c => j # i)
    BY <1>11
  <2>2. (j \in bag[d] /\ count[j] >= list[d][j].count) \/ j \in Perishable \ Somewhere
    BY <1>3, <2>1 DEF WindowsInv, ListedIsHeld
  <2>3. j \in bag[d] => j \in bag'[d]
    BY <1>5, <2>1
  <2>. QED BY <2>1, <2>2, <2>3
<1>13. list' \in [Chars -> Sales] /\ \A d \in Chars \ stand : list'[d] = NoSale
  <2>1. PICK S \in SUBSET Items : list[c] \in [S -> [count : 1 .. StackMax, price : Amounts]]
    <3>1. list[c] \in Sales
      BY <1>2 DEF WindowsTypeOK
    <3>. QED BY <3>1 DEF Sales
  <2>2. S \ {i} \in SUBSET Items /\ list'[c] \in [S \ {i} -> [count : 1 .. StackMax, price : Amounts]]
    BY <1>11, <2>1
  <2>3. list'[c] \in Sales
    BY <2>2 DEF Sales
  <2>. QED BY <1>2, <1>4, <1>11, <2>3 DEF WindowsTypeOK
<1>14. WindowsTypeOK' /\ OneWindow'
  BY <1>1, <1>2, <1>13 DEF WindowsTypeOK, OneWindow, OtherWindow
<1>. QED BY <1>7, <1>9, <1>10, <1>12, <1>14 DEF WindowsInv

-----------------------------------------------------------------------------
\* The invariant: at the start, and from step to step.

LEMMA Start == Init => TradeInv
<1> SUFFICES ASSUME Init PROVE TradeInv
  OBVIOUS
<1>1. /\ on = Chars /\ gold = Purse /\ row = Purse /\ delayed = {} /\ bag = Bags
      /\ store = [c \in Chars |-> {}] /\ ground = {} /\ lost = {} /\ coins = 0 /\ count = Pieces /\ exchanging = {}
      /\ trade = [c \in Chars |-> NoTrade] /\ box = {} /\ opening = {} /\ recent = {}
      /\ shop = [c \in Chars |-> NoShop] /\ stand = {} /\ list = [c \in Chars |-> NoSale] /\ cube = {}
      /\ seen = [c \in Chars |-> NoTrade] /\ burnt = 0 /\ till = 0 /\ made = 0
  BY DEF Init
<1>2. \A i : i \in Somewhere <=> \E c \in Chars : i \in Bags[c]
  BY <1>1, SomewhereIs
<1>3. MoneyInv
  <2>1. SumFunction(Purse) \in Int
    BY SumType, InventoryAssumption, TradeAssumption
  <2>. QED BY <1>1, <2>1, TradeAssumption, InventoryAssumption DEF MoneyInv, MoneyTypeOK, GoldKept, PayerIsSaved
<1>4. ThingsInv
  <2>1. SumFunction(Pieces) \in Int
    BY SumType, InventoryAssumption, TradeAssumption
  <2>2. \A i \in Items : Pieces[i] > 0 <=> \E c \in Chars : i \in Bags[c]
    BY TradeAssumption
  <2>3. InOnePlace
    BY <1>1, <1>2, <2>2, TradeAssumption DEF InOnePlace
  <2>. QED BY <1>1, <2>1, <2>3, TradeAssumption DEF ThingsInv, ThingsTypeOK, PiecesKept
<1>5. WindowsTypeOK /\ OneWindow
  BY <1>1, NoSaleIsOne, InventoryAssumption DEF WindowsTypeOK, OneWindow, OtherWindow
<1>6. OffersAreHeld /\ ListedIsHeld /\ SeenIsOffered
  <2>1. OffersHeld /\ OffersMarked
    BY <1>1 DEF OffersHeld, OffersMarked
  <2>. QED BY <1>1, <2>1, OffersAre DEF ListedIsHeld, SeenIsOffered, NoSale
<1>. QED BY <1>3, <1>4, <1>5, <1>6, ThreeParts DEF WindowsInv

LEMMA MoneyStays ==
    ASSUME TradeInv, UNCHANGED money, on' = on
    PROVE  MoneyInv'
BY ThreeParts DEF MoneyInv, MoneyTypeOK, GoldKept, PayerIsSaved, money

LEMMA ThingsStay ==
    ASSUME TradeInv, UNCHANGED <<bag, store, ground, lost, count, made>>
    PROVE  ThingsInv'
BY ThreeParts DEF ThingsInv, ThingsTypeOK, PiecesKept, InOnePlace, Somewhere

LEMMA WindowsUntouched ==
    ASSUME TradeInv, UNCHANGED windows, on' = on, UNCHANGED things
    PROVE  WindowsInv'
<1>1. WindowsTypeOK' /\ OneWindow'
  BY Marks DEF windows, WindowsTypeOK, OneWindow, OtherWindow
<1>2. OffersAreHeld' /\ SeenIsOffered' /\ ListedIsHeld'
  BY OffersStayWithThings, ListsStayWithThings DEF windows, things
<1>. QED BY <1>1, <1>2 DEF WindowsInv

\* A step that moves items past the windows.
LEMMA ThingsStep ==
    ASSUME TradeInv, ThingsGoal, UNCHANGED windows, on' = on, MoneyInv'
    PROVE  TradeInv'
<1>1. ThingsInv'
  BY DEF ThingsGoal, ThingsInv
<1>2. WindowsInv'
  BY WindowsStay
<1>. QED BY <1>1, <1>2, ThreeParts

LEMMA ItemStepKeeps == TradeInv /\ ItemStep => TradeInv'
<1> SUFFICES ASSUME TradeInv, ItemStep PROVE TradeInv'
  OBVIOUS
<1>1. ASSUME NEW c \in Chars, NEW i \in bag[c], NEW lands \in BOOLEAN,
             \/ DropItem(c, i, lands)
             \/ \E k \in Items \ {i}, n \in 1 .. count[i] : DropPieces(c, i, k, n, lands)
      PROVE  TradeInv'
  <2>1. UNCHANGED money /\ UNCHANGED windows /\ on' = on
    BY <1>1 DEF DropItem, DropPieces
  <2>2. ThingsGoal
    BY <1>1, DropItemKeeps, DropPiecesKeeps
  <2>. QED BY <2>1, <2>2, MoneyStays, ThingsStep
<1>2. ASSUME NEW c \in Chars, NEW i \in bag[c], NEW j \in Items \ {i}, NEW n \in 1 .. count[i],
             MoveItem(c, i, j, n) \/ SplitItem(c, i, j, n)
      PROVE  TradeInv'
  <2>1. UNCHANGED money /\ UNCHANGED windows /\ on' = on
    BY <1>2 DEF MoveItem, SplitItem
  <2>2. ThingsGoal
    BY <1>2, MoveItemKeeps, SplitItemKeeps
  <2>. QED BY <2>1, <2>2, MoneyStays, ThingsStep
<1>3. ASSUME NEW c \in Chars, NEW i \in ground, PickupItem(c, i) PROVE TradeInv'
  <2>1. UNCHANGED money /\ UNCHANGED windows /\ on' = on
    BY <1>3 DEF PickupItem
  <2>. QED BY <1>3, <2>1, PickupItemKeeps, MoneyStays, ThingsStep
<1>4. ASSUME NEW i \in Perishable, Expire(i) PROVE TradeInv'
  <2>1. UNCHANGED money /\ UNCHANGED windows /\ on' = on
    BY <1>4 DEF Expire
  <2>. QED BY <1>4, <2>1, ExpireKeeps, MoneyStays, ThingsStep
<1>5. ASSUME \/ ProcessDelayedSave \/ GoldDestroyEvent
             \/ \E c \in Chars : PickupGold(c) \/ SaveEvent(c)
             \/ \E c \in Chars, lands \in BOOLEAN, n \in Amounts : DropGold(c, n, lands)
      PROVE  TradeInv'
  <2>1. UNCHANGED things /\ UNCHANGED windows /\ on' = on /\ made' = made
    BY <1>5 DEF ProcessDelayedSave, GoldDestroyEvent, PickupGold, SaveEvent, DropGold
  <2>2. MoneyInv'
    BY <1>5, SavesKeep, PickupGoldKeeps, DropGoldKeeps, GoldDestroyEventKeeps
  <2>3. ThingsInv'
    BY <2>1, ThingsStay DEF things
  <2>. QED BY <2>1, <2>2, <2>3, WindowsUntouched, ThreeParts
<1>6. ASSUME NEW i \in ground, ItemDestroyEvent(i) PROVE TradeInv'
  <2>1. UNCHANGED money /\ UNCHANGED windows /\ on' = on
    BY <1>6 DEF ItemDestroyEvent
  <2>. QED BY <1>6, <2>1, ItemDestroyEventKeeps, MoneyStays, ThingsStep
<1>. QED BY <1>1, <1>2, <1>3, <1>4, <1>5, <1>6 DEF ItemStep

LEMMA ExchangeStepKeeps == TradeInv /\ ExchangeStep => TradeInv'
<1> SUFFICES ASSUME TradeInv, ExchangeStep PROVE TradeInv'
  OBVIOUS
<1>1. ASSUME NEW c \in Chars, NEW linked \in BOOLEAN, SecondAccept(c, linked) PROVE TradeInv'
  BY <1>1, SecondAcceptKeeps
<1>2. ASSUME \/ \E a, b \in Chars : ExchangeStart(a, b)
             \/ \E c \in Chars :
                   \/ FirstAccept(c) \/ Cancel(c) \/ WalkAway(c)
                   \/ \E n \in Amounts : AddGold(c, n)
                   \/ \E i \in bag[c] : AddItem(c, i)
                   \/ \E i \in Items : RemoveItem(c, i)
      PROVE  TradeInv'
  <2>1. UNCHANGED money /\ on' = on /\ UNCHANGED <<bag, store, ground, lost, count, made>>
    BY <1>2 DEF ExchangeStart, FirstAccept, Cancel, WalkAway, AddGold, AddItem, RemoveItem, things
  <2>2. WindowsInv'
    BY <1>2, ExchangeStartKeeps, FirstAcceptKeeps, OverKeeps, AddGoldKeeps, AddItemKeeps, RemoveItemKeeps
  <2>. QED BY <2>1, <2>2, MoneyStays, ThingsStay, ThreeParts
<1>. QED BY <1>1, <1>2 DEF ExchangeStep

LEMMA SafeboxStepKeeps == TradeInv /\ SafeboxStep => TradeInv'
<1> SUFFICES ASSUME TradeInv, NEW c \in Chars,
                    \/ ReqSafeboxLoad(c) \/ LimitOver(c) \/ SafeboxLoad(c) \/ SafeboxWrongPassword(c)
                    \/ CloseSafebox(c)
                    \/ \E i \in bag[c] : SafeboxCheckin(c, i)
                    \/ \E i \in store[c] : \/ SafeboxCheckout(c, i)
                                          \/ \E j \in store[c], n \in 0 .. count[i] : SafeboxItemMove(c, i, j, n)
             PROVE  TradeInv'
  BY DEF SafeboxStep
<1>1. CASE ReqSafeboxLoad(c) \/ LimitOver(c) \/ SafeboxLoad(c) \/ SafeboxWrongPassword(c)
  <2>1. UNCHANGED money /\ UNCHANGED things /\ on' = on /\ made' = made
    BY <1>1 DEF ReqSafeboxLoad, LimitOver, SafeboxLoad, SafeboxWrongPassword
  <2>2. WindowsInv'
    BY <1>1, SafeboxWindows
  <2>. QED BY <2>1, <2>2, MoneyStays, ThingsStay, ThreeParts DEF things
<1>2. CASE CloseSafebox(c)
  <2>1. UNCHANGED things /\ made' = made
    BY <1>2 DEF CloseSafebox
  <2>2. WindowsInv'
    BY <1>2, SafeboxWindows
  <2>. QED BY <1>2, <2>1, <2>2, EndPays, ThingsStay, ThreeParts DEF things
<1>3. ASSUME NEW i \in bag[c], SafeboxCheckin(c, i) PROVE TradeInv'
  <2>1. UNCHANGED money /\ UNCHANGED windows /\ on' = on
    BY <1>3 DEF SafeboxCheckin
  <2>. QED BY <1>3, <2>1, SafeboxCheckinKeeps, MoneyStays, ThingsStep
<1>4. ASSUME NEW i \in store[c], SafeboxCheckout(c, i) PROVE TradeInv'
  <2>1. UNCHANGED money /\ UNCHANGED windows /\ on' = on
    BY <1>4 DEF SafeboxCheckout
  <2>. QED BY <1>4, <2>1, SafeboxCheckoutKeeps, MoneyStays, ThingsStep
<1>5. ASSUME NEW i \in store[c], NEW j \in store[c], NEW n \in 0 .. count[i], SafeboxItemMove(c, i, j, n)
      PROVE  TradeInv'
  <2>1. UNCHANGED money /\ UNCHANGED windows /\ on' = on
    BY <1>5 DEF SafeboxItemMove
  <2>. QED BY <1>5, <2>1, SafeboxItemMoveKeeps, MoneyStays, ThingsStep
<1>. QED BY <1>1, <1>2, <1>3, <1>4, <1>5

LEMMA StallStepKeeps == TradeInv /\ StallStep => TradeInv'
<1> SUFFICES ASSUME TradeInv, NEW c \in Chars,
                    \/ StartShopping(c) \/ StopShopping(c) \/ CloseMyShop(c) \/ CubeOpen(c) \/ CubeClose(c)
                    \/ \E n \in Amounts : \/ \E i \in Items : BuyFromKeeper(c, i, n)
                                         \/ \E i \in bag[c] : \E m \in 1 .. count[i] : Sell(c, i, m, n)
                    \/ \E S \in SUBSET bag[c] : \E price \in [S -> Amounts] : OpenMyShop(c, price)
                    \/ \E g \in Chars : OnClick(g, c) \/ \E i \in DOMAIN list[c] : BuyFromShop(g, c, i)
             PROVE  TradeInv'
  BY DEF StallStep
<1>1. CASE \/ StartShopping(c) \/ StopShopping(c) \/ CloseMyShop(c) \/ CubeOpen(c) \/ CubeClose(c)
           \/ \E g \in Chars : OnClick(g, c)
           \/ \E S \in SUBSET bag[c] : \E price \in [S -> Amounts] : OpenMyShop(c, price)
  <2>1. UNCHANGED money /\ UNCHANGED things /\ on' = on /\ made' = made
    BY <1>1 DEF StartShopping, StopShopping, CloseMyShop, CubeOpen, CubeClose, OnClick, OpenMyShop
  <2>2. WindowsInv'
    BY <1>1, ShopWindows, OpenMyShopKeeps
  <2>. QED BY <2>1, <2>2, MoneyStays, ThingsStay, ThreeParts DEF things
<1>2. ASSUME NEW n \in Amounts, NEW i \in Items, BuyFromKeeper(c, i, n) PROVE TradeInv'
  <2>1. UNCHANGED windows /\ on' = on
    BY <1>2 DEF BuyFromKeeper
  <2>. QED BY <1>2, <2>1, BuyFromKeeperKeeps, BuyFromKeeperPays, ThingsStep
<1>3. ASSUME NEW n \in Amounts, NEW i \in bag[c], NEW m \in 1 .. count[i], Sell(c, i, m, n) PROVE TradeInv'
  <2>1. UNCHANGED windows /\ on' = on
    BY <1>3 DEF Sell
  <2>. QED BY <1>3, <2>1, SellKeeps, SellPays, ThingsStep
<1>4. ASSUME NEW g \in Chars, NEW i \in DOMAIN list[c], BuyFromShop(g, c, i) PROVE TradeInv'
  BY <1>4, BuyFromShopKeeps, BuyFromShopPays, ThreeParts
<1>. QED BY <1>1, <1>2, <1>3, <1>4

LEMMA StepKeeps == TradeInv /\ [Next]_vars => TradeInv'
<1> SUFFICES ASSUME TradeInv, [Next]_vars PROVE TradeInv'
  OBVIOUS
<1>1. ASSUME NEW c \in Chars, Ends(c) PROVE TradeInv'
  BY <1>1, EndKeeps, EndPays, EndThings, ThreeParts
<1>2. ASSUME NEW c \in Chars, Login(c) PROVE TradeInv'
  BY <1>2, LoginKeeps, EndPays, ThreeParts
<1>3. CASE UNCHANGED vars
  <2>1. UNCHANGED money /\ UNCHANGED things /\ UNCHANGED windows /\ on' = on /\ made' = made
    BY <1>3 DEF vars, money, things, windows
  <2>. QED BY <2>1, MoneyStays, ThingsStay, WindowsUntouched, ThreeParts DEF things
<1>. QED BY <1>1, <1>2, <1>3, ItemStepKeeps, ExchangeStepKeeps, SafeboxStepKeeps, StallStepKeeps DEF Next, Ends

\* Everything the run checks of the windows, the things and the purses, inductive with
\* what was seen at the first acceptance (SeenIsOffered), holds in every state.
THEOREM TradeInvariant == Spec => []TradeInv
<1>. QED BY Start, StepKeeps, PTL DEF Spec

-----------------------------------------------------------------------------
\* What the runs check, for every value of the constants.

\* A purse and its last save stay under GOLD_MAX, a stack under ITEM_MAX_COUNT, an
\* inventory in its cells, and who does not play has no window.
THEOREM TradeTyped == Spec => []TradeTypeOK
<1>1. TradeInv => TradeTypeOK
  BY DEF TradeInv
<1>. QED BY <1>1, TradeInvariant, PTL

\* No character has two of the windows at once: each asks for the others in a place of
\* its own, CInputDB::SafeboxLoad when the answer comes back.
THEOREM WindowsExclusive == Spec => []OneWindow
<1>1. TradeInv => OneWindow
  BY DEF TradeInv
<1>. QED BY <1>1, TradeInvariant, PTL

\* An offered item is its owner's until the exchange ends, and exactly the offered
\* items are marked (CItem::SetExchanging).
THEOREM OffersHold == Spec => []OffersAreHeld
<1>1. TradeInv => OffersAreHeld
  BY DEF TradeInv
<1>. QED BY <1>1, TradeInvariant, PTL

\* Whatever characters do to items and gold at once, nothing is doubled and what
\* disappears is accounted for: an item is in one place, pieces appear from an NPC only
\* and go to one, to a timer, to a safebox's stacking, or are lost by a drop or a death
\* that misses the ground; gold is lost on the ground or above GOLD_MAX.
THEOREM AllAccountedFor == Spec => []Conserved
<1>1. TradeInv => Conserved
  BY DEF TradeInv
<1>. QED BY <1>1, TradeInvariant, PTL

\* Who has spent gold is going to be saved.
THEOREM PayersSaved == Spec => []PayerIsSaved
<1>1. TradeInv => PayerIsSaved
  BY DEF TradeInv
<1>. QED BY <1>1, TradeInvariant, PTL

\* What a character's shop shows is there, all of it, until it is bought or perishes.
THEOREM ListedHeld == Spec => []ListedIsHeld
<1>1. TradeInv => ListedIsHeld
  BY DEF TradeInv
<1>. QED BY <1>1, TradeInvariant, PTL

-----------------------------------------------------------------------------
\* FairTrade.  Of the steps that end an exchange only SecondAccept gives anybody
\* anything.

LEMMA SecondAcceptIsFair ==
    ASSUME TradeInv, NEW a \in Chars, NEW linked \in BOOLEAN, SecondAccept(a, linked),
           NEW c \in Chars, seen[c] # NoTrade, trade'[c] = NoTrade, <<bag, gold>>' # <<bag, gold>>
    PROVE  AsSeen(c)
<1>1. /\ trade[a] # NoTrade /\ a \in on /\ ~Offer(a).accept /\ Over(a)
      /\ UNCHANGED <<on, row, store, ground, lost, coins, count, till>>
  BY DEF SecondAccept, Trading, MayTrade, CanHandleItem
<1>2. EndedAt(a)
  BY <1>1, OverEnds
<1>3. /\ Held /\ InOnePlace /\ OffersTyped /\ WindowsTypeOK
      /\ trade[c] # NoTrade /\ Offer(c).accept
      /\ seen[c].give = Offer(c).items /\ seen[c].pay = Offer(c).gold
      /\ DOMAIN seen[c].get = Offer(With(c)).items /\ seen[c].receive = Offer(With(c)).gold
      /\ \A i \in Offer(With(c)).items \cap Somewhere : count[i] >= seen[c].get[i]
  BY Marks DEF SeenIsOffered
<1>4. c # a /\ c = With(a) /\ With(c) = a
  <2>1. c # a
    BY <1>1, <1>3
  <2>. QED BY <1>2, <1>3, <2>1 DEF EndedAt
<1>5. Check(a) /\ CheckSpace(a) /\ Check(c) /\ CheckSpace(c) /\ Done(a, c)
  BY <1>4 DEF SecondAccept
<1>6. bag'[c] = (bag[c] \ Offer(c).items) \cup Offer(a).items
  BY <1>3, <1>4, <1>5 DEF Done, Held
<1>7. \A i \in Offer(a).items : count'[i] >= seen[c].get[i]
  <2>1. \A i \in Offer(a).items : i \in Somewhere
    BY <1>5, SomewhereIs DEF Check
  <2>. QED BY <1>1, <1>3, <1>4, <2>1
<1>8. /\ gold[a] >= Offer(a).gold /\ gold[c] >= Offer(c).gold /\ c \in on
      /\ gold' = AfterDone(a, c) /\ burnt' = burnt + Vanished(a, c) /\ Save(Payers(a, c))
  BY <1>3, <1>5 DEF Check, Done, WindowsTypeOK
<1>9. gold'[c] = Paid(gold[c], Offer(a).gold) - Offer(c).gold
  BY <1>1, <1>3, <1>4, <1>8, SwapPays
<1>10. /\ gold[c] \in 0 .. GoldMax - 1 /\ gold[a] \in 0 .. GoldMax - 1 /\ burnt \in Nat /\ GoldMax \in Nat
       /\ Offer(a).gold \in Nat /\ Offer(c).gold \in Nat
  BY <1>1, <1>3, InventoryAssumption DEF TradeInv, TradeTypeOK, MoneyTypeOK, OffersTyped
<1>11. gold'[c] = gold[c] - Offer(c).gold + Offer(a).gold \/ (gold'[c] = gold[c] - Offer(c).gold /\ burnt' > burnt)
  <2>1. CASE Takes(gold[c], Offer(a).gold)
    BY <1>9, <1>10, <2>1 DEF Paid
  <2>2. CASE ~Takes(gold[c], Offer(a).gold)
    <3>1. Offer(a).gold > 0
      BY <1>10, <2>2 DEF Takes
    <3>2. Lost(gold[a] - Offer(a).gold, Offer(c).gold) \in Nat /\ Lost(gold[c], Offer(a).gold) = Offer(a).gold
      BY <1>10, <2>2 DEF Lost
    <3>. QED BY <1>8, <1>9, <1>10, <2>2, <3>1, <3>2 DEF Paid, Vanished
  <2>. QED BY <2>1, <2>2
<1>. QED BY <1>3, <1>4, <1>6, <1>7, <1>11 DEF AsSeen

LEMMA OthersSwapNothing ==
    ASSUME TradeInv, [Next]_vars, ~\E a \in Chars : \E linked \in BOOLEAN : SecondAccept(a, linked)
    PROVE  trade' = trade \/ NothingGot
<1>0. bag \in [Chars -> SUBSET Items]
  BY DEF TradeInv, TradeTypeOK, ThingsTypeOK
<1>1. CASE ItemStep
  <2>1. ASSUME NEW c, NEW i, NEW j, NEW n, NEW lands,
               \/ DropItem(c, i, lands) \/ DropPieces(c, i, j, n, lands) \/ DropGold(c, n, lands)
               \/ MoveItem(c, i, j, n) \/ SplitItem(c, i, j, n)
        PROVE  UNCHANGED windows
    BY <2>1 DEF DropItem, DropGold, MoveItem, SplitItem, DropPieces
  <2>2. ASSUME NEW c, NEW i, \/ PickupGold(c) \/ SaveEvent(c) \/ ItemDestroyEvent(i) \/ GoldDestroyEvent
                            \/ Expire(i) \/ ProcessDelayedSave \/ PickupItem(c, i)
        PROVE  UNCHANGED windows
    BY <2>2 DEF PickupGold, SaveEvent, Expire, ProcessDelayedSave, PickupItem, ItemDestroyEvent, GoldDestroyEvent
  <2>3. UNCHANGED windows
    BY <1>1, <2>1, <2>2 DEF ItemStep
  <2>. QED BY <2>3 DEF windows
<1>2. CASE ExchangeStep
  <2>1. UNCHANGED <<bag, gold>>
    BY <1>2 DEF ExchangeStep, ExchangeStart, FirstAccept, Cancel, WalkAway, AddGold, AddItem, RemoveItem, things, money
  <2>. QED BY <2>1 DEF NothingGot
<1>3. CASE SafeboxStep
  BY <1>3 DEF SafeboxStep, ReqSafeboxLoad, LimitOver, SafeboxLoad, SafeboxWrongPassword, CloseSafebox,
              SafeboxCheckin, SafeboxCheckout, SafeboxItemMove, windows
<1>4. CASE StallStep
  <2>1. ASSUME NEW c, NEW g, NEW price, \/ StartShopping(c) \/ StopShopping(c) \/ CloseMyShop(c) \/ CubeOpen(c)
                                       \/ CubeClose(c) \/ OnClick(g, c) \/ OpenMyShop(c, price)
        PROVE  trade' = trade
    BY <2>1 DEF StartShopping, StopShopping, CloseMyShop, CubeOpen, CubeClose, OnClick, OpenMyShop
  <2>2. ASSUME NEW c, NEW g, NEW i, NEW m, NEW n, BuyFromKeeper(c, i, n) \/ Sell(c, i, m, n) \/ BuyFromShop(g, c, i)
        PROVE  trade' = trade
    BY <2>2 DEF BuyFromKeeper, Sell, BuyFromShop, windows
  <2>. QED BY <1>4, <2>1, <2>2 DEF StallStep
<1>5. CASE \E c \in Chars : Disconnect(c) \/ Login(c)
  BY <1>5 DEF Disconnect, Login, windows, NothingGot
<1>6. ASSUME NEW c \in Chars, NEW landed \in SUBSET bag[c], NEW missed \in SUBSET (bag[c] \ landed),
             Dead(c, landed, missed)
      PROVE  NothingGot
  <2>1. /\ gold' = gold /\ ground' = ground \cup landed /\ lost' = lost \cup missed
        /\ bag' = [bag EXCEPT ![c] = @ \ (landed \cup missed)]
    BY <1>6 DEF Dead, ItemDropPenalty, Drop
  <2>2. \A d \in Chars : bag'[d] = IF d = c THEN bag[c] \ (landed \cup missed) ELSE bag[d]
    BY <1>0, <2>1
  <2>. QED BY <2>1, <2>2 DEF NothingGot
<1>7. CASE UNCHANGED vars
  BY <1>7 DEF vars
<1>. QED BY <1>1, <1>2, <1>3, <1>4, <1>5, <1>6, <1>7 DEF Next

\* Whoever accepts first gets what he saw, whatever the other side, the event queue
\* and the rest of the core do before the second acceptance.
THEOREM TradesAreFair == Spec => FairTrade
<1>1. TradeInv /\ [Next]_vars =>
         [\A c \in Chars : seen[c] # NoTrade /\ trade'[c] = NoTrade => AsSeen(c) \/ NothingGot]_vars
  <2> SUFFICES ASSUME TradeInv, [Next]_vars, NEW c \in Chars, seen[c] # NoTrade, trade'[c] = NoTrade
               PROVE  AsSeen(c) \/ NothingGot
    OBVIOUS
  <2>1. trade[c] # NoTrade
    BY DEF TradeInv, SeenIsOffered
  <2>2. CASE <<bag, gold>>' = <<bag, gold>>
    BY <2>2 DEF NothingGot
  <2>3. CASE \E a \in Chars : \E linked \in BOOLEAN : SecondAccept(a, linked)
    BY <2>2, <2>3, SecondAcceptIsFair
  <2>. QED BY <2>1, <2>2, <2>3, OthersSwapNothing
<1>. QED BY <1>1, TradeInvariant, PTL DEF Spec, FairTrade

================================================================================
