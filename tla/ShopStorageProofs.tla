-------------------------- MODULE ShopStorageProofs --------------------------
(***************************************************************************)
(* The invariants of ShopStorage for any items and limits, when statements *)
(* reach the SQL server in the order in which they were sent (~SlowSQL)    *)
(* and the DB process is stopped after its cores (~AnyStop).               *)
(*                                                                         *)
(* The rows are behind the caches and the statements under way, so the     *)
(* invariant is about e, the rows as they will be when every statement     *)
(* under way has been executed (Ends).  Sound(e) says how memory and e     *)
(* agree.  An operator of the model gets two lemmas: what it does to the   *)
(* memory and to e (...Is), and that it keeps their agreement (...Keeps).  *)
(* Then there is one lemma for each action (...Step).                      *)
(***************************************************************************)
EXTENDS ShopStorage, DataLemmas

States == {"none", "OPEN", "MODIFY", "CLOSED", "RECOVERY", "UNAVAILABLE"}
Marks == {"none", "clean", "dirty", "dead"}
ShopOps == {"ShopPut", "ShopDel", "SetState", "SetGold", "ItemsDel"}
ItemOps == {"ItemPut", "ItemDel", "InvPut", "InvDel"}

Shops == [st : States, gold : Nat, items : SUBSET Items, held : SUBSET Items]
Caches == [st : States, gold : Nat, need : BOOLEAN]
Statements ==
    [conn : {"main", "async"}, op : ShopOps, item : {NoItem}, st : States, gold : Nat]
    \cup [conn : {"main", "async"}, op : ItemOps, item : Items, st : States, gold : Nat]
Memories == [mem : Shops, hosted : BOOLEAN, cache : Caches, set : BOOLEAN,
             item : [Items -> Marks], inv : [Items -> Marks], sql : Seq(Statements)]
Rows == [st : States, gold : Nat, items : SUBSET Items, inv : SUBSET Items]

-----------------------------------------------------------------------------
\* What the rows will be when the statements under way have been executed.

Wipes(s, e) == s.op = "ItemsDel" => e.items = {}
Replay(h, t, s) ==
    /\ h \in [0 .. Len(s) -> Rows] /\ h[0] = t
    /\ \A n \in 1 .. Len(s) : h[n] = Apply(h[n - 1], s[n]) /\ Wipes(s[n], h[n - 1])
Ends(t, s, e) == \E h : Replay(h, t, s) /\ e = h[Len(s)]

LEMMA ApplyIs ==
    ASSUME NEW t \in Rows, NEW s \in Statements
    PROVE  LET f == Apply(t, s)
           IN /\ f \in Rows
              /\ s.op = "ShopPut" => f.st = s.st /\ f.gold = s.gold /\ f.items = t.items /\ f.inv = t.inv
              /\ s.op = "ShopDel" => f.st = "none" /\ f.gold = 0 /\ f.items = t.items /\ f.inv = t.inv
              /\ s.op = "SetState" /\ t.st # "none" => f.st = s.st /\ f.gold = t.gold /\ f.items = t.items /\ f.inv = t.inv
              /\ s.op = "SetGold" /\ t.st # "none" => f.st = t.st /\ f.gold = s.gold /\ f.items = t.items /\ f.inv = t.inv
              /\ s.op = "ItemPut" => f.st = t.st /\ f.gold = t.gold /\ f.items = t.items \cup {s.item} /\ f.inv = t.inv
              /\ s.op = "ItemDel" => f.st = t.st /\ f.gold = t.gold /\ f.items = t.items \ {s.item} /\ f.inv = t.inv
              /\ s.op = "ItemsDel" => f.st = t.st /\ f.gold = t.gold /\ f.items = {} /\ f.inv = t.inv
              /\ s.op = "InvPut" => f.st = t.st /\ f.gold = t.gold /\ f.items = t.items /\ f.inv = t.inv \cup {s.item}
              /\ s.op = "InvDel" => f.st = t.st /\ f.gold = t.gold /\ f.items = t.items /\ f.inv = t.inv \ {s.item}
<1>1. s.st \in States /\ s.gold \in Nat /\ (s.op \in ItemOps => s.item \in Items)
  BY DEF Statements, ShopOps, ItemOps
<1>2. \/ s.op = "ShopPut" \/ s.op = "ShopDel" \/ s.op = "SetState" \/ s.op = "SetGold"
      \/ s.op = "ItemPut" \/ s.op = "ItemDel" \/ s.op = "ItemsDel" \/ s.op = "InvPut" \/ s.op = "InvDel"
  BY DEF Statements, ShopOps, ItemOps
<1>3. "none" \in States /\ 0 \in Nat
  BY DEF States
<1>4. CASE s.op = "ShopPut"
  BY <1>1, <1>3, <1>4 DEF Apply, Rows
<1>5. CASE s.op = "ShopDel"
  BY <1>1, <1>3, <1>5 DEF Apply, Rows
<1>6. CASE s.op = "SetState"
  BY <1>1, <1>3, <1>6 DEF Apply, Rows
<1>7. CASE s.op = "SetGold"
  BY <1>1, <1>3, <1>7 DEF Apply, Rows
<1>8. CASE s.op = "ItemPut"
  BY <1>1, <1>8 DEF Apply, ItemOps, Rows
<1>9. CASE s.op = "ItemDel"
  BY <1>1, <1>9 DEF Apply, ItemOps, Rows
<1>10. CASE s.op = "ItemsDel"
  BY <1>1, <1>10 DEF Apply, Rows
<1>11. CASE s.op = "InvPut"
  BY <1>1, <1>11 DEF Apply, ItemOps, Rows
<1>12. CASE s.op = "InvDel"
  BY <1>1, <1>12 DEF Apply, ItemOps, Rows
<1>. QED BY <1>2, <1>4, <1>5, <1>6, <1>7, <1>8, <1>9, <1>10, <1>11, <1>12

LEMMA EndsNow == ASSUME NEW t \in Rows PROVE Ends(t, <<>>, t)
<1>1. Replay([n \in 0 .. Len(<<>>) |-> t], t, <<>>)
  BY DEF Replay
<1>. QED BY <1>1 DEF Ends

LEMMA EndsIn == ASSUME NEW t, NEW s \in Seq(Statements), NEW e, Ends(t, s, e) PROVE e \in Rows /\ t \in Rows
BY DEF Ends, Replay

\* One statement more.
LEMMA EndsAppend ==
    ASSUME NEW t, NEW s \in Seq(Statements), NEW e, NEW x \in Statements, Ends(t, s, e), Wipes(x, e)
    PROVE  Append(s, x) \in Seq(Statements) /\ Ends(t, Append(s, x), Apply(e, x))
<1>1. PICK h : Replay(h, t, s) /\ e = h[Len(s)]
  BY DEF Ends
<1> DEFINE r == Append(s, x)
           g == [n \in 0 .. Len(r) |-> IF n <= Len(s) THEN h[n] ELSE Apply(e, x)]
<1>2. /\ r \in Seq(Statements) /\ Len(r) = Len(s) + 1 /\ Len(s) \in Nat
      /\ \A n \in 1 .. Len(s) : r[n] = s[n] /\ r[Len(s) + 1] = x
  OBVIOUS
<1>3. e \in Rows /\ Apply(e, x) \in Rows
  BY EndsIn, ApplyIs
<1>4. g \in [0 .. Len(r) -> Rows] /\ g[0] = t
  BY <1>1, <1>2, <1>3 DEF Replay
<1>5. ASSUME NEW n \in 1 .. Len(r) PROVE g[n] = Apply(g[n - 1], r[n]) /\ Wipes(r[n], g[n - 1])
  <2>1. CASE n <= Len(s)
    <3>1. n \in 1 .. Len(s) /\ n - 1 \in 0 .. Len(s) /\ g[n] = h[n] /\ g[n - 1] = h[n - 1] /\ r[n] = s[n]
      BY <1>2, <2>1
    <3>. QED BY <3>1, <1>1 DEF Replay
  <2>2. CASE n > Len(s)
    <3>1. n = Len(s) + 1 /\ n - 1 = Len(s) /\ r[n] = x
      BY <1>2, <2>2
    <3>2. g[n] = Apply(e, x) /\ g[n - 1] = h[Len(s)]
      BY <1>2, <3>1
    <3>. QED BY <3>1, <3>2, <1>1
  <2>. QED BY <2>1, <2>2, <1>2
<1>6. Replay(g, t, r)
  BY <1>4, <1>5 DEF Replay
<1>7. g[Len(r)] = Apply(e, x)
  BY <1>2
<1>. QED BY <1>2, <1>6, <1>7 DEF Ends

\* The first one executed.
LEMMA EndsHead ==
    ASSUME NEW t, NEW s \in Seq(Statements), s # <<>>, NEW e, Ends(t, s, e)
    PROVE  Tail(s) \in Seq(Statements) /\ Apply(t, Head(s)) \in Rows /\ Ends(Apply(t, Head(s)), Tail(s), e)
<1>1. PICK h : Replay(h, t, s) /\ e = h[Len(s)]
  BY DEF Ends
<1> DEFINE r == Tail(s)
           g == [n \in 0 .. Len(r) |-> h[n + 1]]
<1>2. /\ r \in Seq(Statements) /\ Len(r) = Len(s) - 1 /\ Len(s) \in Nat /\ Len(s) >= 1
      /\ \A n \in 1 .. Len(r) : r[n] = s[n + 1]
      /\ Head(s) = s[1]
  OBVIOUS
<1>3. h[1] = Apply(h[0], s[1]) /\ h[0] = t
  BY <1>1, <1>2 DEF Replay
<1>4. g \in [0 .. Len(r) -> Rows] /\ g[0] = Apply(t, Head(s))
  <2>1. \A n \in 0 .. Len(r) : n + 1 \in 0 .. Len(s)
    BY <1>2
  <2>2. 0 \in 0 .. Len(r) /\ 0 + 1 = 1
    BY <1>2
  <2>. QED BY <2>1, <2>2, <1>1, <1>2, <1>3 DEF Replay
<1>5. ASSUME NEW n \in 1 .. Len(r) PROVE g[n] = Apply(g[n - 1], r[n]) /\ Wipes(r[n], g[n - 1])
  <2>1. n + 1 \in 1 .. Len(s) /\ (n + 1) - 1 = n /\ g[n] = h[n + 1] /\ g[n - 1] = h[n] /\ r[n] = s[n + 1]
    BY <1>2
  <2>. QED BY <2>1, <1>1 DEF Replay
<1>6. g[Len(r)] = h[Len(s)]
  BY <1>2
<1>7. Replay(g, Apply(t, Head(s)), r)
  BY <1>4, <1>5 DEF Replay
<1>8. 1 \in 0 .. Len(s) /\ h[1] \in Rows
  BY <1>1, <1>2 DEF Replay
<1>. QED BY <1>1, <1>2, <1>3, <1>6, <1>7, <1>8 DEF Ends

\* A statement for each item of a set.
Each(op, f) == [n \in 1 .. Len(f) |-> Say("main", op, f[n], "none", 0)]
Swept(e, op, S) ==
    [e EXCEPT !.items = CASE op = "ItemPut" -> @ \cup S [] op = "ItemDel" -> @ \ S [] OTHER -> @,
              !.inv = CASE op = "InvPut" -> @ \cup S [] op = "InvDel" -> @ \ S [] OTHER -> @]

LEMMA SweptIs ==
    ASSUME NEW e \in Rows, NEW op \in ItemOps, NEW S \in SUBSET Items
    PROVE  LET f == Swept(e, op, S)
           IN /\ f \in Rows /\ f.st = e.st /\ f.gold = e.gold
              /\ op = "ItemPut" => f.items = e.items \cup S /\ f.inv = e.inv
              /\ op = "ItemDel" => f.items = e.items \ S /\ f.inv = e.inv
              /\ op = "InvPut" => f.items = e.items /\ f.inv = e.inv \cup S
              /\ op = "InvDel" => f.items = e.items /\ f.inv = e.inv \ S
BY DEF Swept, Rows, ItemOps

LEMMA SayIs ==
    /\ \A op \in ItemOps, i \in Items : /\ Say("main", op, i, "none", 0) \in Statements
                                        /\ Say("async", op, i, "none", 0) \in Statements
    /\ \A op \in ShopOps, st \in States, gold \in Nat : /\ Say("main", op, NoItem, st, gold) \in Statements
                                                        /\ Say("async", op, NoItem, st, gold) \in Statements
    /\ \A c, op, i, st, gold : LET s == Say(c, op, i, st, gold)
                               IN s.op = op /\ s.item = i /\ s.st = st /\ s.gold = gold
BY DEF Say, Statements, States

LEMMA SweptMore ==
    ASSUME NEW e \in Rows, NEW op \in ItemOps, NEW S \in SUBSET Items, NEW i \in Items
    PROVE  Apply(Swept(e, op, S), Say("main", op, i, "none", 0)) = Swept(e, op, S \cup {i})
<1> DEFINE x == Say("main", op, i, "none", 0)
           a == Swept(e, op, S)
           b == Swept(e, op, S \cup {i})
<1>1. a \in Rows /\ b \in Rows /\ x \in Statements /\ x.op = op /\ x.item = i
  <2>1. S \cup {i} \in SUBSET Items
    OBVIOUS
  <2>2. a \in Rows
    BY SweptIs
  <2>3. b \in Rows
    BY <2>1, SweptIs
  <2>4. x \in Statements
    BY SayIs
  <2>5. x.op = op /\ x.item = i
    BY SayIs
  <2>. QED BY <2>2, <2>3, <2>4, <2>5
<1>2. /\ a.st = e.st /\ a.gold = e.gold /\ b.st = e.st /\ b.gold = e.gold
      /\ op = "ItemPut" => a.items = e.items \cup S /\ b.items = e.items \cup (S \cup {i}) /\ a.inv = e.inv /\ b.inv = e.inv
      /\ op = "ItemDel" => a.items = e.items \ S /\ b.items = e.items \ (S \cup {i}) /\ a.inv = e.inv /\ b.inv = e.inv
      /\ op = "InvPut" => a.items = e.items /\ b.items = e.items /\ a.inv = e.inv \cup S /\ b.inv = e.inv \cup (S \cup {i})
      /\ op = "InvDel" => a.items = e.items /\ b.items = e.items /\ a.inv = e.inv \ S /\ b.inv = e.inv \ (S \cup {i})
  <2>1. /\ a.st = e.st /\ a.gold = e.gold
        /\ op = "ItemPut" => a.items = e.items \cup S /\ a.inv = e.inv
        /\ op = "ItemDel" => a.items = e.items \ S /\ a.inv = e.inv
        /\ op = "InvPut" => a.items = e.items /\ a.inv = e.inv \cup S
        /\ op = "InvDel" => a.items = e.items /\ a.inv = e.inv \ S
    BY SweptIs
  <2>2. S \cup {i} \in SUBSET Items
    OBVIOUS
  <2>3. /\ b.st = e.st /\ b.gold = e.gold
        /\ op = "ItemPut" => b.items = e.items \cup (S \cup {i}) /\ b.inv = e.inv
        /\ op = "ItemDel" => b.items = e.items \ (S \cup {i}) /\ b.inv = e.inv
        /\ op = "InvPut" => b.items = e.items /\ b.inv = e.inv \cup (S \cup {i})
        /\ op = "InvDel" => b.items = e.items /\ b.inv = e.inv \ (S \cup {i})
    BY <2>2, SweptIs
  <2> HIDE DEF a, b
  <2>. QED BY <2>1, <2>3
<1>3. Apply(a, x) = b
  <2> HIDE DEF a, b, x
  <2>1. op = "ItemPut" \/ op = "ItemDel" \/ op = "InvPut" \/ op = "InvDel"
    BY DEF ItemOps
  <2>2. \A u, v \in Rows : u.st = v.st /\ u.gold = v.gold /\ u.items = v.items /\ u.inv = v.inv => u = v
    BY DEF Rows
  <2>3. /\ Apply(a, x) \in Rows /\ Apply(a, x).st = a.st /\ Apply(a, x).gold = a.gold
        /\ op = "ItemPut" => Apply(a, x).items = a.items \cup {i} /\ Apply(a, x).inv = a.inv
        /\ op = "ItemDel" => Apply(a, x).items = a.items \ {i} /\ Apply(a, x).inv = a.inv
        /\ op = "InvPut" => Apply(a, x).items = a.items /\ Apply(a, x).inv = a.inv \cup {i}
        /\ op = "InvDel" => Apply(a, x).items = a.items /\ Apply(a, x).inv = a.inv \ {i}
    BY <1>1, <2>1, ApplyIs
  <2>4. Apply(a, x).st = b.st /\ Apply(a, x).gold = b.gold
    BY <1>2, <2>3
  <2>5. Apply(a, x).items = b.items
    BY <1>2, <2>1, <2>3
  <2>6. Apply(a, x).inv = b.inv
    BY <1>2, <2>1, <2>3
  <2>. QED BY <1>1, <2>2, <2>3, <2>4, <2>5, <2>6
<1>. QED BY <1>3

LEMMA EndsEach ==
    ASSUME NEW t, NEW s \in Seq(Statements), NEW e, Ends(t, s, e),
           NEW op \in ItemOps, NEW S \in SUBSET Items
    PROVE  LET r == s \o Each(op, SetToSeq(S)) IN r \in Seq(Statements) /\ Ends(t, r, Swept(e, op, S))
<1> DEFINE f == SetToSeq(S)
           A(n) == {f[k] : k \in 1 .. n}
           x(n) == Say("main", op, f[n], "none", 0)
           r == s \o Each(op, f)
<1>1. f \in Seq(Items) /\ {f[k] : k \in 1 .. Len(f)} = S
  <2>1. IsFiniteSet(S)
    BY StorageAssumption, FS_Subset
  <2>. QED BY <2>1, QueueOfSet, RangeIs
<1>2. PICK h : Replay(h, t, s) /\ e = h[Len(s)]
  BY DEF Ends
<1>3. \A n \in 1 .. Len(f) : f[n] \in Items /\ x(n) \in Statements /\ x(n).op = op
  BY <1>1, SayIs
<1>4. Each(op, f) \in Seq(Statements) /\ Len(Each(op, f)) = Len(f) /\ \A n \in 1 .. Len(f) : Each(op, f)[n] = x(n)
  BY <1>1, <1>3 DEF Each
<1>5. /\ r \in Seq(Statements) /\ Len(r) = Len(s) + Len(f) /\ Len(s) \in Nat /\ Len(f) \in Nat
      /\ \A n \in 1 .. Len(s) : r[n] = s[n]
      /\ \A n \in 1 .. Len(f) : r[Len(s) + n] = x(n)
  BY <1>1, <1>4
<1> DEFINE g == [n \in 0 .. Len(r) |-> IF n <= Len(s) THEN h[n] ELSE Swept(e, op, A(n - Len(s)))]
<1>6. e \in Rows
  BY EndsIn
<1>7. \A n \in 0 .. Len(f) : A(n) \in SUBSET Items
  BY <1>3
<1>8. \A n \in 0 .. Len(f) : Swept(e, op, A(n)) \in Rows
  BY <1>6, <1>7, SweptIs
<1>9. g \in [0 .. Len(r) -> Rows] /\ g[0] = t
  <2>1. ASSUME NEW n \in 0 .. Len(r) PROVE g[n] \in Rows
    <3>1. CASE n <= Len(s)
      BY <1>2, <1>5, <3>1 DEF Replay
    <3>2. CASE n > Len(s)
      <4>1. n - Len(s) \in 0 .. Len(f)
        BY <1>5, <3>2
      <4>2. Swept(e, op, A(n - Len(s))) \in Rows
        BY <4>1, <1>8
      <4>3. g[n] = Swept(e, op, A(n - Len(s)))
        BY <1>5, <3>2
      <4>. QED BY <4>2, <4>3
    <3>. QED BY <3>1, <3>2, <1>5
  <2>2. g \in [0 .. Len(r) -> Rows]
    BY <2>1
  <2>3. g[0] = h[0] /\ h[0] = t
    BY <1>2, <1>5 DEF Replay
  <2>. QED BY <2>2, <2>3
<1>10. Swept(e, op, A(0)) = e
  <2>1. A(0) = {}
    OBVIOUS
  <2>2. Swept(e, op, {}) = e
    BY <1>6 DEF Swept, ItemOps, Rows
  <2>. QED BY <2>1, <2>2
<1>11. ASSUME NEW n \in 1 .. Len(r) PROVE g[n] = Apply(g[n - 1], r[n]) /\ Wipes(r[n], g[n - 1])
  <2>1. CASE n <= Len(s)
    <3>1. n \in 1 .. Len(s) /\ n - 1 \in 0 .. Len(s) /\ g[n] = h[n] /\ g[n - 1] = h[n - 1] /\ r[n] = s[n]
      BY <1>5, <2>1
    <3>. QED BY <3>1, <1>2 DEF Replay
  <2>2. CASE n > Len(s)
    <3> DEFINE k == n - Len(s)
    <3>1. k \in 1 .. Len(f) /\ k - 1 \in 0 .. Len(f) /\ n = Len(s) + k /\ n - 1 \in 0 .. Len(r)
      BY <1>5, <2>2
    <3>2. r[n] = x(k) /\ x(k).op = op /\ f[k] \in Items
      BY <1>3, <1>5, <3>1
    <3>3. g[n] = Swept(e, op, A(k))
      BY <1>5, <3>1, <2>2
    <3>4. g[n - 1] = Swept(e, op, A(k - 1))
      <4>1. CASE k = 1
        <5>1. n - 1 = Len(s) /\ n - 1 <= Len(s)
          BY <3>1, <4>1, <1>5
        <5>2. g[n - 1] = h[n - 1]
          BY <5>1, <3>1
        <5>3. k - 1 = 0
          BY <4>1
        <5>. QED BY <5>1, <5>2, <5>3, <1>2, <1>10
      <4>2. CASE k # 1
        <5>1. ~(n - 1 <= Len(s)) /\ (n - 1) - Len(s) = k - 1
          BY <3>1, <4>2, <1>5
        <5>. QED BY <5>1, <3>1
      <4>. QED BY <4>1, <4>2
    <3>5. A(k) = A(k - 1) \cup {f[k]}
      <4>1. 1 .. k = (1 .. k - 1) \cup {k}
        BY <3>1
      <4>. QED BY <4>1
    <3>6. Apply(g[n - 1], r[n]) = Swept(e, op, A(k - 1) \cup {f[k]})
      BY <3>1, <3>2, <3>4, <1>6, <1>7, SweptMore
    <3>. QED BY <3>2, <3>3, <3>5, <3>6 DEF Wipes, ItemOps
  <2>. QED BY <2>1, <2>2, <1>5
<1>12. Replay(g, t, r)
  BY <1>9, <1>11 DEF Replay
<1>13. g[Len(r)] = Swept(e, op, S)
  <2>1. CASE Len(f) = 0
    <3>1. Len(r) = Len(s) /\ Len(r) <= Len(s) /\ Len(r) \in 0 .. Len(r) /\ A(0) = S
      BY <1>1, <1>5, <2>1
    <3>. QED BY <3>1, <1>2, <1>10
  <2>2. CASE Len(f) # 0
    <3>1. ~(Len(r) <= Len(s)) /\ Len(r) - Len(s) = Len(f) /\ Len(r) \in 0 .. Len(r)
      BY <1>5, <2>2
    <3>. QED BY <3>1, <1>1
  <2>. QED BY <2>1, <2>2
<1>. QED BY <1>5, <1>12, <1>13 DEF Ends

\* A row that is deleted in the end has its statement under way.
Deletes(s, i) == \E n \in DOMAIN s : s[n].item = i /\ s[n].op \in {"ItemDel", "InvDel"}

LEMMA KeptToTheEnd ==
    ASSUME NEW t, NEW s \in Seq(Statements), NEW e, Ends(t, s, e), NEW i \in t.items \cap t.inv, ~Deletes(s, i)
    PROVE  i \in e.items \cap e.inv
<1>1. PICK h : Replay(h, t, s) /\ e = h[Len(s)]
  BY DEF Ends
<1> DEFINE N == {n \in Nat : n <= Len(s) => i \in h[n].items \cap h[n].inv}
<1>2. 0 \in N
  BY <1>1 DEF Replay
<1>3. ASSUME NEW n \in Nat, n \in N PROVE n + 1 \in N
  <2>1. SUFFICES ASSUME n + 1 <= Len(s) PROVE i \in h[n + 1].items \cap h[n + 1].inv
    OBVIOUS
  <2>2. n + 1 \in 1 .. Len(s) /\ (n + 1) - 1 = n /\ n \in 0 .. Len(s) /\ n <= Len(s)
    BY <2>1
  <2>3. h[n] \in Rows /\ s[n + 1] \in Statements /\ i \in h[n].items /\ i \in h[n].inv
    BY <1>1, <1>3, <2>2 DEF Replay
  <2>4. h[n + 1] = Apply(h[n], s[n + 1]) /\ (s[n + 1].op = "ItemsDel" => h[n].items = {})
    BY <1>1, <2>2 DEF Replay, Wipes
  <2>5. s[n + 1].op \notin {"ItemDel", "InvDel"} \/ s[n + 1].item # i
    BY <2>2 DEF Deletes
  <2>6. s[n + 1].op \in ShopOps \cup ItemOps
    BY <2>3 DEF Statements
  <2> DEFINE x == s[n + 1]
             t0 == h[n]
  <2>7. x.op \in {"ShopPut", "ShopDel"} => Apply(t0, x).items = t0.items /\ Apply(t0, x).inv = t0.inv
    BY <2>3, ApplyIs
  <2>8. x.op \in {"SetState", "SetGold"} => Apply(t0, x).items = t0.items /\ Apply(t0, x).inv = t0.inv
    BY <2>3 DEF Apply, Rows
  <2>9. /\ x.op = "ItemPut" => Apply(t0, x).items = t0.items \cup {x.item} /\ Apply(t0, x).inv = t0.inv
        /\ x.op = "ItemDel" => Apply(t0, x).items = t0.items \ {x.item} /\ Apply(t0, x).inv = t0.inv
        /\ x.op = "InvPut" => Apply(t0, x).items = t0.items /\ Apply(t0, x).inv = t0.inv \cup {x.item}
        /\ x.op = "InvDel" => Apply(t0, x).items = t0.items /\ Apply(t0, x).inv = t0.inv \ {x.item}
    BY <2>3, ApplyIs
  <2> HIDE DEF x, t0
  <2>10. i \in Apply(t0, x).items /\ i \in Apply(t0, x).inv
    BY <2>3, <2>4, <2>5, <2>6, <2>7, <2>8, <2>9 DEF ShopOps, ItemOps, x, t0
  <2>. QED BY <2>4, <2>10 DEF x, t0
<1>4. Nat \subseteq N
  <2> HIDE DEF N
  <2>. QED BY <1>2, <1>3, Induction
<1>5. Len(s) \in Nat
  OBVIOUS
<1>. QED BY <1>1, <1>4, <1>5

LEMMA FirstRemoved == ASSUME NEW T, NEW s \in Seq(T), s # <<>> PROVE RemoveAt(s, 1) = Tail(s)
<1>1. SubSeq(s, 1, 0) = <<>> /\ SubSeq(s, 2, Len(s)) = Tail(s) /\ Tail(s) \in Seq(T)
  OBVIOUS
<1>2. SubSeq(s, 1, 1 - 1) = <<>> /\ SubSeq(s, 1 + 1, Len(s)) = Tail(s)
  BY <1>1
<1>. QED BY <1>1, <1>2, ConcatEmptySeq DEF RemoveAt

-----------------------------------------------------------------------------
\* The operators on the memory d of the DB process: what they leave in it, and in
\* the rows e once all its statements have been executed.

Reaches(d, e, g, f) == g \in Memories /\ f \in Rows /\ \A t : Ends(t, d.sql, e) => Ends(t, g.sql, f)
SameDesk(d, g) == g.mem = d.mem /\ g.hosted = d.hosted /\ g.cache = d.cache
SameStock(d, g) == g.set = d.set /\ g.item = d.item /\ g.inv = d.inv
SameShelf(e, f) == f.items = e.items /\ f.inv = e.inv
SameRow(e, f) == f.st = e.st /\ f.gold = e.gold

LEMMA MemoryIs ==
    ASSUME NEW d \in Memories
    PROVE  /\ d.mem \in Shops /\ d.hosted \in BOOLEAN /\ d.cache \in Caches /\ d.set \in BOOLEAN
           /\ d.item \in [Items -> Marks] /\ d.inv \in [Items -> Marks] /\ d.sql \in Seq(Statements)
           /\ d.mem.st \in States /\ d.mem.gold \in Nat /\ d.mem.items \subseteq Items /\ d.mem.held \subseteq Items
           /\ d.cache.st \in States /\ d.cache.gold \in Nat /\ d.cache.need \in BOOLEAN
BY DEF Memories, Shops, Caches

LEMMA ReachesOn ==
    ASSUME NEW d, NEW e, NEW g, NEW f, NEW k, NEW l, Reaches(d, e, g, f), Reaches(g, f, k, l)
    PROVE  Reaches(d, e, k, l)
BY DEF Reaches

LEMMA ReachesNow ==
    ASSUME NEW d, NEW e \in Rows, NEW g \in Memories, g.sql = d.sql
    PROVE  Reaches(d, e, g, e)
BY DEF Reaches

LEMMA SendIs ==
    ASSUME NEW d \in Memories, NEW e \in Rows, NEW x \in Statements, Wipes(x, e)
    PROVE  /\ Reaches(d, e, Send(d, x), Apply(e, x)) /\ Send(d, x) \in Memories
           /\ SameDesk(d, Send(d, x)) /\ SameStock(d, Send(d, x))
<1>1. d.sql \in Seq(Statements) /\ Append(d.sql, x) \in Seq(Statements)
  BY MemoryIs
<1>2. Send(d, x) \in Memories /\ Send(d, x).sql = Append(d.sql, x)
  BY <1>1 DEF Send, Memories
<1>3. SameDesk(d, Send(d, x)) /\ SameStock(d, Send(d, x))
  BY DEF Send, Memories, SameDesk, SameStock
<1>4. Apply(e, x) \in Rows
  BY ApplyIs
<1>5. \A t : Ends(t, d.sql, e) => Ends(t, Send(d, x).sql, Apply(e, x))
  BY <1>1, <1>2, EndsAppend
<1>. QED BY <1>2, <1>3, <1>4, <1>5 DEF Reaches

LEMMA SendEachIs ==
    ASSUME NEW d \in Memories, NEW e \in Rows, NEW op \in ItemOps, NEW S \in SUBSET Items
    PROVE  /\ Reaches(d, e, SendEach(d, op, S), Swept(e, op, S)) /\ SendEach(d, op, S) \in Memories
           /\ SameDesk(d, SendEach(d, op, S)) /\ SameStock(d, SendEach(d, op, S))
<1> DEFINE r == d.sql \o Each(op, SetToSeq(S))
           g == SendEach(d, op, S)
<1>1. g = [d EXCEPT !.sql = r]
  BY DEF SendEach, Each
<1>2. d.sql \in Seq(Statements)
  BY MemoryIs
<1>3. r \in Seq(Statements)
  <2>3. SetToSeq(S) \in Seq(Items)
    BY StorageAssumption, FS_Subset, QueueOfSet
  <2>4. Each(op, SetToSeq(S)) \in Seq(Statements)
    BY <2>3, SayIs DEF Each
  <2>. QED BY <1>2, <2>4
<1>4. g \in Memories /\ g.sql = r
  BY <1>1, <1>3 DEF Memories
<1>5. SameDesk(d, g) /\ SameStock(d, g)
  BY <1>1 DEF Memories, SameDesk, SameStock
<1>6. Swept(e, op, S) \in Rows
  BY SweptIs
<1>7. \A t : Ends(t, d.sql, e) => Ends(t, r, Swept(e, op, S))
  BY <1>2, EndsEach
<1>. QED BY <1>4, <1>5, <1>6, <1>7 DEF Reaches

LEMMA FlushCacheIs ==
    ASSUME NEW d \in Memories, NEW e \in Rows
    PROVE  \E f : LET g == FlushCache(d) IN
               /\ Reaches(d, e, g, f) /\ g \in Memories /\ SameShelf(e, f)
               /\ g.mem = d.mem /\ g.hosted = d.hosted /\ SameStock(d, g)
               /\ g.cache.st = d.cache.st /\ g.cache.gold = d.cache.gold /\ ~g.cache.need
               /\ d.cache.need => f.st = d.cache.st /\ f.gold = d.cache.gold
               /\ ~d.cache.need => SameRow(e, f) /\ g = d
<1>1. CASE ~d.cache.need
  <2>1. FlushCache(d) = d
    BY <1>1 DEF FlushCache
  <2>2. Reaches(d, e, d, e)
    BY ReachesNow
  <2>. QED BY <1>1, <2>1, <2>2 DEF SameShelf, SameStock, SameRow
<1>2. CASE d.cache.need
  <2> DEFINE x == Say("main", "ShopPut", NoItem, d.cache.st, d.cache.gold)
             k == Send(d, x)
             g == FlushCache(d)
             f == Apply(e, x)
  <2>1. x \in Statements /\ x.op = "ShopPut" /\ x.st = d.cache.st /\ x.gold = d.cache.gold
    BY MemoryIs, SayIs DEF ShopOps
  <2>2. Reaches(d, e, k, f) /\ k \in Memories /\ SameDesk(d, k) /\ SameStock(d, k)
    BY <2>1, SendIs DEF Wipes
  <2>3. f.st = d.cache.st /\ f.gold = d.cache.gold /\ SameShelf(e, f)
    BY <2>1, ApplyIs DEF SameShelf
  <2>4. g = [k EXCEPT !.cache.need = FALSE]
    BY <1>2 DEF FlushCache
  <2> HIDE DEF g, k, x, f
  <2>5. /\ g \in Memories /\ g.mem = k.mem /\ g.hosted = k.hosted /\ SameStock(k, g) /\ g.sql = k.sql
        /\ g.cache.st = k.cache.st /\ g.cache.gold = k.cache.gold /\ g.cache.need = FALSE
    BY <2>2, <2>4 DEF Memories, Caches, SameStock
  <2>6. Reaches(d, e, g, f)
    BY <2>2, <2>5 DEF Reaches
  <2>7. g.mem = d.mem /\ g.hosted = d.hosted /\ SameStock(d, g) /\ g.cache.st = d.cache.st /\ g.cache.gold = d.cache.gold
    BY <2>2, <2>5 DEF SameDesk, SameStock
  <2>. QED BY <1>2, <2>3, <2>5, <2>6, <2>7 DEF g
<1>. QED BY <1>1, <1>2

LEMMA PutCacheIs ==
    ASSUME NEW d \in Memories, NEW e \in Rows, NEW st \in States, NEW gold \in Nat
    PROVE  LET g == PutCache(d, st, gold) IN
               /\ Reaches(d, e, g, e) /\ g \in Memories /\ SameStock(d, g)
               /\ g.mem = d.mem /\ g.hosted = d.hosted /\ g.sql = d.sql
               /\ g.cache.st = st /\ g.cache.gold = gold /\ g.cache.need
<1> DEFINE g == PutCache(d, st, gold)
<1>1. /\ g \in Memories /\ SameStock(d, g) /\ g.mem = d.mem /\ g.hosted = d.hosted /\ g.sql = d.sql
      /\ g.cache.st = st /\ g.cache.gold = gold /\ g.cache.need
  BY DEF PutCache, Memories, Caches, SameStock
<1>. QED BY <1>1, ReachesNow

\* The shop's own state and gold; through the cache if there is one, otherwise by a
\* statement, which has an effect only if there is a row.
LEMMA NoteIs ==
    ASSUME NEW d \in Memories, NEW e \in Rows, NEW op \in {"SetState", "SetGold"}, NEW st \in States, NEW gold \in Nat,
           e.st # "none"
    PROVE  \E f : LET g == Send(d, Say("async", op, NoItem, st, gold)) IN
               /\ Reaches(d, e, g, f) /\ g \in Memories /\ SameShelf(e, f) /\ SameDesk(d, g) /\ SameStock(d, g)
               /\ op = "SetState" => f.st = st /\ f.gold = e.gold
               /\ op = "SetGold" => f.st = e.st /\ f.gold = gold
<1> DEFINE x == Say("async", op, NoItem, st, gold)
<1>1. x \in Statements /\ x.op = op /\ x.st = st /\ x.gold = gold
  BY SayIs DEF ShopOps
<1>2. Reaches(d, e, Send(d, x), Apply(e, x)) /\ Send(d, x) \in Memories /\ SameDesk(d, Send(d, x)) /\ SameStock(d, Send(d, x))
  BY <1>1, SendIs DEF Wipes
<1>3. /\ SameShelf(e, Apply(e, x))
      /\ op = "SetState" => Apply(e, x).st = st /\ Apply(e, x).gold = e.gold
      /\ op = "SetGold" => Apply(e, x).st = e.st /\ Apply(e, x).gold = gold
  <2> HIDE DEF x
  <2>. QED BY <1>1, ApplyIs DEF SameShelf
<1>. QED BY <1>2, <1>3

LEMMA ChangeStateIs ==
    ASSUME NEW d \in Memories, NEW e \in Rows, NEW st \in States, d.cache.st # "none" \/ e.st # "none"
    PROVE  \E f : LET g == ChangeState(d, st) IN
               /\ Reaches(d, e, g, f) /\ g \in Memories /\ SameShelf(e, f) /\ SameStock(d, g)
               /\ g.mem.st = st /\ g.mem.gold = d.mem.gold /\ g.mem.items = d.mem.items /\ g.mem.held = d.mem.held
               /\ g.hosted = d.hosted /\ f.st = st
               /\ IF d.cache.st # "none"
                  THEN g.cache.st = st /\ g.cache.gold = d.cache.gold /\ ~g.cache.need /\ f.gold = d.cache.gold
                  ELSE g.cache = d.cache /\ f.gold = e.gold
<1> DEFINE k == [d EXCEPT !.mem.st = st]
<1>1. /\ k \in Memories /\ SameStock(d, k) /\ k.hosted = d.hosted /\ k.cache = d.cache /\ k.sql = d.sql
      /\ k.mem.st = st /\ k.mem.gold = d.mem.gold /\ k.mem.items = d.mem.items /\ k.mem.held = d.mem.held
  BY DEF Memories, Shops, SameStock
<1>2. Reaches(d, e, k, e)
  BY <1>1, ReachesNow
<1>3. CASE d.cache.st # "none"
  <2> DEFINE l == PutCache(k, st, d.cache.gold)
  <2>1. ChangeState(d, st) = FlushCache(l)
    BY <1>3 DEF ChangeState
  <2> HIDE DEF k
  <2>2. /\ Reaches(k, e, l, e) /\ l \in Memories /\ SameStock(k, l) /\ l.mem = k.mem /\ l.hosted = k.hosted
        /\ l.cache.st = st /\ l.cache.gold = d.cache.gold /\ l.cache.need
    BY <1>1, MemoryIs, PutCacheIs
  <2> HIDE DEF l
  <2>3. PICK f : LET g == FlushCache(l) IN
               /\ Reaches(l, e, g, f) /\ g \in Memories /\ SameShelf(e, f)
               /\ g.mem = l.mem /\ g.hosted = l.hosted /\ SameStock(l, g)
               /\ g.cache.st = l.cache.st /\ g.cache.gold = l.cache.gold /\ ~g.cache.need
               /\ l.cache.need => f.st = l.cache.st /\ f.gold = l.cache.gold
    BY <2>2, FlushCacheIs
  <2>4. Reaches(d, e, FlushCache(l), f)
    BY <1>2, <2>2, <2>3, ReachesOn
  <2>. QED BY <1>1, <1>3, <2>1, <2>2, <2>3, <2>4 DEF SameStock
<1>4. CASE d.cache.st = "none"
  <2>1. ChangeState(d, st) = Send(k, Say("async", "SetState", NoItem, st, 0))
    BY <1>4 DEF ChangeState
  <2> HIDE DEF k
  <2>2. PICK f : LET g == Send(k, Say("async", "SetState", NoItem, st, 0)) IN
               /\ Reaches(k, e, g, f) /\ g \in Memories /\ SameShelf(e, f) /\ SameDesk(k, g) /\ SameStock(k, g)
               /\ f.st = st /\ f.gold = e.gold
    BY <1>1, <1>4, NoteIs
  <2>3. Reaches(d, e, Send(k, Say("async", "SetState", NoItem, st, 0)), f)
    BY <1>2, <2>2, ReachesOn
  <2>. QED BY <1>1, <1>4, <2>1, <2>2, <2>3 DEF SameStock, SameDesk
<1>. QED BY <1>3, <1>4

LEMMA UpdateBalanceIs ==
    ASSUME NEW d \in Memories, NEW e \in Rows, d.cache.st # "none" \/ e.st # "none"
    PROVE  \E f : LET g == UpdateBalance(d) IN
               /\ Reaches(d, e, g, f) /\ g \in Memories /\ SameShelf(e, f) /\ SameStock(d, g)
               /\ g.mem.st = d.mem.st /\ g.mem.gold = d.mem.gold + 1 /\ g.mem.items = d.mem.items /\ g.mem.held = d.mem.held
               /\ g.hosted = d.hosted /\ f.st = e.st
               /\ IF d.cache.st # "none"
                  THEN g.cache.st = d.cache.st /\ g.cache.gold = d.cache.gold + 1 /\ g.cache.need /\ f = e
                  ELSE g.cache = d.cache /\ f.gold = d.mem.gold + 1
<1> DEFINE k == [d EXCEPT !.mem.gold = @ + 1]
<1>1. /\ k \in Memories /\ SameStock(d, k) /\ k.hosted = d.hosted /\ k.cache = d.cache /\ k.sql = d.sql
      /\ k.mem.gold = d.mem.gold + 1 /\ k.mem.st = d.mem.st /\ k.mem.items = d.mem.items /\ k.mem.held = d.mem.held
  BY DEF Memories, Shops, SameStock
<1>2. Reaches(d, e, k, e)
  BY <1>1, ReachesNow
<1>3. CASE d.cache.st # "none"
  <2> DEFINE g == PutCache(k, d.cache.st, d.cache.gold + 1)
  <2>1. UpdateBalance(d) = g
    BY <1>3 DEF UpdateBalance
  <2> HIDE DEF k
  <2>4. d.cache.st \in States /\ d.cache.gold + 1 \in Nat
    BY MemoryIs
  <2>2. /\ Reaches(k, e, g, e) /\ g \in Memories /\ SameStock(k, g) /\ g.mem = k.mem /\ g.hosted = k.hosted
        /\ g.cache.st = d.cache.st /\ g.cache.gold = d.cache.gold + 1 /\ g.cache.need
    BY <1>1, <2>4, PutCacheIs
  <2>3. Reaches(d, e, g, e)
    BY <1>2, <2>2, ReachesOn
  <2> HIDE DEF g
  <2>. QED BY <1>1, <1>3, <2>1, <2>2, <2>3 DEF SameStock, SameShelf
<1>4. CASE d.cache.st = "none"
  <2> DEFINE g == Send(k, Say("async", "SetGold", NoItem, "none", k.mem.gold))
  <2>1. UpdateBalance(d) = g
    BY <1>4 DEF UpdateBalance
  <2>2. "none" \in States /\ k.mem.gold \in Nat
    <3> HIDE DEF k
    <3>. QED BY <1>1, MemoryIs DEF States
  <2> HIDE DEF k
  <2>3. PICK f : /\ Reaches(k, e, g, f) /\ g \in Memories /\ SameShelf(e, f) /\ SameDesk(k, g) /\ SameStock(k, g)
                 /\ f.st = e.st /\ f.gold = k.mem.gold
    BY <1>1, <1>4, <2>2, NoteIs
  <2>4. Reaches(d, e, g, f)
    BY <1>2, <2>3, ReachesOn
  <2> HIDE DEF g
  <2>. QED BY <1>1, <1>4, <2>1, <2>3, <2>4 DEF SameStock, SameDesk
<1>. QED BY <1>3, <1>4

LEMMA WithdrawIs ==
    ASSUME NEW d \in Memories, NEW e \in Rows, d.cache.st # "none" \/ e.st # "none"
    PROVE  \E f : LET g == Withdraw(d) IN
               /\ Reaches(d, e, g, f) /\ g \in Memories /\ SameShelf(e, f) /\ SameStock(d, g)
               /\ g.mem.st = d.mem.st /\ g.mem.gold = 0 /\ g.mem.items = d.mem.items /\ g.mem.held = d.mem.held
               /\ g.hosted = d.hosted /\ f.gold = 0
               /\ IF d.cache.st # "none"
                  THEN g.cache.st = d.cache.st /\ g.cache.gold = 0 /\ ~g.cache.need /\ f.st = d.cache.st
                  ELSE g.cache = d.cache /\ f.st = e.st
<1> DEFINE k == [d EXCEPT !.mem.gold = 0]
<1>1. /\ k \in Memories /\ SameStock(d, k) /\ k.hosted = d.hosted /\ k.cache = d.cache /\ k.sql = d.sql
      /\ k.mem.gold = 0 /\ k.mem.st = d.mem.st /\ k.mem.items = d.mem.items /\ k.mem.held = d.mem.held
  BY DEF Memories, Shops, SameStock
<1>2. Reaches(d, e, k, e)
  BY <1>1, ReachesNow
<1>3. CASE d.cache.st # "none"
  <2> DEFINE l == PutCache(k, d.cache.st, 0)
  <2>1. Withdraw(d) = FlushCache(l)
    BY <1>3 DEF Withdraw
  <2> HIDE DEF k
  <2>2. /\ Reaches(k, e, l, e) /\ l \in Memories /\ SameStock(k, l) /\ l.mem = k.mem /\ l.hosted = k.hosted
        /\ l.cache.st = d.cache.st /\ l.cache.gold = 0 /\ l.cache.need
    BY <1>1, MemoryIs, PutCacheIs
  <2> HIDE DEF l
  <2>3. PICK f : LET g == FlushCache(l) IN
               /\ Reaches(l, e, g, f) /\ g \in Memories /\ SameShelf(e, f)
               /\ g.mem = l.mem /\ g.hosted = l.hosted /\ SameStock(l, g)
               /\ g.cache.st = l.cache.st /\ g.cache.gold = l.cache.gold /\ ~g.cache.need
               /\ l.cache.need => f.st = l.cache.st /\ f.gold = l.cache.gold
    BY <2>2, FlushCacheIs
  <2>4. Reaches(d, e, FlushCache(l), f)
    BY <1>2, <2>2, <2>3, ReachesOn
  <2>. QED BY <1>1, <1>3, <2>1, <2>2, <2>3, <2>4 DEF SameStock
<1>4. CASE d.cache.st = "none"
  <2> DEFINE g == Send(k, Say("async", "SetGold", NoItem, "none", 0))
  <2>1. Withdraw(d) = g
    BY <1>4 DEF Withdraw
  <2>2. "none" \in States
    BY DEF States
  <2> HIDE DEF k
  <2>3. PICK f : /\ Reaches(k, e, g, f) /\ g \in Memories /\ SameShelf(e, f) /\ SameDesk(k, g) /\ SameStock(k, g)
                 /\ f.st = e.st /\ f.gold = 0
    BY <1>1, <1>4, <2>2, NoteIs
  <2>4. Reaches(d, e, g, f)
    BY <1>2, <2>3, ReachesOn
  <2> HIDE DEF g
  <2>. QED BY <1>1, <1>4, <2>1, <2>3, <2>4 DEF SameStock, SameDesk
<1>. QED BY <1>3, <1>4

\* The items' caches.
LEMMA WriteIs ==
    ASSUME NEW d \in Memories, NEW e \in Rows, NEW S \in SUBSET Items
    PROVE  \E f : LET g == Write(d, S) IN
               /\ Reaches(d, e, g, f) /\ g \in Memories /\ SameDesk(d, g) /\ SameRow(e, f)
               /\ g.set = d.set /\ g.inv = d.inv /\ f.items = e.items \cup S /\ f.inv = e.inv
               /\ \A i \in Items : g.item[i] = IF i \in S THEN "clean" ELSE d.item[i]
<1> DEFINE k == SendEach(d, "ItemPut", S)
           f == Swept(e, "ItemPut", S)
           g == Write(d, S)
<1>1. Reaches(d, e, k, f) /\ k \in Memories /\ SameDesk(d, k) /\ SameStock(d, k)
  BY SendEachIs DEF ItemOps
<1>2. SameRow(e, f) /\ f.items = e.items \cup S /\ f.inv = e.inv
  BY SweptIs DEF ItemOps, SameRow
<1>3. g = [k EXCEPT !.item = [i \in Items |-> IF i \in S THEN "clean" ELSE k.item[i]]]
  BY DEF Write
<1> HIDE DEF k, f, g
<1>4. [i \in Items |-> IF i \in S THEN "clean" ELSE k.item[i]] \in [Items -> Marks]
  BY <1>1, MemoryIs DEF Marks
<1>5. /\ g \in Memories /\ SameDesk(k, g) /\ g.set = k.set /\ g.inv = k.inv /\ g.sql = k.sql
      /\ g.item = [i \in Items |-> IF i \in S THEN "clean" ELSE k.item[i]]
  BY <1>1, <1>3, <1>4 DEF Memories, SameDesk
<1>6. Reaches(d, e, g, f)
  BY <1>1, <1>5 DEF Reaches
<1>7. SameDesk(d, g) /\ g.set = d.set /\ g.inv = d.inv /\ \A i \in Items : g.item[i] = IF i \in S THEN "clean" ELSE d.item[i]
  BY <1>1, <1>5 DEF SameDesk, SameStock
<1>. QED BY <1>2, <1>5, <1>6, <1>7 DEF g

LEMMA SaveIs ==
    ASSUME NEW d \in Memories, NEW e \in Rows, NEW S \in SUBSET Items
    PROVE  \E f : LET g == Save(d, S) IN
               /\ Reaches(d, e, g, f) /\ g \in Memories /\ SameDesk(d, g) /\ SameRow(e, f)
               /\ g.set = d.set /\ g.item = d.item /\ f.items = e.items /\ f.inv = e.inv \cup S
               /\ \A i \in Items : g.inv[i] = IF i \in S THEN "clean" ELSE d.inv[i]
<1> DEFINE k == SendEach(d, "InvPut", S)
           f == Swept(e, "InvPut", S)
           g == Save(d, S)
<1>1. Reaches(d, e, k, f) /\ k \in Memories /\ SameDesk(d, k) /\ SameStock(d, k)
  BY SendEachIs DEF ItemOps
<1>2. SameRow(e, f) /\ f.items = e.items /\ f.inv = e.inv \cup S
  BY SweptIs DEF ItemOps, SameRow
<1>3. g = [k EXCEPT !.inv = [i \in Items |-> IF i \in S THEN "clean" ELSE k.inv[i]]]
  BY DEF Save
<1> HIDE DEF k, f, g
<1>4. [i \in Items |-> IF i \in S THEN "clean" ELSE k.inv[i]] \in [Items -> Marks]
  BY <1>1, MemoryIs DEF Marks
<1>5. /\ g \in Memories /\ SameDesk(k, g) /\ g.set = k.set /\ g.item = k.item /\ g.sql = k.sql
      /\ g.inv = [i \in Items |-> IF i \in S THEN "clean" ELSE k.inv[i]]
  BY <1>1, <1>3, <1>4 DEF Memories, SameDesk
<1>6. Reaches(d, e, g, f)
  BY <1>1, <1>5 DEF Reaches
<1>7. SameDesk(d, g) /\ g.set = d.set /\ g.item = d.item /\ \A i \in Items : g.inv[i] = IF i \in S THEN "clean" ELSE d.inv[i]
  BY <1>1, <1>5 DEF SameDesk, SameStock
<1>. QED BY <1>2, <1>5, <1>6, <1>7 DEF g

Flushed(d, e, f) == f.items = e.items \cup Dirty(d) /\ f.inv = e.inv /\ SameRow(e, f)

LEMMA DirtyIs == \A d : Dirty(d) \in SUBSET Items
BY DEF Dirty

LEMMA UpdateSetIs ==
    ASSUME NEW d \in Memories, NEW e \in Rows, ~d.set => Dirty(d) = {}
    PROVE  \E f : LET g == UpdatePrivateShopItemCacheSet(d) IN
               /\ Reaches(d, e, g, f) /\ g \in Memories /\ SameDesk(d, g)
               /\ g.set = d.set /\ g.inv = d.inv /\ Flushed(d, e, f)
               /\ \A i \in Items : g.item[i] = IF d.item[i] = "dirty" THEN "clean" ELSE d.item[i]
<1> DEFINE g == UpdatePrivateShopItemCacheSet(d)
<1>1. CASE d.set
  <2>1. g = Write(d, Dirty(d))
    BY <1>1 DEF UpdatePrivateShopItemCacheSet
  <2>2. PICK f :
               /\ Reaches(d, e, Write(d, Dirty(d)), f) /\ Write(d, Dirty(d)) \in Memories /\ SameDesk(d, Write(d, Dirty(d))) /\ SameRow(e, f)
               /\ Write(d, Dirty(d)).set = d.set /\ Write(d, Dirty(d)).inv = d.inv /\ f.items = e.items \cup Dirty(d) /\ f.inv = e.inv
               /\ \A i \in Items : Write(d, Dirty(d)).item[i] = IF i \in Dirty(d) THEN "clean" ELSE d.item[i]
    BY DirtyIs, WriteIs
  <2>3. \A i \in Items : i \in Dirty(d) <=> d.item[i] = "dirty"
    BY DEF Dirty
  <2> HIDE DEF g
  <2>. QED BY <2>1, <2>2, <2>3 DEF Flushed, g
<1>2. CASE ~d.set
  <2>1. g = d /\ Dirty(d) = {} /\ \A i \in Items : d.item[i] # "dirty"
    BY <1>2 DEF UpdatePrivateShopItemCacheSet, Dirty
  <2>2. Reaches(d, e, d, e)
    BY ReachesNow
  <2>. QED BY <2>1, <2>2 DEF Flushed, SameDesk, SameRow
<1>. QED BY <1>1, <1>2, MemoryIs

LEMMA DropItemCachesIs ==
    ASSUME NEW d \in Memories, NEW e \in Rows
    PROVE  LET g == DropItemCaches(d) IN
               /\ Reaches(d, e, g, e) /\ g \in Memories /\ SameDesk(d, g)
               /\ ~g.set /\ g.inv = d.inv /\ g.item = [i \in Items |-> "none"]
<1> DEFINE g == DropItemCaches(d)
<1>1. [i \in Items |-> "none"] \in [Items -> Marks]
  BY DEF Marks
<1>2. /\ g \in Memories /\ SameDesk(d, g) /\ g.sql = d.sql
      /\ g.set = FALSE /\ g.inv = d.inv /\ g.item = [i \in Items |-> "none"]
  BY <1>1 DEF DropItemCaches, Memories, SameDesk
<1>. QED BY <1>2, ReachesNow

LEMMA FlushItemSetIs ==
    ASSUME NEW d \in Memories, NEW e \in Rows
    PROVE  \E f : LET g == FlushPrivateShopItemCacheSet(d) IN
               /\ Reaches(d, e, g, f) /\ g \in Memories /\ SameDesk(d, g)
               /\ ~g.set /\ g.inv = d.inv /\ Flushed(d, e, f) /\ g.item = [i \in Items |-> "none"]
<1> DEFINE k == Write(d, Dirty(d))
           g == DropItemCaches(k)
<1>1. FlushPrivateShopItemCacheSet(d) = g
  BY DEF FlushPrivateShopItemCacheSet
<1>2. PICK f : /\ Reaches(d, e, k, f) /\ k \in Memories /\ SameDesk(d, k) /\ SameRow(e, f)
               /\ k.set = d.set /\ k.inv = d.inv /\ f.items = e.items \cup Dirty(d) /\ f.inv = e.inv
  BY DirtyIs, WriteIs
<1> HIDE DEF k
<1>3. f \in Rows
  BY <1>2 DEF Reaches
<1>4. /\ Reaches(k, f, g, f) /\ g \in Memories /\ SameDesk(k, g)
      /\ ~g.set /\ g.inv = k.inv /\ g.item = [i \in Items |-> "none"]
  BY <1>2, <1>3, DropItemCachesIs
<1>5. Reaches(d, e, g, f)
  BY <1>2, <1>4, ReachesOn
<1> HIDE DEF g
<1>. QED BY <1>1, <1>2, <1>4, <1>5 DEF Flushed, SameDesk

LEMMA FlushShopIs ==
    ASSUME NEW d \in Memories, NEW e \in Rows
    PROVE  \E f : LET g == FlushPrivateShopCache(d) IN
               /\ Reaches(d, e, g, f) /\ g \in Memories /\ SameShelf(e, f)
               /\ g.mem = d.mem /\ g.hosted = d.hosted /\ SameStock(d, g) /\ g.cache = NoCache
               /\ d.cache.need => f.st = d.cache.st /\ f.gold = d.cache.gold
               /\ ~d.cache.need => SameRow(e, f)
<1> DEFINE k == FlushCache(d)
           g == [k EXCEPT !.cache = NoCache]
<1>1. FlushPrivateShopCache(d) = g
  BY DEF FlushPrivateShopCache
<1>2. PICK f : /\ Reaches(d, e, k, f) /\ k \in Memories /\ SameShelf(e, f)
               /\ k.mem = d.mem /\ k.hosted = d.hosted /\ SameStock(d, k)
               /\ d.cache.need => f.st = d.cache.st /\ f.gold = d.cache.gold
               /\ ~d.cache.need => SameRow(e, f)
  BY FlushCacheIs
<1> HIDE DEF k
<1>3. NoCache \in Caches
  BY DEF NoCache, Caches, States
<1>4. g \in Memories /\ g.mem = k.mem /\ g.hosted = k.hosted /\ SameStock(k, g) /\ g.cache = NoCache /\ g.sql = k.sql
  BY <1>2, <1>3 DEF Memories, SameStock
<1>5. Reaches(d, e, g, f)
  BY <1>2, <1>4 DEF Reaches
<1> HIDE DEF g
<1>. QED BY <1>1, <1>2, <1>4, <1>5 DEF SameStock

LEMMA RemoveItemIs ==
    ASSUME NEW d \in Memories, NEW e \in Rows, NEW i \in Items
    PROVE  \E f : LET g == RemoveItem(d, i) IN
               /\ Reaches(d, e, g, f) /\ g \in Memories /\ SameRow(e, f)
               /\ g.mem.st = d.mem.st /\ g.mem.gold = d.mem.gold
               /\ g.mem.items = d.mem.items \ {i} /\ g.mem.held = d.mem.held \ {i}
               /\ g.hosted = d.hosted /\ g.cache = d.cache /\ g.set = d.set /\ g.inv = d.inv
               /\ f.items = e.items \ {i} /\ f.inv = e.inv
               /\ g.item = IF d.item[i] # "none" THEN [d.item EXCEPT ![i] = "dead"] ELSE d.item
<1> DEFINE k == [d EXCEPT !.mem.items = @ \ {i}, !.mem.held = @ \ {i}]
           x(c) == Say(c, "ItemDel", i, "none", 0)
           f == Apply(e, x("main"))
           l(c) == Send(k, x(c))
<1>1. /\ k \in Memories /\ SameStock(d, k) /\ k.hosted = d.hosted /\ k.cache = d.cache /\ k.sql = d.sql
      /\ k.mem.st = d.mem.st /\ k.mem.gold = d.mem.gold
      /\ k.mem.items = d.mem.items \ {i} /\ k.mem.held = d.mem.held \ {i}
  BY DEF Memories, Shops, SameStock
<1>2. Reaches(d, e, k, e)
  BY <1>1, ReachesNow
<1>3. \A c \in {"main", "async"} : x(c) \in Statements /\ x(c).op = "ItemDel" /\ x(c).item = i
  BY SayIs DEF ItemOps
<1>4. Apply(e, x("async")) = f
  BY DEF Apply, Say
<1> HIDE DEF x
<1>5. SameRow(e, f) /\ f.items = e.items \ {i} /\ f.inv = e.inv
  BY <1>3, ApplyIs DEF SameRow
<1> HIDE DEF k
<1>6. \A c \in {"main", "async"} : Reaches(k, e, l(c), f) /\ l(c) \in Memories /\ SameDesk(k, l(c)) /\ SameStock(k, l(c))
  BY <1>1, <1>3, <1>4, SendIs DEF Wipes
<1> HIDE DEF f
<1>7. \A c \in {"main", "async"} : Reaches(d, e, l(c), f)
  <2> HIDE DEF l
  <2>. QED BY <1>2, <1>6, ReachesOn
<1>8. CASE d.item[i] = "none"
  <2>1. RemoveItem(d, i) = l("async")
    BY <1>8 DEF RemoveItem, k, x
  <2> HIDE DEF l
  <2>. QED BY <1>1, <1>5, <1>6, <1>7, <1>8, <2>1 DEF SameStock, SameDesk
<1>9. CASE d.item[i] # "none"
  <2> DEFINE g == [l("main") EXCEPT !.item[i] = "dead"]
  <2>1. RemoveItem(d, i) = g
    BY <1>9 DEF RemoveItem, k, x
  <2> HIDE DEF l
  <2>2. l("main") \in Memories /\ l("main").item \in [Items -> Marks]
    BY <1>6, MemoryIs
  <2>3. [l("main").item EXCEPT ![i] = "dead"] \in [Items -> Marks]
    BY <2>2 DEF Marks
  <2>4. /\ g \in Memories /\ SameDesk(l("main"), g) /\ g.set = l("main").set /\ g.inv = l("main").inv /\ g.sql = l("main").sql
        /\ g.item = [l("main").item EXCEPT ![i] = "dead"]
    BY <2>2, <2>3 DEF Memories, SameDesk
  <2> HIDE DEF g
  <2>5. Reaches(d, e, g, f)
    BY <1>7, <2>4 DEF Reaches
  <2>. QED BY <1>1, <1>5, <1>6, <1>9, <2>1, <2>4, <2>5 DEF SameStock, SameDesk
<1>. QED BY <1>8, <1>9

-----------------------------------------------------------------------------
\* What holds of the memory d and the rows e in the end.  Stock: the items of the
\* shop, which are in the caches once these have been filled.

Live(d) == {i \in Items : d.item[i] \in {"clean", "dirty"}}
Clean(d) == {i \in Items : d.item[i] = "clean"}
Stock(d, e) == IF d.set THEN Live(d) ELSE e.items

KeptShop(d, e) ==
    /\ d.mem.st = "none" => d.mem.items = {} /\ ~d.hosted
    /\ d.mem.st # "none" => d.mem.items = Stock(d, e) /\ e.st # "none"
    /\ d.mem.st = "CLOSED" => d.mem.items = {}
    /\ d.mem.held \subseteq d.mem.items
KeptItems(d, e) ==
    /\ d.set => e.items \subseteq Live(d) /\ Clean(d) \subseteq e.items
    /\ ~d.set => \A i \in Items : d.item[i] = "none"
    /\ Dirty(d) # {} => d.hosted /\ d.mem.st # "UNAVAILABLE" /\ e.st = d.mem.st /\ d.cache.st = d.mem.st
KeptCache(d, e) ==
    /\ d.cache.need => d.cache.st # "none"
    /\ d.cache.st # "none" => e.st # "none"
    /\ e.st = "none" => e.items = {}
Kept(d, e) == KeptShop(d, e) /\ KeptItems(d, e) /\ KeptCache(d, e)

\* As long as the owner has not asked for a shop without a host: every copy of the
\* gold is the sales of which o are owed, and a row or a cache that no start of a
\* core looks for has no stock.
Paid(d, e, o) ==
    /\ d.mem.st # "none" => d.mem.gold = o
    /\ d.cache.st # "none" => d.cache.gold = o
    /\ e.gold = o \/ (d.cache.need /\ d.hosted /\ d.mem.st # "UNAVAILABLE")
Placed(d, e) ==
    /\ e.st \in {"CLOSED", "UNAVAILABLE"} => e.items = {}
    /\ d.cache.st \in {"CLOSED", "UNAVAILABLE"} => Stock(d, e) = {}

Stays(d, e, g, f) ==
    /\ Stock(g, f) = Stock(d, e) /\ f.inv = e.inv
    /\ \A o : Paid(d, e, o) => Paid(g, f, o)
    /\ Placed(d, e) => Placed(g, f)

LEMMA StaysOn ==
    ASSUME NEW d, NEW e, NEW g, NEW f, NEW k, NEW l, Stays(d, e, g, f), Stays(g, f, k, l)
    PROVE  Stays(d, e, k, l)
BY DEF Stays

LEMMA StockIs ==
    ASSUME NEW d \in Memories, NEW e \in Rows, KeptItems(d, e)
    PROVE  /\ Stock(d, e) \subseteq Items /\ e.items \subseteq Stock(d, e)
           /\ Dirty(d) \subseteq Stock(d, e)
           /\ Stock(d, e) \subseteq e.items \cup Dirty(d)
           /\ \A i \in Items : i \in Dirty(d) <=> d.item[i] = "dirty"
           /\ Dirty(d) # {} => d.set
BY DEF Stock, KeptItems, Live, Clean, Dirty, Rows

LEMMA SameStockIs ==
    ASSUME NEW d, NEW e, NEW g, NEW f, SameStock(d, g), SameShelf(e, f)
    PROVE  Stock(g, f) = Stock(d, e) /\ Live(g) = Live(d) /\ Clean(g) = Clean(d) /\ Dirty(g) = Dirty(d)
BY DEF Stock, Live, Clean, Dirty, SameStock, SameShelf

LEMMA FlushCacheKeeps ==
    ASSUME NEW d \in Memories, NEW e \in Rows, Kept(d, e)
    PROVE  \E f : LET g == FlushCache(d) IN
               /\ Reaches(d, e, g, f) /\ g \in Memories /\ Kept(g, f) /\ Stays(d, e, g, f) /\ SameStock(d, g)
               /\ g.mem = d.mem /\ g.hosted = d.hosted /\ g.cache.st = d.cache.st
<1> DEFINE g == FlushCache(d)
<1>1. PICK f : /\ Reaches(d, e, g, f) /\ g \in Memories /\ SameShelf(e, f)
               /\ g.mem = d.mem /\ g.hosted = d.hosted /\ SameStock(d, g)
               /\ g.cache.st = d.cache.st /\ g.cache.gold = d.cache.gold /\ ~g.cache.need
               /\ d.cache.need => f.st = d.cache.st /\ f.gold = d.cache.gold
               /\ ~d.cache.need => SameRow(e, f)
  BY FlushCacheIs
<1> HIDE DEF g
<1>2. Stock(g, f) = Stock(d, e) /\ Live(g) = Live(d) /\ Clean(g) = Clean(d) /\ Dirty(g) = Dirty(d)
  BY <1>1, SameStockIs
<1>3. e.items \subseteq Stock(d, e) /\ f.items = e.items /\ f.inv = e.inv
  BY <1>1, StockIs DEF Kept, SameShelf
<1>4. KeptShop(g, f)
  BY <1>1, <1>2 DEF Kept, KeptShop, KeptCache, SameRow
<1>5. KeptItems(g, f)
  BY <1>1, <1>2, <1>3 DEF Kept, KeptItems, SameStock, SameRow
<1>6. KeptCache(g, f)
  BY <1>1, <1>3 DEF Kept, KeptCache, SameRow
<1>7. ASSUME NEW o, Paid(d, e, o) PROVE Paid(g, f, o)
  BY <1>1, <1>7 DEF Kept, KeptCache, Paid, SameRow
<1>8. Placed(d, e) => Placed(g, f)
  BY <1>1, <1>2, <1>3 DEF Placed, SameRow
<1>. QED BY <1>1, <1>2, <1>3, <1>4, <1>5, <1>6, <1>7, <1>8 DEF g, Kept, Stays

LEMMA ChangeStateKeeps ==
    ASSUME NEW d \in Memories, NEW e \in Rows, Kept(d, e), d.mem.st # "none",
           NEW st \in {"OPEN", "MODIFY", "CLOSED", "RECOVERY"}, st = "CLOSED" => d.mem.items = {}
    PROVE  \E f : LET g == ChangeState(d, st) IN
               /\ Reaches(d, e, g, f) /\ g \in Memories /\ Kept(g, f) /\ Stays(d, e, g, f) /\ SameStock(d, g)
               /\ g.mem.st = st /\ g.mem.gold = d.mem.gold /\ g.mem.items = d.mem.items /\ g.mem.held = d.mem.held
               /\ g.hosted = d.hosted /\ (g.cache.st = "none" <=> d.cache.st = "none")
<1> DEFINE g == ChangeState(d, st)
<1>0. st \in States /\ st # "none" /\ st # "UNAVAILABLE"
  BY DEF States
<1>1. PICK f : /\ Reaches(d, e, g, f) /\ g \in Memories /\ SameShelf(e, f) /\ SameStock(d, g)
               /\ g.mem.st = st /\ g.mem.gold = d.mem.gold /\ g.mem.items = d.mem.items /\ g.mem.held = d.mem.held
               /\ g.hosted = d.hosted /\ f.st = st
               /\ IF d.cache.st # "none"
                  THEN g.cache.st = st /\ g.cache.gold = d.cache.gold /\ ~g.cache.need /\ f.gold = d.cache.gold
                  ELSE g.cache = d.cache /\ f.gold = e.gold
  BY <1>0, ChangeStateIs DEF Kept, KeptShop
<1> HIDE DEF g
<1>2. Stock(g, f) = Stock(d, e) /\ Live(g) = Live(d) /\ Clean(g) = Clean(d) /\ Dirty(g) = Dirty(d)
  BY <1>1, SameStockIs
<1>3. e.items \subseteq Stock(d, e) /\ f.items = e.items /\ f.inv = e.inv
  BY <1>1, StockIs DEF Kept, SameShelf
<1>4. KeptShop(g, f)
  BY <1>0, <1>1, <1>2 DEF Kept, KeptShop
<1>5. KeptItems(g, f)
  BY <1>0, <1>1, <1>2, <1>3 DEF Kept, KeptItems, SameStock
<1>6. KeptCache(g, f)
  BY <1>0, <1>1, <1>3 DEF Kept, KeptCache
<1>7. ASSUME NEW o, Paid(d, e, o) PROVE Paid(g, f, o)
  BY <1>0, <1>1, <1>7 DEF Kept, KeptCache, Paid
<1>8. Placed(d, e) => Placed(g, f)
  <2>1. st = "CLOSED" => Stock(d, e) = {}
    BY DEF Kept, KeptShop
  <2>. QED BY <1>0, <1>1, <1>2, <1>3, <2>1 DEF Placed
<1>. QED BY <1>0, <1>1, <1>2, <1>3, <1>4, <1>5, <1>6, <1>7, <1>8 DEF g, Kept, Stays

LEMMA WriteKeeps ==
    ASSUME NEW d \in Memories, NEW e \in Rows, Kept(d, e), NEW g \in Memories, NEW f \in Rows, NEW S \in SUBSET Dirty(d),
           Reaches(d, e, g, f), SameDesk(d, g), SameRow(e, f), g.set = d.set, f.items = e.items \cup S, f.inv = e.inv,
           \A i \in Items : g.item[i] = IF i \in S THEN "clean" ELSE d.item[i]
    PROVE  Kept(g, f) /\ Stays(d, e, g, f)
<1>1. /\ e.items \subseteq Stock(d, e) /\ Dirty(d) \subseteq Stock(d, e)
      /\ Dirty(d) # {} => d.set
      /\ \A i \in Items : i \in Dirty(d) <=> d.item[i] = "dirty"
  BY StockIs DEF Kept
<1>2. Live(g) = Live(d) /\ Dirty(g) = Dirty(d) \ S /\ Clean(g) = Clean(d) \cup S
  BY <1>1, DirtyIs DEF Live, Dirty, Clean
<1>3. Stock(g, f) = Stock(d, e)
  BY <1>1, <1>2 DEF Stock
<1>4. KeptShop(g, f)
  BY <1>3 DEF Kept, KeptShop, SameDesk, SameRow
<1>5. KeptItems(g, f)
  <2>1. Dirty(d) \subseteq Live(d)
    BY DEF Dirty, Live
  <2>2. d.set => f.items \subseteq Live(g) /\ Clean(g) \subseteq f.items
    BY <1>2, <2>1 DEF Kept, KeptItems
  <2>3. ~d.set => \A i \in Items : g.item[i] = "none"
    BY <1>1 DEF Kept, KeptItems
  <2>4. Dirty(g) # {} => Dirty(d) # {}
    BY <1>2
  <2>. QED BY <2>2, <2>3, <2>4 DEF Kept, KeptItems, SameDesk, SameRow
<1>6. KeptCache(g, f)
  <2>1. Dirty(d) # {} => e.st # "none"
    BY DEF Kept, KeptItems, KeptShop
  <2>. QED BY <2>1 DEF Kept, KeptCache, SameDesk, SameRow
<1>7. ASSUME NEW o, Paid(d, e, o) PROVE Paid(g, f, o)
  BY <1>7 DEF Paid, SameDesk, SameRow
<1>8. Placed(d, e) => Placed(g, f)
  <2>1. Dirty(d) # {} => e.st \notin {"CLOSED", "UNAVAILABLE"}
    BY <1>1 DEF Kept, KeptItems, KeptShop
  <2>. QED BY <1>3, <2>1 DEF Placed, SameDesk, SameRow
<1>. QED BY <1>3, <1>4, <1>5, <1>6, <1>7, <1>8 DEF Kept, Stays

LEMMA UpdateSetKeeps ==
    ASSUME NEW d \in Memories, NEW e \in Rows, Kept(d, e)
    PROVE  \E f : LET g == UpdatePrivateShopItemCacheSet(d) IN
               /\ Reaches(d, e, g, f) /\ g \in Memories /\ Kept(g, f) /\ Stays(d, e, g, f) /\ SameDesk(d, g)
               /\ g.set = d.set /\ g.inv = d.inv
<1> DEFINE g == UpdatePrivateShopItemCacheSet(d)
<1>1. ~d.set => Dirty(d) = {}
  BY StockIs DEF Kept
<1>2. PICK f : /\ Reaches(d, e, g, f) /\ g \in Memories /\ SameDesk(d, g)
               /\ g.set = d.set /\ g.inv = d.inv /\ Flushed(d, e, f)
               /\ \A i \in Items : g.item[i] = IF d.item[i] = "dirty" THEN "clean" ELSE d.item[i]
  BY <1>1, UpdateSetIs
<1> HIDE DEF g
<1>3. \A i \in Items : g.item[i] = IF i \in Dirty(d) THEN "clean" ELSE d.item[i]
  BY <1>2, StockIs DEF Kept
<1>4. f \in Rows /\ Dirty(d) \in SUBSET Dirty(d)
  BY <1>2 DEF Reaches
<1>5. Kept(g, f) /\ Stays(d, e, g, f)
  BY <1>2, <1>3, <1>4, WriteKeeps DEF Flushed
<1>. QED BY <1>2, <1>5 DEF g

SameGoods(d, g) == g.mem.gold = d.mem.gold /\ g.mem.items = d.mem.items /\ g.mem.held = d.mem.held
SameCaches(d, g) == g.set = d.set /\ g.inv = d.inv /\ (g.cache.st = "none" <=> d.cache.st = "none")

LEMMA GameDespawnKeeps ==
    ASSUME NEW d \in Memories, NEW e \in Rows, Kept(d, e), d.mem.st # "none", d.mem.items = {}
    PROVE  \E f : LET g == GameDespawn(d) IN
               /\ Reaches(d, e, g, f) /\ g \in Memories /\ Kept(g, f) /\ Stays(d, e, g, f)
               /\ g.mem.st = "CLOSED" /\ SameGoods(d, g) /\ SameCaches(d, g) /\ g.hosted = d.hosted
<1> DEFINE k == ChangeState(d, "CLOSED")
           g == UpdatePrivateShopItemCacheSet(k)
<1>1. PICK l : /\ Reaches(d, e, k, l) /\ k \in Memories /\ Kept(k, l) /\ Stays(d, e, k, l) /\ SameStock(d, k)
               /\ k.mem.st = "CLOSED" /\ k.mem.gold = d.mem.gold /\ k.mem.items = d.mem.items /\ k.mem.held = d.mem.held
               /\ k.hosted = d.hosted /\ (k.cache.st = "none" <=> d.cache.st = "none")
  BY ChangeStateKeeps
<1> HIDE DEF k
<1>2. l \in Rows
  BY <1>1 DEF Reaches
<1>3. PICK f : /\ Reaches(k, l, g, f) /\ g \in Memories /\ Kept(g, f) /\ Stays(k, l, g, f) /\ SameDesk(k, g)
               /\ g.set = k.set /\ g.inv = k.inv
  BY <1>1, <1>2, UpdateSetKeeps
<1> HIDE DEF g
<1>4. Reaches(d, e, g, f) /\ Stays(d, e, g, f)
  BY <1>1, <1>3, ReachesOn, StaysOn
<1>5. GameDespawn(d) = g
  BY DEF GameDespawn, g, k
<1>. QED BY <1>1, <1>3, <1>4, <1>5 DEF SameGoods, SameCaches, SameDesk, SameStock

Nowhere(g, f) ==
    /\ g.mem = NoShop /\ ~g.hosted /\ g.cache = NoCache /\ ~g.set /\ g.item = [i \in Items |-> "none"]
    /\ f.st = "none" /\ f.gold = 0 /\ f.items = {}

LEMMA NowhereKept ==
    ASSUME NEW g, NEW f, Nowhere(g, f)
    PROVE  Kept(g, f) /\ Placed(g, f) /\ Paid(g, f, 0) /\ Stock(g, f) = {}
BY DEF Nowhere, NoShop, NoCache, Kept, KeptShop, KeptItems, KeptCache, Placed, Paid, Stock, Live, Clean, Dirty

LEMMA DestroyKeeps ==
    ASSUME NEW d \in Memories, NEW e \in Rows, Kept(d, e), d.mem.st # "none", d.mem.items = {}, d.mem.gold = 0
    PROVE  \E f : LET g == Destroy(d) IN
               /\ Reaches(d, e, g, f) /\ g \in Memories /\ Kept(g, f) /\ Stays(d, e, g, f)
               /\ Nowhere(g, f) /\ g.inv = d.inv
<1> DEFINE x(c) == Say(c, "ShopDel", NoItem, "none", 0)
           k == IF d.cache.st # "none" THEN Send(d, x("main")) ELSE Send(d, x("async"))
           l == Apply(e, x("main"))
           y == Say("async", "ItemsDel", NoItem, "none", 0)
           C == {i \in Cached(d) : d.item[i] # "dead"}
           p == IF d.set THEN SendEach(k, "ItemDel", C) ELSE Send(k, y)
           q == [p EXCEPT !.cache = NoCache, !.mem = NoShop, !.hosted = FALSE]
           g == DropItemCaches(q)
<1>1. e.items = {} /\ Stock(d, e) = {}
  BY StockIs DEF Kept, KeptShop
<1>2. "none" \in States /\ 0 \in Nat /\ "ShopDel" \in ShopOps /\ "ItemsDel" \in ShopOps /\ "ItemDel" \in ItemOps
  BY DEF States, ShopOps, ItemOps
<1>3. \A c \in {"main", "async"} : x(c) \in Statements /\ x(c).op = "ShopDel"
  BY <1>2, SayIs
<1>4. Apply(e, x("async")) = l
  BY DEF Apply, Say
<1>5. y \in Statements /\ y.op = "ItemsDel"
  BY <1>2, SayIs
<1> HIDE DEF x, y
<1>6. l \in Rows /\ l.st = "none" /\ l.gold = 0 /\ l.items = {} /\ l.inv = e.inv
  BY <1>1, <1>3, ApplyIs
<1> HIDE DEF l
<1>7. Reaches(d, e, k, l) /\ k \in Memories /\ SameDesk(d, k) /\ SameStock(d, k)
  <2>1. CASE d.cache.st # "none"
    <3>1. k = Send(d, x("main")) /\ x("main") \in Statements /\ Wipes(x("main"), e)
      BY <2>1, <1>3 DEF Wipes
    <3>. QED BY <3>1, SendIs DEF l
  <2>2. CASE d.cache.st = "none"
    <3>1. k = Send(d, x("async")) /\ x("async") \in Statements /\ Wipes(x("async"), e)
      BY <2>2, <1>3 DEF Wipes
    <3> HIDE DEF k
    <3>. QED BY <3>1, <1>4, SendIs
  <2>. QED BY <2>1, <2>2
<1> HIDE DEF k
<1>8. \E f : /\ Reaches(k, l, p, f) /\ p \in Memories /\ SameStock(k, p)
             /\ f.st = "none" /\ f.gold = 0 /\ f.items = {} /\ f.inv = e.inv
  <2>1. CASE d.set
    <3>1. C \in SUBSET Items
      BY DEF Cached
    <3> HIDE DEF C
    <3>2. /\ Reaches(k, l, SendEach(k, "ItemDel", C), Swept(l, "ItemDel", C)) /\ SendEach(k, "ItemDel", C) \in Memories
          /\ SameStock(k, SendEach(k, "ItemDel", C))
      BY <1>2, <1>6, <1>7, <3>1, SendEachIs
    <3>3. LET f == Swept(l, "ItemDel", C) IN f.st = l.st /\ f.gold = l.gold /\ f.items = l.items \ C /\ f.inv = l.inv
      BY <1>2, <1>6, <3>1, SweptIs
    <3>4. p = SendEach(k, "ItemDel", C)
      BY <2>1
    <3> HIDE DEF p
    <3>. QED BY <3>2, <3>3, <3>4, <1>6
  <2>2. CASE ~d.set
    <3>1. p = Send(k, y) /\ Wipes(y, l)
      BY <2>2, <1>6 DEF Wipes
    <3>2. Reaches(k, l, Send(k, y), Apply(l, y)) /\ Send(k, y) \in Memories /\ SameStock(k, Send(k, y))
      BY <3>1, <1>5, <1>6, <1>7, SendIs
    <3>3. LET f == Apply(l, y) IN f.st = l.st /\ f.gold = l.gold /\ f.items = {} /\ f.inv = l.inv
      BY <1>5, <1>6, ApplyIs
    <3> HIDE DEF p
    <3>. QED BY <3>1, <3>2, <3>3, <1>6
  <2>. QED BY <2>1, <2>2
<1>9. PICK f : /\ Reaches(k, l, p, f) /\ p \in Memories /\ SameStock(k, p)
               /\ f.st = "none" /\ f.gold = 0 /\ f.items = {} /\ f.inv = e.inv
  BY <1>8
<1> HIDE DEF p
<1>10. NoCache \in Caches /\ NoShop \in Shops
  BY <1>2 DEF NoCache, Caches, NoShop, Shops
<1>11. /\ q \in Memories /\ q.sql = p.sql /\ q.set = p.set /\ q.inv = p.inv
       /\ q.mem = NoShop /\ q.cache = NoCache /\ q.hosted = FALSE
  BY <1>9, <1>10 DEF Memories
<1> HIDE DEF q
<1>12. Reaches(k, l, q, f) /\ f \in Rows
  BY <1>9, <1>11 DEF Reaches
<1>13. /\ Reaches(q, f, g, f) /\ g \in Memories /\ SameDesk(q, g)
       /\ ~g.set /\ g.inv = q.inv /\ g.item = [i \in Items |-> "none"]
  BY <1>11, <1>12, DropItemCachesIs
<1> HIDE DEF g
<1>14. Reaches(d, e, g, f)
  BY <1>7, <1>12, <1>13, ReachesOn
<1>15. Nowhere(g, f) /\ g.inv = d.inv
  BY <1>7, <1>9, <1>11, <1>13 DEF Nowhere, SameDesk, SameStock
<1>16. Kept(g, f) /\ Placed(g, f) /\ Paid(g, f, 0) /\ Stock(g, f) = {}
  BY <1>15, NowhereKept
<1>17. \A o : Paid(d, e, o) => o = 0
  BY DEF Paid
<1>18. Stays(d, e, g, f)
  BY <1>1, <1>9, <1>16, <1>17 DEF Stays
<1>19. Destroy(d) = g
  BY DEF Destroy, g, q, p, k, x, y
<1>. QED BY <1>13, <1>14, <1>15, <1>16, <1>18, <1>19

LEMMA HostKeeps ==
    ASSUME NEW d \in Memories, NEW e \in Rows, Kept(d, e), d.mem.st # "none"
    PROVE  LET g == [d EXCEPT !.hosted = TRUE] IN
               /\ Reaches(d, e, g, e) /\ g \in Memories /\ Kept(g, e) /\ Stays(d, e, g, e)
               /\ g.mem = d.mem /\ g.cache = d.cache /\ SameStock(d, g) /\ g.hosted
<1> DEFINE g == [d EXCEPT !.hosted = TRUE]
<1>1. g \in Memories /\ g.mem = d.mem /\ g.cache = d.cache /\ SameStock(d, g) /\ g.hosted = TRUE /\ g.sql = d.sql
  BY DEF Memories, SameStock
<1> HIDE DEF g
<1>2. Reaches(d, e, g, e)
  BY <1>1, ReachesNow
<1>3. Stock(g, e) = Stock(d, e) /\ Live(g) = Live(d) /\ Clean(g) = Clean(d) /\ Dirty(g) = Dirty(d)
  BY <1>1, SameStockIs DEF SameShelf
<1>4. Kept(g, e)
  BY <1>1, <1>3 DEF Kept, KeptShop, KeptItems, KeptCache, SameStock
<1>5. \A o : Paid(d, e, o) => Paid(g, e, o)
  BY <1>1 DEF Paid
<1>6. Placed(d, e) => Placed(g, e)
  BY <1>1, <1>3 DEF Placed
<1>. QED BY <1>1, <1>2, <1>3, <1>4, <1>5, <1>6 DEF g, Stays

LEMMA SpawnKeeps ==
    ASSUME NEW d \in Memories, NEW e \in Rows, Kept(d, e), d.mem.st # "none", NEW hosts, Host \in hosts
    PROVE  \E f : LET g == Spawn(d, hosts) IN
               /\ Reaches(d, e, g, f) /\ g \in Memories /\ Kept(g, f) /\ Stays(d, e, g, f)
               /\ g.mem.st = (IF expired /\ d.mem.st # "CLOSED" THEN "RECOVERY" ELSE d.mem.st)
               /\ SameGoods(d, g) /\ SameCaches(d, g) /\ g.hosted
<1> DEFINE k == [d EXCEPT !.hosted = TRUE]
           g == Spawn(d, hosts)
<1>1. /\ Reaches(d, e, k, e) /\ k \in Memories /\ Kept(k, e) /\ Stays(d, e, k, e)
      /\ k.mem = d.mem /\ k.cache = d.cache /\ SameStock(d, k) /\ k.hosted
  BY HostKeeps
<1>2. g = GameSpawn(k)
  BY DEF Spawn
<1> HIDE DEF k, g
<1>3. CASE expired /\ d.mem.st # "CLOSED"
  <2> DEFINE l == ChangeState(k, "RECOVERY")
  <2>1. g = l
    BY <1>1, <1>2, <1>3 DEF GameSpawn
  <2>2. PICK f : /\ Reaches(k, e, l, f) /\ l \in Memories /\ Kept(l, f) /\ Stays(k, e, l, f) /\ SameStock(k, l)
               /\ l.mem.st = "RECOVERY" /\ l.mem.gold = k.mem.gold /\ l.mem.items = k.mem.items /\ l.mem.held = k.mem.held
               /\ l.hosted = k.hosted /\ (l.cache.st = "none" <=> k.cache.st = "none")
    <3>1. k.mem.st # "none"
      BY <1>1
    <3>. QED BY <1>1, <3>1, ChangeStateKeeps
  <2> HIDE DEF l
  <2>3. Reaches(d, e, l, f) /\ Stays(d, e, l, f)
    BY <1>1, <2>2, ReachesOn, StaysOn
  <2>. QED BY <1>1, <1>3, <2>1, <2>2, <2>3 DEF g, SameGoods, SameCaches, SameStock
<1>4. CASE ~(expired /\ d.mem.st # "CLOSED")
  <2>1. g = k
    BY <1>1, <1>2, <1>4 DEF GameSpawn
  <2>. QED BY <1>1, <1>4, <2>1 DEF g, SameGoods, SameCaches, SameStock
<1>. QED BY <1>3, <1>4

LEMMA RecoverKeeps ==
    ASSUME NEW d \in Memories, NEW e \in Rows, Kept(d, e), d.mem.st # "none"
    PROVE  \E f : LET g == Recover(d) IN
               /\ Reaches(d, e, g, f) /\ g \in Memories /\ Kept(g, f) /\ Stays(d, e, g, f) /\ g.inv = d.inv
               /\ \/ Nowhere(g, f)
                  \/ g.mem.st = "RECOVERY" /\ SameGoods(d, g) /\ SameCaches(d, g) /\ g.hosted = d.hosted
<1> DEFINE k == ChangeState(d, "RECOVERY")
           l == UpdatePrivateShopItemCacheSet(k)
           p == IF d.mem.st = "RECOVERY" THEN d ELSE l
<1>1. \E q : /\ Reaches(d, e, p, q) /\ p \in Memories /\ Kept(p, q) /\ Stays(d, e, p, q)
             /\ p.mem.st = "RECOVERY" /\ SameGoods(d, p) /\ SameCaches(d, p) /\ p.hosted = d.hosted
  <2>1. CASE d.mem.st = "RECOVERY"
    <3>1. p = d
      BY <2>1
    <3>2. Reaches(d, e, d, e) /\ Stays(d, e, d, e)
      BY ReachesNow DEF Stays
    <3> HIDE DEF p
    <3>. QED BY <2>1, <3>1, <3>2 DEF SameGoods, SameCaches
  <2>2. CASE d.mem.st # "RECOVERY"
    <3>1. PICK q : /\ Reaches(d, e, k, q) /\ k \in Memories /\ Kept(k, q) /\ Stays(d, e, k, q) /\ SameStock(d, k)
                   /\ k.mem.st = "RECOVERY" /\ k.mem.gold = d.mem.gold /\ k.mem.items = d.mem.items /\ k.mem.held = d.mem.held
                   /\ k.hosted = d.hosted /\ (k.cache.st = "none" <=> d.cache.st = "none")
      BY ChangeStateKeeps
    <3> HIDE DEF k
    <3>2. q \in Rows
      BY <3>1 DEF Reaches
    <3>3. PICK f : /\ Reaches(k, q, l, f) /\ l \in Memories /\ Kept(l, f) /\ Stays(k, q, l, f) /\ SameDesk(k, l)
                   /\ l.set = k.set /\ l.inv = k.inv
      BY <3>1, <3>2, UpdateSetKeeps
    <3>4. p = l
      BY <2>2
    <3> HIDE DEF l, p
    <3>5. Reaches(d, e, l, f) /\ Stays(d, e, l, f)
      BY <3>1, <3>3, ReachesOn, StaysOn
    <3>. QED BY <3>1, <3>3, <3>4, <3>5 DEF SameGoods, SameCaches, SameDesk, SameStock
  <2>. QED BY <2>1, <2>2
<1>2. PICK q : /\ Reaches(d, e, p, q) /\ p \in Memories /\ Kept(p, q) /\ Stays(d, e, p, q)
               /\ p.mem.st = "RECOVERY" /\ SameGoods(d, p) /\ SameCaches(d, p) /\ p.hosted = d.hosted
  BY <1>1
<1>3. Recover(d) = IF p.mem.items = {} /\ p.mem.gold = 0 THEN Destroy(p) ELSE p
  BY DEF Recover
<1> HIDE DEF p
<1>4. CASE p.mem.items = {} /\ p.mem.gold = 0
  <2>1. q \in Rows /\ p.mem.st # "none"
    BY <1>2 DEF Reaches
  <2>2. PICK f : LET g == Destroy(p) IN
               /\ Reaches(p, q, g, f) /\ g \in Memories /\ Kept(g, f) /\ Stays(p, q, g, f)
               /\ Nowhere(g, f) /\ g.inv = p.inv
    BY <1>2, <1>4, <2>1, DestroyKeeps
  <2>3. Reaches(d, e, Destroy(p), f) /\ Stays(d, e, Destroy(p), f)
    BY <1>2, <2>2, ReachesOn, StaysOn
  <2>. QED BY <1>2, <1>3, <1>4, <2>2, <2>3 DEF SameCaches
<1>5. CASE ~(p.mem.items = {} /\ p.mem.gold = 0)
  BY <1>2, <1>3, <1>5 DEF SameCaches
<1>. QED BY <1>4, <1>5

LEMMA RemoveItemKeeps ==
    ASSUME NEW d \in Memories, NEW e \in Rows, Kept(d, e), d.mem.st # "none", NEW i \in d.mem.items
    PROVE  \E f : LET g == RemoveItem(d, i) IN
               /\ Reaches(d, e, g, f) /\ g \in Memories /\ Kept(g, f)
               /\ Stock(g, f) = Stock(d, e) \ {i} /\ f.inv = e.inv
               /\ \A o : Paid(d, e, o) => Paid(g, f, o)
               /\ Placed(d, e) => Placed(g, f)
               /\ g.mem.st = d.mem.st /\ g.mem.gold = d.mem.gold
               /\ g.mem.items = d.mem.items \ {i} /\ g.mem.held = d.mem.held \ {i}
               /\ g.hosted = d.hosted /\ g.cache = d.cache /\ g.set = d.set /\ g.inv = d.inv
<1> DEFINE g == RemoveItem(d, i)
<1>0. i \in Items /\ d.item \in [Items -> Marks]
  BY MemoryIs
<1>1. PICK f : /\ Reaches(d, e, g, f) /\ g \in Memories /\ SameRow(e, f)
               /\ g.mem.st = d.mem.st /\ g.mem.gold = d.mem.gold
               /\ g.mem.items = d.mem.items \ {i} /\ g.mem.held = d.mem.held \ {i}
               /\ g.hosted = d.hosted /\ g.cache = d.cache /\ g.set = d.set /\ g.inv = d.inv
               /\ f.items = e.items \ {i} /\ f.inv = e.inv
               /\ g.item = IF d.item[i] # "none" THEN [d.item EXCEPT ![i] = "dead"] ELSE d.item
  BY <1>0, RemoveItemIs
<1> HIDE DEF g
<1>2. Live(g) = Live(d) \ {i} /\ Clean(g) = Clean(d) \ {i} /\ Dirty(g) = Dirty(d) \ {i}
  <2>1. \A j \in Items : j # i => g.item[j] = d.item[j]
    BY <1>0, <1>1
  <2>2. g.item[i] \in {"dead", "none"}
    BY <1>0, <1>1
  <2>. QED BY <2>1, <2>2 DEF Live, Clean, Dirty
<1>3. Stock(g, f) = Stock(d, e) \ {i}
  BY <1>1, <1>2 DEF Stock
<1>4. KeptShop(g, f)
  BY <1>1, <1>3 DEF Kept, KeptShop, SameRow
<1>5. KeptItems(g, f)
  <2>1. ~d.set => g.item = d.item
    BY <1>0, <1>1 DEF Kept, KeptItems
  <2>2. g.set => f.items \subseteq Live(g) /\ Clean(g) \subseteq f.items
    BY <1>1, <1>2 DEF Kept, KeptItems
  <2>. QED BY <1>1, <1>2, <2>1, <2>2 DEF Kept, KeptItems, SameRow
<1>6. KeptCache(g, f)
  BY <1>1 DEF Kept, KeptCache, SameRow
<1>7. ASSUME NEW o, Paid(d, e, o) PROVE Paid(g, f, o)
  BY <1>1, <1>7 DEF Paid, SameRow
<1>8. Placed(d, e) => Placed(g, f)
  BY <1>1, <1>3 DEF Placed, SameRow
<1>. QED BY <1>1, <1>3, <1>4, <1>5, <1>6, <1>7, <1>8 DEF g, Kept

LEMMA UpdateBalanceKeeps ==
    ASSUME NEW d \in Memories, NEW e \in Rows, Kept(d, e), d.mem.st # "none"
    PROVE  \E f : LET g == UpdateBalance(d) IN
               /\ Reaches(d, e, g, f) /\ g \in Memories /\ Kept(g, f)
               /\ Stock(g, f) = Stock(d, e) /\ f.inv = e.inv
               /\ \A o \in Nat : Paid(d, e, o) /\ (d.cache.st # "none" => d.hosted /\ d.mem.st # "UNAVAILABLE")
                                 => Paid(g, f, o + 1)
               /\ Placed(d, e) => Placed(g, f)
               /\ g.mem.st = d.mem.st /\ g.mem.items = d.mem.items /\ g.mem.held = d.mem.held
               /\ g.hosted = d.hosted /\ g.set = d.set /\ g.inv = d.inv /\ g.cache.st = d.cache.st
<1> DEFINE g == UpdateBalance(d)
<1>1. PICK f : /\ Reaches(d, e, g, f) /\ g \in Memories /\ SameShelf(e, f) /\ SameStock(d, g)
               /\ g.mem.st = d.mem.st /\ g.mem.gold = d.mem.gold + 1 /\ g.mem.items = d.mem.items /\ g.mem.held = d.mem.held
               /\ g.hosted = d.hosted /\ f.st = e.st
               /\ IF d.cache.st # "none"
                  THEN g.cache.st = d.cache.st /\ g.cache.gold = d.cache.gold + 1 /\ g.cache.need /\ f = e
                  ELSE g.cache = d.cache /\ f.gold = d.mem.gold + 1
  <2>1. e.st # "none"
    BY DEF Kept, KeptShop
  <2>. QED BY <2>1, UpdateBalanceIs
<1> HIDE DEF g
<1>2. Stock(g, f) = Stock(d, e) /\ Live(g) = Live(d) /\ Clean(g) = Clean(d) /\ Dirty(g) = Dirty(d)
  BY <1>1, SameStockIs
<1>3. g.cache.st = d.cache.st /\ f.items = e.items /\ f.inv = e.inv
  BY <1>1 DEF SameShelf
<1>4. KeptShop(g, f)
  BY <1>1, <1>2 DEF Kept, KeptShop
<1>5. KeptItems(g, f)
  BY <1>1, <1>2, <1>3 DEF Kept, KeptItems, SameStock
<1>6. KeptCache(g, f)
  BY <1>1, <1>3 DEF Kept, KeptCache
<1>7. ASSUME NEW o \in Nat, Paid(d, e, o), d.cache.st # "none" => d.hosted /\ d.mem.st # "UNAVAILABLE" PROVE Paid(g, f, o + 1)
  BY <1>1, <1>3, <1>7 DEF Paid
<1>8. Placed(d, e) => Placed(g, f)
  BY <1>1, <1>2, <1>3 DEF Placed
<1>. QED BY <1>1, <1>2, <1>3, <1>4, <1>5, <1>6, <1>7, <1>8 DEF g, Kept, SameStock

LEMMA WithdrawKeeps ==
    ASSUME NEW d \in Memories, NEW e \in Rows, Kept(d, e), d.mem.st # "none"
    PROVE  \E f : LET g == Withdraw(d) IN
               /\ Reaches(d, e, g, f) /\ g \in Memories /\ Kept(g, f)
               /\ Stock(g, f) = Stock(d, e) /\ f.inv = e.inv /\ Paid(g, f, 0)
               /\ Placed(d, e) => Placed(g, f)
               /\ g.mem.st = d.mem.st /\ g.mem.gold = 0 /\ g.mem.items = d.mem.items /\ g.mem.held = d.mem.held
               /\ g.hosted = d.hosted /\ SameCaches(d, g)
<1> DEFINE g == Withdraw(d)
<1>1. PICK f : /\ Reaches(d, e, g, f) /\ g \in Memories /\ SameShelf(e, f) /\ SameStock(d, g)
               /\ g.mem.st = d.mem.st /\ g.mem.gold = 0 /\ g.mem.items = d.mem.items /\ g.mem.held = d.mem.held
               /\ g.hosted = d.hosted /\ f.gold = 0
               /\ IF d.cache.st # "none"
                  THEN g.cache.st = d.cache.st /\ g.cache.gold = 0 /\ ~g.cache.need /\ f.st = d.cache.st
                  ELSE g.cache = d.cache /\ f.st = e.st
  <2>1. e.st # "none"
    BY DEF Kept, KeptShop
  <2>. QED BY <2>1, WithdrawIs
<1> HIDE DEF g
<1>2. Stock(g, f) = Stock(d, e) /\ Live(g) = Live(d) /\ Clean(g) = Clean(d) /\ Dirty(g) = Dirty(d)
  BY <1>1, SameStockIs
<1>3. g.cache.st = d.cache.st /\ f.items = e.items /\ f.inv = e.inv /\ e.items \subseteq Stock(d, e)
  BY <1>1, StockIs DEF SameShelf, Kept
<1>4. KeptShop(g, f)
  BY <1>1, <1>2 DEF Kept, KeptShop
<1>5. KeptItems(g, f)
  BY <1>1, <1>2, <1>3 DEF Kept, KeptItems, SameStock
<1>6. KeptCache(g, f)
  BY <1>1, <1>3 DEF Kept, KeptCache
<1>7. Paid(g, f, 0)
  BY <1>1, <1>3 DEF Paid
<1>8. Placed(d, e) => Placed(g, f)
  BY <1>1, <1>2, <1>3 DEF Placed
<1>. QED BY <1>1, <1>2, <1>3, <1>4, <1>5, <1>6, <1>7, <1>8 DEF g, Kept, SameStock, SameCaches

\* The host of the shop is lost.
LEMMA UnhostKeeps ==
    ASSUME NEW d \in Memories, NEW e \in Rows, Kept(d, e), d.mem.st # "none"
    PROVE  \E f : LET g == Unhost(d) IN
               /\ Reaches(d, e, g, f) /\ g \in Memories /\ Kept(g, f) /\ Stays(d, e, g, f)
               /\ g.mem.st = "UNAVAILABLE" /\ SameGoods(d, g) /\ ~g.hosted /\ g.cache.st = "none" /\ ~g.set /\ g.inv = d.inv
<1> DEFINE k == IF d.set THEN FlushPrivateShopItemCacheSet(d) ELSE d
           p == FlushPrivateShopCache(k)
           g == [p EXCEPT !.hosted = FALSE, !.mem.st = "UNAVAILABLE"]
<1>1. Unhost(d) = g
  BY DEF Unhost
<1>2. \E l : /\ Reaches(d, e, k, l) /\ k \in Memories /\ SameDesk(d, k)
             /\ ~k.set /\ k.inv = d.inv /\ Flushed(d, e, l) /\ k.item = [i \in Items |-> "none"]
  <2>1. CASE d.set
    BY <2>1, FlushItemSetIs
  <2>2. CASE ~d.set
    <3>1. k = d
      BY <2>2
    <3>2. Reaches(d, e, d, e)
      BY ReachesNow
    <3>3. Dirty(d) = {}
      BY <2>2, StockIs DEF Kept
    <3>4. d.item = [i \in Items |-> "none"]
      <4>1. d.item \in [Items -> Marks] /\ \A i \in Items : d.item[i] = "none"
        BY <2>2, MemoryIs DEF Kept, KeptItems
      <4>. QED BY <4>1
    <3>5. Flushed(d, e, e)
      BY <3>3 DEF Flushed, SameRow
    <3> HIDE DEF k
    <3>. QED BY <2>2, <3>1, <3>2, <3>4, <3>5 DEF SameDesk
  <2>. QED BY <2>1, <2>2
<1>3. PICK l : /\ Reaches(d, e, k, l) /\ k \in Memories /\ SameDesk(d, k)
               /\ ~k.set /\ k.inv = d.inv /\ Flushed(d, e, l) /\ k.item = [i \in Items |-> "none"]
  BY <1>2
<1> HIDE DEF k
<1>4. l \in Rows
  BY <1>3 DEF Reaches
<1>5. PICK f : /\ Reaches(k, l, p, f) /\ p \in Memories /\ SameShelf(l, f)
               /\ p.mem = k.mem /\ p.hosted = k.hosted /\ SameStock(k, p) /\ p.cache = NoCache
               /\ k.cache.need => f.st = k.cache.st /\ f.gold = k.cache.gold
               /\ ~k.cache.need => SameRow(l, f)
  BY <1>3, <1>4, FlushShopIs
<1> HIDE DEF p
<1>6. /\ g \in Memories /\ g.sql = p.sql /\ g.hosted = FALSE /\ g.mem.st = "UNAVAILABLE" /\ SameGoods(p, g)
      /\ g.cache = p.cache /\ SameStock(p, g)
  BY <1>5 DEF Memories, Shops, States, SameGoods, SameStock
<1> HIDE DEF g
<1>7. Reaches(k, l, g, f)
  BY <1>5, <1>6 DEF Reaches
<1>8. Reaches(d, e, g, f)
  BY <1>3, <1>7, ReachesOn
<1>9. /\ SameGoods(d, g) /\ g.cache = NoCache /\ ~g.set /\ g.inv = d.inv /\ g.item = [i \in Items |-> "none"]
      /\ f.items = e.items \cup Dirty(d) /\ f.inv = e.inv
      /\ d.cache.need => f.st = d.cache.st /\ f.gold = d.cache.gold
      /\ ~d.cache.need => SameRow(e, f)
  BY <1>3, <1>5, <1>6 DEF SameGoods, SameDesk, SameStock, SameShelf, SameRow, Flushed
<1>10. /\ e.items \cup Dirty(d) = Stock(d, e)
       /\ Dirty(d) # {} => d.set
  BY StockIs DEF Kept
<1>11. Stock(g, f) = Stock(d, e) /\ Dirty(g) = {}
  BY <1>9, <1>10 DEF Stock, Dirty
<1>12. f.st # "none"
  BY <1>9 DEF Kept, KeptShop, KeptCache, SameRow
<1>13. KeptShop(g, f)
  BY <1>6, <1>9, <1>11, <1>12 DEF Kept, KeptShop, SameGoods
<1>14. KeptItems(g, f)
  BY <1>9, <1>11 DEF KeptItems
<1>15. KeptCache(g, f)
  BY <1>9, <1>12 DEF KeptCache, NoCache
<1>16. ASSUME NEW o, Paid(d, e, o) PROVE Paid(g, f, o)
  BY <1>9, <1>16 DEF Paid, SameGoods, SameRow, NoCache, Kept, KeptCache
<1>17. Placed(d, e) => Placed(g, f)
  <2>1. Dirty(d) # {} => e.st \notin {"CLOSED", "UNAVAILABLE"}
    BY <1>10 DEF Kept, KeptItems, KeptShop
  <2>. QED BY <1>9, <1>10, <1>11, <2>1 DEF Placed, NoCache, SameRow
<1>. QED BY <1>1, <1>6, <1>8, <1>9, <1>11, <1>13, <1>14, <1>15, <1>16, <1>17 DEF Stays, Kept, NoCache

LEMMA SameKeeps ==
    ASSUME NEW d \in Memories, NEW e \in Rows, Kept(d, e), NEW g \in Memories, NEW f \in Rows,
           g.mem.st = d.mem.st, g.mem.gold = d.mem.gold, g.mem.items = d.mem.items, g.mem.held \subseteq d.mem.items,
           g.hosted = d.hosted, g.cache = d.cache, g.set = d.set, g.item = d.item, SameRow(e, f), f.items = e.items
    PROVE  /\ Kept(g, f) /\ Stock(g, f) = Stock(d, e)
           /\ \A o : Paid(d, e, o) => Paid(g, f, o)
           /\ Placed(d, e) => Placed(g, f)
<1>1. Stock(g, f) = Stock(d, e) /\ Live(g) = Live(d) /\ Clean(g) = Clean(d) /\ Dirty(g) = Dirty(d)
  BY DEF Stock, Live, Clean, Dirty
<1>2. Kept(g, f)
  BY <1>1 DEF Kept, KeptShop, KeptItems, KeptCache, SameRow
<1>3. \A o : Paid(d, e, o) => Paid(g, f, o)
  BY DEF Paid, SameRow
<1>4. Placed(d, e) => Placed(g, f)
  BY <1>1 DEF Placed, SameRow
<1>. QED BY <1>1, <1>2, <1>3, <1>4

-----------------------------------------------------------------------------
\* The inductive invariant.

Types ==
    /\ up \in {"up", "quitting", "down"} /\ peers \subseteq Cores /\ owner \in peers \cup {Off}
    /\ db \in Memories /\ whose \in [Items -> {"owner", "shop", "buyer"}]
    /\ take \in [Items -> {"no", "held", "paid"}] /\ stray \subseteq Items /\ owed \in Nat
Stopped ==
    /\ up # "up" => /\ db.mem.st = "none" /\ db.cache.st = "none" /\ ~db.set /\ peers = {}
                    /\ \A i \in Items : db.inv[i] = "none"
    /\ up = "down" => db.sql = <<>>
Connected(e) ==
    /\ db.hosted => Host \in peers
    /\ \A i \in Items : take[i] # "no" => Mart \in peers
    /\ db.mem.st = "UNAVAILABLE" /\ Host \in peers /\ ~db.set => db.mem.items = {}
    /\ owner # Off /\ db.mem.st = "none" /\ ~db.set => e.items = {}

\* Who has an item, in the rows of the inventories or about to be written there.
Owned(e, i) == i \in e.inv \/ db.inv[i] = "dirty"
Lies(e, i) ==
    /\ whose[i] = "shop" => i \in Stock(db, e)
    /\ take[i] # "paid" => IF whose[i] = "shop" THEN ~Owned(e, i) ELSE i \notin Stock(db, e) /\ Owned(e, i)
    /\ take[i] = "paid" /\ i \in db.mem.held => whose[i] = "buyer" /\ Owned(e, i)
Whereabouts(e) == \A i \in Items \ stray : Lies(e, i)

Hosting(e) ==
    /\ db.mem.st # "none" /\ ~db.hosted => db.mem.st \in {"CLOSED", "RECOVERY", "UNAVAILABLE"}
    /\ db.mem.st # "none" /\ (~db.hosted \/ db.mem.st = "UNAVAILABLE") => db.cache.st = "none" \/ db.mem.items = {}
    /\ db.mem.st = "UNAVAILABLE" /\ Host \in peers => db.mem.items = {}
    /\ up = "up" /\ Host \in peers /\ ~expired /\ ~db.hosted => Stock(db, e) = {}
Ledger(e) == ~away => Paid(db, e, owed) /\ Placed(db, e) /\ Hosting(e)

Sound(e) ==
    /\ Types /\ Stopped /\ Kept(db, e) /\ Connected(e) /\ Whereabouts(e) /\ Ledger(e)
StorageInv == \E e : Ends(table, db.sql, e) /\ Sound(e)

LEMMA SoundIs ==
    ASSUME NEW e, Ends(table, db.sql, e), Sound(e)
    PROVE  /\ e \in Rows /\ table \in Rows /\ db \in Memories /\ db.sql \in Seq(Statements)
           /\ KeptShop(db, e) /\ KeptItems(db, e) /\ KeptCache(db, e) /\ Kept(db, e)
BY EndsIn, MemoryIs DEF Sound, Types, Kept

LEMMA ReachedIs ==
    ASSUME NEW e, Ends(table, db.sql, e), NEW f, Reaches(db, e, db', f), UNCHANGED table, Sound(f)'
    PROVE  StorageInv'
BY DEF Reaches, StorageInv

\* A step that changes neither what the shop has nor where it is.
LEMMA QuietStep ==
    ASSUME NEW e, Ends(table, db.sql, e), Sound(e), NEW f, Reaches(db, e, db', f), Kept(db', f), Stays(db, e, db', f),
           SameGoods(db, db'), SameCaches(db, db'), db'.hosted = db.hosted,
           \/ db'.mem.st = db.mem.st
           \/ /\ db.mem.st # "none" /\ db'.mem.st \notin {"none", "UNAVAILABLE"}
              /\ ~db.hosted => db'.mem.st \in {"CLOSED", "RECOVERY"},
           up = "up", UNCHANGED <<up, peers, table, expired, whose, owed, take, stray, away>>, owner' \in {owner, Off}
    PROVE  StorageInv'
<1>1. Types'
  BY DEF Sound, Types, Reaches
<1>2. Stopped'
  BY DEF Stopped
<1>3. Connected(f)'
  <2>1. owner' # Off /\ db'.mem.st = "none" /\ ~db'.set => f.items = {}
    <3>1. SUFFICES ASSUME owner' # Off, db'.mem.st = "none", ~db'.set PROVE f.items = {}
      OBVIOUS
    <3>2. owner # Off /\ db.mem.st = "none" /\ ~db.set
      BY <3>1 DEF SameCaches
    <3>3. e.items = {}
      BY <3>2 DEF Sound, Connected
    <3>4. Stock(db, e) = {} /\ Stock(db', f) = {}
      BY <3>2, <3>3 DEF Stock, Stays
    <3>. QED BY <3>1, <3>4 DEF Stock
  <2>. QED BY <2>1 DEF Sound, Connected, SameGoods, SameCaches
<1>4. Whereabouts(f)'
  <2>1. SUFFICES ASSUME NEW i \in Items \ stray PROVE Lies(f, i)'
    BY DEF Whereabouts
  <2>2. Lies(e, i)
    BY DEF Sound, Whereabouts
  <2>. QED BY <2>2 DEF Lies, Owned, Stays, SameGoods, SameCaches
<1>5. Ledger(f)'
  <2>1. SUFFICES ASSUME ~away PROVE Paid(db', f, owed) /\ Placed(db', f) /\ Hosting(f)'
    BY DEF Ledger
  <2>2. Paid(db, e, owed) /\ Placed(db, e) /\ Hosting(e)
    BY <2>1 DEF Sound, Ledger
  <2>3. Hosting(f)'
    BY <2>2 DEF Hosting, Stays, SameGoods, SameCaches
  <2>. QED BY <2>2, <2>3 DEF Stays
<1>6. Sound(f)'
  BY <1>1, <1>2, <1>3, <1>4, <1>5 DEF Sound
<1>. QED BY <1>6, ReachedIs

LEMMA ModifyStep ==
    ASSUME NEW e, Ends(table, db.sql, e), Sound(e), PrivateShopModifyRequest PROVE StorageInv'
<1> DEFINE st == IF db.mem.st = "OPEN" THEN "MODIFY" ELSE "OPEN"
<1>1. e \in Rows /\ db \in Memories /\ Kept(db, e)
  BY SoundIs
<1>2. db' = ChangeState(db, st) /\ db.mem.st \in {"OPEN", "MODIFY"} /\ db.hosted
      /\ UNCHANGED <<up, peers, owner, table, expired, whose, owed, take, stray, away>> /\ up = "up"
  BY DEF PrivateShopModifyRequest
<1>3. st \in {"OPEN", "MODIFY", "CLOSED", "RECOVERY"} /\ st # "CLOSED" /\ db.mem.st # "none"
  BY <1>2
<1> HIDE DEF st
<1>4. PICK f : LET g == ChangeState(db, st) IN
               /\ Reaches(db, e, g, f) /\ g \in Memories /\ Kept(g, f) /\ Stays(db, e, g, f) /\ SameStock(db, g)
               /\ g.mem.st = st /\ g.mem.gold = db.mem.gold /\ g.mem.items = db.mem.items /\ g.mem.held = db.mem.held
               /\ g.hosted = db.hosted /\ (g.cache.st = "none" <=> db.cache.st = "none")
  BY <1>1, <1>3, ChangeStateKeeps
<1>5. SameGoods(db, db') /\ SameCaches(db, db')
  BY <1>2, <1>4 DEF SameGoods, SameCaches, SameStock
<1>6. db'.mem.st \in {"OPEN", "MODIFY"}
  BY <1>2, <1>4 DEF st
<1>. QED BY <1>2, <1>3, <1>4, <1>5, <1>6, QuietStep

LEMMA FlushStep ==
    ASSUME NEW e, Ends(table, db.sql, e), Sound(e), up = "up", db' = FlushCache(db), owner' \in {owner, Off},
           UNCHANGED <<up, peers, table, expired, whose, owed, take, stray, away>>
    PROVE  StorageInv'
<1>1. e \in Rows /\ db \in Memories /\ Kept(db, e)
  BY SoundIs
<1>2. PICK f : /\ Reaches(db, e, db', f) /\ db' \in Memories /\ Kept(db', f) /\ Stays(db, e, db', f) /\ SameStock(db, db')
               /\ db'.mem = db.mem /\ db'.hosted = db.hosted /\ db'.cache.st = db.cache.st
  BY <1>1, FlushCacheKeeps
<1>3. SameGoods(db, db') /\ SameCaches(db, db')
  BY <1>2 DEF SameGoods, SameCaches, SameStock
<1>. QED BY <1>2, <1>3, QuietStep

LEMMA LogoutStep ==
    ASSUME NEW e, Ends(table, db.sql, e), Sound(e), Logout PROVE StorageInv'
<1>1. up = "up" /\ UNCHANGED <<up, peers, table, expired, whose, owed, take, stray, away>> /\ owner' = Off
      /\ db' = StartPremiumEvent(db)
  BY DEF Logout
<1>2. CASE db' = FlushCache(db)
  BY <1>1, <1>2, FlushStep
<1>3. CASE db' = db
  <2>1. e \in Rows /\ db \in Memories /\ Kept(db, e)
    BY SoundIs
  <2>2. Reaches(db, e, db', e) /\ Kept(db', e) /\ Stays(db, e, db', e) /\ SameGoods(db, db') /\ SameCaches(db, db')
    BY <1>3, <2>1, ReachesNow DEF Stays, SameGoods, SameCaches
  <2>. QED BY <1>1, <1>3, <2>2, QuietStep
<1>. QED BY <1>1, <1>2, <1>3 DEF StartPremiumEvent

LEMMA WriteStep ==
    ASSUME NEW e, Ends(table, db.sql, e), Sound(e), NEW i \in Items, UpdatePrivateShopItemCache(i) PROVE StorageInv'
<1>1. e \in Rows /\ db \in Memories /\ Kept(db, e)
  BY SoundIs
<1>2. db' = Write(db, {i}) /\ db.item[i] = "dirty" /\ up = "up"
      /\ UNCHANGED <<up, peers, owner, table, expired, whose, owed, take, stray, away>>
  BY DEF UpdatePrivateShopItemCache
<1>3. {i} \in SUBSET Dirty(db) /\ {i} \in SUBSET Items
  BY <1>2 DEF Dirty
<1>4. PICK f : /\ Reaches(db, e, db', f) /\ db' \in Memories /\ SameDesk(db, db') /\ SameRow(e, f)
               /\ db'.set = db.set /\ db'.inv = db.inv /\ f.items = e.items \cup {i} /\ f.inv = e.inv
               /\ \A j \in Items : db'.item[j] = IF j \in {i} THEN "clean" ELSE db.item[j]
  BY <1>1, <1>2, <1>3, WriteIs
<1>5. f \in Rows
  BY <1>4 DEF Reaches
<1>6. Kept(db', f) /\ Stays(db, e, db', f)
  BY <1>1, <1>3, <1>4, <1>5, WriteKeeps
<1>7. SameGoods(db, db') /\ SameCaches(db, db') /\ db'.mem.st = db.mem.st /\ db'.hosted = db.hosted
  BY <1>4 DEF SameGoods, SameCaches, SameDesk
<1>. QED BY <1>2, <1>4, <1>6, <1>7, QuietStep

\* The shop is destroyed; whatever becomes of its last item.
LEMMA NowhereStep ==
    ASSUME NEW e, Ends(table, db.sql, e), Sound(e), NEW f, Reaches(db, e, db', f), Nowhere(db', f),
           up = "up", UNCHANGED <<up, peers, owner, table, expired, take, stray, away>>,
           owed' \in Nat, ~away => owed' = 0, whose' \in [Items -> {"owner", "shop", "buyer"}], Whereabouts(f)'
    PROVE  StorageInv'
<1>1. Kept(db', f) /\ Placed(db', f) /\ Paid(db', f, 0) /\ Stock(db', f) = {}
  BY NowhereKept
<1>2. Types' /\ Stopped'
  BY DEF Sound, Types, Reaches, Stopped
<1>3. Connected(f)'
  BY DEF Sound, Connected, Nowhere, NoShop
<1>4. Hosting(f)'
  BY <1>1 DEF Hosting, Nowhere, NoShop
<1>5. Ledger(f)'
  BY <1>1, <1>4 DEF Ledger
<1>6. Sound(f)'
  BY <1>1, <1>2, <1>3, <1>5 DEF Sound
<1>. QED BY <1>6, ReachedIs

LEMMA PremiumStep ==
    ASSUME NEW e, Ends(table, db.sql, e), Sound(e), UpdatePrivateShopPremiumEvent PROVE StorageInv'
<1>1. e \in Rows /\ db \in Memories /\ Kept(db, e)
  BY SoundIs
<1>2. up = "up" /\ db' = Recover(db) /\ db.mem.st # "none"
      /\ UNCHANGED <<up, peers, owner, table, expired, whose, owed, take, stray, away>>
  BY DEF UpdatePrivateShopPremiumEvent, Overdue
<1>3. PICK f : /\ Reaches(db, e, db', f) /\ db' \in Memories /\ Kept(db', f) /\ Stays(db, e, db', f) /\ db'.inv = db.inv
               /\ \/ Nowhere(db', f)
                  \/ db'.mem.st = "RECOVERY" /\ SameGoods(db, db') /\ SameCaches(db, db') /\ db'.hosted = db.hosted
  BY <1>1, <1>2, RecoverKeeps
<1>4. CASE Nowhere(db', f)
  <2>1. Paid(db', f, 0) /\ Stock(db', f) = {}
    BY <1>4, NowhereKept
  <2>2. ~away => owed = 0
    BY <1>3, <1>4 DEF Sound, Ledger, Stays, Paid, Nowhere
  <2>3. owed \in Nat /\ whose \in [Items -> {"owner", "shop", "buyer"}]
    BY DEF Sound, Types
  <2>4. Whereabouts(f)'
    <3>1. SUFFICES ASSUME NEW i \in Items \ stray PROVE Lies(f, i)'
      BY <1>2 DEF Whereabouts
    <3>2. Lies(e, i)
      BY DEF Sound, Whereabouts
    <3>3. Stock(db, e) = Stock(db', f) /\ f.inv = e.inv
      BY <1>3 DEF Stays
    <3>. QED BY <1>2, <1>3, <1>4, <3>2, <3>3 DEF Lies, Owned, Nowhere, NoShop
  <2>. QED BY <1>2, <1>3, <1>4, <2>2, <2>3, <2>4, NowhereStep
<1>5. CASE db'.mem.st = "RECOVERY" /\ SameGoods(db, db') /\ SameCaches(db, db') /\ db'.hosted = db.hosted
  BY <1>2, <1>3, <1>5, QuietStep
<1>. QED BY <1>3, <1>4, <1>5

\* A step that touches only holds and inventory rows.
LEMMA DeskStep ==
    ASSUME NEW e, Ends(table, db.sql, e), Sound(e), NEW f, Reaches(db, e, db', f),
           db'.mem.st = db.mem.st, db'.mem.gold = db.mem.gold, db'.mem.items = db.mem.items, db'.mem.held \subseteq db.mem.items,
           db'.hosted = db.hosted, db'.cache = db.cache, db'.set = db.set, db'.item = db.item, SameRow(e, f), f.items = e.items,
           up = "up", UNCHANGED <<up, peers, owner, table, owed, away>>, expired => expired',
           whose' \in [Items -> {"owner", "shop", "buyer"}], take' \in [Items -> {"no", "held", "paid"}],
           stray' \subseteq Items, \A i \in Items : take'[i] # "no" => Mart \in peers, Whereabouts(f)'
    PROVE  StorageInv'
<1>1. e \in Rows /\ db \in Memories /\ Kept(db, e) /\ db' \in Memories /\ f \in Rows
  BY SoundIs DEF Reaches
<1>2. /\ Kept(db', f) /\ Stock(db', f) = Stock(db, e)
      /\ \A o : Paid(db, e, o) => Paid(db', f, o)
      /\ Placed(db, e) => Placed(db', f)
  BY <1>1, SameKeeps
<1>3. Types' /\ Stopped'
  BY <1>1 DEF Sound, Types, Stopped
<1>4. Connected(f)'
  BY DEF Sound, Connected
<1>5. Ledger(f)'
  <2>1. SUFFICES ASSUME ~away PROVE Paid(db', f, owed) /\ Placed(db', f) /\ Hosting(f)'
    BY DEF Ledger
  <2>2. Paid(db, e, owed) /\ Placed(db, e) /\ Hosting(e)
    BY <2>1 DEF Sound, Ledger
  <2>. QED BY <1>2, <2>2 DEF Hosting
<1>6. Sound(f)'
  BY <1>2, <1>3, <1>4, <1>5 DEF Sound
<1>. QED BY <1>6, ReachedIs

LEMMA ShopOnly ==
    ASSUME NEW d \in Memories, NEW e \in Rows, NEW H \in SUBSET Items
    PROVE  LET g == [d EXCEPT !.mem.held = H] IN
               /\ Reaches(d, e, g, e) /\ g.mem.st = d.mem.st /\ g.mem.gold = d.mem.gold /\ g.mem.items = d.mem.items
               /\ g.mem.held = H /\ g.hosted = d.hosted /\ g.cache = d.cache /\ SameStock(d, g)
<1> DEFINE g == [d EXCEPT !.mem.held = H]
<1>1. /\ g \in Memories /\ g.sql = d.sql /\ g.mem.st = d.mem.st /\ g.mem.gold = d.mem.gold /\ g.mem.items = d.mem.items
      /\ g.mem.held = H /\ g.hosted = d.hosted /\ g.cache = d.cache /\ SameStock(d, g)
  BY DEF Memories, Shops, SameStock
<1>. QED BY <1>1, ReachesNow

LEMMA SoundItem == ASSUME NEW e, Sound(e), NEW i \in Items \ stray PROVE Lies(e, i)
BY DEF Sound, Whereabouts

LEMMA HoldStep ==
    ASSUME NEW e, Ends(table, db.sql, e), Sound(e), NEW i \in Items, up = "up", NEW H \in SUBSET db.mem.items,
           db' = [db EXCEPT !.mem.held = H], H \subseteq db.mem.held \cup {i}, i \in H => take[i] = "no" /\ i \notin stray,
           take' \in {take, [take EXCEPT ![i] = "no"], [take EXCEPT ![i] = "held"]}, take' # take => take[i] # "paid",
           take'[i] # "no" => Mart \in peers,
           UNCHANGED <<up, peers, owner, table, expired, whose, owed, stray, away>>
    PROVE  StorageInv'
<1>1. e \in Rows /\ db \in Memories /\ Kept(db, e) /\ H \in SUBSET Items
  BY SoundIs, MemoryIs
<1>2. /\ Reaches(db, e, db', e) /\ db'.mem.st = db.mem.st /\ db'.mem.gold = db.mem.gold /\ db'.mem.items = db.mem.items
      /\ db'.mem.held = H /\ db'.hosted = db.hosted /\ db'.cache = db.cache /\ SameStock(db, db')
  BY <1>1, ShopOnly
<1>3. /\ take \in [Items -> {"no", "held", "paid"}] /\ whose \in [Items -> {"owner", "shop", "buyer"}] /\ stray \subseteq Items
      /\ \A j \in Items : take[j] # "no" => Mart \in peers
  BY DEF Sound, Types, Connected
<1>4. take' \in [Items -> {"no", "held", "paid"}] /\ \A j \in Items : take'[j] # "no" => Mart \in peers
  BY <1>3
<1>5. \A j \in Items : take'[j] = "paid" <=> take[j] = "paid"
  BY <1>3
<1>6. Stock(db', e) = Stock(db, e)
  BY <1>2, SameStockIs DEF SameShelf
<1>7. Whereabouts(e)'
  <2>1. SUFFICES ASSUME NEW j \in Items \ stray PROVE Lies(e, j)'
    BY DEF Whereabouts
  <2>2. Lies(e, j)
    BY SoundItem
  <2>3. take[j] = "paid" /\ j \in H => j \in db.mem.held
    OBVIOUS
  <2>4. db'.inv = db.inv
    BY <1>2 DEF SameStock
  <2>. QED BY <1>2, <1>5, <1>6, <2>2, <2>3, <2>4 DEF Lies, Owned
<1>8. db'.set = db.set /\ db'.item = db.item /\ SameRow(e, e)
  BY <1>2 DEF SameStock, SameRow
<1>. QED BY <1>2, <1>3, <1>4, <1>7, <1>8, DeskStep

LEMMA BuyRequestStep ==
    ASSUME NEW e, Ends(table, db.sql, e), Sound(e), NEW i \in Items, PrivateShopBuyRequest(i) PROVE StorageInv'
<1> DEFINE H == db.mem.held \cup {i}
<1>1. db.mem.held \subseteq db.mem.items
  BY SoundIs DEF KeptShop
<1>2. /\ up = "up" /\ Mart \in peers /\ take[i] = "no" /\ i \notin stray /\ i \in db.mem.items
      /\ take' = [take EXCEPT ![i] = "held"]
      /\ UNCHANGED <<up, peers, owner, table, expired, whose, owed, stray, away>>
  BY DEF PrivateShopBuyRequest
<1>3. db' = [db EXCEPT !.mem.held = H]
  BY DEF PrivateShopBuyRequest
<1>4. H \in SUBSET db.mem.items
  BY <1>1, <1>2
<1>5. H \subseteq db.mem.held \cup {i}
  OBVIOUS
<1> HIDE DEF H
<1>. QED BY <1>2, <1>3, <1>4, <1>5, HoldStep

LEMMA FailedBuyStep ==
    ASSUME NEW e, Ends(table, db.sql, e), Sound(e), NEW i \in Items, PrivateShopFailedBuy(i) PROVE StorageInv'
<1> DEFINE H == db.mem.held \ {i}
<1>1. db.mem.held \subseteq db.mem.items /\ take \in [Items -> {"no", "held", "paid"}]
  BY SoundIs DEF KeptShop, Sound, Types
<1>2. /\ up = "up" /\ take[i] = "held" /\ take' = [take EXCEPT ![i] = "no"] /\ db' = [db EXCEPT !.mem.held = H]
      /\ UNCHANGED <<up, peers, owner, table, expired, whose, owed, stray, away>>
  BY DEF PrivateShopFailedBuy
<1>3. H \in SUBSET db.mem.items /\ H \subseteq db.mem.held \cup {i} /\ i \notin H
  BY <1>1
<1>4. take'[i] = "no"
  BY <1>1, <1>2
<1> HIDE DEF H
<1>. QED BY <1>2, <1>3, <1>4, HoldStep

LEMMA ReleaseStep ==
    ASSUME NEW e, Ends(table, db.sql, e), Sound(e), NEW i \in Items, ReleaseHold(i) PROVE StorageInv'
<1> DEFINE H == db.mem.held \ {i}
<1>1. db.mem.held \subseteq db.mem.items /\ (take[i] # "no" => Mart \in peers)
  BY SoundIs DEF KeptShop, Sound, Connected
<1>2. /\ up = "up" /\ take' = take /\ db' = [db EXCEPT !.mem.held = H]
      /\ UNCHANGED <<up, peers, owner, table, expired, whose, owed, stray, away>>
  BY DEF ReleaseHold
<1>3. H \in SUBSET db.mem.items /\ H \subseteq db.mem.held \cup {i} /\ i \notin H
  BY <1>1
<1> HIDE DEF H
<1>. QED BY <1>1, <1>2, <1>3, HoldStep

LEMMA DeadlineStep ==
    ASSUME NEW e, Ends(table, db.sql, e), Sound(e), Deadline PROVE StorageInv'
<1>1. expired' /\ UNCHANGED <<up, peers, owner, db, table, whose, owed, take, stray, away>>
  BY DEF Deadline
<1>2. Types' /\ Stopped' /\ Kept(db, e)' /\ Connected(e)'
  BY <1>1 DEF Sound, Types, Stopped, Connected
<1>3. Whereabouts(e)'
  BY <1>1 DEF Sound, Whereabouts, Lies, Owned
<1>4. Ledger(e)'
  BY <1>1 DEF Sound, Ledger, Hosting
<1>. QED BY <1>1, <1>2, <1>3, <1>4 DEF Sound, StorageInv

PutInv(d, i, g) ==
    /\ g.mem = d.mem /\ g.hosted = d.hosted /\ g.cache = d.cache /\ g.set = d.set /\ g.item = d.item /\ g.sql = d.sql
    /\ g.inv[i] = "dirty" /\ \A j \in Items : j # i => g.inv[j] = d.inv[j]

LEMMA PutItemCacheIs ==
    ASSUME NEW d \in Memories, NEW e \in Rows, NEW i \in Items
    PROVE  LET g == PutItemCache(d, i) IN Reaches(d, e, g, e) /\ g \in Memories /\ PutInv(d, i, g)
<1> DEFINE g == PutItemCache(d, i)
<1>1. d.inv \in [Items -> Marks]
  BY MemoryIs
<1>2. [d.inv EXCEPT ![i] = "dirty"] \in [Items -> Marks]
  BY <1>1 DEF Marks
<1>3. /\ g \in Memories /\ g.mem = d.mem /\ g.hosted = d.hosted /\ g.cache = d.cache /\ g.set = d.set /\ g.item = d.item
      /\ g.sql = d.sql /\ g.inv = [d.inv EXCEPT ![i] = "dirty"]
  BY <1>2 DEF PutItemCache, Memories
<1> HIDE DEF g
<1>. QED BY <1>1, <1>3, ReachesNow DEF g, PutInv

LEMMA ItemSaveStep ==
    ASSUME NEW e, Ends(table, db.sql, e), Sound(e), NEW i \in Items, QueryItemSave(i) PROVE StorageInv'
<1>1. e \in Rows /\ db \in Memories /\ Kept(db, e)
  BY SoundIs
<1>2. /\ up = "up" /\ take[i] = "held" /\ db' = PutItemCache(db, i) /\ take' = [take EXCEPT ![i] = "paid"]
      /\ whose' = [whose EXCEPT ![i] = "buyer"]
      /\ UNCHANGED <<up, peers, owner, table, expired, owed, stray, away>>
  BY DEF QueryItemSave
<1>3. Reaches(db, e, db', e) /\ db' \in Memories /\ PutInv(db, i, db')
  BY <1>1, <1>2, PutItemCacheIs
<1>4. /\ take \in [Items -> {"no", "held", "paid"}] /\ whose \in [Items -> {"owner", "shop", "buyer"}] /\ stray \subseteq Items
      /\ \A j \in Items : take[j] # "no" => Mart \in peers
  BY DEF Sound, Types, Connected
<1>5. /\ take' \in [Items -> {"no", "held", "paid"}] /\ whose' \in [Items -> {"owner", "shop", "buyer"}]
      /\ \A j \in Items : take'[j] # "no" => Mart \in peers
      /\ \A j \in Items : j # i => take'[j] = take[j] /\ whose'[j] = whose[j]
      /\ take'[i] = "paid" /\ whose'[i] = "buyer"
  BY <1>2, <1>4
<1>6. Stock(db', e) = Stock(db, e)
  BY <1>3 DEF Stock, Live, PutInv
<1>7. Whereabouts(e)'
  <2>1. SUFFICES ASSUME NEW j \in Items \ stray PROVE Lies(e, j)'
    BY <1>2 DEF Whereabouts
  <2>2. Lies(e, j)
    BY SoundItem
  <2>3. CASE j = i
    BY <1>3, <1>5, <2>3 DEF Lies, Owned, PutInv
  <2>4. CASE j # i
    BY <1>3, <1>5, <1>6, <2>2, <2>4 DEF Lies, Owned, PutInv
  <2>. QED BY <2>3, <2>4
<1>8. SameRow(e, e) /\ db.mem.held \subseteq db.mem.items
  BY SoundIs DEF SameRow, KeptShop
<1>. QED BY <1>2, <1>3, <1>4, <1>5, <1>7, <1>8, DeskStep DEF PutInv

LEMMA SaveStep ==
    ASSUME NEW e, Ends(table, db.sql, e), Sound(e), NEW i \in Items, UpdateItemCache(i) PROVE StorageInv'
<1>1. e \in Rows /\ db \in Memories /\ Kept(db, e)
  BY SoundIs
<1>2. /\ up = "up" /\ db.inv[i] = "dirty" /\ db' = Save(db, {i})
      /\ UNCHANGED <<up, peers, owner, table, expired, whose, owed, take, stray, away>>
  BY DEF UpdateItemCache, Unsaved
<1>3. PICK f : /\ Reaches(db, e, db', f) /\ db' \in Memories /\ SameDesk(db, db') /\ SameRow(e, f)
               /\ db'.set = db.set /\ db'.item = db.item /\ f.items = e.items /\ f.inv = e.inv \cup {i}
               /\ \A j \in Items : db'.inv[j] = IF j \in {i} THEN "clean" ELSE db.inv[j]
  BY <1>1, <1>2, SaveIs
<1>4. /\ take \in [Items -> {"no", "held", "paid"}] /\ whose \in [Items -> {"owner", "shop", "buyer"}] /\ stray \subseteq Items
      /\ \A j \in Items : take[j] # "no" => Mart \in peers
  BY DEF Sound, Types, Connected
<1>5. Stock(db', f) = Stock(db, e)
  BY <1>3 DEF Stock, Live
<1>6. \A j \in Items : (j \in f.inv \/ db'.inv[j] = "dirty") <=> (j \in e.inv \/ db.inv[j] = "dirty")
  BY <1>2, <1>3
<1>7. Whereabouts(f)'
  <2>1. SUFFICES ASSUME NEW j \in Items \ stray PROVE Lies(f, j)'
    BY <1>2 DEF Whereabouts
  <2>2. Lies(e, j)
    BY SoundItem
  <2>3. db'.mem = db.mem
    BY <1>3 DEF SameDesk
  <2>. QED BY <1>2, <1>5, <1>6, <2>2, <2>3 DEF Lies, Owned
<1>8. db.mem.held \subseteq db.mem.items
  BY SoundIs DEF KeptShop
<1>. QED BY <1>2, <1>3, <1>4, <1>7, <1>8, DeskStep DEF SameDesk

\* The shop loses item i, and is closed if it was the last.
LEMMA OneLessStep ==
    ASSUME NEW e, Ends(table, db.sql, e), Sound(e), NEW f, Reaches(db, e, db', f), Kept(db', f), NEW i \in Items,
           db.mem.st # "none", Stock(db', f) = Stock(db, e) \ {i}, f.inv = e.inv,
           db'.mem.items = db.mem.items \ {i}, db'.mem.held = db.mem.held \ {i},
           db'.mem.st \in {db.mem.st, "CLOSED"}, db'.hosted = db.hosted, db'.set = db.set,
           db'.cache.st = "none" <=> db.cache.st = "none", \A j \in Items : j # i => db'.inv[j] = db.inv[j],
           owed' \in Nat, ~away => Paid(db', f, owed'), Placed(db, e) => Placed(db', f),
           up = "up", UNCHANGED <<up, peers, owner, table, expired, away>>,
           whose' \in [Items -> {"owner", "shop", "buyer"}], take' \in [Items -> {"no", "held", "paid"}],
           stray' \subseteq Items, stray \subseteq stray', \A j \in Items : take'[j] # "no" => take[j] # "no",
           \A j \in Items : j # i => whose'[j] = whose[j] /\ take'[j] = take[j],
           i \notin stray' => Lies(f, i)'
    PROVE  StorageInv'
<1>1. Types' /\ Stopped'
  BY DEF Sound, Types, Stopped, Reaches
<1>2. Connected(f)'
  <2>1. db'.mem.st # "none"
    OBVIOUS
  <2>2. db'.mem.items \subseteq db.mem.items
    OBVIOUS
  <2>. QED BY <2>1, <2>2 DEF Sound, Connected
<1>3. Whereabouts(f)'
  <2>1. SUFFICES ASSUME NEW j \in Items \ stray' PROVE Lies(f, j)'
    BY DEF Whereabouts
  <2>2. CASE j = i
    BY <2>1, <2>2
  <2>3. CASE j # i
    <3>1. Lies(e, j)
      BY SoundItem
    <3>2. whose'[j] = whose[j] /\ take'[j] = take[j] /\ db'.inv[j] = db.inv[j]
      BY <2>3
    <3>3. (j \in Stock(db', f) <=> j \in Stock(db, e)) /\ (j \in db'.mem.held <=> j \in db.mem.held)
      BY <2>3
    <3>. QED BY <3>1, <3>2, <3>3 DEF Lies, Owned
  <2>. QED BY <2>2, <2>3
<1>4. Ledger(f)'
  <2>1. SUFFICES ASSUME ~away PROVE Paid(db', f, owed') /\ Placed(db', f) /\ Hosting(f)'
    BY DEF Ledger
  <2>2. Placed(db, e) /\ Hosting(e)
    BY <2>1 DEF Sound, Ledger
  <2>3. /\ db'.mem.st = "UNAVAILABLE" => db.mem.st = "UNAVAILABLE"
        /\ db.mem.items = {} => db'.mem.items = {}
        /\ Stock(db, e) = {} => Stock(db', f) = {}
    OBVIOUS
  <2>4. Hosting(f)'
    BY <2>2, <2>3 DEF Hosting
  <2>. QED BY <2>1, <2>2, <2>4
<1>5. Sound(f)'
  BY <1>1, <1>2, <1>3, <1>4 DEF Sound
<1>. QED BY <1>5, ReachedIs

\* An item that is sold or taken back, and the shop closed if it was the last.
LEMMA LastIs ==
    ASSUME NEW d \in Memories, NEW e \in Rows, Kept(d, e), d.mem.st # "none", NEW i \in d.mem.items
    PROVE  \E f : LET k == RemoveItem(d, i) g == IF k.mem.items = {} THEN GameDespawn(k) ELSE k IN
               /\ Reaches(d, e, g, f) /\ g \in Memories /\ Kept(g, f)
               /\ Stock(g, f) = Stock(d, e) \ {i} /\ f.inv = e.inv
               /\ \A o : Paid(d, e, o) => Paid(g, f, o)
               /\ Placed(d, e) => Placed(g, f)
               /\ g.mem.st = (IF k.mem.items = {} THEN "CLOSED" ELSE d.mem.st) /\ g.mem.gold = d.mem.gold
               /\ g.mem.items = d.mem.items \ {i} /\ g.mem.held = d.mem.held \ {i} /\ k.mem.items = d.mem.items \ {i}
               /\ g.hosted = d.hosted /\ g.set = d.set /\ g.inv = d.inv /\ (g.cache.st = "none" <=> d.cache.st = "none")
<1> DEFINE k == RemoveItem(d, i)
           g == IF k.mem.items = {} THEN GameDespawn(k) ELSE k
<1>1. PICK l : /\ Reaches(d, e, k, l) /\ k \in Memories /\ Kept(k, l)
               /\ Stock(k, l) = Stock(d, e) \ {i} /\ l.inv = e.inv
               /\ \A o : Paid(d, e, o) => Paid(k, l, o)
               /\ Placed(d, e) => Placed(k, l)
               /\ k.mem.st = d.mem.st /\ k.mem.gold = d.mem.gold
               /\ k.mem.items = d.mem.items \ {i} /\ k.mem.held = d.mem.held \ {i}
               /\ k.hosted = d.hosted /\ k.cache = d.cache /\ k.set = d.set /\ k.inv = d.inv
  BY RemoveItemKeeps
<1>2. CASE k.mem.items # {}
  <2>1. g = k
    BY <1>2
  <2> HIDE DEF k, g
  <2>. QED BY <1>1, <1>2, <2>1 DEF k, g
<1>3. CASE k.mem.items = {}
  <2>1. g = GameDespawn(k)
    BY <1>3
  <2> HIDE DEF k, g
  <2>2. l \in Rows /\ k.mem.st # "none"
    BY <1>1 DEF Reaches
  <2>3. PICK f : /\ Reaches(k, l, GameDespawn(k), f) /\ GameDespawn(k) \in Memories /\ Kept(GameDespawn(k), f) /\ Stays(k, l, GameDespawn(k), f)
                 /\ GameDespawn(k).mem.st = "CLOSED" /\ SameGoods(k, GameDespawn(k)) /\ SameCaches(k, GameDespawn(k)) /\ GameDespawn(k).hosted = k.hosted
    BY <1>1, <1>3, <2>2, GameDespawnKeeps
  <2>4. Reaches(d, e, g, f)
    BY <1>1, <2>1, <2>3, ReachesOn
  <2>5. /\ Stock(g, f) = Stock(d, e) \ {i} /\ f.inv = e.inv
        /\ \A o : Paid(d, e, o) => Paid(g, f, o)
        /\ Placed(d, e) => Placed(g, f)
    BY <1>1, <2>1, <2>3 DEF Stays
  <2>6. /\ g \in Memories /\ Kept(g, f) /\ g.mem.st = "CLOSED" /\ g.mem.gold = d.mem.gold
        /\ g.mem.items = d.mem.items \ {i} /\ g.mem.held = d.mem.held \ {i}
        /\ g.hosted = d.hosted /\ g.set = d.set /\ g.inv = d.inv /\ (g.cache.st = "none" <=> d.cache.st = "none")
    BY <1>1, <2>1, <2>3 DEF SameGoods, SameCaches
  <2>. QED BY <1>1, <1>3, <2>4, <2>5, <2>6 DEF k, g
<1>. QED BY <1>2, <1>3

LEMMA BuyStep ==
    ASSUME NEW e, Ends(table, db.sql, e), Sound(e), NEW i \in Items, PrivateShopBuy(i) PROVE StorageInv'
<1>1. e \in Rows /\ db \in Memories /\ Kept(db, e) /\ db.mem.held \subseteq db.mem.items
  BY SoundIs DEF KeptShop
<1>2. /\ up = "up" /\ take[i] = "paid" /\ take' = [take EXCEPT ![i] = "no"]
      /\ UNCHANGED <<up, peers, owner, table, expired, whose, away>>
  BY DEF PrivateShopBuy
<1>3. /\ take \in [Items -> {"no", "held", "paid"}] /\ whose \in [Items -> {"owner", "shop", "buyer"}] /\ stray \subseteq Items
      /\ owed \in Nat /\ \A j \in Items : take[j] # "no" => Mart \in peers
  BY DEF Sound, Types, Connected
<1>4. /\ take' \in [Items -> {"no", "held", "paid"}] /\ whose' \in [Items -> {"owner", "shop", "buyer"}] /\ take'[i] = "no"
      /\ \A j \in Items : j # i => take'[j] = take[j] /\ whose'[j] = whose[j]
      /\ \A j \in Items : take'[j] # "no" => take[j] # "no" /\ Mart \in peers
  BY <1>2, <1>3
<1>5. CASE i \notin db.mem.held
  <2>1. stray' = stray \cup {i} /\ db' = db /\ owed' = owed
    BY <1>5 DEF PrivateShopBuy
  <2>2. Reaches(db, e, db', e) /\ SameRow(e, e) /\ stray' \subseteq Items
    BY <1>1, <1>3, <2>1, ReachesNow DEF SameRow
  <2>3. Whereabouts(e)'
    <3>1. SUFFICES ASSUME NEW j \in Items \ stray' PROVE Lies(e, j)'
      BY DEF Whereabouts
    <3>2. Lies(e, j) /\ take'[j] = take[j] /\ whose'[j] = whose[j]
      BY <1>4, <2>1, SoundItem
    <3>. QED BY <2>1, <3>2 DEF Lies, Owned
  <2>. QED BY <1>1, <1>2, <1>4, <2>1, <2>2, <2>3, DeskStep
<1>6. CASE i \in db.mem.held
  <2> DEFINE d == UpdateBalance(db)
             k == RemoveItem(d, i)
  <2>1. db' = (IF k.mem.items = {} THEN GameDespawn(k) ELSE k) /\ owed' = owed + 1 /\ stray' = stray
    BY <1>6 DEF PrivateShopBuy
  <2>2. db.mem.st # "none" /\ i \in db.mem.items
    BY <1>1, <1>6 DEF Kept, KeptShop
  <2>3. PICK l : /\ Reaches(db, e, d, l) /\ d \in Memories /\ Kept(d, l)
                 /\ Stock(d, l) = Stock(db, e) /\ l.inv = e.inv
                 /\ \A o \in Nat :
                        Paid(db, e, o) /\ (db.cache.st # "none" => db.hosted /\ db.mem.st # "UNAVAILABLE") => Paid(d, l, o + 1)
                 /\ Placed(db, e) => Placed(d, l)
                 /\ d.mem.st = db.mem.st /\ d.mem.items = db.mem.items /\ d.mem.held = db.mem.held
                 /\ d.hosted = db.hosted /\ d.set = db.set /\ d.inv = db.inv /\ d.cache.st = db.cache.st
    BY <1>1, <2>2, UpdateBalanceKeeps
  <2> HIDE DEF d
  <2>4. l \in Rows /\ d.mem.st # "none" /\ i \in d.mem.items
    BY <2>2, <2>3 DEF Reaches
  <2>5. PICK f : 
               /\ Reaches(d, l, db', f) /\ db' \in Memories /\ Kept(db', f)
               /\ Stock(db', f) = Stock(d, l) \ {i} /\ f.inv = l.inv
               /\ \A o : Paid(d, l, o) => Paid(db', f, o)
               /\ Placed(d, l) => Placed(db', f)
               /\ db'.mem.st = (IF k.mem.items = {} THEN "CLOSED" ELSE d.mem.st)
               /\ db'.mem.items = d.mem.items \ {i} /\ db'.mem.held = d.mem.held \ {i}
               /\ db'.hosted = d.hosted /\ db'.set = d.set /\ db'.inv = d.inv /\ (db'.cache.st = "none" <=> d.cache.st = "none")
    BY <2>1, <2>3, <2>4, LastIs
  <2> HIDE DEF k
  <2>6. Reaches(db, e, db', f)
    BY <2>3, <2>5, ReachesOn
  <2>7. /\ Stock(db', f) = Stock(db, e) \ {i} /\ f.inv = e.inv /\ (Placed(db, e) => Placed(db', f))
        /\ db'.mem.items = db.mem.items \ {i} /\ db'.mem.held = db.mem.held \ {i}
        /\ db'.mem.st \in {db.mem.st, "CLOSED"} /\ db'.hosted = db.hosted /\ db'.set = db.set /\ db'.inv = db.inv
        /\ (db'.cache.st = "none" <=> db.cache.st = "none")
    BY <2>3, <2>5
  <2>8. ~away => Paid(db', f, owed')
    <3>1. SUFFICES ASSUME ~away PROVE Paid(db', f, owed')
      OBVIOUS
    <3>2. Paid(db, e, owed) /\ Hosting(e)
      BY <3>1 DEF Sound, Ledger
    <3>3. db.cache.st # "none" => db.hosted /\ db.mem.st # "UNAVAILABLE"
      BY <1>1, <1>6, <2>2, <3>2 DEF Hosting
    <3>4. Paid(d, l, owed + 1)
      BY <1>3, <2>3, <3>2, <3>3
    <3>. QED BY <2>1, <2>5, <3>4
  <2>9. owed' \in Nat
    BY <1>3, <2>1
  <2>10. i \notin stray' => Lies(f, i)'
    <3>1. SUFFICES ASSUME i \notin stray PROVE Lies(f, i)'
      BY <2>1
    <3>2. Lies(e, i)
      BY <3>1, SoundItem
    <3>. QED BY <1>2, <1>4, <1>6, <2>7, <3>2 DEF Lies, Owned
  <2>. QED BY <1>2, <1>3, <1>4, <2>1, <2>2, <2>5, <2>6, <2>7, <2>8, <2>9, <2>10, OneLessStep
<1>. QED BY <1>5, <1>6

LEMMA CheckoutStep ==
    ASSUME NEW e, Ends(table, db.sql, e), Sound(e), NEW i \in Items, PrivateShopItemCheckoutUpdate(i) PROVE StorageInv'
<1> DEFINE k == RemoveItem(db, i)
           d == PutItemCache(k, i)
           c == GameDespawn(d)
<1>1. e \in Rows /\ db \in Memories /\ Kept(db, e)
  BY SoundIs
<1>2. /\ up = "up" /\ db.mem.st \in {"MODIFY", "RECOVERY"} /\ i \in db.mem.items /\ i \notin db.mem.held
      /\ db' = IF d.mem.items # {} THEN d ELSE IF d.mem.gold > 0 THEN c ELSE Destroy(c)
      /\ whose' = [whose EXCEPT ![i] = "owner"]
      /\ UNCHANGED <<up, peers, owner, table, expired, owed, take, stray, away>>
  BY DEF PrivateShopItemCheckoutUpdate
<1>3. /\ take \in [Items -> {"no", "held", "paid"}] /\ whose \in [Items -> {"owner", "shop", "buyer"}] /\ stray \subseteq Items
      /\ owed \in Nat
  BY DEF Sound, Types
<1>4. /\ whose' \in [Items -> {"owner", "shop", "buyer"}] /\ whose'[i] = "owner"
      /\ \A j \in Items : j # i => whose'[j] = whose[j]
  BY <1>2, <1>3
<1>5. PICK l : /\ Reaches(db, e, k, l) /\ k \in Memories /\ Kept(k, l)
               /\ Stock(k, l) = Stock(db, e) \ {i} /\ l.inv = e.inv
               /\ \A o : Paid(db, e, o) => Paid(k, l, o)
               /\ Placed(db, e) => Placed(k, l)
               /\ k.mem.st = db.mem.st /\ k.mem.gold = db.mem.gold
               /\ k.mem.items = db.mem.items \ {i} /\ k.mem.held = db.mem.held \ {i}
               /\ k.hosted = db.hosted /\ k.cache = db.cache /\ k.set = db.set /\ k.inv = db.inv
  <2>1. db.mem.st # "none"
    BY <1>2
  <2>. QED BY <1>1, <1>2, <2>1, RemoveItemKeeps
<1> HIDE DEF k
<1>6. l \in Rows
  BY <1>5 DEF Reaches
<1>7. Reaches(k, l, d, l) /\ d \in Memories /\ PutInv(k, i, d)
  BY <1>5, <1>6, PutItemCacheIs
<1> HIDE DEF d
<1>8. Kept(d, l) /\ Stock(d, l) = Stock(k, l) /\ (\A o : Paid(k, l, o) => Paid(d, l, o)) /\ (Placed(k, l) => Placed(d, l))
  <2>1. d.mem.held \subseteq k.mem.items
    BY <1>5, <1>7 DEF PutInv, Kept, KeptShop
  <2>2. SameRow(l, l)
    BY DEF SameRow
  <2>. QED BY <1>5, <1>6, <1>7, <2>1, <2>2, SameKeeps DEF PutInv
<1>9. /\ Reaches(db, e, d, l) /\ Stock(d, l) = Stock(db, e) \ {i} /\ l.inv = e.inv
      /\ \A o : Paid(db, e, o) => Paid(d, l, o)
      /\ Placed(db, e) => Placed(d, l)
      /\ d.mem.st = db.mem.st /\ d.mem.gold = db.mem.gold /\ d.mem.items = db.mem.items \ {i} /\ d.mem.held = db.mem.held \ {i}
      /\ d.hosted = db.hosted /\ d.cache = db.cache /\ d.set = db.set
      /\ d.inv[i] = "dirty" /\ \A j \in Items : j # i => d.inv[j] = db.inv[j]
  <2>1. Reaches(db, e, d, l)
    BY <1>5, <1>7, ReachesOn
  <2>. QED BY <2>1, <1>5, <1>7, <1>8 DEF PutInv
<1>10. ASSUME NEW f, db'.inv = d.inv, f.inv = l.inv, Stock(db', f) = Stock(d, l), db'.mem.held \subseteq d.mem.held PROVE Lies(f, i)'
  BY <1>2, <1>4, <1>9, <1>10 DEF Lies, Owned
<1>11. CASE d.mem.items # {}
  <2>1. db' = d
    BY <1>2, <1>11
  <2>2. Lies(l, i)'
    BY <1>10, <2>1
  <2>3. ~away => Paid(db', l, owed)
    BY <1>9, <2>1 DEF Sound, Ledger
  <2>4. db.mem.st # "none" /\ db'.mem.st \in {db.mem.st, "CLOSED"} /\ (db'.cache.st = "none" <=> db.cache.st = "none")
    BY <1>2, <1>9, <2>1
  <2>. QED BY <1>1, <1>2, <1>3, <1>4, <1>8, <1>9, <2>1, <2>2, <2>3, <2>4, OneLessStep
<1>12. CASE d.mem.items = {}
  <2>1. PICK f : /\ Reaches(d, l, c, f) /\ c \in Memories /\ Kept(c, f) /\ Stays(d, l, c, f)
                 /\ c.mem.st = "CLOSED" /\ SameGoods(d, c) /\ SameCaches(d, c) /\ c.hosted = d.hosted
    <3>1. d.mem.st # "none"
      BY <1>2, <1>9
    <3>. QED BY <1>6, <1>7, <1>8, <1>12, <3>1, GameDespawnKeeps
  <2> HIDE DEF c
  <2>2. Reaches(db, e, c, f)
    BY <1>9, <2>1, ReachesOn
  <2>3. CASE d.mem.gold > 0
    <3>1. db' = c
      BY <1>2, <1>12, <2>3
    <3>2. Lies(f, i)'
      BY <1>10, <2>1, <3>1 DEF Stays, SameCaches, SameGoods
    <3>3. ~away => Paid(db', f, owed)
      BY <1>9, <2>1, <3>1 DEF Sound, Ledger, Stays
    <3>4. /\ Stock(db', f) = Stock(db, e) \ {i} /\ f.inv = e.inv /\ (Placed(db, e) => Placed(db', f))
          /\ db'.mem.items = db.mem.items \ {i} /\ db'.mem.held = db.mem.held \ {i}
          /\ db'.mem.st \in {db.mem.st, "CLOSED"} /\ db'.hosted = db.hosted /\ db'.set = db.set
          /\ \A j \in Items : j # i => db'.inv[j] = db.inv[j]
      BY <1>9, <2>1, <3>1 DEF Stays, SameCaches, SameGoods
    <3>5. db.mem.st # "none" /\ (db'.cache.st = "none" <=> db.cache.st = "none")
      BY <1>2, <1>9, <2>1, <3>1 DEF SameCaches
    <3>. QED BY <1>1, <1>2, <1>3, <1>4, <2>1, <2>2, <3>1, <3>2, <3>3, <3>4, <3>5, OneLessStep
  <2>4. CASE ~(d.mem.gold > 0)
    <3>1. db' = Destroy(c)
      BY <1>2, <1>12, <2>4
    <3>2. c.mem.gold = 0 /\ c.mem.items = {} /\ c.mem.st # "none"
      <4>1. d.mem.gold \in Nat /\ c.mem.gold = d.mem.gold
        BY <1>7, <2>1, MemoryIs DEF SameGoods
      <4>. QED BY <1>12, <2>1, <2>4, <4>1 DEF SameGoods
    <3>3. f \in Rows
      BY <2>1 DEF Reaches
    <3>4. PICK q : /\ Reaches(c, f, db', q) /\ db' \in Memories /\ Kept(db', q) /\ Stays(c, f, db', q)
                   /\ Nowhere(db', q) /\ db'.inv = c.inv
      BY <2>1, <3>1, <3>2, <3>3, DestroyKeeps
    <3>5. Reaches(db, e, db', q)
      BY <2>2, <3>4, ReachesOn
    <3>6. /\ Stock(db', q) = Stock(db, e) \ {i} /\ q.inv = e.inv /\ db'.inv = d.inv
          /\ \A j \in Items : j # i => db'.inv[j] = db.inv[j]
      BY <1>9, <2>1, <3>4 DEF Stays, SameCaches
    <3>7. ~away => owed = 0
      <4>1. ~away => Paid(db, e, owed)
        BY DEF Sound, Ledger
      <4>. QED BY <4>1, <1>2, <1>9, <2>1, <3>2 DEF Paid, SameGoods
    <3>8. Whereabouts(q)'
      <4>1. SUFFICES ASSUME NEW j \in Items \ stray PROVE Lies(q, j)'
        BY <1>2 DEF Whereabouts
      <4>2. db'.mem.held = {}
        BY <3>4 DEF Nowhere, NoShop
      <4>3. CASE j = i
        BY <1>10, <3>4, <3>6, <4>2, <4>3, <1>9
      <4>4. CASE j # i
        <5>1. Lies(e, j) /\ whose'[j] = whose[j] /\ take'[j] = take[j] /\ db'.inv[j] = db.inv[j]
          BY <1>2, <1>4, <3>6, <4>4, SoundItem
        <5>2. j \in Stock(db', q) <=> j \in Stock(db, e)
          BY <3>6, <4>4
        <5>. QED BY <3>6, <4>2, <5>1, <5>2 DEF Lies, Owned
      <4>. QED BY <4>3, <4>4
    <3>9. owed' \in Nat
      BY <1>2, <1>3
    <3>. QED BY <1>2, <1>4, <3>4, <3>5, <3>7, <3>8, <3>9, NowhereStep
  <2>. QED BY <2>3, <2>4
<1>. QED BY <1>11, <1>12

LEMMA WithdrawStep ==
    ASSUME NEW e, Ends(table, db.sql, e), Sound(e), PrivateShopWithdraw PROVE StorageInv'
<1> DEFINE d == Withdraw(db)
<1>1. e \in Rows /\ db \in Memories /\ Kept(db, e)
  BY SoundIs
<1>2. /\ up = "up" /\ db.mem.st # "none" /\ owed' = 0 /\ db' = IF d.mem.items = {} THEN Destroy(d) ELSE d
      /\ UNCHANGED <<up, peers, owner, table, expired, whose, take, stray, away>>
  BY DEF PrivateShopWithdraw, Exists
<1>3. whose \in [Items -> {"owner", "shop", "buyer"}] /\ 0 \in Nat
  BY DEF Sound, Types
<1>4. PICK f : /\ Reaches(db, e, d, f) /\ d \in Memories /\ Kept(d, f)
               /\ Stock(d, f) = Stock(db, e) /\ f.inv = e.inv /\ Paid(d, f, 0)
               /\ Placed(db, e) => Placed(d, f)
               /\ d.mem.st = db.mem.st /\ d.mem.gold = 0 /\ d.mem.items = db.mem.items /\ d.mem.held = db.mem.held
               /\ d.hosted = db.hosted /\ SameCaches(db, d)
  BY <1>1, <1>2, WithdrawKeeps
<1> HIDE DEF d
<1>5. f \in Rows
  BY <1>4 DEF Reaches
<1>6. ASSUME NEW q, q.inv = f.inv, db'.inv = d.inv, Stock(db', q) = Stock(d, f), db'.mem.held \subseteq d.mem.held PROVE Whereabouts(q)'
  <2>1. SUFFICES ASSUME NEW j \in Items \ stray PROVE Lies(q, j)'
    BY <1>2 DEF Whereabouts
  <2>2. Lies(e, j)
    BY SoundItem
  <2>. QED BY <1>2, <1>4, <1>6, <2>2 DEF Lies, Owned, SameCaches
<1>7. CASE d.mem.items # {}
  <2>1. db' = d
    BY <1>2, <1>7
  <2>2. Types' /\ Stopped' /\ Connected(f)'
    BY <1>2, <1>3, <1>4, <2>1 DEF Sound, Types, Stopped, Connected, SameCaches
  <2>3. Whereabouts(f)'
    BY <1>6, <2>1
  <2>4. Ledger(f)'
    <3>1. SUFFICES ASSUME ~away PROVE Paid(d, f, 0) /\ Placed(d, f) /\ Hosting(f)'
      BY <1>2, <2>1 DEF Ledger
    <3>2. Placed(db, e) /\ Hosting(e)
      BY <3>1 DEF Sound, Ledger
    <3>. QED BY <1>2, <1>4, <2>1, <3>2 DEF Hosting, SameCaches
  <2>5. Sound(f)'
    BY <1>4, <2>1, <2>2, <2>3, <2>4 DEF Sound
  <2>. QED BY <1>2, <1>4, <2>1, <2>5, ReachedIs
<1>8. CASE d.mem.items = {}
  <2>1. db' = Destroy(d) /\ d.mem.st # "none"
    BY <1>2, <1>4, <1>8
  <2>2. PICK q : /\ Reaches(d, f, db', q) /\ db' \in Memories /\ Kept(db', q) /\ Stays(d, f, db', q)
                 /\ Nowhere(db', q) /\ db'.inv = d.inv
    BY <1>4, <1>5, <1>8, <2>1, DestroyKeeps
  <2>3. Reaches(db, e, db', q)
    BY <1>4, <2>2, ReachesOn
  <2>4. q.inv = f.inv /\ Stock(db', q) = Stock(d, f) /\ db'.mem.held \subseteq d.mem.held
    BY <2>2 DEF Stays, Nowhere, NoShop
  <2>5. Whereabouts(q)'
    BY <1>6, <2>2, <2>4
  <2>. QED BY <1>2, <1>3, <2>2, <2>3, <2>5, NowhereStep
<1>. QED BY <1>7, <1>8

LEMMA BuiltIs ==
    ASSUME NEW d \in Memories, NEW e \in Rows, NEW S \in SUBSET Items
    PROVE  \E f : LET g == Built(d, S) IN
               /\ Reaches(d, e, g, f) /\ g \in Memories /\ SameDesk(d, g) /\ SameRow(e, f) /\ g.set
               /\ f.items = e.items /\ f.inv = e.inv \ S
               /\ \A i \in Items : /\ g.inv[i] = IF i \in S THEN "dead" ELSE d.inv[i]
                                   /\ g.item[i] = IF i \in S THEN "dirty" ELSE d.item[i]
<1> DEFINE k == SendEach(d, "InvDel", S)
           f == Swept(e, "InvDel", S)
           x == [i \in Items |-> IF i \in S THEN "dead" ELSE k.inv[i]]
           y == [i \in Items |-> IF i \in S THEN "dirty" ELSE k.item[i]]
           g == [k EXCEPT !.inv = x, !.item = y, !.set = TRUE]
<1>1. Reaches(d, e, k, f) /\ k \in Memories /\ SameDesk(d, k) /\ SameStock(d, k)
  BY SendEachIs DEF ItemOps
<1>2. SameRow(e, f) /\ f.items = e.items /\ f.inv = e.inv \ S
  BY SweptIs DEF ItemOps, SameRow
<1>3. Built(d, S) = g
  BY DEF Built
<1> HIDE DEF k, f
<1>4. x \in [Items -> Marks] /\ y \in [Items -> Marks]
  BY <1>1, MemoryIs DEF Marks
<1>5. \A i \in Items : /\ x[i] = IF i \in S THEN "dead" ELSE k.inv[i]
                       /\ y[i] = IF i \in S THEN "dirty" ELSE k.item[i]
  OBVIOUS
<1> HIDE DEF x, y
<1>6. /\ g \in Memories /\ SameDesk(k, g) /\ g.set = TRUE /\ g.inv = x /\ g.item = y /\ g.sql = k.sql
  BY <1>1, <1>4 DEF Memories, SameDesk
<1> HIDE DEF g
<1>7. Reaches(d, e, g, f)
  BY <1>1, <1>6 DEF Reaches
<1>8. \A i \in Items : /\ g.inv[i] = IF i \in S THEN "dead" ELSE d.inv[i]
                       /\ g.item[i] = IF i \in S THEN "dirty" ELSE d.item[i]
  BY <1>1, <1>5, <1>6 DEF SameStock
<1>. QED BY <1>1, <1>2, <1>3, <1>6, <1>7, <1>8 DEF SameDesk

LEMMA BuildStep ==
    ASSUME NEW e, Ends(table, db.sql, e), Sound(e), PrivateShopBuild PROVE StorageInv'
<1>1. e \in Rows /\ db \in Memories /\ Kept(db, e)
  BY SoundIs
<1> DEFINE shop(S) == [st |-> "OPEN", gold |-> 0, items |-> S, held |-> {}]
           k(S) == [db EXCEPT !.mem = shop(S), !.hosted = TRUE]
<1>2. PICK S \in SUBSET In("owner") :
         /\ db' = Built(FlushCache(PutCache(k(S), "OPEN", 0)), S)
         /\ whose' = [i \in Items |-> IF i \in S THEN "shop" ELSE whose[i]]
  BY DEF PrivateShopBuild
<1>3. /\ up = "up" /\ owner = Host /\ In("shop") = {} /\ owed = 0 /\ db.mem.st = "none" /\ Cached(db) = {} /\ expired' = FALSE
      /\ UNCHANGED <<up, peers, owner, table, owed, take, stray, away>>
  BY DEF PrivateShopBuild, Exists
<1>4. /\ take \in [Items -> {"no", "held", "paid"}] /\ whose \in [Items -> {"owner", "shop", "buyer"}] /\ stray \subseteq Items
      /\ S \in SUBSET Items /\ owner \in peers \cup {Off} /\ Host # Off
  BY StorageAssumption DEF Sound, Types, In
<1>5. \A i \in Items : db.item[i] = "none" /\ whose[i] # "shop"
  BY <1>3 DEF Cached, In
<1>6. e.items = {} /\ Stock(db, e) = {}
  <2>1. Live(db) = {}
    BY <1>5 DEF Live
  <2>2. ~db.set => e.items = {}
    BY <1>3, <1>4 DEF Sound, Connected
  <2>. QED BY <1>1, <2>1, <2>2 DEF Stock, Kept, KeptItems
<1> DEFINE a == k(S)
           b == PutCache(a, "OPEN", 0)
           c == FlushCache(b)
<1>7. /\ a \in Memories /\ a.sql = db.sql /\ a.mem = shop(S) /\ a.hosted = TRUE /\ SameStock(db, a)
  <2>1. shop(S) \in Shops
    BY <1>4 DEF Shops, States
  <2> HIDE DEF shop
  <2>. QED BY <1>1, <2>1 DEF Memories, SameStock
<1> HIDE DEF k
<1> HIDE DEF a
<1>8. /\ Reaches(a, e, b, e) /\ b \in Memories /\ SameStock(a, b) /\ b.mem = a.mem /\ b.hosted = a.hosted
      /\ b.cache.st = "OPEN" /\ b.cache.gold = 0 /\ b.cache.need
  <2>1. "OPEN" \in States /\ 0 \in Nat
    BY DEF States
  <2>. QED BY <1>1, <1>7, <2>1, PutCacheIs
<1> HIDE DEF b
<1>9. PICK l : /\ Reaches(b, e, c, l) /\ c \in Memories /\ SameShelf(e, l)
               /\ c.mem = b.mem /\ c.hosted = b.hosted /\ SameStock(b, c)
               /\ c.cache.st = "OPEN" /\ c.cache.gold = 0 /\ ~c.cache.need /\ l.st = "OPEN" /\ l.gold = 0
  BY <1>1, <1>8, FlushCacheIs
<1> HIDE DEF c
<1>10. l \in Rows
  BY <1>9 DEF Reaches
<1>11. db' = Built(c, S)
  BY <1>2 DEF a, b, c
<1>12. PICK f : /\ Reaches(c, l, db', f) /\ db' \in Memories /\ SameDesk(c, db') /\ SameRow(l, f) /\ db'.set
                /\ f.items = l.items /\ f.inv = l.inv \ S
                /\ \A i \in Items : /\ db'.inv[i] = IF i \in S THEN "dead" ELSE c.inv[i]
                                    /\ db'.item[i] = IF i \in S THEN "dirty" ELSE c.item[i]
  BY <1>4, <1>9, <1>10, <1>11, BuiltIs
<1>13. Reaches(db, e, db', f)
  <2>1. Reaches(db, e, a, e)
    BY <1>1, <1>7, ReachesNow
  <2>. QED BY <1>8, <1>9, <1>12, <2>1, ReachesOn
<1>14. /\ db'.mem.st = "OPEN" /\ db'.mem.gold = 0 /\ db'.mem.items = S /\ db'.mem.held = {} /\ db'.hosted /\ db'.set
       /\ db'.cache.st = "OPEN" /\ db'.cache.gold = 0 /\ ~db'.cache.need
       /\ f.st = "OPEN" /\ f.gold = 0 /\ f.items = {} /\ f.inv = e.inv \ S
  BY <1>6, <1>7, <1>8, <1>9, <1>12 DEF SameDesk, SameRow, SameShelf
<1>15. \A i \in Items : /\ db'.inv[i] = IF i \in S THEN "dead" ELSE db.inv[i]
                        /\ db'.item[i] = IF i \in S THEN "dirty" ELSE "none"
  BY <1>5, <1>7, <1>8, <1>9, <1>12 DEF SameStock
<1>16. Stock(db', f) = S /\ Live(db') = S /\ Clean(db') = {}
  BY <1>4, <1>14, <1>15 DEF Stock, Live, Clean
<1>17. Kept(db', f)
  BY <1>14, <1>16 DEF Kept, KeptShop, KeptItems, KeptCache
<1>18. Paid(db', f, 0) /\ Placed(db', f) /\ Hosting(f)'
  BY <1>14 DEF Paid, Placed, Hosting
<1>19. \A i \in Items : whose'[i] = IF i \in S THEN "shop" ELSE whose[i]
  BY <1>2
<1>20. Types' /\ Stopped'
  <2>1. whose' \in [Items -> {"owner", "shop", "buyer"}]
    BY <1>2, <1>4
  <2>. QED BY <1>3, <1>12, <2>1 DEF Sound, Types, Stopped
<1>21. Connected(f)'
  BY <1>3, <1>4, <1>14 DEF Sound, Connected
<1>22. Whereabouts(f)'
  <2>1. SUFFICES ASSUME NEW i \in Items \ stray PROVE Lies(f, i)'
    BY <1>3 DEF Whereabouts
  <2>2. CASE i \in S
    BY <1>14, <1>15, <1>16, <1>19, <2>2 DEF Lies, Owned
  <2>3. CASE i \notin S
    <3>1. Lies(e, i) /\ whose[i] # "shop" /\ take'[i] = take[i]
      BY <1>3, <1>5, SoundItem
    <3>. QED BY <1>14, <1>15, <1>16, <1>19, <2>3, <3>1 DEF Lies, Owned
  <2>. QED BY <2>2, <2>3
<1>23. Sound(f)'
  BY <1>3, <1>17, <1>18, <1>20, <1>21, <1>22 DEF Sound, Ledger
<1>. QED BY <1>3, <1>13, <1>23, ReachedIs

\* A statement is executed: the rows in the end stay the same.
LEMMA ChildLoopStep ==
    ASSUME ~SlowSQL, NEW e, Ends(table, db.sql, e), Sound(e), ChildLoop PROVE StorageInv'
<1>1. e \in Rows /\ db \in Memories /\ db.sql \in Seq(Statements)
  BY SoundIs
<1>2. PICK n \in DOMAIN db.sql :
          /\ \A m \in 1 .. n - 1 : SlowSQL /\ db.sql[m].conn # db.sql[n].conn
          /\ table' = Apply(table, db.sql[n])
          /\ db' = [db EXCEPT !.sql = RemoveAt(@, n)]
          /\ UNCHANGED <<up, peers, owner, expired, whose, owed, take, stray, away>>
  BY DEF ChildLoop
<1>3. n = 1 /\ db.sql # <<>>
  <2>1. n \in Nat /\ n >= 1
    BY <1>1
  <2>2. n # 1 => 1 \in 1 .. n - 1
    BY <2>1
  <2>3. db.sql # <<>>
    BY <1>1
  <2>. QED BY <1>2, <2>2, <2>3
<1>4. RemoveAt(db.sql, 1) = Tail(db.sql) /\ db.sql[1] = Head(db.sql)
  <2>1. RemoveAt(db.sql, 1) = Tail(db.sql)
    BY <1>1, <1>3, FirstRemoved
  <2>2. db.sql[1] = Head(db.sql)
    BY <1>1, <1>3
  <2>. QED BY <2>1, <2>2
<1>5. Tail(db.sql) \in Seq(Statements) /\ Ends(Apply(table, Head(db.sql)), Tail(db.sql), e)
  BY <1>1, <1>3, EndsHead
<1>6. db' = [db EXCEPT !.sql = Tail(db.sql)] /\ table' = Apply(table, Head(db.sql))
  BY <1>2, <1>3, <1>4
<1>7. /\ db' \in Memories /\ db'.sql = Tail(db.sql) /\ SameDesk(db, db') /\ SameStock(db, db')
  BY <1>1, <1>5, <1>6 DEF Memories, SameDesk, SameStock
<1>8. Ends(table', db'.sql, e)
  BY <1>5, <1>6, <1>7
<1>9. Kept(db', e) /\ Stock(db', e) = Stock(db, e) /\ (\A o : Paid(db, e, o) => Paid(db', e, o)) /\ (Placed(db, e) => Placed(db', e))
  <2>1. Kept(db, e) /\ db.mem.held \subseteq db.mem.items /\ SameRow(e, e)
    BY SoundIs DEF KeptShop, SameRow
  <2>. QED BY <1>1, <1>7, <2>1, SameKeeps DEF SameDesk, SameStock
<1>10. Types'
  BY <1>2, <1>7 DEF Sound, Types
<1>11. Stopped'
  <2>1. up # "down"
    BY <1>3 DEF Sound, Stopped
  <2>. QED BY <1>2, <1>7, <2>1 DEF Sound, Stopped, SameDesk, SameStock
<1>12. Connected(e)'
  BY <1>2, <1>7 DEF Sound, Connected, SameDesk, SameStock
<1>13. Whereabouts(e)'
  BY <1>2, <1>7, <1>9 DEF Sound, Whereabouts, Lies, Owned, SameDesk, SameStock
<1>14. Ledger(e)'
  BY <1>2, <1>7, <1>9 DEF Sound, Ledger, Hosting, SameDesk
<1>. QED BY <1>8, <1>9, <1>10, <1>11, <1>12, <1>13, <1>14 DEF Sound, StorageInv

LEMMA QuitStep ==
    ASSUME NEW e, Ends(table, db.sql, e), Sound(e), Quit PROVE StorageInv'
<1>1. up = "quitting" /\ up' = "down" /\ db.sql = <<>> /\ UNCHANGED <<peers, owner, db, table, expired, whose, owed, take, stray, away>>
  BY DEF Quit
<1>2. Types' /\ Stopped' /\ Kept(db, e)' /\ Connected(e)'
  BY <1>1 DEF Sound, Types, Stopped, Connected
<1>3. Whereabouts(e)' /\ Ledger(e)'
  BY <1>1 DEF Sound, Whereabouts, Lies, Owned, Ledger, Hosting
<1>. QED BY <1>1, <1>2, <1>3 DEF Sound, StorageInv

LEMMA StartStep ==
    ASSUME NEW e, Ends(table, db.sql, e), Sound(e), Start PROVE StorageInv'
<1>1. up = "down" /\ up' = "up" /\ UNCHANGED <<peers, owner, db, table, expired, whose, owed, take, stray, away>>
  BY DEF Start
<1>2. peers = {}
  BY <1>1 DEF Sound, Stopped
<1>3. Types' /\ Stopped' /\ Kept(db, e)' /\ Connected(e)'
  BY <1>1 DEF Sound, Types, Stopped, Connected
<1>4. Whereabouts(e)' /\ Ledger(e)'
  BY <1>1, <1>2 DEF Sound, Whereabouts, Lies, Owned, Ledger, Hosting
<1>. QED BY <1>1, <1>3, <1>4 DEF Sound, StorageInv

LEMMA RemovePeerStep ==
    ASSUME NEW e, Ends(table, db.sql, e), Sound(e), NEW c \in Cores, RemovePeer(c) PROVE StorageInv'
<1>1. e \in Rows /\ db \in Memories /\ Kept(db, e)
  BY SoundIs
<1>2. /\ up = "up" /\ c \in peers /\ peers' = peers \ {c} /\ owner' = (IF owner = c THEN Off ELSE owner)
      /\ db' = (IF c = Host /\ db.hosted THEN Unhost(db) ELSE db)
      /\ UNCHANGED <<up, table, expired, whose, owed, away>>
      /\ IF c # Mart THEN take' = take /\ stray' = stray
         ELSE /\ stray' = stray \cup {i \in Items : take[i] = "paid"}
              /\ take' = [i \in Items |-> "no"]
  BY DEF RemovePeer
<1>3. /\ take \in [Items -> {"no", "held", "paid"}] /\ whose \in [Items -> {"owner", "shop", "buyer"}] /\ stray \subseteq Items
      /\ owed \in Nat /\ peers \subseteq Cores /\ owner \in peers \cup {Off} /\ up \in {"up", "quitting", "down"}
      /\ \A j \in Items : take[j] # "no" => Mart \in peers
  BY DEF Sound, Types, Connected
<1>4. /\ take' \in [Items -> {"no", "held", "paid"}] /\ stray' \subseteq Items /\ peers' \subseteq Cores /\ owner' \in peers' \cup {Off}
      /\ \A j \in Items : take'[j] # "no" => Mart \in peers'
      /\ \A j \in Items \ stray' : j \in Items \ stray /\ (take'[j] = "paid" <=> take[j] = "paid")
  <2>1. peers' \subseteq Cores /\ owner' \in peers' \cup {Off}
    BY <1>2, <1>3
  <2>2. CASE c # Mart
    <3>1. take' = take /\ stray' = stray
      BY <1>2, <2>2
    <3>2. Mart \in peers => Mart \in peers'
      BY <1>2, <2>2
    <3>. QED BY <1>3, <2>1, <3>1, <3>2
  <2>3. CASE c = Mart
    <3>1. take' = [i \in Items |-> "no"] /\ stray' = stray \cup {i \in Items : take[i] = "paid"}
      BY <1>2, <2>3
    <3>. QED BY <1>3, <2>1, <3>1
  <2>. QED BY <2>2, <2>3
<1>5. ASSUME NEW f, f.inv = e.inv, db'.inv = db.inv, Stock(db', f) = Stock(db, e), db'.mem.held = db.mem.held PROVE Whereabouts(f)'
  <2>1. SUFFICES ASSUME NEW j \in Items \ stray' PROVE Lies(f, j)'
    BY DEF Whereabouts
  <2>2. Lies(e, j) /\ (take'[j] = "paid" <=> take[j] = "paid") /\ whose'[j] = whose[j]
    BY <1>2, <1>4, SoundItem
  <2>. QED BY <1>5, <2>2 DEF Lies, Owned
<1>6. Stopped'
  BY <1>2 DEF Stopped
<1>7. CASE c = Host /\ db.hosted
  <2>1. db.mem.st # "none" /\ db' = Unhost(db)
    BY <1>1, <1>2, <1>7 DEF Kept, KeptShop
  <2>2. PICK f : /\ Reaches(db, e, db', f) /\ db' \in Memories /\ Kept(db', f) /\ Stays(db, e, db', f)
                 /\ db'.mem.st = "UNAVAILABLE" /\ SameGoods(db, db') /\ ~db'.hosted /\ db'.cache.st = "none" /\ ~db'.set /\ db'.inv = db.inv
    BY <1>1, <2>1, UnhostKeeps
  <2>3. Types'
    BY <1>2, <1>3, <1>4, <2>2 DEF Types
  <2>4. Host \notin peers'
    BY <1>2, <1>7
  <2>5. Connected(f)'
    BY <1>4, <2>2, <2>4 DEF Connected
  <2>6. Whereabouts(f)'
    BY <1>5, <2>2 DEF Stays, SameGoods
  <2>7. Ledger(f)'
    <3>1. Hosting(f)'
      BY <2>2, <2>4 DEF Hosting
    <3>. QED BY <1>2, <2>2, <3>1 DEF Sound, Ledger, Stays
  <2>8. Sound(f)'
    BY <1>6, <2>2, <2>3, <2>5, <2>6, <2>7 DEF Sound
  <2>. QED BY <1>2, <2>2, <2>8, ReachedIs
<1>8. CASE ~(c = Host /\ db.hosted)
  <2>1. db' = db
    BY <1>2, <1>8
  <2>2. Reaches(db, e, db', e)
    BY <1>1, <2>1, ReachesNow
  <2>3. Types' /\ Kept(db', e)
    BY <1>1, <1>2, <1>3, <1>4, <2>1 DEF Types
  <2>4. Connected(e)'
    BY <1>2, <1>4, <1>8, <2>1 DEF Sound, Connected
  <2>5. Whereabouts(e)'
    BY <1>5, <2>1
  <2>6. Ledger(e)'
    BY <1>2, <2>1 DEF Sound, Ledger, Hosting
  <2>7. Sound(e)'
    BY <1>6, <2>3, <2>4, <2>5, <2>6 DEF Sound
  <2>. QED BY <1>2, <2>2, <2>7, ReachedIs
<1>. QED BY <1>7, <1>8

\* The end of the main loop, once the cores are gone.
LEMMA ExitStep ==
    ASSUME ~AnyStop, NEW e, Ends(table, db.sql, e), Sound(e), MainLoopExit PROVE StorageInv'
<1> DEFINE k == Save(db, Unsaved)
<1>1. e \in Rows /\ db \in Memories /\ Kept(db, e)
  BY SoundIs
<1>2. /\ up = "up" /\ peers = {} /\ up' = "quitting" /\ peers' = {} /\ owner' = Off
      /\ db' = [EmptyDB EXCEPT !.sql = k.sql]
      /\ take' = [i \in Items |-> "no"] /\ stray' = stray \cup {i \in Items : take[i] = "paid"}
      /\ UNCHANGED <<table, expired, whose, owed, away>>
  BY DEF MainLoopExit
<1>3. /\ take \in [Items -> {"no", "held", "paid"}] /\ whose \in [Items -> {"owner", "shop", "buyer"}] /\ stray \subseteq Items
      /\ owed \in Nat
  BY DEF Sound, Types
<1>4. ~db.hosted /\ Dirty(db) = {}
  <2>1. Host \notin peers
    BY <1>2
  <2>2. db.hosted => Host \in peers
    BY DEF Sound, Connected
  <2>3. Dirty(db) # {} => db.hosted
    BY <1>1 DEF Kept, KeptItems
  <2>. QED BY <2>1, <2>2, <2>3
<1>5. Stock(db, e) = e.items
  <2>1. KeptItems(db, e)
    BY <1>1 DEF Kept
  <2>2. e.items \subseteq Stock(db, e) /\ Stock(db, e) \subseteq e.items \cup Dirty(db)
    BY <1>1, <2>1, StockIs
  <2>. QED BY <1>4, <2>2
<1>6. PICK f : /\ Reaches(db, e, k, f) /\ k \in Memories /\ SameRow(e, f)
               /\ f.items = e.items /\ f.inv = e.inv \cup Unsaved
  <2>1. Unsaved \in SUBSET Items
    BY DEF Unsaved
  <2>. QED BY <1>1, <2>1, SaveIs
<1> HIDE DEF k
<1>7. k.sql \in Seq(Statements)
  BY <1>6, MemoryIs
<1>8. /\ db' \in Memories /\ db'.sql = k.sql /\ db'.mem = NoShop /\ db'.hosted = FALSE /\ db'.cache = NoCache /\ db'.set = FALSE
      /\ db'.item = [i \in Items |-> "none"] /\ db'.inv = [i \in Items |-> "none"]
  <2>1. NoCache \in Caches /\ NoShop \in Shops /\ [i \in Items |-> "none"] \in [Items -> Marks]
    BY DEF NoCache, Caches, NoShop, Shops, States, Marks
  <2>. QED BY <1>2, <1>7, <2>1 DEF EmptyDB, Memories
<1>9. Reaches(db, e, db', f)
  BY <1>6, <1>8 DEF Reaches
<1>10. Stock(db', f) = Stock(db, e) /\ Dirty(db') = {}
  BY <1>5, <1>6, <1>8 DEF Stock, Dirty
<1>11. Kept(db', f)
  BY <1>1, <1>6, <1>8, <1>10 DEF Kept, KeptShop, KeptItems, KeptCache, NoShop, NoCache, SameRow
<1>12. Types' /\ Stopped' /\ Connected(f)'
  <2>1. Types'
    BY <1>2, <1>3, <1>8 DEF Types
  <2>2. Stopped'
    BY <1>2, <1>8 DEF Stopped, NoShop, NoCache
  <2>3. Connected(f)'
    BY <1>2, <1>8 DEF Connected, NoShop
  <2>. QED BY <2>1, <2>2, <2>3
<1>13. Whereabouts(f)'
  <2>1. SUFFICES ASSUME NEW j \in Items \ stray' PROVE Lies(f, j)'
    BY DEF Whereabouts
  <2>2. Lies(e, j) /\ take[j] # "paid" /\ take'[j] = "no" /\ whose'[j] = whose[j]
    BY <1>2, SoundItem
  <2>3. Owned(e, j) <=> j \in f.inv
    BY <1>6 DEF Owned, Unsaved
  <2>4. db'.inv[j] = "none"
    BY <1>8
  <2>. QED BY <1>10, <2>2, <2>3, <2>4 DEF Lies, Owned
<1>14. Ledger(f)'
  <2>1. SUFFICES ASSUME ~away PROVE Paid(db', f, owed) /\ Placed(db', f) /\ Hosting(f)'
    BY <1>2 DEF Ledger
  <2>2. Paid(db, e, owed) /\ Placed(db, e)
    BY <2>1 DEF Sound, Ledger
  <2>3. Paid(db', f, owed) /\ Placed(db', f)
    BY <1>4, <1>6, <1>8, <2>2 DEF Paid, Placed, NoShop, NoCache, SameRow
  <2>4. Hosting(f)'
    BY <1>2, <1>8 DEF Hosting, NoShop
  <2>. QED BY <2>3, <2>4
<1>15. Sound(f)'
  BY <1>11, <1>12, <1>13, <1>14 DEF Sound
<1>. QED BY <1>2, <1>9, <1>15, ReachedIs

-----------------------------------------------------------------------------
\* A core connects.

LEMMA EndsEmpty == ASSUME NEW t, NEW e, Ends(t, <<>>, e) PROVE e = t
<1>1. Len(<<>>) = 0
  OBVIOUS
<1>. QED BY <1>1 DEF Ends, Replay

Erased(d) == [d EXCEPT !.mem = NoShop, !.hosted = FALSE]

LEMMA ErasedIs ==
    ASSUME NEW d \in Memories, NEW e \in Rows, Kept(d, e), d.mem.st = "UNAVAILABLE"
    PROVE  LET g == Erased(d) IN
               /\ Reaches(d, e, g, e) /\ g \in Memories /\ Kept(g, e) /\ Stays(d, e, g, e) /\ SameStock(d, g)
               /\ g.mem = NoShop /\ ~g.hosted /\ g.cache = d.cache
<1> DEFINE g == Erased(d)
<1>1. NoShop \in Shops
  BY DEF NoShop, Shops, States
<1>2. g \in Memories /\ g.mem = NoShop /\ g.hosted = FALSE /\ g.cache = d.cache /\ SameStock(d, g) /\ g.sql = d.sql
  BY <1>1 DEF Erased, Memories, SameStock
<1> HIDE DEF g
<1>3. Stock(g, e) = Stock(d, e) /\ Live(g) = Live(d) /\ Clean(g) = Clean(d) /\ Dirty(g) = Dirty(d)
  BY <1>2, SameStockIs DEF SameShelf
<1>4. Kept(g, e)
  BY <1>2, <1>3 DEF Kept, KeptShop, KeptItems, KeptCache, SameStock, NoShop
<1>5. Stays(d, e, g, e)
  BY <1>2, <1>3 DEF Stays, Paid, Placed, NoShop
<1>. QED BY <1>2, <1>4, <1>5, ReachesNow DEF g

LEMMA FetchedIs ==
    ASSUME NEW d \in Memories, Kept(d, table), table \in Rows, d.mem.st = "none", table.st \notin {"none", "CLOSED", "UNAVAILABLE"}
    PROVE  LET g == FetchData(d) IN
               /\ Reaches(d, table, g, table) /\ g \in Memories /\ Kept(g, table) /\ Stays(d, table, g, table) /\ SameStock(d, g)
               /\ g.mem.st = table.st /\ g.mem.held = {} /\ g.hosted = d.hosted /\ g.cache = d.cache
<1> DEFINE g == FetchData(d)
           e == table
<1>1. FromRows \in Shops
  BY DEF FromRows, Shops, Rows
<1>2. g \in Memories /\ g.mem = FromRows /\ g.hosted = d.hosted /\ g.cache = d.cache /\ SameStock(d, g) /\ g.sql = d.sql
  BY <1>1 DEF FetchData, Memories, SameStock
<1> HIDE DEF g
<1>3. Stock(g, e) = Stock(d, e) /\ Live(g) = Live(d) /\ Clean(g) = Clean(d) /\ Dirty(g) = Dirty(d)
  BY <1>2, SameStockIs DEF SameShelf
<1>4. ~d.hosted /\ Dirty(d) = {}
  BY DEF Kept, KeptShop, KeptItems
<1>5. Stock(d, e) = e.items
  BY <1>4, StockIs DEF Kept
<1>6. Kept(g, e)
  BY <1>2, <1>3, <1>4, <1>5 DEF Kept, KeptShop, KeptItems, KeptCache, SameStock, FromRows
<1>7. Stays(d, e, g, e)
  BY <1>2, <1>3, <1>4 DEF Stays, Paid, Placed, FromRows
<1>8. g.mem.st = table.st /\ g.mem.held = {}
  BY <1>2 DEF FromRows
<1>. QED BY <1>2, <1>6, <1>7, <1>8, ReachesNow DEF g

\* The shop is on the map of the host that connects.
LEMMA HostedStep ==
    ASSUME NEW e, Ends(table, db.sql, e), Sound(e), NEW f, Reaches(db, e, db', f), Kept(db', f), Stays(db, e, db', f),
           db'.hosted, db'.mem.st # "none", db'.mem.held \subseteq db.mem.held, db'.inv = db.inv,
           db'.mem.st = "UNAVAILABLE" => db'.mem.items = {},
           up = "up", peers' = peers \cup {Host}, UNCHANGED <<up, owner, table, expired, whose, owed, take, stray, away>>
    PROVE  StorageInv'
<1>1. Types'
  BY DEF Sound, Types, Reaches, Cores
<1>2. Stopped' /\ Connected(f)'
  BY DEF Sound, Stopped, Connected
<1>3. Whereabouts(f)'
  <2>1. SUFFICES ASSUME NEW j \in Items \ stray PROVE Lies(f, j)'
    BY DEF Whereabouts
  <2>2. Lies(e, j)
    BY SoundItem
  <2>. QED BY <2>2 DEF Lies, Owned, Stays
<1>4. Ledger(f)'
  <2>1. Hosting(f)'
    BY DEF Hosting
  <2>. QED BY <2>1 DEF Sound, Ledger, Stays
<1>5. Sound(f)'
  BY <1>1, <1>2, <1>3, <1>4 DEF Sound
<1>. QED BY <1>5, ReachedIs

\* The shop stays off the map, and may have been erased.
LEMMA UnhostedStep ==
    ASSUME NEW e, Ends(table, db.sql, e), Sound(e), NEW c \in Cores, c \notin peers,
           Reaches(db, e, db', e), Kept(db', e), Stays(db, e, db', e),
           db'.hosted = db.hosted \/ ~db'.hosted,
           db'.mem.st = db.mem.st \/ db'.mem.st = "none", db'.mem.items \subseteq db.mem.items,
           db'.mem.held \subseteq db.mem.held, SameStock(db, db'), db'.cache = db.cache,
           db'.mem.st = "UNAVAILABLE" => c = Host /\ db.mem.items = {},
           db.mem.st # "none" /\ db'.mem.st = "none" => (c = Mart \/ owner = Off) /\ db.mem.st = "UNAVAILABLE",
           db'.mem.st = "none" \/ db' = db,
           c = Host /\ ~expired /\ ~db'.hosted /\ ~away => Stock(db', e) = {},
           up = "up", peers' = peers \cup {c}, UNCHANGED <<up, owner, table, expired, whose, owed, take, stray, away>>
    PROVE  StorageInv'
<1>1. Types'
  BY DEF Sound, Types, Reaches
<1>2. Stopped'
  BY DEF Sound, Stopped
<1>3. Connected(e)'
  <2>1. ASSUME owner # Off, db'.mem.st = "none", ~db'.set PROVE e.items = {}
    <3>1. ~db.set /\ Stock(db, e) = e.items
      BY <2>1 DEF SameStock, Stock
    <3>2. CASE db.mem.st = "none"
      BY <2>1, <3>1, <3>2 DEF Sound, Connected
    <3>3. CASE db.mem.st # "none"
      <4>1. c = Mart /\ db.mem.st = "UNAVAILABLE"
        BY <2>1, <3>3
      <4>2. Host \in peers
        BY <2>1, <4>1 DEF Sound, Types, Cores
      <4>3. db.mem.items = {}
        BY <3>1, <4>1, <4>2 DEF Sound, Connected
      <4>4. db.mem.items = Stock(db, e)
        BY <3>3 DEF Sound, Kept, KeptShop
      <4>. QED BY <3>1, <4>3, <4>4
    <3>. QED BY <3>2, <3>3
  <2>2. db'.hosted => Host \in peers
    BY DEF Sound, Connected
  <2>3. db'.mem.st = "UNAVAILABLE" => db'.mem.items = {}
    OBVIOUS
  <2>. QED BY <2>1, <2>2, <2>3 DEF Sound, Connected
<1>4. Whereabouts(e)'
  <2>1. SUFFICES ASSUME NEW j \in Items \ stray PROVE Lies(e, j)'
    BY DEF Whereabouts
  <2>2. Lies(e, j)
    BY SoundItem
  <2>. QED BY <2>2 DEF Lies, Owned, Stays, SameStock
<1>5. Ledger(e)'
  <2>1. SUFFICES ASSUME ~away PROVE Paid(db', e, owed) /\ Placed(db', e) /\ Hosting(e)'
    BY DEF Ledger
  <2>2. Paid(db, e, owed) /\ Placed(db, e) /\ Hosting(e)
    BY <2>1 DEF Sound, Ledger
  <2>3. Stock(db', e) = Stock(db, e)
    BY DEF Stays
  <2>4. Host \in peers' /\ ~expired /\ ~db'.hosted => Stock(db', e) = {}
    <3>1. SUFFICES ASSUME Host \in peers', ~expired, ~db'.hosted PROVE Stock(db', e) = {}
      OBVIOUS
    <3>2. CASE c = Host
      BY <2>1, <3>1, <3>2
    <3>3. CASE c # Host
      <4>1. Host \in peers
        BY <3>1, <3>3
      <4>2. CASE db' = db
        BY <2>2, <3>1, <4>1, <4>2 DEF Hosting
      <4>3. CASE db'.mem.st = "none" /\ db.mem.st # "none"
        BY <2>2, <2>3, <4>1, <4>3 DEF Hosting, Sound, Kept, KeptShop
      <4>4. CASE db.mem.st = "none"
        BY <2>2, <2>3, <3>1, <4>1, <4>4 DEF Hosting, Sound, Kept, KeptShop
      <4>. QED BY <4>2, <4>3, <4>4
    <3>. QED BY <3>2, <3>3
  <2>5. /\ db'.mem.st # "none" => db' = db
        /\ db'.mem.st = "UNAVAILABLE" => db'.mem.items = {}
    OBVIOUS
  <2>6. Hosting(e)'
    BY <2>2, <2>4, <2>5 DEF Hosting
  <2>. QED BY <2>2, <2>6 DEF Stays
<1>6. Sound(e)'
  BY <1>1, <1>2, <1>3, <1>4, <1>5 DEF Sound
<1>. QED BY <1>6, ReachedIs

\* The rows of a shop that is not in memory, or has no host.
LEMMA SelectedKeeps ==
    ASSUME NEW d \in Memories, table \in Rows, Kept(d, table), Selected(d)
    PROVE  \E f : LET g == StartPremiumEvent(Spawn(FetchData(d), {Host})) IN
               /\ Reaches(d, table, g, f) /\ g \in Memories /\ Kept(g, f) /\ Stays(d, table, g, f)
               /\ g.hosted /\ g.mem.st # "none" /\ g.mem.held \subseteq d.mem.held /\ g.inv = d.inv
               /\ g.mem.st = "UNAVAILABLE" => d.mem.st = "UNAVAILABLE" /\ g.mem.items = d.mem.items
<1> DEFINE k == FetchData(d)
           l == Spawn(k, {Host})
           g == StartPremiumEvent(l)
<1>1. ~expired /\ table.st \in {"OPEN", "MODIFY", "RECOVERY"} /\ d.mem.st \in {"none", "UNAVAILABLE"}
  BY DEF Selected
<1>2. /\ Reaches(d, table, k, table) /\ k \in Memories /\ Kept(k, table) /\ Stays(d, table, k, table) /\ SameStock(d, k)
      /\ k.mem.st # "none" /\ k.mem.held \subseteq d.mem.held
      /\ k.mem.st = "UNAVAILABLE" => d.mem.st = "UNAVAILABLE" /\ k.mem.items = d.mem.items
  <2>1. CASE d.mem.st = "none"
    <3>1. /\ Reaches(d, table, k, table) /\ k \in Memories /\ Kept(k, table) /\ Stays(d, table, k, table) /\ SameStock(d, k)
          /\ k.mem.st = table.st /\ k.mem.held = {}
      BY <1>1, <2>1, FetchedIs
    <3> HIDE DEF k
    <3>. QED BY <1>1, <3>1
  <2>2. CASE d.mem.st = "UNAVAILABLE"
    <3>1. k = d
      BY <2>2 DEF FetchData
    <3> HIDE DEF k
    <3>. QED BY <2>2, <3>1, ReachesNow DEF Stays, SameStock
  <2>. QED BY <1>1, <2>1, <2>2
<1> HIDE DEF k
<1>3. PICK f : /\ Reaches(k, table, l, f) /\ l \in Memories /\ Kept(l, f) /\ Stays(k, table, l, f)
               /\ l.mem.st = (IF expired /\ k.mem.st # "CLOSED" THEN "RECOVERY" ELSE k.mem.st)
               /\ SameGoods(k, l) /\ SameCaches(k, l) /\ l.hosted
  BY <1>2, SpawnKeeps
<1> HIDE DEF l
<1>4. Reaches(d, table, l, f) /\ Stays(d, table, l, f) /\ f \in Rows
  BY <1>2, <1>3, ReachesOn, StaysOn DEF Reaches
<1>5. /\ l.mem.st # "none" /\ l.mem.held \subseteq d.mem.held /\ l.inv = d.inv
      /\ l.mem.st = "UNAVAILABLE" => d.mem.st = "UNAVAILABLE" /\ l.mem.items = d.mem.items
  BY <1>1, <1>2, <1>3 DEF SameGoods, SameCaches, SameStock
<1>6. CASE l.mem.st = "CLOSED"
  <2>1. g = l
    BY <1>6 DEF StartPremiumEvent
  <2>. QED BY <1>3, <1>4, <1>5, <2>1 DEF l, k
<1>7. CASE l.mem.st # "CLOSED"
  <2>1. g = FlushCache(l)
    BY <1>5, <1>7 DEF StartPremiumEvent
  <2>2. PICK r : LET x == FlushCache(l) IN
               /\ Reaches(l, f, x, r) /\ x \in Memories /\ Kept(x, r) /\ Stays(l, f, x, r) /\ SameStock(l, x)
               /\ x.mem = l.mem /\ x.hosted = l.hosted /\ x.cache.st = l.cache.st
    BY <1>3, <1>4, FlushCacheKeeps
  <2>3. Reaches(d, table, FlushCache(l), r) /\ Stays(d, table, FlushCache(l), r)
    BY <1>4, <2>2, ReachesOn, StaysOn
  <2> HIDE DEF g
  <2>. QED BY <1>3, <1>5, <2>1, <2>2, <2>3 DEF g, l, k, SameStock
<1>. QED BY <1>6, <1>7

LEMMA QuerySetupStep ==
    ASSUME ~SlowSQL, NEW e, Ends(table, db.sql, e), Sound(e), NEW c \in Cores, QuerySetup(c) PROVE StorageInv'
<1> DEFINE k == Revive(db, c)
<1>1. e \in Rows /\ db \in Memories /\ Kept(db, e) /\ KeptShop(db, e)
  BY SoundIs
<1>2. /\ up = "up" /\ c \notin peers /\ db.sql = <<>> /\ peers' = peers \cup {c}
      /\ db' = (IF c = Host /\ Selected(k) THEN StartPremiumEvent(Spawn(FetchData(k), {Host})) ELSE k)
      /\ UNCHANGED <<up, owner, table, expired, whose, owed, take, stray, away>>
  BY DEF QuerySetup, PrivateShopPeerSpawn
<1>3. e = table
  BY <1>2, EndsEmpty
<1>4. c \in {Host, Mart} /\ Host # Mart /\ db.mem.st \in States
  BY <1>1, MemoryIs, StorageAssumption DEF Cores
<1>5. c = Host => ~db.hosted
  BY <1>2 DEF Sound, Connected
<1>6. CASE db.mem.st = "RECOVERY" /\ c = Host
  <2> DEFINE g == Spawn(db, {Host})
  <2>1. k = g
    BY <1>5, <1>6 DEF Revive
  <2>2. PICK f : /\ Reaches(db, e, g, f) /\ g \in Memories /\ Kept(g, f) /\ Stays(db, e, g, f)
                 /\ g.mem.st = (IF expired /\ db.mem.st # "CLOSED" THEN "RECOVERY" ELSE db.mem.st)
                 /\ SameGoods(db, g) /\ SameCaches(db, g) /\ g.hosted
    BY <1>1, <1>6, SpawnKeeps
  <2> HIDE DEF g, k
  <2>3. g.mem.st = "RECOVERY"
    BY <1>6, <2>2
  <2>4. db' = g
    BY <1>2, <2>1, <2>3 DEF Selected
  <2>. QED BY <1>2, <1>6, <2>2, <2>3, <2>4, HostedStep DEF SameGoods, SameCaches
<1>7. CASE db.mem.st = "UNAVAILABLE" /\ c = Host /\ owner # Off /\ db.mem.items # {}
  <2> DEFINE st == IF expired THEN "RECOVERY" ELSE "OPEN"
             l == ChangeState(db, st)
             g == Spawn(l, {Host})
  <2>1. k = g
    BY <1>7 DEF Revive
  <2>2. st \in {"OPEN", "MODIFY", "CLOSED", "RECOVERY"} /\ st # "CLOSED" /\ st # "none"
    OBVIOUS
  <2> HIDE DEF st
  <2>3. PICK p : /\ Reaches(db, e, l, p) /\ l \in Memories /\ Kept(l, p) /\ Stays(db, e, l, p) /\ SameStock(db, l)
                 /\ l.mem.st = st /\ l.mem.gold = db.mem.gold /\ l.mem.items = db.mem.items /\ l.mem.held = db.mem.held
                 /\ l.hosted = db.hosted /\ (l.cache.st = "none" <=> db.cache.st = "none")
    BY <1>1, <1>7, <2>2, ChangeStateKeeps
  <2> HIDE DEF l
  <2>4. p \in Rows /\ l.mem.st # "none"
    BY <2>2, <2>3 DEF Reaches
  <2>5. PICK f : /\ Reaches(l, p, g, f) /\ g \in Memories /\ Kept(g, f) /\ Stays(l, p, g, f)
                 /\ g.mem.st = (IF expired /\ l.mem.st # "CLOSED" THEN "RECOVERY" ELSE l.mem.st)
                 /\ SameGoods(l, g) /\ SameCaches(l, g) /\ g.hosted
    BY <2>3, <2>4, SpawnKeeps
  <2> HIDE DEF g, k
  <2>6. g.mem.st \in {"OPEN", "RECOVERY"}
    BY <2>3, <2>5 DEF st
  <2>7. db' = g
    BY <1>2, <2>1, <2>6 DEF Selected
  <2>8. Reaches(db, e, g, f) /\ Stays(db, e, g, f)
    BY <2>3, <2>5, ReachesOn, StaysOn
  <2>9. g.inv = db.inv /\ g.mem.held = db.mem.held
    BY <2>3, <2>5 DEF SameGoods, SameCaches, SameStock
  <2>. QED BY <1>2, <1>7, <2>5, <2>6, <2>7, <2>8, <2>9, HostedStep
<1>8. CASE ~(db.mem.st = "RECOVERY" /\ c = Host) /\ ~(db.mem.st = "UNAVAILABLE" /\ c = Host /\ owner # Off /\ db.mem.items # {})
  <2>1. /\ Reaches(db, e, k, e) /\ k \in Memories /\ Kept(k, e) /\ Stays(db, e, k, e) /\ SameStock(db, k) /\ k.cache = db.cache
        /\ \/ k = db /\ (k.mem.st = "UNAVAILABLE" => c = Host /\ db.mem.items = {})
           \/ /\ k.mem = NoShop /\ ~k.hosted /\ db.mem.st = "UNAVAILABLE" /\ (c = Mart \/ owner = Off)
    <3>1. CASE db.mem.st = "UNAVAILABLE" /\ (c # Host \/ owner = Off)
      <4>1. k = Erased(db)
        BY <3>1 DEF Revive, Erased
      <4>2. LET g == Erased(db) IN
               /\ Reaches(db, e, g, e) /\ g \in Memories /\ Kept(g, e) /\ Stays(db, e, g, e) /\ SameStock(db, g)
               /\ g.mem = NoShop /\ ~g.hosted /\ g.cache = db.cache
        BY <1>1, <3>1, ErasedIs
      <4> HIDE DEF k
      <4>. QED BY <1>4, <3>1, <4>1, <4>2
    <3>2. CASE ~(db.mem.st = "UNAVAILABLE" /\ (c # Host \/ owner = Off))
      <4>1. k = db
        BY <1>8, <3>2 DEF Revive
      <4> HIDE DEF k
      <4>2. k.mem.st = "UNAVAILABLE" => c = Host /\ db.mem.items = {}
        BY <1>8, <3>2, <4>1
      <4>. QED BY <1>1, <4>1, <4>2, ReachesNow DEF Stays, SameStock
    <3>. QED BY <3>1, <3>2
  <2> HIDE DEF k
  <2>2. NoShop.st = "none" /\ NoShop.items = {} /\ NoShop.held = {}
    BY DEF NoShop
  <2>3. KeptShop(k, e) /\ KeptItems(k, e) /\ KeptCache(k, e)
    BY <2>1 DEF Kept
  <2>4. CASE c = Host /\ Selected(k)
    <3> DEFINE g == StartPremiumEvent(Spawn(FetchData(k), {Host}))
    <3>1. table \in Rows /\ Kept(k, table)
      BY <1>1, <1>3, <2>1
    <3>2. PICK f : /\ Reaches(k, table, g, f) /\ g \in Memories /\ Kept(g, f) /\ Stays(k, table, g, f)
                   /\ g.hosted /\ g.mem.st # "none" /\ g.mem.held \subseteq k.mem.held /\ g.inv = k.inv
                   /\ g.mem.st = "UNAVAILABLE" => k.mem.st = "UNAVAILABLE" /\ g.mem.items = k.mem.items
      BY <2>1, <2>4, <3>1, SelectedKeeps
    <3> HIDE DEF g
    <3>3. db' = g
      BY <1>2, <2>4 DEF g
    <3>4. Reaches(db, e, g, f) /\ Stays(db, e, g, f)
      BY <1>3, <2>1, <3>2, ReachesOn, StaysOn
    <3>5. g.inv = db.inv /\ g.mem.held \subseteq db.mem.held
      BY <2>1, <2>2, <3>2 DEF SameStock
    <3>6. g.mem.st = "UNAVAILABLE" => g.mem.items = {}
      BY <2>1, <2>2, <3>2
    <3>. QED BY <1>2, <2>4, <3>2, <3>3, <3>4, <3>5, <3>6, HostedStep
  <2>5. CASE ~(c = Host /\ Selected(k))
    <3>1. db' = k
      BY <1>2, <2>5
    <3>2. ASSUME c = Host, ~expired, ~k.hosted, ~away PROVE Stock(k, e) = {}
      <4>1. CASE k.mem.st # "none"
        <5>1. k = db
          BY <2>1, <2>2, <4>1
        <5>2. k.mem.st \in {"CLOSED", "RECOVERY", "UNAVAILABLE"}
          BY <3>2, <4>1, <5>1 DEF Sound, Ledger, Hosting
        <5>3. k.mem.items = {}
          BY <1>8, <2>1, <2>3, <3>2, <5>1, <5>2, <2>2 DEF KeptShop
        <5>. QED BY <2>3, <4>1, <5>3 DEF KeptShop
      <4>2. CASE k.mem.st = "none"
        <5>1. table.st \notin {"OPEN", "MODIFY", "RECOVERY"}
          BY <2>5, <3>2, <4>2 DEF Selected
        <5>2. e.st \in States
          BY <1>1 DEF Rows
        <5>3. Placed(k, e)
          BY <2>1, <3>2 DEF Sound, Ledger, Stays
        <5>4. e.items = {}
          BY <1>3, <2>3, <5>1, <5>2, <5>3 DEF States, KeptCache, Placed
        <5>5. Dirty(k) = {}
          BY <2>3, <3>2 DEF KeptItems
        <5>6. Stock(k, e) \subseteq e.items \cup Dirty(k)
          BY <1>1, <2>1, <2>3, StockIs
        <5>. QED BY <5>4, <5>5, <5>6
      <4>. QED BY <4>1, <4>2
    <3>3. /\ k.hosted = db.hosted \/ ~k.hosted
          /\ k.mem.st = db.mem.st \/ k.mem.st = "none"
          /\ k.mem.items \subseteq db.mem.items /\ k.mem.held \subseteq db.mem.held
          /\ k.mem.st = "UNAVAILABLE" => c = Host /\ db.mem.items = {}
          /\ db.mem.st # "none" /\ k.mem.st = "none" => (c = Mart \/ owner = Off) /\ db.mem.st = "UNAVAILABLE"
          /\ k.mem.st = "none" \/ k = db
      BY <2>1, <2>2
    <3>4. c = Host /\ ~expired /\ ~db'.hosted /\ ~away => Stock(db', e) = {}
      BY <3>1, <3>2
    <3>. QED BY <1>2, <2>1, <3>1, <3>3, <3>4, UnhostedStep
  <2>. QED BY <2>4, <2>5
<1>. QED BY <1>6, <1>7, <1>8

-----------------------------------------------------------------------------
\* The owner logs on.

LEMMA ItemLoadIs ==
    ASSUME NEW d \in Memories, table \in Rows, Kept(d, table)
    PROVE  LET g == ItemLoad(d) IN
               /\ Reaches(d, table, g, table) /\ g \in Memories /\ Kept(g, table) /\ Stays(d, table, g, table) /\ SameDesk(d, g)
               /\ g.inv = d.inv /\ (g.mem.st = "none" => g.set) /\ (d.mem.st # "none" => g = d)
<1> DEFINE g == ItemLoad(d)
           e == table
<1>1. CASE d.mem.st # "none" \/ d.set
  <2>1. g = d
    BY <1>1 DEF ItemLoad
  <2> HIDE DEF g
  <2>. QED BY <1>1, <2>1, ReachesNow DEF g, Stays, SameDesk
<1>2. CASE d.mem.st = "none" /\ ~d.set
  <2>1. [i \in Items |-> IF i \in table.items THEN "clean" ELSE "none"] \in [Items -> Marks]
    BY DEF Marks
  <2>2. g = [d EXCEPT !.set = TRUE, !.item = [i \in Items |-> IF i \in table.items THEN "clean" ELSE "none"]]
    BY <1>2 DEF ItemLoad
  <2>3. /\ g \in Memories /\ SameDesk(d, g) /\ g.inv = d.inv /\ g.sql = d.sql /\ g.set = TRUE
        /\ g.item = [i \in Items |-> IF i \in table.items THEN "clean" ELSE "none"]
    BY <2>1, <2>2 DEF Memories, SameDesk
  <2> HIDE DEF g
  <2>4. e.items \subseteq Items
    BY DEF Rows
  <2>5. Live(g) = e.items /\ Clean(g) = e.items /\ Dirty(g) = {}
    BY <2>3, <2>4 DEF Live, Clean, Dirty
  <2>6. Stock(g, e) = e.items /\ Stock(d, e) = e.items
    BY <1>2, <2>3, <2>5 DEF Stock
  <2>7. Kept(g, e)
    BY <1>2, <2>3, <2>5, <2>6 DEF Kept, KeptShop, KeptItems, KeptCache, SameDesk
  <2>8. Stays(d, e, g, e)
    BY <2>3, <2>6 DEF Stays, Paid, Placed, SameDesk
  <2>. QED BY <1>2, <2>3, <2>7, <2>8, ReachesNow DEF g
<1>. QED BY <1>1, <1>2

\* The shop as the memory, the cache or the row has it.
LEMMA LoadedIs ==
    ASSUME NEW d \in Memories, table \in Rows, Kept(d, table), d.mem.st = "none" => d.set
    PROVE  LET t == Loaded(d) IN
               /\ t \in Shops /\ t.items = Stock(d, table) /\ t.held \subseteq t.items /\ t.held \subseteq d.mem.held
               /\ t.st # "none" => table.st # "none"
               /\ d.mem.st # "none" => t = d.mem
               /\ \A o : Paid(d, table, o) /\ t.st # "none" => t.gold = o
               /\ d.mem.st = "none" /\ Placed(d, table) /\ t.st \in {"CLOSED", "UNAVAILABLE"} => t.items = {}
<1> DEFINE t == Loaded(d)
           e == table
<1>1. KeptShop(d, e) /\ KeptItems(d, e) /\ KeptCache(d, e)
  BY DEF Kept
<1>2. CASE d.mem.st # "none"
  <2>1. t = d.mem
    BY <1>2 DEF Loaded
  <2> HIDE DEF t
  <2>. QED BY <1>1, <1>2, <2>1, MemoryIs DEF t, KeptShop, Paid
<1>3. CASE d.mem.st = "none"
  <2> DEFINE c == IF d.cache.st # "none" THEN d.cache ELSE table
  <2>1. t.st = c.st /\ t.gold = c.gold /\ t.held = {} /\ t.items = Live(d)
        /\ t = [st |-> c.st, gold |-> c.gold, held |-> {}, items |-> Live(d)]
    BY <1>3 DEF Loaded, Live
  <2>2. c.st \in States /\ c.gold \in Nat
    BY MemoryIs DEF Rows
  <2>3. Live(d) \subseteq Items /\ Stock(d, e) = Live(d)
    BY <1>3 DEF Live, Stock
  <2>4. t \in Shops
    BY <2>1, <2>2, <2>3 DEF Shops
  <2>5. t.st # "none" => table.st # "none"
    BY <1>1, <2>1 DEF KeptCache
  <2>6. ~d.hosted /\ Dirty(d) = {}
    BY <1>1, <1>3 DEF KeptShop, KeptItems
  <2>7. ASSUME NEW o, Paid(d, e, o) PROVE t.gold = o
    BY <2>1, <2>6, <2>7 DEF Paid
  <2>8. ASSUME Placed(d, e), t.st \in {"CLOSED", "UNAVAILABLE"} PROVE t.items = {}
    <3>1. CASE d.cache.st # "none"
      BY <2>1, <2>3, <2>8, <3>1 DEF Placed
    <3>2. CASE d.cache.st = "none"
      <4>1. e.items = {}
        BY <2>1, <2>8, <3>2 DEF Placed
      <4>2. Stock(d, e) \subseteq e.items \cup Dirty(d)
        BY <1>1, StockIs
      <4>. QED BY <2>1, <2>3, <2>6, <4>1, <4>2
    <3>. QED BY <3>1, <3>2
  <2> HIDE DEF t
  <2>9. t.held \subseteq t.items /\ t.held \subseteq d.mem.held /\ t.items = Stock(d, e)
    BY <2>1, <2>3
  <2>. QED BY <1>3, <2>4, <2>5, <2>7, <2>8, <2>9 DEF t
<1>. QED BY <1>2, <1>3

LEMMA PutShopIs ==
    ASSUME NEW d \in Memories, NEW e \in Rows, Kept(d, e), NEW m \in Shops, m.st # "none", m.items = Stock(d, e),
           m.st = "CLOSED" => m.items = {}, m.held \subseteq m.items, e.st # "none",
           Dirty(d) # {} => m.st = d.mem.st,
           m.st = "UNAVAILABLE" /\ d.hosted => d.mem.st = "UNAVAILABLE"
    PROVE  LET g == [PutCache(d, m.st, m.gold) EXCEPT !.mem = m] IN
               /\ Reaches(d, e, g, e) /\ g \in Memories /\ Kept(g, e) /\ Stock(g, e) = Stock(d, e)
               /\ g.mem = m /\ g.hosted = d.hosted /\ SameStock(d, g)
               /\ \A o : Paid(d, e, o) /\ m.gold = o => Paid(g, e, o)
               /\ Placed(d, e) /\ (m.st = "UNAVAILABLE" => m.items = {}) => Placed(g, e)
<1> DEFINE k == PutCache(d, m.st, m.gold)
           g == [k EXCEPT !.mem = m]
<1>1. m.st \in States /\ m.gold \in Nat
  BY DEF Shops
<1>2. /\ k \in Memories /\ SameStock(d, k) /\ k.hosted = d.hosted /\ k.sql = d.sql
      /\ k.cache.st = m.st /\ k.cache.gold = m.gold /\ k.cache.need
  BY <1>1, PutCacheIs
<1> HIDE DEF k
<1>3. g \in Memories /\ SameStock(k, g) /\ g.mem = m /\ g.hosted = k.hosted /\ g.sql = k.sql /\ g.cache = k.cache
  BY <1>2 DEF Memories, SameStock
<1> HIDE DEF g
<1>4. Reaches(d, e, g, e)
  BY <1>2, <1>3, ReachesNow
<1>5. SameStock(d, g)
  BY <1>2, <1>3 DEF SameStock
<1>6. Stock(g, e) = Stock(d, e) /\ Live(g) = Live(d) /\ Clean(g) = Clean(d) /\ Dirty(g) = Dirty(d)
  BY <1>5, SameStockIs DEF SameShelf
<1>7. KeptShop(g, e)
  BY <1>2, <1>3, <1>6 DEF KeptShop
<1>8. KeptItems(g, e)
  BY <1>2, <1>3, <1>5, <1>6 DEF Kept, KeptItems, SameStock
<1>9. KeptCache(g, e)
  BY <1>2, <1>3 DEF KeptCache
<1>10. ASSUME NEW o, Paid(d, e, o), m.gold = o PROVE Paid(g, e, o)
  BY <1>2, <1>3, <1>10 DEF Paid
<1>11. ASSUME Placed(d, e), m.st = "UNAVAILABLE" => m.items = {} PROVE Placed(g, e)
  BY <1>2, <1>3, <1>6, <1>11 DEF Placed
<1>. QED BY <1>2, <1>3, <1>4, <1>5, <1>6, <1>7, <1>8, <1>9, <1>10, <1>11 DEF g, k, Kept

LEMMA PrivateShopLoadKeeps ==
    ASSUME NEW d \in Memories, table \in Rows, Kept(d, table), d.mem.st = "none" => d.set
    PROVE  \E f : LET g == PrivateShopLoad(d) IN
               /\ Reaches(d, table, g, f) /\ g \in Memories /\ Kept(g, f) /\ Stock(g, f) = Stock(d, table) /\ f.inv = table.inv
               /\ \A o : Paid(d, table, o) => Paid(g, f, o)
               /\ Placed(d, table) /\ (g.mem.st = "UNAVAILABLE" => Stock(d, table) = {}) => Placed(g, f)
               /\ g.mem.held \subseteq d.mem.held /\ g.set = d.set /\ g.inv = d.inv
               /\ g.mem.st = "none" => g = d
               /\ d.hosted => g.hosted
               /\ g.hosted => d.hosted \/ Host \in peers
               /\ g.mem.st # "none" /\ Host \in peers /\ ~g.hosted => g.mem.st = "CLOSED"
               /\ g.mem.st = "UNAVAILABLE" => \/ d.mem.st = "UNAVAILABLE" /\ g.mem.items = d.mem.items
                                              \/ d.mem.st = "none" /\ (Placed(d, table) => g.mem.items = {})
<1> DEFINE e == table
           t == Loaded(d)
           recovery == t.items # {} /\ (t.st = "CLOSED" \/ expired)
           k == IF recovery /\ d.mem.st # "none" THEN ChangeState(d, "RECOVERY") ELSE d
           m == IF recovery THEN [t EXCEPT !.st = "RECOVERY"] ELSE t
           q == [PutCache(k, m.st, m.gold) EXCEPT !.mem = m]
           g == PrivateShopLoad(d)
<1>1. /\ t \in Shops /\ t.items = Stock(d, e) /\ t.held \subseteq t.items /\ t.held \subseteq d.mem.held
      /\ t.st # "none" => e.st # "none"
      /\ d.mem.st # "none" => t = d.mem
      /\ \A o : Paid(d, e, o) /\ t.st # "none" => t.gold = o
      /\ d.mem.st = "none" /\ Placed(d, e) /\ t.st \in {"CLOSED", "UNAVAILABLE"} => t.items = {}
  BY LoadedIs
<1>2. KeptShop(d, e) /\ KeptItems(d, e)
  BY DEF Kept
<1>3. g = IF t.st = "none" THEN d
          ELSE IF m.st # "CLOSED" /\ (d.mem.st \in {"none", "CLOSED"} \/ ~d.hosted) THEN Spawn(q, peers) ELSE q
  BY DEF PrivateShopLoad
<1> HIDE DEF t
<1>4. CASE t.st = "none"
  <2>1. g = d /\ d.mem.st = "none"
    BY <1>1, <1>3, <1>4
  <2> HIDE DEF g
  <2>2. Reaches(d, e, d, e)
    BY ReachesNow
  <2>. QED BY <2>1, <2>2 DEF g
<1>5. CASE t.st # "none"
  <2>1. /\ m \in Shops /\ m.items = t.items /\ m.gold = t.gold /\ m.held = t.held
        /\ m.st = IF recovery THEN "RECOVERY" ELSE t.st
    <3>1. "RECOVERY" \in States
      BY DEF States
    <3>. QED BY <1>1, <3>1 DEF Shops
  <2>2. t.st = "CLOSED" /\ t.items # {} => recovery
    OBVIOUS
  <2>3. \E l : /\ Reaches(d, e, k, l) /\ k \in Memories /\ Kept(k, l) /\ Stays(d, e, k, l) /\ SameStock(d, k)
               /\ l.st # "none" /\ k.hosted = d.hosted
               /\ d.mem.st # "none" => k.mem.st = m.st
               /\ d.mem.st = "none" => k.mem.st = "none"
    <3>1. CASE recovery /\ d.mem.st # "none"
      <4> DEFINE x == ChangeState(d, "RECOVERY")
      <4>1. k = x /\ m.st = "RECOVERY"
        BY <2>1, <3>1
      <4>2. PICK l : /\ Reaches(d, e, x, l) /\ x \in Memories /\ Kept(x, l) /\ Stays(d, e, x, l) /\ SameStock(d, x)
                     /\ x.mem.st = "RECOVERY" /\ x.hosted = d.hosted
        BY <3>1, ChangeStateKeeps
      <4> HIDE DEF x, k, m, recovery
      <4>3. l.st # "none"
        BY <4>2 DEF Kept, KeptShop
      <4>. QED BY <3>1, <4>1, <4>2, <4>3
    <3>2. CASE ~(recovery /\ d.mem.st # "none")
      <4>1. k = d /\ (d.mem.st # "none" => m.st = d.mem.st)
        BY <1>1, <2>1, <3>2
      <4> HIDE DEF k, m, recovery
      <4>. QED BY <1>1, <1>5, <4>1, ReachesNow DEF Stays, SameStock
    <3>. QED BY <3>1, <3>2
  <2>4. PICK l : /\ Reaches(d, e, k, l) /\ k \in Memories /\ Kept(k, l) /\ Stays(d, e, k, l) /\ SameStock(d, k)
                 /\ l.st # "none" /\ k.hosted = d.hosted
                 /\ d.mem.st # "none" => k.mem.st = m.st
                 /\ d.mem.st = "none" => k.mem.st = "none"
    BY <2>3
  <2>5. m.st # "none" /\ (m.st = "CLOSED" => m.items = {})
    BY <1>5, <2>1, <2>2
  <2>6. m.st = "UNAVAILABLE" => t.st = "UNAVAILABLE" /\ (expired => m.items = {})
    BY <2>1
  <2> HIDE DEF k, m, recovery
  <2>7. l \in Rows /\ m.items = Stock(k, l)
    BY <1>1, <2>1, <2>4 DEF Reaches, Stays
  <2>8. Dirty(k) # {} => m.st = k.mem.st
    BY <2>4 DEF Kept, KeptItems, KeptShop
  <2>9. m.st = "UNAVAILABLE" /\ k.hosted => k.mem.st = "UNAVAILABLE"
    BY <1>2, <2>4 DEF KeptShop
  <2>10. m.held \subseteq m.items
    BY <1>1, <2>1
  <2>11. /\ Reaches(k, l, q, l) /\ q \in Memories /\ Kept(q, l) /\ Stock(q, l) = Stock(k, l)
         /\ q.mem = m /\ q.hosted = k.hosted /\ SameStock(k, q)
         /\ \A o : Paid(k, l, o) /\ m.gold = o => Paid(q, l, o)
         /\ Placed(k, l) /\ (m.st = "UNAVAILABLE" => m.items = {}) => Placed(q, l)
    BY <2>1, <2>4, <2>5, <2>7, <2>8, <2>9, <2>10, PutShopIs
  <2> HIDE DEF q
  <2>12. /\ Reaches(d, e, q, l) /\ Stock(q, l) = Stock(d, e) /\ l.inv = e.inv
         /\ q.set = d.set /\ q.inv = d.inv /\ q.hosted = d.hosted
    BY <2>4, <2>11, ReachesOn DEF Stays, SameStock
  <2>13. ASSUME NEW o, Paid(d, e, o) PROVE Paid(q, l, o)
    BY <1>1, <1>5, <2>1, <2>4, <2>11, <2>13 DEF Stays
  <2>14. Placed(d, e) /\ (m.st = "UNAVAILABLE" => m.items = {}) => Placed(q, l)
    BY <2>4, <2>11 DEF Stays
  <2>15. m.st = "UNAVAILABLE" => \/ d.mem.st = "UNAVAILABLE" /\ m.items = d.mem.items
                                 \/ d.mem.st = "none" /\ (Placed(d, e) => m.items = {})
    BY <1>1, <2>1, <2>6
  <2>16. CASE Host \in peers /\ m.st # "CLOSED" /\ (d.mem.st \in {"none", "CLOSED"} \/ ~d.hosted)
    <3> DEFINE x == Spawn(q, peers)
    <3>1. g = x
      BY <1>3, <1>5, <2>16
    <3>2. q.mem.st # "none"
      BY <2>5, <2>11
    <3>3. PICK f : /\ Reaches(q, l, x, f) /\ x \in Memories /\ Kept(x, f) /\ Stays(q, l, x, f)
                   /\ x.mem.st = (IF expired /\ q.mem.st # "CLOSED" THEN "RECOVERY" ELSE q.mem.st)
                   /\ SameGoods(q, x) /\ SameCaches(q, x) /\ x.hosted
      BY <2>7, <2>11, <2>16, <3>2, SpawnKeeps
    <3> HIDE DEF x, g
    <3>4. Reaches(d, e, x, f) /\ Stock(x, f) = Stock(d, e) /\ f.inv = e.inv
      BY <2>12, <3>3, ReachesOn DEF Stays
    <3>5. \A o : Paid(d, e, o) => Paid(x, f, o)
      BY <2>13, <3>3 DEF Stays
    <3>6. x.mem.st # "none" /\ x.mem.items = m.items /\ (x.mem.st = "UNAVAILABLE" => m.st = "UNAVAILABLE")
          /\ (m.st = "UNAVAILABLE" => x.mem.st = "UNAVAILABLE" \/ m.items = {})
      BY <2>6, <2>11, <3>2, <3>3 DEF SameGoods
    <3>7. Placed(d, e) /\ (x.mem.st = "UNAVAILABLE" => Stock(d, e) = {}) => Placed(x, f)
      BY <1>1, <2>1, <2>14, <3>3, <3>6 DEF Stays
    <3>8. x.mem.held \subseteq d.mem.held /\ x.set = d.set /\ x.inv = d.inv
      BY <1>1, <2>1, <2>11, <2>12, <3>3 DEF SameGoods, SameCaches
    <3>. QED BY <2>15, <2>16, <3>1, <3>3, <3>4, <3>5, <3>6, <3>7, <3>8 DEF g
  <2>17. CASE ~(Host \in peers /\ m.st # "CLOSED" /\ (d.mem.st \in {"none", "CLOSED"} \/ ~d.hosted))
    <3>1. g = q
      BY <1>3, <1>5, <2>17 DEF Spawn
    <3> HIDE DEF g
    <3>2. q.mem.held \subseteq d.mem.held /\ q.mem.st # "none"
      BY <1>1, <2>1, <2>5, <2>11
    <3>3. Host \in peers /\ ~q.hosted => q.mem.st = "CLOSED"
      BY <2>11, <2>12, <2>17
    <3>4. Placed(d, e) /\ (q.mem.st = "UNAVAILABLE" => Stock(d, e) = {}) => Placed(q, l)
      BY <1>1, <2>1, <2>11, <2>14
    <3>. QED BY <2>11, <2>12, <2>13, <2>15, <3>1, <3>2, <3>3, <3>4 DEF g
  <2>. QED BY <2>16, <2>17
<1>. QED BY <1>4, <1>5

LEMMA LogonStep ==
    ASSUME ~SlowSQL, NEW e, Ends(table, db.sql, e), Sound(e), NEW c \in Cores, Logon(c) PROVE StorageInv'
<1> DEFINE d == ItemLoad(db)
           g == PrivateShopLoad(d)
           inv == [i \in Items |-> IF g.inv[i] = "none" /\ i \in table.inv THEN "clean" ELSE g.inv[i]]
<1>1. e \in Rows /\ table \in Rows /\ db \in Memories /\ Kept(db, e)
  BY SoundIs
<1>2. /\ up = "up" /\ owner = Off /\ c \in peers /\ owner' = c
      /\ db' = [g EXCEPT !.inv = inv]
      /\ away' = (away \/ (g.mem.st \notin {"none", "CLOSED"} /\ ~g.hosted))
      /\ UNCHANGED <<up, peers, table, expired, whose, owed, take, stray>>
  BY DEF Logon
<1>3. e = table
  <2>1. \A n \in DOMAIN db.sql : FALSE
    BY DEF Logon
  <2>2. db.sql \in Seq(Statements)
    BY SoundIs
  <2>3. db.sql = <<>>
    <3>1. db.sql # <<>> => 1 \in DOMAIN db.sql
      BY <2>2
    <3>. QED BY <2>1, <3>1
  <2>. QED BY <2>3, EndsEmpty
<1>4. /\ Reaches(db, e, d, e) /\ d \in Memories /\ Kept(d, e) /\ Stays(db, e, d, e) /\ SameDesk(db, d)
      /\ d.inv = db.inv /\ (d.mem.st = "none" => d.set) /\ (db.mem.st # "none" => d = db)
  BY <1>1, <1>3, ItemLoadIs
<1> HIDE DEF d
<1>5. PICK f : /\ Reaches(d, e, g, f) /\ g \in Memories /\ Kept(g, f) /\ Stock(g, f) = Stock(d, e) /\ f.inv = e.inv
               /\ \A o : Paid(d, e, o) => Paid(g, f, o)
               /\ Placed(d, e) /\ (g.mem.st = "UNAVAILABLE" => Stock(d, e) = {}) => Placed(g, f)
               /\ g.mem.held \subseteq d.mem.held /\ g.set = d.set /\ g.inv = d.inv
               /\ g.mem.st = "none" => g = d
               /\ d.hosted => g.hosted
               /\ g.hosted => d.hosted \/ Host \in peers
               /\ g.mem.st # "none" /\ Host \in peers /\ ~g.hosted => g.mem.st = "CLOSED"
               /\ g.mem.st = "UNAVAILABLE" => \/ d.mem.st = "UNAVAILABLE" /\ g.mem.items = d.mem.items
                                              \/ d.mem.st = "none" /\ (Placed(d, e) => g.mem.items = {})
  BY <1>1, <1>3, <1>4, PrivateShopLoadKeeps
<1> HIDE DEF g
<1>6. f \in Rows /\ Reaches(db, e, g, f) /\ Stock(g, f) = Stock(db, e) /\ g.inv = db.inv /\ g.mem.held \subseteq db.mem.held
  BY <1>4, <1>5, ReachesOn DEF Reaches, Stays, SameDesk
<1>7. inv \in [Items -> Marks] /\ \A i \in Items : inv[i] = "dirty" <=> g.inv[i] = "dirty"
  <2>1. g.inv \in [Items -> Marks]
    BY <1>5, MemoryIs
  <2>. QED BY <2>1 DEF Marks
<1> HIDE DEF inv
<1>8. /\ db' \in Memories /\ SameDesk(g, db') /\ db'.set = g.set /\ db'.item = g.item /\ db'.sql = g.sql /\ db'.inv = inv
  BY <1>2, <1>5, <1>7 DEF Memories, SameDesk
<1>9. Reaches(db, e, db', f)
  BY <1>6, <1>8 DEF Reaches
<1>10. /\ Kept(db', f) /\ Stock(db', f) = Stock(g, f)
       /\ \A o : Paid(g, f, o) => Paid(db', f, o)
       /\ Placed(g, f) => Placed(db', f)
  <2>1. g.mem.held \subseteq g.mem.items
    BY <1>5 DEF Kept, KeptShop
  <2>. QED BY <1>5, <1>6, <1>8, <2>1, SameKeeps DEF SameDesk, SameRow
<1>11. KeptShop(g, f) /\ KeptShop(d, e) /\ KeptShop(db, e)
  BY <1>1, <1>4, <1>5 DEF Kept
<1>12. Types'
  BY <1>2, <1>8 DEF Sound, Types
<1>13. Stopped'
  BY <1>2 DEF Stopped
<1>14. g.mem.st = "UNAVAILABLE" /\ Host \in peers /\ ~g.set => g.mem.items = {}
  <2>1. SUFFICES ASSUME g.mem.st = "UNAVAILABLE", Host \in peers, ~g.set PROVE g.mem.items = {}
    OBVIOUS
  <2>2. ~d.set /\ d.mem.st # "none"
    BY <1>4, <1>5, <2>1
  <2>3. d.mem.st = "UNAVAILABLE" /\ g.mem.items = d.mem.items
    BY <1>5, <2>1, <2>2
  <2>4. d = db
    BY <1>4, <2>2 DEF SameDesk
  <2>5. db.mem.items = {}
    BY <2>1, <2>2, <2>3, <2>4 DEF Sound, Connected
  <2>. QED BY <2>3, <2>4, <2>5
<1>15. Connected(f)'
  <2>1. g.hosted => Host \in peers
    BY <1>4, <1>5 DEF Sound, Connected, SameDesk
  <2>2. g.mem.st = "none" => g.set
    BY <1>4, <1>5
  <2>. QED BY <1>2, <1>8, <1>14, <2>1, <2>2 DEF Sound, Connected, SameDesk
<1>16. Whereabouts(f)'
  <2>1. SUFFICES ASSUME NEW j \in Items \ stray PROVE Lies(f, j)'
    BY <1>2 DEF Whereabouts
  <2>2. Lies(e, j)
    BY SoundItem
  <2>3. Owned(f, j)' <=> Owned(e, j)
    BY <1>5, <1>6, <1>7, <1>8 DEF Owned
  <2>4. j \in db'.mem.held => j \in db.mem.held
    BY <1>6, <1>8 DEF SameDesk
  <2>. QED BY <1>2, <1>6, <1>10, <2>2, <2>3, <2>4 DEF Lies
<1>17. Ledger(f)'
  <2>1. SUFFICES ASSUME ~away, g.mem.st \in {"none", "CLOSED"} \/ g.hosted PROVE Paid(db', f, owed) /\ Placed(db', f) /\ Hosting(f)'
    BY <1>2 DEF Ledger
  <2>2. Paid(db, e, owed) /\ Placed(db, e) /\ Hosting(e)
    BY <2>1 DEF Sound, Ledger
  <2>3. Paid(d, e, owed) /\ Placed(d, e)
    BY <1>4, <2>2 DEF Stays
  <2>4. g.hosted => Host \in peers
    BY <1>4, <1>5 DEF Sound, Connected, SameDesk
  <2>5. g.mem.st = "UNAVAILABLE" => g.mem.items = {}
    <3>1. SUFFICES ASSUME g.mem.st = "UNAVAILABLE" PROVE g.mem.items = {}
      OBVIOUS
    <3>2. Host \in peers
      BY <2>1, <2>4, <3>1
    <3>3. CASE d.mem.st = "UNAVAILABLE" /\ g.mem.items = d.mem.items
      <4>1. db.mem = d.mem
        BY <1>4 DEF SameDesk
      <4>. QED BY <2>2, <3>2, <3>3, <4>1 DEF Hosting
    <3>4. CASE d.mem.st = "none" /\ (Placed(d, e) => g.mem.items = {})
      BY <2>3, <3>4
    <3>. QED BY <1>5, <3>1, <3>3, <3>4
  <2>6. g.mem.st # "none" => g.mem.items = Stock(db, e)
    BY <1>6, <1>11 DEF KeptShop
  <2>7. Paid(g, f, owed) /\ Placed(g, f)
    <3>1. g.mem.st = "UNAVAILABLE" => Stock(d, e) = {}
      BY <1>5, <1>6, <2>5, <2>6
    <3>. QED BY <1>5, <2>3, <3>1
  <2>8. Paid(db', f, owed) /\ Placed(db', f)
    BY <1>10, <2>7
  <2>9. g.mem.st # "none" /\ ~g.hosted => g.mem.st = "CLOSED" /\ g.mem.items = {}
    BY <1>11, <2>1 DEF KeptShop
  <2>10. Host \in peers /\ ~expired /\ ~g.hosted => Stock(db, e) = {}
    <3>1. SUFFICES ASSUME Host \in peers, ~expired, ~g.hosted PROVE Stock(db, e) = {}
      OBVIOUS
    <3>2. ~db.hosted
      BY <1>4, <1>5, <3>1 DEF SameDesk
    <3>. QED BY <1>2, <2>2, <3>1, <3>2 DEF Hosting
  <2>11. /\ db'.mem = g.mem /\ db'.hosted = g.hosted /\ db'.cache = g.cache /\ Stock(db', f) = Stock(db, e)
         /\ peers' = peers /\ expired' = expired
    BY <1>2, <1>6, <1>8, <1>10 DEF SameDesk
  <2>12. Hosting(f)'
    BY <2>5, <2>9, <2>10, <2>11 DEF Hosting
  <2>. QED BY <1>2, <2>8, <2>12
<1>18. Sound(f)'
  BY <1>10, <1>12, <1>13, <1>15, <1>16, <1>17 DEF Sound
<1>. QED BY <1>2, <1>9, <1>18, ReachedIs

-----------------------------------------------------------------------------
\* The invariant holds at first and is preserved.

LEMMA InitStep == Init => StorageInv
<1> SUFFICES ASSUME Init PROVE StorageInv
  OBVIOUS
<1>1. /\ up = "up" /\ peers = Cores /\ owner = Host /\ expired = FALSE /\ away = FALSE /\ owed = 0
      /\ db = [EmptyDB EXCEPT !.inv = [i \in Items |-> "clean"]]
      /\ table.st = "none" /\ table.gold = 0 /\ table.items = {} /\ table.inv = Items
      /\ table = [st |-> "none", gold |-> 0, items |-> {}, inv |-> Items]
      /\ whose = [i \in Items |-> "owner"] /\ take = [i \in Items |-> "no"] /\ stray = {}
  BY DEF Init
<1>2. NoShop \in Shops /\ NoCache \in Caches
  BY DEF NoShop, NoCache, Shops, Caches, States
<1>3. /\ [i \in Items |-> "clean"] \in [Items -> Marks] /\ [i \in Items |-> "none"] \in [Items -> Marks]
      /\ <<>> \in Seq(Statements)
  BY DEF Marks
<1>4. /\ db \in Memories /\ db.mem = NoShop /\ db.hosted = FALSE /\ db.cache = NoCache /\ db.set = FALSE /\ db.sql = <<>>
      /\ db.item = [i \in Items |-> "none"] /\ db.inv = [i \in Items |-> "clean"]
  BY <1>1, <1>2, <1>3 DEF EmptyDB, Memories
<1>5. table \in Rows
  BY <1>1 DEF Rows, States
<1>6. Ends(table, db.sql, table)
  BY <1>4, <1>5, EndsNow
<1>7. Nowhere(db, table)
  BY <1>1, <1>4 DEF Nowhere
<1>8. Kept(db, table) /\ Placed(db, table) /\ Paid(db, table, 0) /\ Stock(db, table) = {}
  BY <1>7, NowhereKept
<1>9. Types /\ Stopped
  BY <1>1, <1>4 DEF Types, Stopped, Cores
<1>10. Connected(table)
  BY <1>1, <1>4 DEF Connected, NoShop
<1>11. Whereabouts(table)
  BY <1>1, <1>4, <1>8 DEF Whereabouts, Lies, Owned
<1>12. Ledger(table)
  <2>1. db.mem.st = "none"
    BY <1>4 DEF NoShop
  <2>2. Hosting(table)
    BY <1>8, <2>1 DEF Hosting
  <2>3. owed = 0
    BY <1>1
  <2>. QED BY <1>8, <2>2, <2>3 DEF Ledger
<1>. QED BY <1>6, <1>8, <1>9, <1>10, <1>11, <1>12 DEF Sound, StorageInv

LEMMA NextStep == ASSUME ~SlowSQL, ~AnyStop, StorageInv, [Next]_vars PROVE StorageInv'
<1>1. PICK e : Ends(table, db.sql, e) /\ Sound(e)
  BY DEF StorageInv
<1>2. CASE UNCHANGED vars
  <2>1. Sound(e)' <=> Sound(e)
    BY <1>2 DEF vars, Sound, Types, Stopped, Connected, Whereabouts, Lies, Owned, Ledger, Hosting
  <2>. QED BY <1>1, <1>2, <2>1 DEF vars, StorageInv
<1>3. CASE PrivateShopBuild \/ PrivateShopModifyRequest \/ PrivateShopWithdraw
  BY <1>1, <1>3, BuildStep, ModifyStep, WithdrawStep
<1>4. ASSUME NEW i \in Items,
             \/ PrivateShopBuyRequest(i) \/ QueryItemSave(i) \/ PrivateShopBuy(i) \/ PrivateShopFailedBuy(i)
             \/ PrivateShopItemCheckoutUpdate(i) \/ ReleaseHold(i) \/ UpdatePrivateShopItemCache(i) \/ UpdateItemCache(i)
      PROVE  StorageInv'
  BY <1>1, <1>4, BuyRequestStep, ItemSaveStep, BuyStep, FailedBuyStep, CheckoutStep, ReleaseStep, WriteStep, SaveStep
<1>5. CASE Deadline \/ UpdatePrivateShopPremiumEvent \/ ChildLoop \/ Logout
  BY <1>1, <1>5, DeadlineStep, PremiumStep, ChildLoopStep, LogoutStep
<1>6. CASE UpdatePrivateShopCache
  BY <1>1, <1>6, FlushStep DEF UpdatePrivateShopCache
<1>7. ASSUME NEW c \in Cores, Logon(c) \/ RemovePeer(c) \/ QuerySetup(c) PROVE StorageInv'
  BY <1>1, <1>7, LogonStep, RemovePeerStep, QuerySetupStep
<1>8. CASE MainLoopExit \/ Quit \/ Start
  BY <1>1, <1>8, ExitStep, QuitStep, StartStep
<1>. QED BY <1>2, <1>3, <1>4, <1>5, <1>6, <1>7, <1>8 DEF Next

LEMMA StorageInvHolds == ASSUME ~SlowSQL, ~AnyStop PROVE Spec => []StorageInv
<1>1. Init => StorageInv
  BY InitStep
<1>2. StorageInv /\ [Next]_vars => StorageInv'
  BY NextStep
<1>. QED BY <1>1, <1>2, PTL DEF Spec

-----------------------------------------------------------------------------
\* Statements are executed in order and the DB process is stopped after its cores.

\* Types hold, and what is reserved is in the shop.
THEOREM TypesHold == ASSUME ~SlowSQL, ~AnyStop PROVE Spec => []StorageTypeOK
<1>1. StorageInv => StorageTypeOK
  <2>1. SUFFICES ASSUME NEW e, Ends(table, db.sql, e), Sound(e) PROVE StorageTypeOK
    BY DEF StorageInv
  <2>2. table \in Rows /\ db \in Memories /\ KeptShop(db, e) /\ Types
    BY <2>1, SoundIs DEF Sound
  <2>3. /\ db.mem.st \in States /\ db.mem.gold \in Nat /\ db.mem.items \subseteq Items
        /\ db.item \in [Items -> Marks] /\ db.inv \in [Items -> Marks]
    BY <2>2, MemoryIs
  <2>4. table.items \subseteq Items /\ table.inv \subseteq Items /\ table.gold \in Nat
    BY <2>2 DEF Rows
  <2>5. db.mem.held \subseteq db.mem.items /\ owner \in Cores \cup {Off}
    BY <2>2 DEF KeptShop, Types
  <2>. QED BY <2>2, <2>3, <2>4, <2>5 DEF StorageTypeOK, Types, States, Marks
<1>. QED BY <1>1, StorageInvHolds, PTL

\* An item that has a row in an inventory and one in the shop is being bought, or
\* a statement under way deletes one of the rows.
THEOREM TwoRowsOnlyForAWhile == ASSUME ~SlowSQL, ~AnyStop PROVE Spec => []TakenOnce
<1>1. StorageInv => TakenOnce
  <2>1. SUFFICES ASSUME NEW e, Ends(table, db.sql, e), Sound(e), NEW i \in table.items \cap table.inv,
                        i \notin stray, take[i] # "paid", ~Deletes(db.sql, i)
                 PROVE  FALSE
    BY DEF StorageInv, TakenOnce, Deletes
  <2>2. db \in Memories /\ e \in Rows /\ table \in Rows /\ db.sql \in Seq(Statements) /\ KeptItems(db, e)
    BY <2>1, SoundIs
  <2>3. i \in e.items /\ i \in e.inv
    BY <2>1, <2>2, KeptToTheEnd
  <2>4. e.items \subseteq Stock(db, e)
    BY <2>2, StockIs
  <2>5. i \in Stock(db, e) /\ Owned(e, i)
    BY <2>3, <2>4 DEF Owned
  <2>6. i \in Items \ stray
    BY <2>1, <2>2 DEF Rows
  <2>. QED BY <2>1, <2>5, <2>6, SoundItem DEF Lies
<1>. QED BY <1>1, StorageInvHolds, PTL

\* After a stop of the DB process the rows hold every item once, where it belongs,
\* and all the gold the owner has not withdrawn.
THEOREM StopLosesNothing == ASSUME ~SlowSQL, ~AnyStop PROVE Spec => []StopKeepsAll
<1>1. StorageInv => StopKeepsAll
  <2>1. SUFFICES ASSUME NEW e, Ends(table, db.sql, e), Sound(e), up = "down" PROVE
                    /\ \A i \in Items \ stray : IF whose[i] = "shop" THEN i \in table.items \ table.inv
                                                                     ELSE i \in table.inv \ table.items
                    /\ table.gold = owed \/ away
                    /\ table.items # {} => table.st # "none"
    BY DEF StorageInv, StopKeepsAll
  <2>2. db.sql = <<>> /\ db.mem.st = "none" /\ db.cache.st = "none" /\ ~db.set /\ peers = {}
        /\ \A i \in Items : db.inv[i] = "none"
    BY <2>1 DEF Sound, Stopped
  <2>3. e = table
    BY <2>1, <2>2, EndsEmpty
  <2>4. Stock(db, e) = e.items
    BY <2>2 DEF Stock
  <2>5. KeptCache(db, e) /\ KeptShop(db, e)
    BY <2>1, SoundIs
  <2>6. ASSUME NEW i \in Items \ stray
        PROVE  IF whose[i] = "shop" THEN i \in table.items \ table.inv ELSE i \in table.inv \ table.items
    <3>1. Lies(e, i)
      BY <2>1, SoundItem
    <3>2. take[i] # "paid"
      <4>1. take[i] # "no" => Mart \in peers
        BY <2>1 DEF Sound, Connected
      <4>. QED BY <2>2, <4>1
    <3>3. db.inv[i] # "dirty"
      BY <2>2
    <3>. QED BY <2>3, <2>4, <3>1, <3>2, <3>3 DEF Lies, Owned
  <2>7. table.gold = owed \/ away
    <3>1. ~away => Paid(db, e, owed)
      BY <2>1 DEF Sound, Ledger
    <3>2. ~db.hosted
      BY <2>2, <2>5 DEF KeptShop
    <3>. QED BY <2>3, <3>1, <3>2 DEF Paid
  <2>8. table.items # {} => table.st # "none"
    BY <2>3, <2>5 DEF KeptCache
  <2>. QED BY <2>6, <2>7, <2>8
<1>. QED BY <1>1, StorageInvHolds, PTL

\* A shop with stock and time left is on the map whenever its host is connected.
THEOREM HostedAgain == ASSUME ~SlowSQL, ~AnyStop PROVE Spec => []NoneLeftBehind
<1>1. StorageInv => NoneLeftBehind
  <2>1. SUFFICES ASSUME NEW e, Ends(table, db.sql, e), Sound(e),
                        up = "up", Host \in peers, ~expired, In("shop") # {}, stray = {}, ~db.hosted, ~away
                 PROVE  FALSE
    BY DEF StorageInv, NoneLeftBehind
  <2>2. PICK i \in Items : whose[i] = "shop"
    BY <2>1 DEF In
  <2>3. Lies(e, i)
    BY <2>1, <2>2, SoundItem
  <2>4. i \in Stock(db, e)
    BY <2>2, <2>3 DEF Lies
  <2>5. Stock(db, e) = {}
    BY <2>1 DEF Sound, Ledger, Hosting
  <2>. QED BY <2>4, <2>5
<1>. QED BY <1>1, StorageInvHolds, PTL

\* The instance has the stock the items' owners agree on and the gold of all sales.
THEOREM NothingStale == ASSUME ~SlowSQL, ~AnyStop PROVE Spec => []MemoryIsCurrent
<1>1. StorageInv => MemoryIsCurrent
  <2>1. SUFFICES ASSUME NEW e, Ends(table, db.sql, e), Sound(e), Exists
                 PROVE  /\ \A i \in Items \ stray : take[i] # "paid" => (i \in db.mem.items <=> whose[i] = "shop")
                        /\ db.mem.gold = owed \/ away
    BY DEF StorageInv, MemoryIsCurrent
  <2>2. db.mem.items = Stock(db, e)
    BY <2>1, SoundIs DEF Exists, KeptShop
  <2>3. ASSUME NEW i \in Items \ stray, take[i] # "paid" PROVE i \in db.mem.items <=> whose[i] = "shop"
    <3>1. Lies(e, i)
      BY <2>1, SoundItem
    <3>. QED BY <2>2, <2>3, <3>1 DEF Lies
  <2>4. db.mem.gold = owed \/ away
    BY <2>1 DEF Sound, Ledger, Paid, Exists
  <2>. QED BY <2>3, <2>4
<1>. QED BY <1>1, StorageInvHolds, PTL

=============================================================================
