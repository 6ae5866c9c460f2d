------------------------------ MODULE DataLemmas ------------------------------
(***************************************************************************)
(* What the proofs need of the data.  Finite sets: induction, from the     *)
(* well-foundedness of the natural numbers, and what it says about folds:  *)
(* a fold is what its equation says, the sum of a function changes as its  *)
(* values do, and what each step of a fold keeps the whole fold keeps.     *)
(* Queues: what is in one, and what is before what, after each operation.  *)
(***************************************************************************)
EXTENDS Integers, SequencesExt, FiniteSetTheorems, SequenceTheorems, WellFoundedInduction, TLAPS

LEMMA Induction == ASSUME NEW N, 0 \in N, \A n \in Nat : n \in N => n + 1 \in N
                   PROVE  Nat \subseteq N
<1> DEFINE I == Nat \ N
<1>1. SUFFICES ASSUME I # {} PROVE FALSE
  OBVIOUS
<1>2. PICK x \in I : \A y \in I : ~(<<y, x>> \in OpToRel(<, Nat))
  BY <1>1, NatLessThanWellFounded, WFMin
<1>3. x \in Nat /\ x # 0 /\ x \notin N
  OBVIOUS
<1>4. x - 1 \in Nat /\ x - 1 < x /\ x = (x - 1) + 1
  BY <1>3
<1>5. x - 1 \in I
  BY <1>3, <1>4
<1>6. <<x - 1, x>> \in {ss \in Nat \X Nat : ss[1] < ss[2]}
  <2>1. <<x - 1, x>> \in Nat \X Nat /\ <<x - 1, x>>[1] = x - 1 /\ <<x - 1, x>>[2] = x
    BY <1>3, <1>4
  <2>. QED BY <2>1, <1>4
<1>7. OpToRel(<, Nat) = {ss \in Nat \X Nat : ss[1] < ss[2]}
  BY Zenon DEF OpToRel
<1>. QED BY <1>2, <1>5, <1>6, <1>7, Zenon

\* What holds of {} and of each set if it holds of the set less one of its elements
\* holds of every finite set.
Inductive(S, G) ==
    /\ IsFiniteSet(S) /\ {} \in G
    /\ \A T \in SUBSET S : T # {} => \E x \in T : T \ {x} \in G => T \in G

LEMMA SubsetInduction ==
    ASSUME NEW S, NEW G, Inductive(S, G)
    PROVE  SUBSET S \subseteq G
<1> USE DEF Inductive
<1> DEFINE N == {n \in Nat : \A T \in SUBSET S : Cardinality(T) = n => T \in G}
<1>1. \A T \in SUBSET S : IsFiniteSet(T) /\ Cardinality(T) \in Nat
  BY FS_Subset, FS_CardinalityType
<1>2. 0 \in N
  BY <1>1, FS_EmptySet
<1>3. ASSUME NEW n \in Nat, n \in N PROVE n + 1 \in N
  <2> SUFFICES ASSUME NEW T \in SUBSET S, Cardinality(T) = n + 1 PROVE T \in G
    OBVIOUS
  <2>1. T # {}
    <3>1. Cardinality({}) = 0
      BY FS_EmptySet
    <3>2. n + 1 # 0
      OBVIOUS
    <3>. QED BY <3>1, <3>2, Zenon
  <2>2. PICK x \in T : T \ {x} \in G => T \in G
    BY <2>1
  <2>3. T \ {x} \in SUBSET S /\ Cardinality(T \ {x}) = n
    <3>1. Cardinality(T \ {x}) = Cardinality(T) - 1
      BY <1>1, FS_RemoveElement
    <3>2. Cardinality(T \ {x}) = n
      BY <3>1
    <3>. QED BY <3>2, Zenon
  <2>. QED BY <1>3, <2>2, <2>3
<1> HIDE DEF N
<1>4. Nat \subseteq N
  BY <1>2, <1>3, Induction
<1>. QED BY <1>1, <1>4 DEF N

\* A fold over the subsets of S: base for the empty set, otherwise op of the element
\* that ch chooses and of the fold of the others.
IsFold(g, S, base, ch, op) ==
    \A T \in SUBSET S : g[T] = IF T = {} THEN base ELSE op[<<ch[T], g[T \ {ch[T]}]>>]

Foldable(S, V, base, ch, op) ==
    /\ IsFiniteSet(S) /\ base \in V
    /\ \A T \in SUBSET S : T # {} => ch[T] \in T
    /\ \A x \in S, v \in V : op[<<x, v>>] \in V

LEMMA FoldExists ==
    ASSUME NEW S, NEW V, NEW base, NEW ch, NEW op, Foldable(S, V, base, ch, op)
    PROVE  \E g \in [SUBSET S -> V] : IsFold(g, S, base, ch, op)
<1> DEFINE Step(g, T) == IF T = {} THEN base ELSE op[<<ch[T], g[T \ {ch[T]}]>>]
           Upto(g, n) == \A T \in SUBSET S : Cardinality(T) <= n => g[T] = Step(g, T)
           N == {n \in Nat : \E g \in [SUBSET S -> V] : Upto(g, n)}
<1> USE DEF Foldable
<1>1. \A T \in SUBSET S : IsFiniteSet(T) /\ Cardinality(T) \in Nat /\ Cardinality(T) <= Cardinality(S)
  BY FS_Subset, FS_CardinalityType
<1>2. \A T \in SUBSET S : T # {} => /\ ch[T] \in S /\ T \ {ch[T]} \in SUBSET S
                                   /\ Cardinality(T \ {ch[T]}) = Cardinality(T) - 1
  BY <1>1, FS_RemoveElement
<1>3. \A g \in [SUBSET S -> V] : \A T \in SUBSET S : Step(g, T) \in V
  BY <1>2
<1>4. 0 \in N
  <2>1. \A T \in SUBSET S : Cardinality(T) <= 0 => T = {}
    BY <1>1, FS_EmptySet
  <2>2. Upto([T \in SUBSET S |-> base], 0)
    BY <2>1
  <2>. QED BY <2>2
<1>5. ASSUME NEW n \in Nat, n \in N PROVE n + 1 \in N
  <2>1. PICK g \in [SUBSET S -> V] : Upto(g, n)
    BY <1>5
  <2> DEFINE h == [T \in SUBSET S |-> Step(g, T)]
  <2>2. h \in [SUBSET S -> V]
    BY <1>3
  <2>3. \A T \in SUBSET S : Cardinality(T) <= n => h[T] = g[T]
    BY <2>1
  <2>4. ASSUME NEW T \in SUBSET S, Cardinality(T) <= n + 1, T # {}
        PROVE  h[T \ {ch[T]}] = g[T \ {ch[T]}]
    <3>1. T \ {ch[T]} \in SUBSET S /\ Cardinality(T \ {ch[T]}) = Cardinality(T) - 1
      BY <1>2, <2>4
    <3>2. Cardinality(T) \in Nat
      BY <1>1
    <3>3. Cardinality(T \ {ch[T]}) <= n
      BY <2>4, <3>1, <3>2
    <3> HIDE DEF h
    <3>. QED BY <2>3, <3>1, <3>3
  <2>5. Upto(h, n + 1)
    BY <2>4
  <2> HIDE DEF h, Upto
  <2>. QED BY <2>2, <2>5
<1>6. Cardinality(S) \in N
  <2> HIDE DEF N
  <2>. QED BY <1>1, <1>4, <1>5, Induction
<1>7. PICK g \in [SUBSET S -> V] : Upto(g, Cardinality(S))
  BY <1>6
<1>8. \A T \in SUBSET S : g[T] = Step(g, T)
  BY <1>1, <1>7
<1>. QED BY <1>8 DEF IsFold

-----------------------------------------------------------------------------
\* Sums.

Chosen(T) == CHOOSE x \in T : TRUE
IsSum(g, S, f) == \A T \in SUBSET S : g[T] = IF T = {} THEN 0 ELSE f[Chosen(T)] + g[T \ {Chosen(T)}]

LEMMA SumIsFold ==
    ASSUME NEW S, IsFiniteSet(S), NEW f \in [S -> Int]
    PROVE  \E g \in [SUBSET S -> Int] : IsSum(g, S, f) /\ SumFunction(f) = g[S]
<1> DEFINE ch == [T \in SUBSET S |-> Chosen(T)]
           op == [p \in S \X Int |-> f[p[1]] + p[2]]
           Eq(g) == g = [T \in SUBSET S |-> IF T = {} THEN 0 ELSE f[Chosen(T)] + g[T \ {Chosen(T)}]]
           iter == CHOOSE g : Eq(g)
<1>1. \A T \in SUBSET S : T # {} => Chosen(T) \in T
  BY Zenon DEF Chosen
<1>2. \A x \in S, v \in Int : op[<<x, v>>] = f[x] + v /\ op[<<x, v>>] \in Int
  OBVIOUS
<1>3. PICK g \in [SUBSET S -> Int] : IsFold(g, S, 0, ch, op)
  <2>1. \A T \in SUBSET S : T # {} => ch[T] \in T
    BY <1>1
  <2>2. \A x \in S, v \in Int : op[<<x, v>>] \in Int
    BY <1>2
  <2>3. 0 \in Int
    OBVIOUS
  <2> HIDE DEF ch, op
  <2>4. Foldable(S, Int, 0, ch, op)
    BY <2>1, <2>2, <2>3 DEF Foldable
  <2>. QED BY <2>4, FoldExists
<1>4. IsSum(g, S, f)
  <2> SUFFICES ASSUME NEW T \in SUBSET S
               PROVE  g[T] = IF T = {} THEN 0 ELSE f[Chosen(T)] + g[T \ {Chosen(T)}]
    BY DEF IsSum
  <2>1. CASE T = {}
    BY <1>3, <2>1 DEF IsFold
  <2>2. CASE T # {}
    <3>1. ch[T] = Chosen(T) /\ Chosen(T) \in S /\ T \ {Chosen(T)} \in SUBSET S
      BY <1>1, <2>2
    <3>2. g[T] = op[<<Chosen(T), g[T \ {Chosen(T)}]>>]
      BY <1>3, <2>2, <3>1 DEF IsFold
    <3>3. g[T \ {Chosen(T)}] \in Int
      BY <3>1
    <3> HIDE DEF op
    <3>. QED BY <1>2, <2>2, <3>1, <3>2, <3>3
  <2>. QED BY <2>1, <2>2
<1>5. Eq(g)
  BY <1>4 DEF IsSum
<1>6. Eq(iter)
  <2> HIDE DEF Eq
  <2>. QED BY <1>5, Zenon
<1>7. SumFunction(f) = iter[S]
  BY DEF SumFunction, SumFunctionOnSet, FoldFunctionOnSet, MapThenFoldSet, Chosen
<1>8. \A T \in SUBSET S : iter[T] = IF T = {} THEN 0 ELSE f[Chosen(T)] + iter[T \ {Chosen(T)}]
  BY <1>6
<1>9. S \in {T \in SUBSET S : iter[T] = g[T]}
  <2> DEFINE G == {T \in SUBSET S : iter[T] = g[T]}
  <2> HIDE DEF iter
  <2>1. {} \in G
    BY <1>4, <1>8 DEF IsSum
  <2>2. ASSUME NEW T \in SUBSET S, T # {} 
        PROVE  \E x \in T : T \ {x} \in G => T \in G
    BY <1>1, <1>4, <1>8, <2>2 DEF IsSum
  <2> HIDE DEF G
  <2>3. Inductive(S, G)
    BY <2>1, <2>2 DEF Inductive
  <2>4. SUBSET S \subseteq G
    BY <2>3, SubsetInduction
  <2>. QED BY <2>4 DEF G
<1>. QED BY <1>4, <1>7, <1>9

\* The sum of a function is an integer; one changed value changes it by as much.
LEMMA SumType ==
    ASSUME NEW S, IsFiniteSet(S), NEW f \in [S -> Int]
    PROVE  SumFunction(f) \in Int
<1>1. PICK g \in [SUBSET S -> Int] : SumFunction(f) = g[S]
  BY SumIsFold
<1>. QED BY <1>1

LEMMA SumExcept ==
    ASSUME NEW S, IsFiniteSet(S), NEW f \in [S -> Int], NEW x \in S, NEW v \in Int
    PROVE  SumFunction([f EXCEPT ![x] = v]) = SumFunction(f) + v - f[x]
<1> DEFINE h == [f EXCEPT ![x] = v]
<1>1. h \in [S -> Int]
  OBVIOUS
<1>2. PICK g \in [SUBSET S -> Int] : IsSum(g, S, f) /\ SumFunction(f) = g[S]
  BY SumIsFold
<1>3. PICK k \in [SUBSET S -> Int] : IsSum(k, S, h) /\ SumFunction(h) = k[S]
  BY <1>1, SumIsFold
<1> DEFINE G == {T \in SUBSET S : k[T] = g[T] + IF x \in T THEN v - f[x] ELSE 0}
<1>4. \A T \in SUBSET S : T # {} => Chosen(T) \in T
  BY Zenon DEF Chosen
<1>5. {} \in G
  <2>1. g[{}] = 0 /\ k[{}] = 0
    BY <1>2, <1>3 DEF IsSum
  <2>. QED BY <2>1
<1>6. ASSUME NEW T \in SUBSET S, T # {}
      PROVE  \E y \in T : T \ {y} \in G => T \in G
  <2> SUFFICES ASSUME T \ {Chosen(T)} \in G PROVE T \in G
    BY <1>4, <1>6
  <2>1. Chosen(T) \in T /\ T \ {Chosen(T)} \in SUBSET S
    BY <1>4, <1>6
  <2>2. k[T] = h[Chosen(T)] + k[T \ {Chosen(T)}]
    BY <1>3, <1>6 DEF IsSum
  <2>3. g[T] = f[Chosen(T)] + g[T \ {Chosen(T)}]
    BY <1>2, <1>6 DEF IsSum
  <2>4. g[T \ {Chosen(T)}] \in Int /\ f[Chosen(T)] \in Int /\ f[x] \in Int
    BY <2>1
  <2>5. CASE Chosen(T) = x
    BY <2>1, <2>2, <2>3, <2>4, <2>5
  <2>6. CASE Chosen(T) # x
    BY <2>1, <2>2, <2>3, <2>4, <2>6
  <2>. QED BY <2>5, <2>6
<1>7. S \in G
  <2> HIDE DEF G
  <2>1. Inductive(S, G)
    BY <1>5, <1>6 DEF Inductive
  <2>2. SUBSET S \subseteq G
    BY <2>1, SubsetInduction
  <2>. QED BY <2>2
<1>. QED BY <1>2, <1>3, <1>7

\* g is f but for its values at x and y.
ChangedAt(f, g, S, x, y) ==
    /\ IsFiniteSet(S) /\ f \in [S -> Int] /\ g \in [S -> Int] /\ x \in S /\ y \in S
    /\ \A z \in S : z # x /\ z # y => g[z] = f[z]

LEMMA SumChange ==
    ASSUME NEW f, NEW g, NEW S, NEW x, NEW y, ChangedAt(f, g, S, x, y)
    PROVE  /\ SumFunction(f) \in Int /\ SumFunction(g) \in Int
           /\ SumFunction(g) = SumFunction(f) + (g[x] - f[x]) + (IF x = y THEN 0 ELSE g[y] - f[y])
<1> USE DEF ChangedAt
<1> DEFINE h == [f EXCEPT ![x] = g[x]]
<1>1. h \in [S -> Int] /\ g[x] \in Int /\ f[x] \in Int /\ g[y] \in Int /\ f[y] \in Int
  OBVIOUS
<1>2. SumFunction(f) \in Int /\ SumFunction(g) \in Int
  BY SumType
<1>3. SumFunction(h) = SumFunction(f) + g[x] - f[x]
  BY <1>1, SumExcept
<1>4. SumFunction([h EXCEPT ![y] = g[y]]) = SumFunction(h) + g[y] - h[y]
  <2> HIDE DEF h
  <2>. QED BY <1>1, SumExcept
<1>5. g = [h EXCEPT ![y] = g[y]]
  OBVIOUS
<1>6. h[y] = IF x = y THEN g[y] ELSE f[y]
  OBVIOUS
<1> HIDE DEF h
<1>7. SumFunction(g) = SumFunction(h) + g[y] - h[y]
  BY <1>4, <1>5, Zenon
<1>8. CASE x = y
  BY <1>1, <1>2, <1>3, <1>6, <1>7, <1>8
<1>9. CASE x # y
  BY <1>1, <1>2, <1>3, <1>6, <1>7, <1>9
<1>. QED BY <1>8, <1>9

-----------------------------------------------------------------------------
\* A finite set of integers has its maximum in it: what FoldLeft chooses.
LEMMA MaxIn ==
    ASSUME NEW S, IsFiniteSet(S), S \subseteq Int, S # {}
    PROVE  Max(S) \in S
<1> DEFINE Top(T, x) == x \in T /\ \A y \in T : x >= y
           G == {T \in SUBSET S : T = {} \/ \E x \in T : Top(T, x)}
<1>1. ASSUME NEW T \in SUBSET S, T # {}
      PROVE  \E x \in T : T \ {x} \in G => T \in G
  <2>1. PICK x \in T : TRUE
    BY <1>1
  <2>2. ASSUME T \ {x} \in G PROVE T \in G
    <3>1. CASE T \ {x} = {}
      <4>1. Top(T, x)
        BY <2>1, <3>1
      <4>. QED BY <4>1, <2>1
    <3>2. CASE T \ {x} # {}
      <4>1. PICK z \in T \ {x} : Top(T \ {x}, z)
        BY <2>2, <3>2
      <4>2. x \in Int /\ z \in Int /\ \A y \in T : y \in Int
        BY <2>1
      <4>3. Top(T, IF x >= z THEN x ELSE z)
        BY <2>1, <4>1, <4>2
      <4>. QED BY <4>3
    <3>. QED BY <3>1, <3>2
  <2>. QED BY <2>1, <2>2
<1>2. {} \in G
  OBVIOUS
<1>3. S \in G
  <2> HIDE DEF G
  <2>1. Inductive(S, G)
    BY <1>1, <1>2 DEF Inductive
  <2>2. SUBSET S \subseteq G
    BY <2>1, SubsetInduction
  <2>. QED BY <2>2
<1>4. \E x \in S : \A y \in S : x >= y
  BY <1>3
<1>. QED BY <1>4, Zenon DEF Max

-----------------------------------------------------------------------------
\* Queues of messages: what is in one, and what is before what.
Before(q) == UNION {{<<q[n], q[k]>> : k \in n + 1 .. Len(q)} : n \in DOMAIN q}

LEMMA BeforeIs ==
    ASSUME NEW T, NEW q \in Seq(T)
    PROVE  /\ \A n, k \in 1 .. Len(q) : n < k => <<q[n], q[k]>> \in Before(q)
           /\ \A p \in Before(q) : \E n, k \in 1 .. Len(q) : n < k /\ p = <<q[n], q[k]>>
<1>1. Len(q) \in Nat /\ DOMAIN q = 1 .. Len(q)
  OBVIOUS
<1>2. ASSUME NEW n \in 1 .. Len(q), NEW k \in 1 .. Len(q), n < k
      PROVE  <<q[n], q[k]>> \in Before(q)
  <2>1. k \in n + 1 .. Len(q)
    BY <1>1, <1>2
  <2>2. <<q[n], q[k]>> \in {<<q[n], q[j]>> : j \in n + 1 .. Len(q)}
    BY <2>1
  <2>. QED BY <1>1, <2>2 DEF Before
<1>3. ASSUME NEW p \in Before(q)
      PROVE  \E n, k \in 1 .. Len(q) : n < k /\ p = <<q[n], q[k]>>
  <2>1. PICK n \in 1 .. Len(q) : p \in {<<q[n], q[k]>> : k \in n + 1 .. Len(q)}
    BY <1>1, Zenon DEF Before
  <2>2. PICK k \in n + 1 .. Len(q) : p = <<q[n], q[k]>>
    BY <2>1, Zenon
  <2>3. k \in 1 .. Len(q) /\ n < k
    BY <1>1
  <2>. QED BY <2>2, <2>3
<1>. QED BY <1>2, <1>3

LEMMA RangeIs ==
    ASSUME NEW T, NEW q \in Seq(T)
    PROVE  /\ Range(q) = {q[n] : n \in 1 .. Len(q)} /\ Range(q) \subseteq T
BY DEF Range

LEMMA BeforeIn ==
    ASSUME NEW T, NEW q \in Seq(T)
    PROVE  \A p \in Before(q) : p[1] \in Range(q) /\ p[2] \in Range(q)
<1>1. \A p \in Before(q) : \E n, k \in 1 .. Len(q) : n < k /\ p = <<q[n], q[k]>>
  BY BeforeIs
<1>2. \A n \in 1 .. Len(q) : q[n] \in Range(q)
  BY RangeIs
<1>. QED BY <1>1, <1>2

\* The first message taken off.
LEMMA QueueTail ==
    ASSUME NEW T, NEW q \in Seq(T), q # <<>>
    PROVE  /\ Tail(q) \in Seq(T) /\ Head(q) \in T /\ Range(q) = {Head(q)} \cup Range(Tail(q))
           /\ Before(Tail(q)) \subseteq Before(q)
           /\ \A m \in Range(Tail(q)) : <<Head(q), m>> \in Before(q)
<1>1. /\ Tail(q) \in Seq(T) /\ Len(Tail(q)) = Len(q) - 1 /\ Len(q) \in Nat /\ Len(q) > 0
      /\ \A n \in 1 .. Len(q) - 1 : Tail(q)[n] = q[n + 1] /\ n + 1 \in 1 .. Len(q)
      /\ Head(q) = q[1] /\ Head(q) \in T
  OBVIOUS
<1>2. Range(q) = {q[n] : n \in 1 .. Len(q)} /\ Range(Tail(q)) = {Tail(q)[n] : n \in 1 .. Len(q) - 1}
  BY <1>1, RangeIs
<1>3. Range(q) = {Head(q)} \cup Range(Tail(q))
  <2>1. ASSUME NEW n \in 1 .. Len(q) PROVE n = 1 \/ (n - 1 \in 1 .. Len(q) - 1 /\ q[n] = Tail(q)[n - 1])
    BY <1>1
  <2>2. \A n \in 1 .. Len(q) : q[n] \in {Head(q)} \cup Range(Tail(q))
    BY <1>1, <1>2, <2>1
  <2>3. \A n \in 1 .. Len(q) - 1 : Tail(q)[n] \in Range(q)
    BY <1>1, <1>2
  <2>4. Head(q) \in Range(q)
    BY <1>1, <1>2
  <2>. QED BY <1>2, <2>2, <2>3, <2>4
<1>4. Before(Tail(q)) \subseteq Before(q)
  <2> DEFINE t == Tail(q)
  <2>1. /\ t \in Seq(T) /\ Len(t) = Len(q) - 1
        /\ \A n \in 1 .. Len(q) - 1 : t[n] = q[n + 1]
    BY <1>1
  <2> HIDE DEF t
  <2>2. ASSUME NEW n \in 1 .. Len(t), NEW k \in 1 .. Len(t), n < k
        PROVE  <<t[n], t[k]>> \in Before(q)
    <3>1. n + 1 \in 1 .. Len(q) /\ k + 1 \in 1 .. Len(q) /\ n + 1 < k + 1
      BY <1>1, <2>1, <2>2
    <3>2. <<q[n + 1], q[k + 1]>> \in Before(q)
      BY <3>1, BeforeIs
    <3>. QED BY <1>1, <2>1, <3>2
  <2>3. ASSUME NEW p \in Before(t) PROVE p \in Before(q)
    BY <2>1, <2>2, BeforeIs
  <2>. QED BY <2>3 DEF t
<1>5. ASSUME NEW m \in Range(Tail(q)) PROVE <<Head(q), m>> \in Before(q)
  <2>1. PICK n \in 1 .. Len(q) - 1 : m = Tail(q)[n]
    BY <1>2
  <2>2. m = q[n + 1] /\ n + 1 \in 1 .. Len(q) /\ 1 \in 1 .. Len(q) /\ 1 < n + 1
    BY <1>1, <2>1
  <2>. QED BY <1>1, <2>2, BeforeIs
<1>. QED BY <1>1, <1>3, <1>4, <1>5

\* One queue after the other.
LEMMA QueueCat ==
    ASSUME NEW T, NEW q \in Seq(T), NEW r \in Seq(T)
    PROVE  /\ q \o r \in Seq(T) /\ Range(q \o r) = Range(q) \cup Range(r)
           /\ Before(q \o r) \subseteq Before(q) \cup Before(r) \cup (Range(q) \X Range(r))
<1> DEFINE s == q \o r
<1>1. /\ s \in Seq(T) /\ Len(s) = Len(q) + Len(r) /\ Len(q) \in Nat /\ Len(r) \in Nat
      /\ \A n \in 1 .. Len(s) : s[n] = IF n <= Len(q) THEN q[n] ELSE r[n - Len(q)]
  BY ConcatProperties
<1> HIDE DEF s
<1>2. /\ Range(q) = {q[n] : n \in 1 .. Len(q)} /\ Range(r) = {r[n] : n \in 1 .. Len(r)}
      /\ Range(s) = {s[n] : n \in 1 .. Len(s)}
  BY <1>1, RangeIs
<1>3. ASSUME NEW n \in 1 .. Len(s)
      PROVE  \/ n \in 1 .. Len(q) /\ s[n] = q[n]
             \/ n - Len(q) \in 1 .. Len(r) /\ s[n] = r[n - Len(q)] /\ n > Len(q)
  BY <1>1
<1>4. \A n \in 1 .. Len(q) : n \in 1 .. Len(s) /\ s[n] = q[n]
  BY <1>1
<1>5. \A n \in 1 .. Len(r) : n + Len(q) \in 1 .. Len(s) /\ s[n + Len(q)] = r[n]
  BY <1>1
<1>6. Range(s) = Range(q) \cup Range(r)
  <2>1. \A n \in 1 .. Len(s) : s[n] \in Range(q) \cup Range(r)
    BY <1>2, <1>3
  <2>2. \A n \in 1 .. Len(q) : q[n] \in Range(s)
    BY <1>2, <1>4
  <2>3. \A n \in 1 .. Len(r) : r[n] \in Range(s)
    BY <1>2, <1>5
  <2>. QED BY <1>2, <2>1, <2>2, <2>3
<1>7. ASSUME NEW n \in 1 .. Len(s), NEW k \in 1 .. Len(s), n < k
      PROVE  <<s[n], s[k]>> \in Before(q) \cup Before(r) \cup (Range(q) \X Range(r))
  <2>1. CASE k \in 1 .. Len(q)
    BY <1>1, <1>4, <1>7, <2>1, BeforeIs
  <2>2. CASE n > Len(q)
    <3>1. /\ n - Len(q) \in 1 .. Len(r) /\ k - Len(q) \in 1 .. Len(r) /\ n - Len(q) < k - Len(q)
          /\ s[n] = r[n - Len(q)] /\ s[k] = r[k - Len(q)]
      BY <1>1, <1>7, <2>2
    <3>. QED BY <3>1, BeforeIs
  <2>3. CASE n \in 1 .. Len(q) /\ k > Len(q)
    <3>1. s[n] \in Range(q) /\ s[k] \in Range(r)
      BY <1>1, <1>2, <1>3, <2>3
    <3>. QED BY <3>1
  <2>. QED BY <1>1, <2>1, <2>2, <2>3
<1>8. Before(s) \subseteq Before(q) \cup Before(r) \cup (Range(q) \X Range(r))
  BY <1>1, <1>7, BeforeIs
<1>. QED BY <1>1, <1>6, <1>8 DEF s

LEMMA QueueOfOne ==
    ASSUME NEW T, NEW m \in T
    PROVE  <<m>> \in Seq(T) /\ Range(<<m>>) = {m} /\ Before(<<m>>) = {}
<1> DEFINE s == <<m>>
<1>1. s \in Seq(T) /\ Len(s) = 1 /\ s[1] = m
  OBVIOUS
<1> HIDE DEF s
<1>2. Range(s) = {m}
  BY <1>1, RangeIs
<1>3. \A n, k \in 1 .. 1 : ~(n < k)
  OBVIOUS
<1>4. Before(s) = {}
  BY <1>1, <1>3, BeforeIs
<1>. QED BY <1>1, <1>2, <1>4 DEF s

LEMMA QueueOfTwo ==
    ASSUME NEW T, NEW a \in T, NEW b \in T
    PROVE  <<a, b>> \in Seq(T) /\ Range(<<a, b>>) = {a, b} /\ Before(<<a, b>>) = {<<a, b>>}
<1> DEFINE s == <<a, b>>
<1>1. s \in Seq(T) /\ Len(s) = 2 /\ s[1] = a /\ s[2] = b
  OBVIOUS
<1> HIDE DEF s
<1>2. 1 .. 2 = {1, 2}
  OBVIOUS
<1>3. \A n, k \in 1 .. 2 : n < k <=> n = 1 /\ k = 2
  OBVIOUS
<1>4. Range(s) = {s[n] : n \in 1 .. Len(s)}
  BY <1>1, RangeIs
<1>5. Range(s) = {a, b}
  BY <1>1, <1>2, <1>4
<1>6. <<s[1], s[2]>> \in Before(s)
  BY <1>1, <1>3, BeforeIs
<1>7. \A p \in Before(s) : p = <<s[1], s[2]>>
  BY <1>1, <1>3, BeforeIs
<1>. QED BY <1>1, <1>5, <1>6, <1>7 DEF s

LEMMA QueueOfNone ==
    ASSUME NEW T
    PROVE  <<>> \in Seq(T) /\ Range(<<>>) = {} /\ Before(<<>>) = {}
<1>1. <<>> \in Seq(T) /\ DOMAIN <<>> = {}
  OBVIOUS
<1>2. Range(<<>>) = {} /\ Before(<<>>) = {}
  BY <1>1, Zenon DEF Range, Before
<1>. QED BY <1>1, <1>2

LEMMA QueueAppend ==
    ASSUME NEW T, NEW q \in Seq(T), NEW m \in T
    PROVE  /\ Append(q, m) \in Seq(T) /\ Range(Append(q, m)) = Range(q) \cup {m}
           /\ Before(Append(q, m)) \subseteq Before(q) \cup (Range(q) \X {m})
<1>1. Append(q, m) = q \o <<m>>
  OBVIOUS
<1>2. <<m>> \in Seq(T) /\ Range(<<m>>) = {m} /\ Before(<<m>>) = {}
  BY QueueOfOne
<1> DEFINE r == <<m>>
<1> HIDE DEF r
<1>3. r \in Seq(T) /\ Range(r) = {m} /\ Before(r) = {} /\ Append(q, m) = q \o r
  BY <1>1, <1>2 DEF r
<1>. QED BY <1>3, QueueCat

\* What is left of a queue that was cut off.
LEMMA QueuePrefix ==
    ASSUME NEW T, NEW q \in Seq(T), NEW n \in 0 .. Len(q)
    PROVE  /\ SubSeq(q, 1, n) \in Seq(T) /\ Range(SubSeq(q, 1, n)) \subseteq Range(q)
           /\ Before(SubSeq(q, 1, n)) \subseteq Before(q)
<1> DEFINE s == SubSeq(q, 1, n)
<1>1. s \in Seq(T) /\ Len(s) = n /\ \A k \in 1 .. n : s[k] = q[k] /\ k \in 1 .. Len(q)
  OBVIOUS
<1> HIDE DEF s
<1>2. Range(s) \subseteq Range(q)
  BY <1>1, RangeIs
<1>3. \A j, k \in 1 .. n : j < k => <<s[j], s[k]>> \in Before(q)
  BY <1>1, BeforeIs
<1>4. Before(s) \subseteq Before(q)
  BY <1>1, <1>3, BeforeIs
<1>. QED BY <1>1, <1>2, <1>4 DEF s

\* The elements of a finite set, in some order.
LEMMA QueueOfSet ==
    ASSUME NEW T, NEW S, S \subseteq T, IsFiniteSet(S)
    PROVE  SetToSeq(S) \in Seq(T) /\ Range(SetToSeq(S)) = S
<1>1. PICK n \in Nat : ExistsBijection(1 .. n, S)
  BY FS_NatBijection
<1>2. Cardinality(S) = n
  BY <1>1, FS_CountingElements
<1>3. PICK f \in Bijection(1 .. n, S) : TRUE
  BY <1>1 DEF ExistsBijection
<1>4. f \in [1 .. Cardinality(S) -> S] /\ IsInjective(f)
  BY <1>2, <1>3 DEF Bijection, Injection, IsInjective
<1> DEFINE s == SetToSeq(S)
<1>5. s \in [1 .. n -> S] /\ IsInjective(s)
  BY <1>2, <1>4 DEF SetToSeq
<1> HIDE DEF s
<1>6. s \in Seq(T) /\ Len(s) = n /\ DOMAIN s = 1 .. n
  BY <1>5
<1>7. Range(s) = S
  <2>1. Range(s) \in SUBSET S
    BY <1>5, <1>6 DEF Range
  <2>2. s \in Injection(1 .. n, S)
    BY <1>5 DEF Injection, IsInjective
  <2>3. IsFiniteSet(1 .. n) /\ Cardinality(1 .. n) = n
    BY FS_Interval
  <2>4. s \in Surjection(1 .. n, S)
    BY <1>2, <2>2, <2>3, FS_Injection
  <2>. QED BY <2>4, <1>6 DEF Surjection, Range
<1>. QED BY <1>6, <1>7 DEF s

-----------------------------------------------------------------------------
\* Sums do not depend on the order of the terms.
AnyTerm(g, S, f) == \A T \in SUBSET S : \A y \in T : g[T] = f[y] + g[T \ {y}]

LEMMA AnyOrder ==
    ASSUME NEW S, IsFiniteSet(S), NEW f \in [S -> Int], NEW g \in [SUBSET S -> Int], IsSum(g, S, f)
    PROVE  AnyTerm(g, S, f)
<1> DEFINE N == {n \in Nat : \A T \in SUBSET S : Cardinality(T) = n =>
                                \A y \in T : g[T] = f[y] + g[T \ {y}]}
<1>1. \A T \in SUBSET S : IsFiniteSet(T) /\ Cardinality(T) \in Nat
  BY FS_Subset, FS_CardinalityType
<1>2. \A T \in SUBSET S : T # {} => Chosen(T) \in T
  BY Zenon DEF Chosen
<1>3. \A T \in SUBSET S : Cardinality(T) = 0 => T = {}
  BY <1>1, FS_EmptySet
<1>4. 0 \in N
  BY <1>3
<1>5. ASSUME NEW n \in Nat, n \in N PROVE n + 1 \in N
  <2> SUFFICES ASSUME NEW T \in SUBSET S, Cardinality(T) = n + 1, NEW y \in T
               PROVE  g[T] = f[y] + g[T \ {y}]
    OBVIOUS
  <2> DEFINE x == Chosen(T)
  <2>1. x \in T /\ g[T] = f[x] + g[T \ {x}]
    BY <1>2 DEF IsSum
  <2> HIDE DEF x
  <2>2. \A z \in T : T \ {z} \in SUBSET S /\ Cardinality(T \ {z}) = n
    <3>1. \A z \in T : Cardinality(T \ {z}) = Cardinality(T) - 1
      BY <1>1, FS_RemoveElement
    <3>2. \A z \in T : Cardinality(T \ {z}) = n
      BY <3>1
    <3>. QED BY <3>2
  <2>3. CASE y = x
    BY <2>1, <2>3
  <2>4. CASE y # x
    <3>1. y \in T \ {x} /\ x \in T \ {y}
      BY <2>1, <2>4
    <3>2. g[T \ {x}] = f[y] + g[(T \ {x}) \ {y}]
      BY <1>5, <2>1, <2>2, <3>1
    <3>3. g[T \ {y}] = f[x] + g[(T \ {y}) \ {x}]
      BY <1>5, <2>1, <2>2, <3>1
    <3>4. (T \ {x}) \ {y} = (T \ {y}) \ {x}
      OBVIOUS
    <3>5. /\ f[x] \in Int /\ f[y] \in Int /\ g[T \ {x}] \in Int /\ g[T \ {y}] \in Int
          /\ g[(T \ {x}) \ {y}] \in Int
      BY <2>1, <2>2
    <3>6. g[(T \ {x}) \ {y}] = g[(T \ {y}) \ {x}]
      BY <3>4, Zenon
    <3> DEFINE a == g[T \ {x}]
               b == g[T \ {y}]
               r == g[(T \ {x}) \ {y}]
    <3>7. a = f[y] + r /\ b = f[x] + r /\ g[T] = f[x] + a /\ r \in Int
      BY <2>1, <3>2, <3>3, <3>5, <3>6
    <3> HIDE DEF a, b, r
    <3>8. g[T] = f[y] + b
      BY <3>5, <3>7
    <3>. QED BY <3>8 DEF b
  <2>. QED BY <2>3, <2>4
<1> HIDE DEF N
<1>6. Nat \subseteq N
  BY <1>4, <1>5, Induction
<1>. QED BY <1>1, <1>6 DEF N, AnyTerm

\* A sum is any of its terms and the sum of the others.
LEMMA SumSplit ==
    ASSUME NEW S, IsFiniteSet(S), NEW f \in [S -> Int], NEW x \in S
    PROVE  SumFunction(f) = f[x] + SumFunction([y \in S \ {x} |-> f[y]])
<1> DEFINE U == S \ {x}
           h == [y \in U |-> f[y]]
<1>1. IsFiniteSet(U) /\ U \subseteq S /\ h \in [U -> Int]
  BY FS_Subset
<1>2. PICK g \in [SUBSET S -> Int] : IsSum(g, S, f) /\ SumFunction(f) = g[S]
  BY SumIsFold
<1>3. PICK k \in [SUBSET U -> Int] : IsSum(k, U, h) /\ SumFunction(h) = k[U]
  <2> HIDE DEF U, h
  <2>1. \E k \in [SUBSET U -> Int] : IsSum(k, U, h) /\ SumFunction(h) = k[U]
    BY <1>1, SumIsFold
  <2>. QED BY <2>1, Zenon
<1>4. g[S] = f[x] + g[U]
  <2>1. AnyTerm(g, S, f)
    BY <1>2, AnyOrder
  <2>. QED BY <2>1 DEF AnyTerm
<1> DEFINE G == {T \in SUBSET U : g[T] = k[T]}
<1>5. {} \in G
  BY <1>2, <1>3 DEF IsSum
<1>6. ASSUME NEW T \in SUBSET U, T # {}
      PROVE  \E y \in T : T \ {y} \in G => T \in G
  <2>1. Chosen(T) \in T
    BY <1>6, Zenon DEF Chosen
  <2>2. g[T] = f[Chosen(T)] + g[T \ {Chosen(T)}]
    BY <1>1, <1>2, <1>6 DEF IsSum
  <2>3. k[T] = h[Chosen(T)] + k[T \ {Chosen(T)}]
    BY <1>3, <1>6 DEF IsSum
  <2>4. h[Chosen(T)] = f[Chosen(T)]
    BY <2>1
  <2>. QED BY <2>1, <2>2, <2>3, <2>4
<1>7. U \in G
  <2> HIDE DEF G, U
  <2>1. Inductive(U, G)
    BY <1>1, <1>5, <1>6 DEF Inductive
  <2>. QED BY <2>1, SubsetInduction
<1>. QED BY <1>2, <1>3, <1>4, <1>7

LEMMA SumOfNone == ASSUME NEW f \in [{} -> Int] PROVE SumFunction(f) = 0
<1>1. PICK g \in [SUBSET {} -> Int] : IsSum(g, {}, f) /\ SumFunction(f) = g[{}]
  BY FS_EmptySet, SumIsFold
<1>. QED BY <1>1 DEF IsSum

-----------------------------------------------------------------------------

LEMMA SumOfEmpty == SumFunction(<<>>) = 0
<1>1. <<>> \in [{} -> Int]
  OBVIOUS
<1>. QED BY <1>1, SumOfNone

\* A function less one of its arguments.
Less(f, x) == [y \in DOMAIN f \ {x} |-> f[y]]

Parted(f, S, x) ==
    /\ Less(f, x) \in [S \ {x} -> Int] /\ \A y \in S \ {x} : Less(f, x)[y] = f[y]
    /\ SumFunction(f) = f[x] + SumFunction(Less(f, x))

LEMMA SumLess ==
    ASSUME NEW S, IsFiniteSet(S), NEW f \in [S -> Int], NEW x \in S
    PROVE  Parted(f, S, x)
<1>1. Less(f, x) = [y \in S \ {x} |-> f[y]]
  BY DEF Less
<1>2. SumFunction(f) = f[x] + SumFunction([y \in S \ {x} |-> f[y]])
  BY SumSplit
<1>. QED BY <1>1, <1>2 DEF Parted

\* The sum of a sequence.
LEMMA SumAppend ==
    ASSUME NEW s \in Seq(Int), NEW v \in Int
    PROVE  SumFunction(Append(s, v)) = SumFunction(s) + v /\ SumFunction(s) \in Int
<1> DEFINE f == Append(s, v)
           S == 1 .. Len(s) + 1
           g == Less(f, Len(s) + 1)
<1>1. Len(s) \in Nat /\ s \in [1 .. Len(s) -> Int]
  OBVIOUS
<1>2. f \in [S -> Int] /\ f[Len(s) + 1] = v /\ \A n \in 1 .. Len(s) : f[n] = s[n]
  <2>1. f \in Seq(Int) /\ Len(f) = Len(s) + 1
    BY AppendProperties
  <2>2. f[Len(s) + 1] = v /\ \A n \in 1 .. Len(s) : f[n] = s[n]
    BY AppendProperties
  <2> HIDE DEF f
  <2>3. f \in [S -> Int]
    BY <2>1
  <2>. QED BY <2>2, <2>3
<1>3. IsFiniteSet(S) /\ Len(s) + 1 \in S /\ S \ {Len(s) + 1} = 1 .. Len(s)
  <2>1. \A n \in Nat : (1 .. n + 1) \ {n + 1} = 1 .. n /\ n + 1 \in 1 .. n + 1 /\ n + 1 \in Int
    OBVIOUS
  <2>2. IsFiniteSet(1 .. Len(s) + 1)
    BY <1>1, <2>1, FS_Interval
  <2>. QED BY <1>1, <2>1, <2>2
<1> HIDE DEF f, S
<1>4. /\ g \in [S \ {Len(s) + 1} -> Int] /\ \A y \in S \ {Len(s) + 1} : g[y] = f[y]
      /\ SumFunction(f) = f[Len(s) + 1] + SumFunction(g)
  <2>1. f \in [S -> Int] /\ IsFiniteSet(S) /\ Len(s) + 1 \in S
    BY <1>2, <1>3
  <2>2. Parted(f, S, Len(s) + 1)
    BY <2>1, SumLess
  <2>. QED BY <2>2 DEF Parted
<1> HIDE DEF g
<1>5. g = s
  BY <1>1, <1>2, <1>3, <1>4
<1>6. SumFunction(s) \in Int
  <2>1. IsFiniteSet(1 .. Len(s))
    BY <1>1, FS_Interval
  <2>. QED BY <1>1, <2>1, SumType
<1>. QED BY <1>2, <1>4, <1>5, <1>6 DEF f

LEMMA SumCat ==
    ASSUME NEW s \in Seq(Int), NEW t \in Seq(Int)
    PROVE  SumFunction(s \o t) = SumFunction(s) + SumFunction(t)
<1> DEFINE N == {n \in Nat : \A u \in Seq(Int) : Len(u) = n =>
                                SumFunction(s \o u) = SumFunction(s) + SumFunction(u)}
<1>1. \A u \in Seq(Int) : SumFunction(u) \in Int
  BY SumAppend
<1>2. 0 \in N
  <2>1. SumFunction(<<>>) = 0
    BY SumOfEmpty
  <2> SUFFICES ASSUME NEW u \in Seq(Int), Len(u) = 0
               PROVE  SumFunction(s \o u) = SumFunction(s) + SumFunction(u)
    OBVIOUS
  <2>2. u = <<>> /\ s \o u = s
    OBVIOUS
  <2>3. SumFunction(u) = 0 /\ SumFunction(s) \in Int
    BY <1>1, <2>1, <2>2
  <2>4. SumFunction(s \o u) = SumFunction(s)
    BY <2>2
  <2>. QED BY <2>3, <2>4
<1>3. ASSUME NEW n \in Nat, n \in N PROVE n + 1 \in N
  <2> SUFFICES ASSUME NEW u \in Seq(Int), Len(u) = n + 1
               PROVE  SumFunction(s \o u) = SumFunction(s) + SumFunction(u)
    OBVIOUS
  <2> DEFINE w == SubSeq(u, 1, n)
             v == u[n + 1]
  <2>1. w \in Seq(Int) /\ Len(w) = n /\ v \in Int /\ u = Append(w, v)
    OBVIOUS
  <2> HIDE DEF w, v
  <2>2. s \o u = Append(s \o w, v) /\ s \o w \in Seq(Int)
    BY <2>1
  <2>3. SumFunction(s \o u) = SumFunction(s \o w) + v /\ SumFunction(u) = SumFunction(w) + v
    BY <2>1, <2>2, SumAppend
  <2>4. SumFunction(s \o w) = SumFunction(s) + SumFunction(w)
    BY <1>3, <2>1
  <2>. QED BY <1>1, <2>1, <2>3, <2>4
<1> HIDE DEF N
<1>4. Nat \subseteq N
  BY <1>2, <1>3, Induction
<1>. QED BY <1>4 DEF N

\* A sum of natural numbers is at least each of them.
LEMMA SumOfNats ==
    ASSUME NEW S, IsFiniteSet(S), NEW f \in [S -> Nat]
    PROVE  SumFunction(f) \in Nat /\ \A x \in S : f[x] <= SumFunction(f)
<1> DEFINE G == {T \in SUBSET S : \A h \in [T -> Nat] : SumFunction(h) \in Nat}
<1>1. \A T \in SUBSET S : IsFiniteSet(T)
  BY FS_Subset
<1>2. {} \in G
  <2>1. \A h \in [{} -> Nat] : h \in [{} -> Int]
    OBVIOUS
  <2>. QED BY <2>1, SumOfNone
<1>3. ASSUME NEW T \in SUBSET S, NEW x \in T, T \ {x} \in G, NEW h \in [T -> Nat]
      PROVE  SumFunction(h) \in Nat /\ h[x] <= SumFunction(h)
  <2> DEFINE k == [y \in T \ {x} |-> h[y]]
  <2>1. k \in [T \ {x} -> Nat] /\ h \in [T -> Int] /\ h[x] \in Nat
    OBVIOUS
  <2>2. SumFunction(h) = h[x] + SumFunction(k)
    BY <1>1, <2>1, SumSplit
  <2> HIDE DEF k
  <2>3. SumFunction(k) \in Nat
    BY <1>3, <2>1
  <2>. QED BY <2>1, <2>2, <2>3
<1>4. SUBSET S \subseteq G
  <2>1. \A T \in SUBSET S : T # {} => \E x \in T : T \ {x} \in G => T \in G
    BY <1>3
  <2> HIDE DEF G
  <2>2. Inductive(S, G)
    BY <1>2, <2>1 DEF Inductive
  <2>. QED BY <2>2, SubsetInduction
<1>. QED BY <1>3, <1>4

-----------------------------------------------------------------------------
\* What the messages of a queue weigh.
Tally(q, w) == SumFunction([n \in DOMAIN q |-> w[q[n]]])

LEMMA JoinedIs ==
    ASSUME NEW a \in Seq(Int), NEW b \in Seq(Int), NEW c \in Seq(Int),
           Len(c) = Len(a) + Len(b),
           \A n \in 1 .. Len(c) : c[n] = IF n <= Len(a) THEN a[n] ELSE b[n - Len(a)]
    PROVE  c = a \o b
<1> DEFINE d == a \o b
<1>1. d \in Seq(Int) /\ Len(d) = Len(a) + Len(b)
      /\ \A n \in 1 .. Len(a) + Len(b) : d[n] = IF n <= Len(a) THEN a[n] ELSE b[n - Len(a)]
  BY ConcatProperties
<1> HIDE DEF d
<1>2. c = d
  BY <1>1, SeqEqual
<1>. QED BY <1>2 DEF d

LEMMA TallyCat ==
    ASSUME NEW T, NEW w \in [T -> Int], NEW q \in Seq(T), NEW r \in Seq(T)
    PROVE  Tally(q \o r, w) = Tally(q, w) + Tally(r, w) /\ Tally(q, w) \in Int
<1> DEFINE W(s) == [n \in DOMAIN s |-> w[s[n]]]
<1>1. \A s \in Seq(T) : W(s) \in Seq(Int) /\ Len(W(s)) = Len(s) /\ \A n \in 1 .. Len(s) : W(s)[n] = w[s[n]]
  <2> SUFFICES ASSUME NEW s \in Seq(T)
               PROVE  W(s) \in Seq(Int) /\ Len(W(s)) = Len(s) /\ \A n \in 1 .. Len(s) : W(s)[n] = w[s[n]]
    OBVIOUS
  <2>1. DOMAIN s = 1 .. Len(s) /\ Len(s) \in Nat /\ \A n \in 1 .. Len(s) : s[n] \in T
    OBVIOUS
  <2>2. W(s) \in [1 .. Len(s) -> Int]
    BY <2>1
  <2>. QED BY <2>1, <2>2
<1>2. q \o r \in Seq(T) /\ Len(q \o r) = Len(q) + Len(r)
      /\ \A n \in 1 .. Len(q) + Len(r) : (q \o r)[n] = IF n <= Len(q) THEN q[n] ELSE r[n - Len(q)]
  BY ConcatProperties
<1>3. W(q \o r) = W(q) \o W(r)
  <2> DEFINE a == W(q)
             b == W(r)
             c == W(q \o r)
             x == q \o r
  <2>1. /\ a \in Seq(Int) /\ b \in Seq(Int) /\ c \in Seq(Int) /\ Len(a) = Len(q) /\ Len(b) = Len(r)
        /\ Len(c) = Len(x) /\ \A n \in 1 .. Len(q) : a[n] = w[q[n]]
        /\ \A n \in 1 .. Len(r) : b[n] = w[r[n]]
        /\ \A n \in 1 .. Len(x) : c[n] = w[x[n]]
    BY <1>1, <1>2
  <2>2. Len(x) = Len(q) + Len(r) /\ Len(q) \in Nat /\ Len(r) \in Nat
        /\ \A n \in 1 .. Len(x) : x[n] = IF n <= Len(q) THEN q[n] ELSE r[n - Len(q)]
    BY <1>2
  <2> HIDE DEF a, b, c, x
  <2>3. \A n \in 1 .. Len(c) : c[n] = IF n <= Len(a) THEN a[n] ELSE b[n - Len(a)]
    <3> SUFFICES ASSUME NEW n \in 1 .. Len(c)
                 PROVE  c[n] = IF n <= Len(a) THEN a[n] ELSE b[n - Len(a)]
      OBVIOUS
    <3>1. n <= Len(q) => n \in 1 .. Len(q)
      BY <2>1, <2>2
    <3>2. ~(n <= Len(q)) => n - Len(q) \in 1 .. Len(r)
      BY <2>1, <2>2
    <3>3. n \in 1 .. Len(x) /\ c[n] = w[x[n]]
          /\ x[n] = (IF n <= Len(q) THEN q[n] ELSE r[n - Len(q)])
      BY <2>1, <2>2
    <3>4. CASE n <= Len(q)
      BY <2>1, <3>1, <3>3, <3>4
    <3>5. CASE ~(n <= Len(q))
      BY <2>1, <3>2, <3>3, <3>5
    <3>. QED BY <3>4, <3>5
  <2>4. c = a \o b
    <3>1. a \in Seq(Int) /\ b \in Seq(Int) /\ c \in Seq(Int) /\ Len(c) = Len(a) + Len(b)
      BY <2>1, <2>2
    <3>. QED BY <2>3, <3>1, JoinedIs
  <2>. QED BY <2>4 DEF a, b, c, x
<1>4. W(q) \in Seq(Int) /\ W(r) \in Seq(Int)
  BY <1>1
<1>5. SumFunction(W(q) \o W(r)) = SumFunction(W(q)) + SumFunction(W(r)) /\ SumFunction(W(q)) \in Int
  <2> HIDE DEF W
  <2>. QED BY <1>4, SumCat, SumAppend
<1>6. Tally(q \o r, w) = SumFunction(W(q \o r)) /\ Tally(q, w) = SumFunction(W(q)) /\ Tally(r, w) = SumFunction(W(r))
  BY DEF Tally
<1> HIDE DEF W
<1>. QED BY <1>3, <1>5, <1>6

LEMMA TallyOfOne ==
    ASSUME NEW T, NEW w \in [T -> Int]
    PROVE  /\ Tally(<<>>, w) = 0
           /\ \A m \in T : Tally(<<m>>, w) = w[m]
<1>1. Tally(<<>>, w) = 0
  <2>1. [n \in DOMAIN <<>> |-> w[<<>>[n]]] \in [{} -> Int]
    OBVIOUS
  <2>. QED BY <2>1, SumOfNone DEF Tally
<1>2. ASSUME NEW m \in T PROVE Tally(<<m>>, w) = w[m]
  <2>1. [n \in DOMAIN <<m>> |-> w[<<m>>[n]]] = Append(<<>>, w[m])
    OBVIOUS
  <2> DEFINE v == w[m]
             e == <<>>
  <2>4. v \in Int /\ e \in Seq(Int)
    OBVIOUS
  <2> HIDE DEF v, e
  <2>5. SumFunction(Append(e, v)) = SumFunction(e) + v
    BY <2>4, SumAppend
  <2>2. SumFunction(Append(<<>>, w[m])) = SumFunction(<<>>) + w[m] /\ w[m] \in Int
    BY <2>4, <2>5 DEF e, v
  <2>3. SumFunction(<<>>) = 0
    BY SumOfEmpty
  <2>. QED BY <2>1, <2>2, <2>3 DEF Tally
<1>. QED BY <1>1, <1>2

\* The first message taken off.
LEMMA TallyTail ==
    ASSUME NEW T, NEW w \in [T -> Int], NEW q \in Seq(T), q # <<>>
    PROVE  Tally(q, w) = w[Head(q)] + Tally(Tail(q), w) /\ Tally(Tail(q), w) \in Int
<1> DEFINE h == <<Head(q)>>
           t == Tail(q)
<1>1. Head(q) \in T /\ h \in Seq(T) /\ t \in Seq(T) /\ q = h \o t
  OBVIOUS
<1>2. Tally(h, w) = w[Head(q)]
  BY <1>1, TallyOfOne
<1> HIDE DEF h, t
<1>3. Tally(h \o t, w) = Tally(h, w) + Tally(t, w) /\ Tally(t, w) \in Int
  BY <1>1, TallyCat
<1>4. Tally(q, w) = w[Head(q)] + Tally(t, w) /\ Tally(t, w) \in Int
  BY <1>1, <1>2, <1>3
<1>. QED BY <1>4 DEF t

\* Natural weights: the tally is one, is at least the weight of each message, and
\* is zero when no message weighs anything.
LEMMA TallyOfNats ==
    ASSUME NEW T, NEW w \in [T -> Nat], NEW q \in Seq(T)
    PROVE  Tally(q, w) \in Nat /\ \A m \in Range(q) : w[m] <= Tally(q, w)
<1> DEFINE f == [n \in DOMAIN q |-> w[q[n]]]
<1>1. DOMAIN q = 1 .. Len(q) /\ IsFiniteSet(DOMAIN q) /\ f \in [DOMAIN q -> Nat]
  BY FS_Interval
<1>2. \A m \in Range(q) : \E n \in DOMAIN q : m = q[n] /\ f[n] = w[m]
  BY <1>1, RangeIs
<1> HIDE DEF f
<1>3. SumFunction(f) \in Nat /\ \A n \in DOMAIN q : f[n] <= SumFunction(f)
  BY <1>1, SumOfNats
<1>. QED BY <1>2, <1>3 DEF Tally, f

LEMMA TallyOfNothing ==
    ASSUME NEW T, NEW w \in [T -> Int], NEW q \in Seq(T), \A m \in Range(q) : w[m] = 0
    PROVE  Tally(q, w) = 0
<1> DEFINE N == {n \in Nat : \A r \in Seq(T) : Len(r) = n /\ (\A m \in Range(r) : w[m] = 0) =>
                                Tally(r, w) = 0}
<1>1. 0 \in N
  <2>1. \A r \in Seq(T) : Len(r) = 0 => r = <<>>
    OBVIOUS
  <2>. QED BY <2>1, TallyOfOne
<1>2. ASSUME NEW n \in Nat, n \in N PROVE n + 1 \in N
  <2> SUFFICES ASSUME NEW r \in Seq(T), Len(r) = n + 1, \A m \in Range(r) : w[m] = 0
               PROVE  Tally(r, w) = 0
    OBVIOUS
  <2>1. r # <<>> /\ Len(Tail(r)) = n
    OBVIOUS
  <2>2. Tail(r) \in Seq(T) /\ Head(r) \in T /\ Range(r) = {Head(r)} \cup Range(Tail(r))
    BY <2>1, QueueTail
  <2>3. Tally(Tail(r), w) = 0 /\ w[Head(r)] = 0
    BY <1>2, <2>1, <2>2
  <2>4. Tally(r, w) = w[Head(r)] + Tally(Tail(r), w)
    BY <2>1, TallyTail
  <2>. QED BY <2>3, <2>4
<1> HIDE DEF N
<1>3. Nat \subseteq N
  BY <1>1, <1>2, Induction
<1>. QED BY <1>3 DEF N

LEMMA TallyOfPrefix ==
    ASSUME NEW T, NEW w \in [T -> Nat], NEW q \in Seq(T), NEW n \in 0 .. Len(q)
    PROVE  Tally(SubSeq(q, 1, n), w) <= Tally(q, w)
<1> DEFINE a == SubSeq(q, 1, n)
           b == SubSeq(q, n + 1, Len(q))
<1>1. a \in Seq(T) /\ b \in Seq(T) /\ q = a \o b
  <2>1. /\ a \in Seq(T) /\ Len(a) = n /\ \A k \in 1 .. n : a[k] = q[k]
        /\ Len(q) \in Nat /\ n \in Nat
    OBVIOUS
  <2>2. b \in Seq(T) /\ Len(b) = Len(q) - n /\ \A k \in 1 .. Len(q) - n : b[k] = q[n + k]
    <3>1. CASE n = Len(q)
      <4>1. b = <<>>
        BY <2>1, <3>1
      <4>. QED BY <2>1, <3>1, <4>1
    <3>2. CASE n < Len(q)
      <4>1. n + 1 \in 1 .. Len(q) + 1 /\ Len(q) \in n .. Len(q)
        BY <2>1, <3>2
      <4>2. /\ n + 1 \in Int /\ Len(q) \in Int /\ \A i \in n + 1 .. Len(q) : q[i] \in T
        BY <2>1
      <4>3. /\ b \in Seq(T) /\ Len(b) = (IF n + 1 <= Len(q) THEN Len(q) - (n + 1) + 1 ELSE 0)
            /\ \A i \in 1 .. Len(q) - (n + 1) + 1 : b[i] = q[(n + 1) + i - 1]
        BY <4>2, SubSeqProperties
      <4> HIDE DEF b
      <4>4. Len(b) = Len(q) - n /\ \A k \in 1 .. Len(q) - n : k \in 1 .. Len(q) - (n + 1) + 1 /\ (n + 1) + k - 1 = n + k
        BY <2>1, <3>2, <4>3
      <4>. QED BY <4>3, <4>4
    <3>. QED BY <2>1, <3>1, <3>2
  <2> HIDE DEF a, b
  <2>3. a \o b \in Seq(T) /\ Len(a \o b) = Len(q)
        /\ \A k \in 1 .. Len(q) : (a \o b)[k] = IF k <= n THEN a[k] ELSE b[k - n]
    <3>1. /\ a \o b \in Seq(T) /\ Len(a \o b) = Len(a) + Len(b)
          /\ \A k \in 1 .. Len(a) + Len(b) : (a \o b)[k] = IF k <= Len(a) THEN a[k] ELSE b[k - Len(a)]
      BY <2>1, <2>2, ConcatProperties
    <3>2. Len(a) = n /\ Len(a) + Len(b) = Len(q)
      BY <2>1, <2>2
    <3>. QED BY <3>1, <3>2
  <2>4. ASSUME NEW k \in 1 .. Len(q) PROVE (a \o b)[k] = q[k]
    <3>1. CASE k <= n
      BY <2>1, <2>3, <3>1
    <3>2. CASE ~(k <= n)
      <4>1. k - n \in 1 .. Len(q) - n /\ n + (k - n) = k
        BY <2>1, <3>2
      <4>2. b[k - n] = q[n + (k - n)]
        BY <2>2, <4>1
      <4>. QED BY <2>3, <3>2, <4>1, <4>2
    <3>. QED BY <3>1, <3>2
  <2>. QED BY <2>1, <2>2, <2>3, <2>4, SeqEqual
<1> HIDE DEF a, b
<1>2. Tally(a \o b, w) = Tally(a, w) + Tally(b, w)
  <2>1. w \in [T -> Int]
    OBVIOUS
  <2>. QED BY <1>1, <2>1, TallyCat
<1>3. Tally(a, w) \in Nat /\ Tally(b, w) \in Nat
  BY <1>1, TallyOfNats
<1>4. Tally(a, w) <= Tally(q, w)
  BY <1>1, <1>2, <1>3
<1>. QED BY <1>4 DEF a

-----------------------------------------------------------------------------
\* What is before what, exactly.
LEMMA BeforeCat ==
    ASSUME NEW T, NEW q \in Seq(T), NEW r \in Seq(T)
    PROVE  Before(q \o r) = Before(q) \cup Before(r) \cup (Range(q) \X Range(r))
<1> DEFINE s == q \o r
<1>1. /\ s \in Seq(T) /\ Len(s) = Len(q) + Len(r) /\ Len(q) \in Nat /\ Len(r) \in Nat
      /\ \A n \in 1 .. Len(s) : s[n] = IF n <= Len(q) THEN q[n] ELSE r[n - Len(q)]
  BY ConcatProperties
<1>2. Before(s) \subseteq Before(q) \cup Before(r) \cup (Range(q) \X Range(r))
  BY QueueCat
<1> HIDE DEF s
<1>3. \A n \in 1 .. Len(q) : n \in 1 .. Len(s) /\ s[n] = q[n]
  BY <1>1
<1>4. \A n \in 1 .. Len(r) : n + Len(q) \in 1 .. Len(s) /\ s[n + Len(q)] = r[n]
  BY <1>1
<1>5. ASSUME NEW p \in Before(q) PROVE p \in Before(s)
  <2>1. PICK n \in 1 .. Len(q), k \in 1 .. Len(q) : n < k /\ p = <<q[n], q[k]>>
    BY BeforeIs
  <2>. QED BY <1>1, <1>3, <2>1, BeforeIs
<1>6. ASSUME NEW p \in Before(r) PROVE p \in Before(s)
  <2>1. PICK n \in 1 .. Len(r), k \in 1 .. Len(r) : n < k /\ p = <<r[n], r[k]>>
    BY BeforeIs
  <2>2. n + Len(q) < k + Len(q)
    BY <1>1, <2>1
  <2>. QED BY <1>1, <1>4, <2>1, <2>2, BeforeIs
<1>7. ASSUME NEW a \in Range(q), NEW b \in Range(r) PROVE <<a, b>> \in Before(s)
  <2>1. PICK n \in 1 .. Len(q), k \in 1 .. Len(r) : a = q[n] /\ b = r[k]
    BY RangeIs
  <2>2. n < k + Len(q)
    BY <1>1
  <2>. QED BY <1>1, <1>3, <1>4, <2>1, <2>2, BeforeIs
<1>. QED BY <1>2, <1>5, <1>6, <1>7 DEF s

LEMMA BeforeTail ==
    ASSUME NEW T, NEW q \in Seq(T), q # <<>>
    PROVE  Before(q) = Before(Tail(q)) \cup ({Head(q)} \X Range(Tail(q)))
<1> DEFINE h == <<Head(q)>>
           t == Tail(q)
<1>1. Head(q) \in T /\ h \in Seq(T) /\ t \in Seq(T) /\ q = h \o t
  OBVIOUS
<1>2. Range(h) = {Head(q)} /\ Before(h) = {}
  BY <1>1, QueueOfOne
<1> HIDE DEF h, t
<1>3. Before(q) = Before(h) \cup Before(t) \cup (Range(h) \X Range(t))
  BY <1>1, BeforeCat
<1>. QED BY <1>2, <1>3 DEF t

\* What is before a message that is in the queue once and was not cut off.
LEMMA BeforeCut ==
    ASSUME NEW T, NEW q \in Seq(T), NEW n \in 0 .. Len(q), NEW a, NEW b \in Range(SubSeq(q, 1, n)),
           <<a, b>> \in Before(q), <<b, b>> \notin Before(q)
    PROVE  <<a, b>> \in Before(SubSeq(q, 1, n))
<1> DEFINE s == SubSeq(q, 1, n)
<1>1. s \in Seq(T) /\ Len(s) = n /\ \A k \in 1 .. n : s[k] = q[k] /\ k \in 1 .. Len(q)
  OBVIOUS
<1>6. b \in Range(s)
  OBVIOUS
<1> HIDE DEF s
<1>2. PICK j \in 1 .. n : b = q[j]
  BY <1>1, <1>6, RangeIs
<1>3. PICK i \in 1 .. Len(q), k \in 1 .. Len(q) : i < k /\ a = q[i] /\ b = q[k]
  BY BeforeIs
<1>4. j \in 1 .. Len(q) /\ ~(j < k) /\ ~(k < j)
  BY <1>1, <1>2, <1>3, BeforeIs
<1>5. j = k /\ i \in 1 .. n
  BY <1>2, <1>3, <1>4
<1>7. a = s[i] /\ b = s[j] /\ i \in 1 .. Len(s) /\ j \in 1 .. Len(s) /\ i < j
  BY <1>1, <1>2, <1>3, <1>5
<1>8. <<a, b>> \in Before(s)
  BY <1>1, <1>7, BeforeIs
<1>. QED BY <1>8 DEF s

=============================================================================
