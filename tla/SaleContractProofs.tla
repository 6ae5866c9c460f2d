--------------------------- MODULE SaleContractProofs ---------------------------
(***************************************************************************)
(* The contract keeps what it promises, for every set of items, customers  *)
(* and prices: its type, that held items stay in the shop, and that what a *)
(* customer has bought stays the customer's.                               *)
(***************************************************************************)
EXTENDS SaleContract, TLAPS

USE DEF Chars

-----------------------------------------------------------------------------
\* The types of the contract's variables, for all constants.
THEOREM ContractTypes == ASSUME ContractConstants PROVE Contract => []ContractTypeOK
<1>1. CInit => ContractTypeOK
  <2> SUFFICES ASSUME CInit
               PROVE  ContractTypeOK
    OBVIOUS
  <2>1. place \in [Items -> Chars \cup {Shop}]
    BY DEF CInit
  <2>2. held \subseteq Items /\ purse \in [Chars -> Nat] /\ owed \in Nat
    BY DEF CInit, ContractConstants
  <2>3. over \in BOOLEAN
    BY DEF CInit
  <2>. QED BY <2>1, <2>2, <2>3 DEF ContractTypeOK
<1>2. ContractTypeOK /\ [CNext]_cvars => ContractTypeOK'
  <2> SUFFICES ASSUME ContractTypeOK, [CNext]_cvars
               PROVE  ContractTypeOK'
    OBVIOUS
  <2> USE DEF ContractConstants, ContractTypeOK
  <2>1. ASSUME NEW i \in Items, Hold(i)
        PROVE  ContractTypeOK'
    BY <2>1 DEF Hold
  <2>2. ASSUME NEW i \in Items, PutUp(i)
        PROVE  ContractTypeOK'
    BY <2>2 DEF PutUp
  <2>3. ASSUME NEW i \in Items, NEW k \in Customers, NEW price \in 0 .. purse[k],
               Sell(i, k, price)
        PROVE  ContractTypeOK'
    <3>1. purse[k] \in Nat /\ price \in Nat /\ purse[k] - price \in Nat
      OBVIOUS
    <3>2. purse' \in [Chars -> Nat] /\ owed' \in Nat
      BY <2>3, <3>1 DEF Sell
    <3>. QED BY <2>3, <3>2 DEF Sell
  <2>4. ASSUME NEW S \in SUBSET Items, Release(S)
        PROVE  ContractTypeOK'
    BY <2>4 DEF Release
  <2>5. ASSUME NEW S \in SUBSET Items, TakeBack(S)
        PROVE  ContractTypeOK'
    BY <2>5 DEF TakeBack
  <2>6. ASSUME NEW n \in 1 .. owed, Withdraw(n)
        PROVE  ContractTypeOK'
    BY <2>6 DEF Withdraw
  <2>7. CASE Deadline
    BY <2>7 DEF Deadline
  <2>8. CASE UNCHANGED cvars
    BY <2>8 DEF cvars
  <2>. QED BY <2>1, <2>2, <2>3, <2>4, <2>5, <2>6, <2>7, <2>8 DEF CNext
<1>. QED BY <1>1, <1>2, PTL DEF Contract

-----------------------------------------------------------------------------
\* What is held for a customer is in the shop: no step takes a held item out
\* except its sale, and only items of the shop are put on hold.
THEOREM HeldStaysInShop == ASSUME ContractConstants PROVE Contract => []HeldIsInShop
<1>1. CInit => HeldIsInShop
  BY DEF CInit, HeldIsInShop
<1>2. ContractTypeOK /\ HeldIsInShop /\ [CNext]_cvars => HeldIsInShop'
  <2> SUFFICES ASSUME ContractTypeOK, HeldIsInShop, [CNext]_cvars
               PROVE  HeldIsInShop'
    OBVIOUS
  <2> USE DEF ContractConstants, ContractTypeOK, HeldIsInShop
  <2>1. ASSUME NEW i \in Items, Hold(i)
        PROVE  HeldIsInShop'
    BY <2>1 DEF Hold
  <2>2. ASSUME NEW i \in Items, PutUp(i)
        PROVE  HeldIsInShop'
    BY <2>2 DEF PutUp
  <2>3. ASSUME NEW i \in Items, NEW k \in Customers, NEW price \in 0 .. purse[k],
               Sell(i, k, price)
        PROVE  HeldIsInShop'
    BY <2>3 DEF Sell
  <2>4. ASSUME NEW S \in SUBSET Items, Release(S)
        PROVE  HeldIsInShop'
    BY <2>4 DEF Release
  <2>5. ASSUME NEW S \in SUBSET Items, TakeBack(S)
        PROVE  HeldIsInShop'
    BY <2>5 DEF TakeBack
  <2>6. ASSUME NEW n \in 1 .. owed, Withdraw(n)
        PROVE  HeldIsInShop'
    BY <2>6 DEF Withdraw
  <2>7. CASE Deadline
    BY <2>7 DEF Deadline
  <2>8. CASE UNCHANGED cvars
    BY <2>8 DEF cvars
  <2>. QED BY <2>1, <2>2, <2>3, <2>4, <2>5, <2>6, <2>7, <2>8 DEF CNext
<1>3. Contract => []ContractTypeOK
  BY ContractTypes
<1>. QED BY <1>1, <1>2, <1>3, PTL DEF Contract

-----------------------------------------------------------------------------
\* A customer keeps what was bought: an item that is with a customer is not in
\* the shop, so it is neither held, nor taken back, nor sold again, and only
\* the owner puts items up.
THEOREM SalesAreFinal == ASSUME ContractConstants PROVE Contract => SoldIsFinal
<1> DEFINE Kept == \A i \in Items : place[i] \in Customers => place'[i] = place[i]
<1>1. ContractTypeOK /\ HeldIsInShop /\ [CNext]_cvars => [Kept]_cvars
  <2> SUFFICES ASSUME ContractTypeOK, HeldIsInShop, CNext
               PROVE  Kept
    OBVIOUS
  <2> USE DEF ContractConstants, ContractTypeOK
  <2>1. ASSUME NEW i \in Items, PutUp(i)
        PROVE  Kept
    BY <2>1 DEF PutUp
  <2>2. ASSUME NEW i \in Items, NEW k \in Customers, NEW price \in 0 .. purse[k],
               Sell(i, k, price)
        PROVE  Kept
    <3>1. place[i] \notin Customers
      BY <2>2 DEF Sell, HeldIsInShop
    <3>. QED BY <2>2, <3>1 DEF Sell
  <2>3. ASSUME NEW S \in SUBSET Items, TakeBack(S)
        PROVE  Kept
    BY <2>3 DEF TakeBack
  <2>4. ASSUME UNCHANGED place
        PROVE  Kept
    BY <2>4
  <2>. QED BY <2>1, <2>2, <2>3, <2>4 DEF CNext, Hold, Release, Withdraw, Deadline
<1>2. Contract => []ContractTypeOK
  BY ContractTypes
<1>3. Contract => []HeldIsInShop
  BY HeldStaysInShop
<1>. QED BY <1>1, <1>2, <1>3, PTL DEF Contract, SoldIsFinal
=============================================================================
