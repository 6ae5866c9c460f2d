------------------------------ MODULE SaleContract ------------------------------
(***************************************************************************)
(* What a private shop promises, without processes, packets or sessions.   *)
(* An item belongs to the shop or to a character; the owner is owed what   *)
(* customers have paid.  A sale is one step: the item goes to the customer *)
(* it is held for, the gold leaves the customer's purse, and the owner is  *)
(* owed it.  What is held for a customer is not taken out of the shop, and *)
(* nothing is put on hold after the deadline.                              *)
(***************************************************************************)
EXTENDS Naturals, FiniteSets

CONSTANTS Items, Owner, Customers, Shop, OnSale, Purse

Chars == Customers \cup {Owner}

\* The constants have their types, nobody is his own customer.
ContractConstants ==
    /\ Owner \notin Customers /\ Shop \notin Chars
    /\ OnSale \subseteq Items /\ Purse \in [Chars -> Nat]

VARIABLES
    place,  \* where every item is: Shop or a character
    held,   \* items of the shop that are held for a customer
    purse,  \* gold of every character
    owed,   \* what customers have paid and the owner has not withdrawn
    over    \* the deadline has passed

cvars == <<place, held, purse, owed, over>>

CInit == /\ place = [i \in Items |-> IF i \in OnSale THEN Shop ELSE Owner]
         /\ held = {} /\ purse = Purse /\ owed = 0 /\ over = FALSE

Hold(i) == /\ ~over /\ place[i] = Shop /\ i \notin held
           /\ held' = held \cup {i} /\ UNCHANGED <<place, purse, owed, over>>

Release(S) == /\ S # {} /\ S \subseteq held
              /\ held' = held \ S /\ UNCHANGED <<place, purse, owed, over>>

Sell(i, k, price) ==
    /\ i \in held /\ price <= purse[k]
    /\ held' = held \ {i} /\ place' = [place EXCEPT ![i] = k]
    /\ purse' = [purse EXCEPT ![k] = @ - price] /\ owed' = owed + price
    /\ UNCHANGED over

PutUp(i) == /\ place[i] = Owner
            /\ place' = [place EXCEPT ![i] = Shop] /\ UNCHANGED <<held, purse, owed, over>>

TakeBack(S) ==
    /\ S # {} /\ S \cap held = {} /\ \A i \in S : place[i] = Shop
    /\ place' = [i \in Items |-> IF i \in S THEN Owner ELSE place[i]]
    /\ UNCHANGED <<held, purse, owed, over>>

Withdraw(n) == /\ n \in 1 .. owed
               /\ owed' = owed - n /\ purse' = [purse EXCEPT ![Owner] = @ + n]
               /\ UNCHANGED <<place, held, over>>

Deadline == ~over /\ over' = TRUE /\ UNCHANGED <<place, held, purse, owed>>

CNext ==
    \/ \E i \in Items : \/ Hold(i) \/ PutUp(i)
                        \/ \E k \in Customers : \E price \in 0 .. purse[k] : Sell(i, k, price)
    \/ \E S \in SUBSET Items : Release(S) \/ TakeBack(S)
    \/ \E n \in 1 .. owed : Withdraw(n)
    \/ Deadline

Contract == CInit /\ [][CNext]_cvars

-----------------------------------------------------------------------------
ContractTypeOK ==
    /\ place \in [Items -> Chars \cup {Shop}] /\ held \subseteq Items
    /\ purse \in [Chars -> Nat] /\ owed \in Nat /\ over \in BOOLEAN

\* What is held for a customer is in the shop until the customer has it.
HeldIsInShop == \A i \in held : place[i] = Shop

\* A customer keeps what was bought: no later check-out, hand-back, release or
\* sale takes it away.
SoldIsFinal == [][\A i \in Items : place[i] \in Customers => place'[i] = place[i]]_cvars
=============================================================================
