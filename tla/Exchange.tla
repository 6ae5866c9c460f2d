------------------------------- MODULE Exchange -------------------------------
(***************************************************************************)
(* The exchange of two characters (CExchange): each has one, and each      *)
(* points to the other's.  What is offered stays in the inventory, marked; *)
(* any change of an offer withdraws both acceptances, and the second       *)
(* acceptance checks everything again and swaps.                           *)
(***************************************************************************)
EXTENDS Inventory

Offer(c) == trade[c]
With(c) == trade[c].with
NewTrade(c) == [with |-> c, accept |-> FALSE, items |-> {}, gold |-> 0]

\* The handler of exchange packets asks this before it looks at the packet.
MayTrade(c) == CanHandleItem(c) /\ c \notin recent
Trading(c) == MayTrade(c) /\ trade[c] # NoTrade

FreeToTrade(a, b) == ~OtherWindow(a) /\ ~OtherWindow(b)

ExchangeStart(a, b) ==
    /\ a # b /\ b \in on /\ MayTrade(a) /\ b \notin recent /\ FreeToTrade(a, b)
    /\ trade[a] = NoTrade /\ trade[b] = NoTrade /\ Spend("window")
    /\ trade' = [trade EXCEPT ![a] = NewTrade(b), ![b] = NewTrade(a)]
    /\ UNCHANGED <<on, box, opening, recent, shop, stand, list, cube, seen, made>>
    /\ UNCHANGED things /\ UNCHANGED money

\* Accept(false) on both sides, with c's new offer.
Changed(c, offer) ==
    /\ trade' = [trade EXCEPT ![c] = [offer EXCEPT !.accept = FALSE], ![With(c)].accept = FALSE]
    /\ seen' = [seen EXCEPT ![c] = NoTrade, ![With(c)] = NoTrade]

\* The handler lets an offer be changed until the other side has accepted it.
MayChange(c) == Trading(c) /\ ~trade[With(c)].accept

AddItem(c, i) ==
    /\ MayChange(c) /\ i \in bag[c] /\ i \notin exchanging /\ Spend("window")
    /\ Changed(c, [Offer(c) EXCEPT !.items = @ \cup {i}])
    /\ exchanging' = exchanging \cup {i}
    /\ UNCHANGED <<on, bag, store, ground, lost, count, box, opening, recent, shop, stand, list, cube, made>>
    /\ UNCHANGED money

RemoveItem(c, i) ==
    /\ MayChange(c) /\ i \in Offer(c).items /\ Spend("window")
    /\ Changed(c, [Offer(c) EXCEPT !.items = @ \ {i}])
    /\ exchanging' = exchanging \ {i}
    /\ UNCHANGED <<on, bag, store, ground, lost, count, box, opening, recent, shop, stand, list, cube, made>>
    /\ UNCHANGED money

\* Some locales let gold be offered once only; the model has the others.
AddGold(c, n) ==
    /\ MayChange(c) /\ Takes(gold[With(c)], n) /\ n \in 1 .. gold[c] /\ Spend("window")
    /\ Changed(c, [Offer(c) EXCEPT !.gold = n])
    /\ UNCHANGED <<on, box, opening, recent, shop, stand, list, cube, made>>
    /\ UNCHANGED things /\ UNCHANGED money

-----------------------------------------------------------------------------
\* Cancel: both exchanges end, and what they still point to is no longer offered.
\* Mutant: only one's own items are released.
MutReleased(c) == Offer(c).items
Released(c) == Offer(c).items \cup Offer(With(c)).items
Over(c) ==
    /\ trade' = [trade EXCEPT ![c] = NoTrade, ![With(c)] = NoTrade]
    /\ seen' = [seen EXCEPT ![c] = NoTrade, ![With(c)] = NoTrade]
    /\ exchanging' = exchanging \ Released(c)

Check(c) == gold[c] >= Offer(c).gold /\ Offer(c).items \subseteq bag[c]
CheckSpace(c) == Cardinality(bag[With(c)]) + Cardinality(Offer(c).items) <= Cells

\* Done of a, then of b: the gold of the first is there when the second pays.
AfterDone(a, b) ==
    LET g == [gold EXCEPT ![a] = @ - Offer(a).gold, ![b] = Paid(@, Offer(a).gold)]
    IN [g EXCEPT ![b] = @ - Offer(b).gold, ![a] = Paid(@, Offer(b).gold)]
Vanished(a, b) == Lost(gold[b], Offer(a).gold) + Lost(gold[a] - Offer(a).gold, Offer(b).gold)

\* Who paid is saved; who only received is not.
\* Mutant: only the character whose acceptance came last.
MutPayers(a, b) == {c \in {a} : Offer(c).gold > 0}
Payers(a, b) == {c \in {a, b} : Offer(c).gold > 0}

Done(a, b) ==
    /\ bag' = [bag EXCEPT ![a] = (@ \ Offer(a).items) \cup Offer(b).items,
                          ![b] = (@ \ Offer(b).items) \cup Offer(a).items]
    /\ gold' = AfterDone(a, b) /\ burnt' = burnt + Vanished(a, b) /\ Save(Payers(a, b))

\* The two offers as one side sees them: what it would get, in pieces, and give.
Sight(c) ==
    LET o == Offer(With(c))
    IN [get |-> [i \in o.items |-> count[i]], receive |-> o.gold,
        give |-> Offer(c).items, pay |-> Offer(c).gold]

\* Accept(true).  linked: the connection to the DB process is there.
FirstAccept(c) ==
    /\ Trading(c) /\ ~Offer(c).accept /\ ~trade[With(c)].accept /\ Spend("window")
    /\ trade' = [trade EXCEPT ![c].accept = TRUE]
    /\ seen' = [seen EXCEPT ![c] = Sight(c)]
    /\ UNCHANGED <<on, box, opening, recent, shop, stand, list, cube, made>>
    /\ UNCHANGED things /\ UNCHANGED money

SecondAccept(c, linked) ==
    /\ Trading(c) /\ ~Offer(c).accept /\ trade[With(c)].accept /\ Spend("window")
    /\ IF Check(c) /\ CheckSpace(c) /\ Check(With(c)) /\ CheckSpace(With(c)) /\ linked
       THEN Done(c, With(c)) ELSE UNCHANGED <<bag, gold, burnt, delayed>>
    /\ Over(c)
    /\ UNCHANGED <<on, row, store, ground, lost, coins, count, box, opening, recent, shop, stand, list, cube,
                   till, made>>

Cancel(c) ==
    /\ Trading(c) /\ Over(c)
    /\ UNCHANGED <<on, bag, store, ground, lost, count, box, opening, recent, shop, stand, list, cube, made,
                   budget>>
    /\ UNCHANGED money

\* Walking away ends it too, and asks no guard (CHARACTER::StateMove).
WalkAway(c) ==
    /\ c \in on /\ trade[c] # NoTrade /\ Over(c) /\ Spend("item")
    /\ UNCHANGED <<on, bag, store, ground, lost, count, box, opening, recent, shop, stand, list, cube, made>>
    /\ UNCHANGED money

ExchangeStep ==
    \/ \E a, b \in Chars : ExchangeStart(a, b)
    \/ \E c \in Chars :
          \/ FirstAccept(c) \/ Cancel(c) \/ WalkAway(c)
          \/ \E linked \in BOOLEAN : SecondAccept(c, linked)
          \/ \E n \in Amounts : AddGold(c, n)
          \/ \E i \in bag[c] : AddItem(c, i)
          \/ \E i \in Items : RemoveItem(c, i)
=============================================================================
