------------------------------- MODULE Safebox -------------------------------
(***************************************************************************)
(* The safebox of a character: the DB process is asked for it, and opens   *)
(* it or not when its answer comes back.  By then another window may be    *)
(* open.  An answer is out for a character in opening and not in box.      *)
(***************************************************************************)
EXTENDS Inventory

Asked == {c \in on : c \in opening /\ c \notin box}

\* One request at a time, none within ten seconds of the last one or of closing.
ReqSafeboxLoad(c) ==
    /\ c \in on \ (box \cup recent \cup opening) /\ Spend("window")
    /\ opening' = opening \cup {c} /\ recent' = recent \cup {c}
    /\ UNCHANGED <<on, trade, box, shop, stand, list, cube, seen, made>>
    /\ UNCHANGED things /\ UNCHANGED money

\* The ten seconds are over.  An exchange waits for g_nPortalLimitTime, which is
\* configured and by default longer: the model lets it start as early.
LimitOver(c) ==
    /\ c \in recent /\ recent' = recent \ {c}
    /\ UNCHANGED <<on, trade, box, opening, shop, stand, list, cube, seen, made, budget>>
    /\ UNCHANGED things /\ UNCHANGED money

\* CInputDB::SafeboxLoad looks again at the other windows.
\* Mutant: it opens the safebox whatever they are.
MutMayOpen(c) == TRUE
MayOpen(c) == shop[c] = NoShop /\ trade[c] = NoTrade /\ c \notin stand /\ c \notin cube

SafeboxLoad(c) ==
    /\ c \in Asked
    /\ IF MayOpen(c) THEN box' = box \cup {c} /\ UNCHANGED opening
                     ELSE opening' = opening \ {c} /\ UNCHANGED box
    /\ UNCHANGED <<on, trade, recent, shop, stand, list, cube, seen, made, budget>>
    /\ UNCHANGED things /\ UNCHANGED money

SafeboxWrongPassword(c) ==
    /\ c \in Asked /\ opening' = opening \ {c}
    /\ UNCHANGED <<on, trade, box, recent, shop, stand, list, cube, seen, made, budget>>
    /\ UNCHANGED things /\ UNCHANGED money

\* What CHARACTER::CloseSafebox does to these; it also saves the character.
Shut(c) ==
    /\ box' = box \ {c} /\ recent' = IF c \in box THEN recent \cup {c} ELSE recent
    /\ opening' = IF c \in box THEN opening \ {c} ELSE opening
    /\ delayed' = IF c \in box THEN delayed \cup {c} ELSE delayed

CloseSafebox(c) ==
    /\ c \in box /\ Shut(c)
    /\ UNCHANGED <<on, gold, row, coins, burnt, till, trade, shop, stand, list, cube, seen, made, budget>>
    /\ UNCHANGED things

\* Items go in whether they are offered or not: no exchange is open beside a safebox.
SafeboxCheckin(c, i) ==
    /\ CanHandleItem(c) /\ c \in box /\ i \in bag[c] /\ Spend("window")
    /\ bag' = [bag EXCEPT ![c] = @ \ {i}] /\ store' = [store EXCEPT ![c] = @ \cup {i}]
    /\ UNCHANGED <<on, ground, lost, count, exchanging, made>> /\ UNCHANGED money /\ UNCHANGED windows

SafeboxCheckout(c, i) ==
    /\ CanHandleItem(c) /\ c \in box /\ i \in store[c] /\ HasCell(c) /\ Spend("window")
    /\ bag' = [bag EXCEPT ![c] = @ \cup {i}] /\ store' = [store EXCEPT ![c] = @ \ {i}]
    /\ UNCHANGED <<on, ground, lost, count, exchanging, made>> /\ UNCHANGED money /\ UNCHANGED windows

\* CSafebox::MoveItem onto another stack.  n = 0 stands for all pieces.  The stack
\* that is moved leaves the safebox even when the other one is too full for all of
\* it: its pieces left over are destroyed at the next save.
SafeboxItemMove(c, i, j, n) ==
    LET m == Least(StackMax - count[j], IF n = 0 THEN count[i] ELSE n)
    IN /\ CanHandleItem(c) /\ c \in box /\ {i, j} \subseteq store[c] /\ Alike(i, j) /\ n <= count[i]
       /\ Spend("window")
       /\ count' = [count EXCEPT ![i] = 0, ![j] = @ + m] /\ made' = made - (count[i] - m)
       /\ store' = [store EXCEPT ![c] = @ \ {i}]
       /\ UNCHANGED <<on, bag, ground, lost, exchanging>> /\ UNCHANGED money /\ UNCHANGED windows

SafeboxStep ==
    \E c \in Chars :
       \/ ReqSafeboxLoad(c) \/ LimitOver(c) \/ SafeboxLoad(c) \/ SafeboxWrongPassword(c)
       \/ CloseSafebox(c)
       \/ \E i \in bag[c] : SafeboxCheckin(c, i)
       \/ \E i \in store[c] : \/ SafeboxCheckout(c, i)
                             \/ \E j \in store[c], n \in 0 .. count[i] : SafeboxItemMove(c, i, j, n)
=============================================================================
