--------------------------- MODULE MCShopStorage ---------------------------
(***************************************************************************)
(* An instance of ShopStorage for TLC: two items, one shop, one of every   *)
(* event and three losses of a core: the DB process stops when both cores  *)
(* are gone, and the host can be lost before that or after the restart.    *)
(***************************************************************************)
EXTENDS ShopStorage

CONSTANTS sword, shield, host, mart, off

RestartLimit == [k \in Kinds |-> IF k = "lose" THEN 3 ELSE 1]
=============================================================================
