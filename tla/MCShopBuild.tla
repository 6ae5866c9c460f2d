----------------------------- MODULE MCShopBuild -----------------------------
(***************************************************************************)
(* An instance of ShopBuild for TLC: two cores, two items, two bundles.    *)
(***************************************************************************)
EXTENDS ShopBuild

CONSTANTS a, b, sword, bow

BuildLimit == [login |-> 2, build |-> 2, change |-> 1, give |-> 1, crash |-> 1]
=============================================================================
