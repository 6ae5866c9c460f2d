------------------------------- MODULE MCTrade -------------------------------
(***************************************************************************)
(* An instance of Trade for TLC: two characters, one with a stack of two   *)
(* pieces, one with a sword that perishes, an id for one more stack.  One  *)
(* purse is a piece of gold short of GOLD_MAX.                             *)
(***************************************************************************)
EXTENDS Trade

CONSTANTS ann, bob, arrows, bolts, sword

MCKind == [i \in Items |-> IF i = sword THEN "sword" ELSE "arrow"]
MCPurse == [c \in Chars |-> IF c = ann THEN 2 ELSE 1]
MCBags == [c \in Chars |-> IF c = ann THEN {arrows} ELSE {sword}]
MCPieces == [i \in Items |-> IF i = arrows THEN 2 ELSE IF i = bolts THEN 0 ELSE 1]

\* Five steps at windows, as many as an exchange of two items takes, and two of
\* everything else.
TradeLimit == [window |-> 5, item |-> 2]
=============================================================================
