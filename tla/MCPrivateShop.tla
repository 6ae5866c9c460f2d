----------------------------- MODULE MCPrivateShop -----------------------------
(***************************************************************************)
(* Instances of PrivateShop for TLC: two cores; the shop stands on c1, the *)
(* owner may log on at either; ann plays on the other core, bob on the     *)
(* host.  Each configuration chooses the events it allows by its Limit.    *)
(***************************************************************************)
EXTENDS PrivateShop

CONSTANTS c1, c2, olga, ann, bob, sword, shield, ring

MCHome == [k \in Customers |-> IF k = ann THEN c2 ELSE c1]
OneItem == [p \in Positions |-> IF p = 1 THEN sword ELSE NoItem]
TwoItems == [p \in Positions |-> IF p = 1 THEN sword ELSE IF p = 2 THEN shield ELSE NoItem]
Coins(n, m) == [k \in Chars |-> IF k = Owner THEN n ELSE m]
Rich == Coins(0, 3)
Poor == Coins(0, 1)

Allow(f) == [k \in Kinds |-> IF k \in DOMAIN f THEN f[k] ELSE 0]
\* Purchases racing each other, refusals, timeouts.
SaleLimit == Allow([buy |-> 2, leave |-> 1, cancel |-> 1])
\* The owner logs out and in on any core while the shop sells, and withdraws.
RelogLimit == Allow([buy |-> 2, withdraw |-> 2, login |-> 2])
\* The owner changes a price, moves an item, adds one and reopens the shop while
\* a customer tries to buy.
EditLimit == Allow([buy |-> 1, modify |-> 2, price |-> 1, move |-> 1, checkin |-> 1, login |-> 1,
                    edits |-> 1])
\* The deadline passes, and an item's lifetime ends, while the owner takes stock
\* and gold out.
ExpiryLimit == Allow([buy |-> 1, itemTimeout |-> 1, deadline |-> 1, checkout |-> 2, withdraw |-> 1, login |-> 1,
                      modify |-> 1, cancel |-> 1, edits |-> 2])
\* A core is lost in the middle of a purchase, a check-out or a close, or the
\* deadline passes; all the fairness.
RecoveryLimit == Allow([buy |-> 1, crash |-> 1, close |-> 1, modify |-> 1,
                        checkout |-> 1, edits |-> 1, deadline |-> 1, cancel |-> 1])
\* Where the code does not keep what the deployment notes say.
ReopenLimit == Allow([buy |-> 1, modify |-> 2, checkout |-> 1, edits |-> 1])
CloseRaceLimit == Allow([buy |-> 1, close |-> 1])
=============================================================================
