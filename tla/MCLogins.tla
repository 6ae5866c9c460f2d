------------------------------- MODULE MCLogins -------------------------------
(***************************************************************************)
(* An instance of Logins for TLC: two cores, two keys, two connections.    *)
(***************************************************************************)
EXTENDS Logins

CONSTANTS a, b, e

LoginLimit == [select |-> 2, save |-> 1, leave |-> 1, crash |-> 1]
=============================================================================
