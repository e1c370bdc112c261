---------------------------- MODULE MCGameAccounts ----------------------------
(* Small instances of GameAccounts.                                         *)
EXTENDS GameAccounts, TLC
CONSTANTS c1, c2 \* connections
CONSTANTS alice, bob \* account names

Connections == Permutations(Conns)
=============================================================================
