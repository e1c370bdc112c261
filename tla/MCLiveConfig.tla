---------------------------- MODULE MCLiveConfig ----------------------------
(* LiveConfig on a small instance. *)
EXTENDS LiveConfig, TLC

CONSTANTS d1, d2, p1, u1, u2, g1, g2, c1, c2, r1, a1, a2

\* The default, and a document that differs in every scope.
MCDocuments == {Default, [cache |-> d2, gameserver |-> p1, connection |-> u2, gamesettings |-> g2]}
=============================================================================
