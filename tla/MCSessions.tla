----------------------------- MODULE MCSessions -----------------------------
(* Sessions on a small instance. *)
EXTENDS Sessions, TLC

CONSTANTS b1, b2, p1, p2, l1, own

\* Two browsers of which one asks the program itself at last, and the other has its
\* second request passed on by a client of its own.
MCTurns == b1 :> <<p1, own>> @@ b2 :> <<p2, l1>>

=============================================================================
