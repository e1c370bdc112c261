------------------------------ MODULE MCLimits ------------------------------
(* Limits on a small instance. *)
EXTENDS Limits, TLC

CONSTANTS c1, c2, c3, home, other

\* Two connections from one address, and a third from it or from another.
MCHome == c1 :> home @@ c2 :> home @@ c3 :> home

\* Tight settings, and loose ones.
MCSettings == {[conns |-> 3, rate |-> 2, msgs |-> 2, perDay |-> 2, perHour |-> 2],
               [conns |-> 2, rate |-> 1, msgs |-> 1, perDay |-> 2, perHour |-> 1]}

Alike == Permutations(Sockets)
=============================================================================
