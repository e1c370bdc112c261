-------------------------- MODULE MCRelationships --------------------------
(* Relationships on a small instance. *)
EXTENDS Relationships, TLC

CONSTANTS m1, m2, m3

Alone == [own |-> Free, lov |-> [x \in Members |-> NoBond]]
Engaged(x) == [Alone EXCEPT !.lov[x] = [stage |-> 3, start |-> 0, offer |-> FALSE]]
OnTrial(x) == [Alone EXCEPT !.own = [owner |-> x, stage |-> 0, start |-> 0, offer |-> Nobody]]

\* All free; or m1 and m2 are engaged; or m3 is on trial with one of them.
AllFree == [m \in Members |-> Alone]
MCBegin == {AllFree, [AllFree EXCEPT ![m1] = Engaged(m2), ![m2] = Engaged(m1)]}
               \cup {[AllFree EXCEPT ![m3] = OnTrial(x)] : x \in {m1, m2}}

\* Nobody is on a black list: all that is offered may be accepted.
MCBlack == [m \in Members |-> {}]

\* m1 and m2 are alike, m3 alone has the extreme difficulty.
Symm == Permutations({m1, m2})
=============================================================================
