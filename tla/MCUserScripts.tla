--------------------------- MODULE MCUserScripts ---------------------------
(* Small instances of UserScripts.                                          *)
EXTENDS UserScripts, TLC

\* "1" and "1.0.1", newer by a part the other does not have.
MCVersions == {<<1>>, <<1, 0, 1>>}
MCSymmetry == Permutations(Windows) \cup Permutations(Passes)
=============================================================================
