---------------------------- MODULE MCChatRooms ----------------------------
(* ChatRooms on a small instance. *)
EXTENDS ChatRooms

CONSTANTS m1, m2

MCUpper(n) == IF n = "den" THEN "DEN" ELSE n

\* m1 lets only its whitelist, with m2, change its items; m2 whoever is as dominant.
MCPrefs ==
    [m \in Members |->
        IF m = m1 THEN [perm |-> 3, owner |-> NoMember, lovers |-> {}, black |-> {},
                        white |-> {m2}, dominant |-> 0]
                  ELSE [perm |-> 2, owner |-> NoMember, lovers |-> {}, black |-> {},
                        white |-> {}, dominant |-> 20]]

MCOffers ==
    {[name |-> "den", admin |-> {m1}, ban |-> {}, white |-> {}, locked |-> FALSE, limit |-> 2],
     [name |-> "DEN", admin |-> {m1}, ban |-> {m2}, white |-> {}, locked |-> FALSE, limit |-> 2],
     [name |-> "HALL", admin |-> {m1}, ban |-> {}, white |-> {}, locked |-> TRUE, limit |-> 2]}

MCSymmetry == Permutations(Conns) \cup Permutations(Rooms) \cup Permutations(Sessions)
=============================================================================
