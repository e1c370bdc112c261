----------------------------- MODULE Subsequences -----------------------------
(* What std::remove_if and erase leave of a vector, as a recursive function. *)
EXTENDS Naturals, Sequences

\* The elements of q that are not in S, in the order of q.
Without(q, S) ==
    LET rest[n \in 0 .. Len(q)] ==
            IF n = 0 THEN <<>>
            ELSE IF q[n] \in S THEN rest[n - 1] ELSE Append(rest[n - 1], q[n])
    IN  rest[Len(q)]
=============================================================================
