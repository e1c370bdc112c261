---------------------------- MODULE MCReverseProxy ----------------------------
(* Small instances of ReverseProxy.                                         *)
EXTENDS ReverseProxy, TLC
CONSTANTS a, b   \* bodies
CONSTANT v1     \* the version

Plain(v) == [method |-> "GET", bypass |-> FALSE, reload |-> FALSE, range |-> FALSE,
             have |-> NoContent, version |-> v]

\* A plain GET, and requests that differ in all that is asked about them.
OneOfEach ==
    {Plain(v1),
     [Plain(v1) EXCEPT !.method = "HEAD"],
     [Plain(v1) EXCEPT !.bypass = TRUE],
     [Plain(v1) EXCEPT !.range = TRUE, !.reload = TRUE, !.have = a]}
=============================================================================
