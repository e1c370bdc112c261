----------------------------- MODULE HttpClient -----------------------------
(***************************************************************************)
(* The HTTP client with its pool of idle connections                       *)
(* (src/src/net/http_client.cpp), for one host and port.                   *)
(*                                                                         *)
(* A fetch takes an idle connection or dials one, writes its request and   *)
(* reads the response, the head and then the body, handing each on as it   *)
(* comes. One deadline covers the attempt, but not the dial before it,     *)
(* which need not end. A connection is kept when the response has been     *)
(* read to its end and upstream keeps it alive. If a connection from the   *)
(* pool fails before a head was read, a new one is dialled, once.          *)
(* fetch_plain and fetch_tls do the same on two pools.                     *)
(*                                                                         *)
(* Upstream answers requests in order with one response each (no interim   *)
(* 1xx responses), in as many pieces as it likes, of which two are told    *)
(* apart, and closes whenever it likes.  How long a connection has been    *)
(* idle is left open.                                                      *)
(***************************************************************************)
EXTENDS Integers, Sequences, FiniteSets

CONSTANTS Fetches,   \* calls of fetch, each made once
          Conns,     \* connections, used again when they are gone
          Lone,      \* the fetches that a client of their own makes, for one request
          MaxIdle,   \* kMaxIdlePerHost
          None

\* Parts of responses, and connections, of which None is none.
Pieces == [of: Fetches, attempt: 0..1, part: {"head", "body"}]
Wires == [open: BOOLEAN, asked: Seq(Pieces), sent: Seq(Pieces)]

ASSUME HttpClientAssumption ==
    /\ MaxIdle \in Nat
    /\ None \notin Conns \cup Wires
    /\ Lone \subseteq Fetches

VARIABLES
    step,       \* per fetch: "new", "dial", "write", "head", "body", "done", "threw"
    conn,       \* per fetch: its connection, or None
    reused,     \* per fetch: whether that came from the pool
    committed,  \* per fetch: whether this attempt has read a head
    attempt,    \* per fetch: 0 or 1
    got,        \* per fetch: what its head handler and sink were given
    pool,       \* idle connections
    wire        \* per connection: upstream's end, and what it has sent, or None

call == <<step, conn, reused, committed, attempt, got>>
vars == <<step, conn, reused, committed, attempt, got, pool, wire>>

\* A piece of a response: of whose request, in which attempt.
Piece(f, part) == [of |-> f, attempt |-> attempt[f], part |-> part]

NewWire == [open |-> TRUE, asked |-> <<>>, sent |-> <<>>]
Unused == {c \in Conns : wire[c] = None}

Init ==
    /\ step = [f \in Fetches |-> "new"]
    /\ conn = [f \in Fetches |-> None]
    /\ reused = [f \in Fetches |-> FALSE]
    /\ committed = [f \in Fetches |-> FALSE]
    /\ attempt = [f \in Fetches |-> 0]
    /\ got = [f \in Fetches |-> <<>>]
    /\ pool = {}
    /\ wire = [c \in Conns |-> None]

\* A fetch ends: what it has of its own is gone.
Ends(f, s) ==
    /\ step' = [step EXCEPT ![f] = s]
    /\ conn' = [conn EXCEPT ![f] = None]
    /\ reused' = [reused EXCEPT ![f] = FALSE]
    /\ committed' = [committed EXCEPT ![f] = FALSE]
    /\ attempt' = [attempt EXCEPT ![f] = 0]

Goto(f, s) == step' = [step EXCEPT ![f] = s]
Closed(C) == [c \in Conns |-> IF c \in C THEN None ELSE wire[c]]

\* pool_take: idle connections too old are dropped until one is not, or none is left.
Take(f) ==
    /\ step[f] = "new" /\ f \notin Lone
    /\ \E old \in SUBSET pool :
          /\ wire' = Closed(old)
          /\ \/ \E c \in pool \ old :
                   /\ conn' = [conn EXCEPT ![f] = c]
                   /\ reused' = [reused EXCEPT ![f] = TRUE]
                   /\ pool' = pool \ (old \cup {c})
                   /\ Goto(f, "write")
             \/ /\ old = pool
                /\ pool' = {}
                /\ Goto(f, "dial")
                /\ UNCHANGED <<conn, reused>>
    /\ UNCHANGED <<committed, attempt, got>>

\* A new client's pool is empty.
TakeNone(f) ==
    /\ step[f] = "new" /\ f \in Lone
    /\ Goto(f, "dial")
    /\ UNCHANGED <<conn, reused, committed, attempt, got, pool, wire>>

\* dial ends: the name's cached or new address, the connect or a SOCKS proxy's
\* consent, and the TLS handshake.
Dial(f) ==
    /\ step[f] = "dial" /\ Unused # {}
    /\ LET c == CHOOSE c \in Unused : TRUE
       IN  /\ conn' = [conn EXCEPT ![f] = c]
           /\ wire' = [wire EXCEPT ![c] = NewWire]
    /\ reused' = [reused EXCEPT ![f] = FALSE]
    /\ Goto(f, "write")
    /\ UNCHANGED <<committed, attempt, got, pool>>

\* What fails outside the attempt's try is thrown at once.
DialFails(f) ==
    /\ step[f] = "dial"
    /\ Ends(f, "threw")
    /\ UNCHANGED <<got, pool, wire>>

\* The request is written; what upstream no longer reads is lost.
Write(f) ==
    LET c == conn[f]
    IN /\ step[f] = "write"
       /\ committed' = [committed EXCEPT ![f] = FALSE]
       /\ wire' = IF wire[c].open
                  THEN [wire EXCEPT ![c].asked =
                           @ \o <<Piece(f, "head"), Piece(f, "body")>>]
                  ELSE wire
       /\ Goto(f, "head")
       /\ UNCHANGED <<conn, reused, attempt, got, pool>>

Arriving(f) == Head(wire[conn[f]].sent)
Arrived(f, part) == wire[conn[f]].sent # <<>> /\ Arriving(f).part = part
Receive(f) ==
    /\ wire' = [wire EXCEPT ![conn[f]].sent = Tail(@)]
    /\ got' = [got EXCEPT ![f] = Append(@, Arriving(f))]

\* The head is read and handed to on_head; from here the attempt is committed.
ReadHead(f) ==
    /\ step[f] = "head" /\ Arrived(f, "head")
    /\ Receive(f)
    /\ committed' = [committed EXCEPT ![f] = TRUE]
    /\ Goto(f, "body")
    /\ UNCHANGED <<conn, reused, attempt, pool>>

\* The body is read to its end; the connection goes into the pool if upstream
\* keeps it alive and there is room (pool_put), and is closed otherwise, or
\* with the pool of the fetch's own client.
ReadBody(f) ==
    LET c == conn[f]
    IN /\ step[f] = "body" /\ Arrived(f, "body")
       /\ got' = [got EXCEPT ![f] = Append(@, Arriving(f))]
       /\ \/ /\ Cardinality(pool) < MaxIdle /\ f \notin Lone
             /\ pool' = pool \cup {c}
             /\ wire' = [wire EXCEPT ![c].sent = Tail(@)]
          \/ /\ pool' = pool
             /\ wire' = Closed({c})
       /\ Ends(f, "done")

\* Mutants: a retry after the head, and one of a connection just dialled.
RetriesCommitted(f) == reused[f]
RetriesForever(f) == ~committed[f]
Retries(f) == reused[f] /\ ~committed[f]

\* The attempt ends in an exception: its deadline, upstream's end, an answer
\* that is none, or the handler (after the head) or the sink that throws.
Fails(f) ==
    /\ step[f] \in {"write", "head", "body"}
    /\ wire' = Closed({conn[f]})
    /\ IF Retries(f)
       THEN /\ Goto(f, "dial")
            /\ conn' = [conn EXCEPT ![f] = None]
            /\ reused' = [reused EXCEPT ![f] = FALSE]
            /\ attempt' = [attempt EXCEPT ![f] = 1]
            /\ UNCHANGED committed
       ELSE Ends(f, "threw")
    /\ UNCHANGED <<got, pool>>

HandlerThrows(f) ==
    /\ step[f] = "head" /\ Arrived(f, "head")
    /\ wire' = Closed({conn[f]})
    /\ Ends(f, "threw")
    /\ UNCHANGED <<got, pool>>

\* Upstream sends the next piece, or closes its end.
Sends(c) ==
    /\ wire[c] # None /\ wire[c].open /\ wire[c].asked # <<>>
    /\ wire' = [wire EXCEPT ![c].sent = Append(@, Head(wire[c].asked)),
                            ![c].asked = Tail(@)]
    /\ UNCHANGED <<call, pool>>

Closes(c) ==
    /\ wire[c] # None /\ wire[c].open
    /\ wire' = [wire EXCEPT ![c].open = FALSE]
    /\ UNCHANGED <<call, pool>>

FetchStep(f) ==
    \/ Take(f) \/ TakeNone(f) \/ Dial(f) \/ DialFails(f) \/ Write(f)
    \/ ReadHead(f) \/ HandlerThrows(f) \/ ReadBody(f) \/ Fails(f)

Upstream == \E c \in Conns : Sends(c) \/ Closes(c)

Next == Upstream \/ \E f \in Fetches : FetchStep(f)

Spec == Init /\ [][Next]_vars

-----------------------------------------------------------------------------
(* Properties.                                                              *)

\* Types of the client's state.
TypeOK ==
    /\ step \in [Fetches -> {"new", "dial", "write", "head", "body", "done", "threw"}]
    /\ conn \in [Fetches -> Conns \cup {None}]
    /\ reused \in [Fetches -> BOOLEAN]
    /\ committed \in [Fetches -> BOOLEAN]
    /\ attempt \in [Fetches -> 0..1]
    /\ got \in [Fetches -> Seq(Pieces)]
    /\ pool \subseteq Conns
    /\ wire \in [Conns -> Wires \cup {None}]

\* What a fetch hands on is one response, in order, of one attempt of its own
\* request, and complete if the fetch returns: across connections that others
\* have used before, stale ones, retries and answers that break off.
OwnAnswer ==
    \A f \in Fetches :
        \E n \in 0..1 :
            LET head == [of |-> f, attempt |-> n, part |-> "head"]
                body == [of |-> f, attempt |-> n, part |-> "body"]
            IN  /\ got[f] \in {<<>>, <<head>>, <<head, body>>}
                /\ step[f] = "done" => got[f] = <<head, body>>

=============================================================================
