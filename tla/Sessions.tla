------------------------------ MODULE Sessions ------------------------------
(***************************************************************************)
(* A browser's keep-alive connection (src/src/server/session.cpp), whose   *)
(* requests are answered by the program itself or passed upstream          *)
(* (Provider::proxy_pass; serve_direct_remote of server/remote_proxy.cpp), *)
(* with the HTTP client they use, which is shared or of their own.         *)
(*                                                                         *)
(* A session reads a request, runs its handler, and ends the response if   *)
(* the handler did not.  What is passed on is written as it comes: once a  *)
(* head is out, a failure can no longer be answered.                       *)
(*                                                                         *)
(* A browser asks again when it has the whole answer, as the framing of    *)
(* the answer tells it.  It may be gone at any time, or stop reading:      *)
(* writes fail from then on.  All requests keep the connection alive (one  *)
(* that does not ends as an idle one does).  Upgrades, which take the      *)
(* connection over, are left out.                                          *)
(***************************************************************************)
EXTENDS HttpClient, SequencesExt

CONSTANTS Browsers,
          Turns,     \* per browser: its requests, in order; those in Fetches are passed on
          Requests

\* A request is each time one of its own.
ASSUME SessionsAssumption ==
    /\ Turns \in [Browsers -> Seq(Requests)]
    /\ \A b, c \in Browsers : \A i \in DOMAIN Turns[b], j \in DOMAIN Turns[c] :
            Turns[b][i] = Turns[c][j] => b = c /\ i = j
    /\ Fetches \subseteq Requests
    /\ None \notin {"length", "chunked"}

VARIABLES
    at,         \* per session: "reading", "handling", "ending", "closed"
    turn,       \* per session: how many requests it has read
    writer,     \* per session: its BeastResponseWriter's header_sent_ and finished_,
                \* and the framing of the header sent, or None
    closing,    \* per session: close_connection
    gone,       \* per browser: writes to it fail
    stream      \* per browser: what has been written to it

session == <<at, turn, writer, closing, gone, stream>>
all == <<vars, session>>

Request(b) == Turns[b][turn[b]]
NewWriter == [header |-> FALSE, finished |-> FALSE, framing |-> None]

\* A part of the answer to a request: of what is passed on, of the request that
\* upstream answered with it.
Part(r, part, framing) == [of |-> r, part |-> part, framing |-> framing]

\* By the framing, an answer is whole: with a length after so many bytes, and
\* chunked by its last chunk.
Whole(answer) ==
    /\ answer # <<>>
    /\ LET last == Last(answer)
       IN last.part \in {"full", "end"} \/ (last.part = "body" /\ last.framing = "length")

\* The answer to a request: from its first part on the connection to its last.
Answer(b, r) ==
    LET parts == {i \in DOMAIN stream[b] : stream[b][i].of = r}
    IN  IF parts = {} THEN <<>> ELSE SubSeq(stream[b], Min(parts), Max(parts))

SInit ==
    /\ Init
    /\ at = [b \in Browsers |-> "reading"]
    /\ turn = [b \in Browsers |-> 0]
    /\ writer = [b \in Browsers |-> NewWriter]
    /\ closing = [b \in Browsers |-> FALSE]
    /\ gone = [b \in Browsers |-> FALSE]
    /\ stream = [b \in Browsers |-> <<>>]

Enter(b, a) == at' = [at EXCEPT ![b] = a]

\* A write, which throws if the browser is gone.
Written(b, parts) == stream' = [stream EXCEPT ![b] = IF gone[b] THEN @ ELSE @ \o parts]

-----------------------------------------------------------------------------
(* The session                                                              *)

\* async_read completes, and the handler is called with a new writer.
Reads(b) ==
    /\ at[b] = "reading" /\ ~gone[b] /\ turn[b] < Len(Turns[b])
    /\ turn[b] > 0 => Whole(Answer(b, Request(b)))
    /\ turn' = [turn EXCEPT ![b] = @ + 1]
    /\ writer' = [writer EXCEPT ![b] = NewWriter]
    /\ Enter(b, "handling")
    /\ UNCHANGED <<closing, gone, stream, vars>>

\* async_read ends in an error: the browser's end of it, or the idle timeout.
Idles(b) ==
    /\ at[b] = "reading"
    /\ Enter(b, "closed")
    /\ UNCHANGED <<turn, writer, closing, gone, stream, vars>>

\* What finish() still has to write; nothing if no header was sent.
LastChunk(b) ==
    IF writer[b].framing = "chunked" THEN <<Part(Request(b), "end", "chunked")>> ELSE <<>>

\* finish().  Where it has nothing to write it may return though the browser is
\* gone, and the next read fails; it is taken to throw.
Finishes(b) ==
    /\ Written(b, LastChunk(b))
    /\ writer' = [writer EXCEPT ![b].finished = TRUE]

\* The handler has returned or thrown: what it left unfinished is finished, and
\* the connection goes on or is closed.
EndsResponse(b) ==
    /\ at[b] = "ending"
    /\ IF writer[b].finished THEN UNCHANGED <<writer, stream>> ELSE Finishes(b)
    /\ LET fails == ~writer[b].finished /\ writer[b].framing # None /\ gone[b]
       IN Enter(b, IF closing[b] \/ fails THEN "closed" ELSE "reading")
    /\ UNCHANGED <<turn, closing, gone, vars>>

-----------------------------------------------------------------------------
(* Handlers                                                                 *)

\* write_full; the flags are set before the write that may throw, and then the
\* handler fails.
WritesFull(b) ==
    /\ Written(b, <<Part(Request(b), "full", "length")>>)
    /\ writer' = [writer EXCEPT ![b].header = TRUE, ![b].finished = TRUE]
    /\ closing' = [closing EXCEPT ![b] = @ \/ gone[b]]

\* An answer of the program's own.
Answers(b) ==
    /\ at[b] = "handling" /\ Request(b) \notin Fetches
    /\ WritesFull(b)
    /\ Enter(b, "ending")
    /\ UNCHANGED <<turn, gone, vars>>

\* Such a handler throws: 500, and the connection is closed.
HandlerFails(b) ==
    /\ at[b] = "handling" /\ Request(b) \notin Fetches
    /\ Written(b, <<Part(Request(b), "full", "length")>>)
    /\ writer' = [writer EXCEPT ![b].header = TRUE, ![b].finished = TRUE]
    /\ closing' = [closing EXCEPT ![b] = TRUE]
    /\ Enter(b, "ending")
    /\ UNCHANGED <<turn, gone, vars>>

\* The handler awaits the fetch of its request.
Passing(b, f) == at[b] = "handling" /\ turn[b] > 0 /\ f = Request(b)

\* What the fetch does before there is a head, and its failures.
Fetching(b, f) ==
    /\ Passing(b, f)
    /\ Take(f) \/ TakeNone(f) \/ Dial(f) \/ DialFails(f) \/ Write(f) \/ Fails(f)
    /\ UNCHANGED session

\* on_head: send_header, with upstream's Content-Length or chunked; if it throws,
\* so does the fetch.
PassesHead(b, f) ==
    /\ Passing(b, f)
    /\ IF gone[b] THEN HandlerThrows(f) ELSE ReadHead(f)
    /\ \E framing \in {"length", "chunked"} :
          /\ writer' = [writer EXCEPT ![b].header = TRUE, ![b].framing = framing]
          /\ Written(b, <<Part(Arriving(f).of, "head", framing)>>)
    /\ UNCHANGED <<at, turn, closing, gone>>

\* on_chunk: write_chunk, to a browser that takes it.
PassesBody(b, f) ==
    /\ Passing(b, f) /\ ~gone[b]
    /\ ReadBody(f)
    /\ Written(b, <<Part(Arriving(f).of, "body", writer[b].framing)>>)
    /\ UNCHANGED <<at, turn, writer, closing, gone>>

\* The fetch has returned: finish().
Passed(b, f) ==
    /\ Passing(b, f) /\ step[f] = "done"
    /\ Finishes(b)
    /\ closing' = [closing EXCEPT ![b] = @ \/ gone[b]]
    /\ Enter(b, "ending")
    /\ UNCHANGED <<turn, gone, vars>>

BadGateway(b) == ~writer[b].header

\* The fetch has thrown: 502 if no head is out, and the handler returns.
PassFails(b, f) ==
    /\ Passing(b, f) /\ step[f] = "threw"
    /\ IF BadGateway(b) THEN WritesFull(b) ELSE UNCHANGED <<writer, closing, stream>>
    /\ Enter(b, "ending")
    /\ UNCHANGED <<turn, gone, vars>>

Leaves(b) ==
    /\ ~gone[b] /\ at[b] # "closed"
    /\ gone' = [gone EXCEPT ![b] = TRUE]
    /\ UNCHANGED <<at, turn, writer, closing, stream, vars>>

-----------------------------------------------------------------------------

Goes(b) ==
    \/ Answers(b) \/ HandlerFails(b) \/ EndsResponse(b) \/ Idles(b)
    \/ \E f \in Fetches :
          \/ Fetching(b, f) \/ PassesHead(b, f) \/ PassesBody(b, f)
          \/ Passed(b, f) \/ PassFails(b, f)

SNext ==
    \/ Upstream /\ UNCHANGED session
    \/ \E b \in Browsers : Goes(b) \/ Reads(b) \/ Leaves(b)

SSpec == SInit /\ [][SNext]_all

\* Its handler awaits a dial: a name's resolution, a connect, the greetings of a
\* SOCKS proxy, which have no deadline in the code.
Dialling(b) == \E f \in Fetches : Passing(b, f) /\ step[f] = "dial"

\* A session goes on: sockets report what arrives, and their deadlines what does
\* not: 120 seconds for the next request.  Browsers and upstream owe nothing, and
\* a dial need not end.
FairSpec == SSpec /\ \A b \in Browsers : WF_all(~Dialling(b) /\ Goes(b))

-----------------------------------------------------------------------------
(* Properties.                                                              *)

\* What may have been written of an answer: nothing, all at once, or by its parts.
Begun(r, framing) == {<<Part(r, "head", framing)>>, <<Part(r, "head", framing), Part(r, "body", framing)>>}
AnswersTo(r) ==
    {<<>>, <<Part(r, "full", "length")>>} \cup Begun(r, "length") \cup Begun(r, "chunked")
        \cup {Append(a, Part(r, "end", "chunked")) : a \in Begun(r, "chunked")}

\* What is written on a connection is, in order, the answers to the requests
\* read from it, each at most once and of one fetch of that request: no error
\* in the middle of an answer, no head after a head, nothing after its end, and
\* nothing left over from a connection upstream that others have used.
AnswersInOrder ==
    \A b \in Browsers :
        LET s == stream[b]
        IN  /\ \A i, j \in DOMAIN s : i < j =>
                 \E m, n \in 1 .. turn[b] :
                     m <= n /\ s[i].of = Turns[b][m] /\ s[j].of = Turns[b][n]
            /\ \A n \in 1 .. turn[b] : Answer(b, Turns[b][n]) \in AnswersTo(Turns[b][n])

\* Unless its own dial hangs for good, every request read is answered whole, or its
\* connection is closed or its browser gone: no stale connection, retry or half
\* answer, and no dial of another's, holds a browser up for ever.
AnsweredOrClosed ==
    \A b \in Browsers :
        []<>~Dialling(b) =>
            (at[b] = "handling"
                ~> \/ at[b] = "closed" \/ gone[b]
                   \/ at[b] = "reading" /\ Whole(Answer(b, Request(b))))
=============================================================================
