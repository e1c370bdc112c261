---------------------------- MODULE SessionsProofs ----------------------------
(***************************************************************************)
(* What holds of the HTTP client for any number of fetches, connections    *)
(* and idle places; that the sessions use it as it is specified, so that   *)
(* what is proved of HttpClient's Spec holds of theirs; and what the       *)
(* sessions write to their browsers.                                       *)
(***************************************************************************)
EXTENDS Sessions, TLAPS, SequenceTheorems, FiniteSetTheorems, WellFoundedInduction

\* The two parts of the answer to a fetch's request, in an attempt.
HeadOf(f, n) == [of |-> f, attempt |-> n, part |-> "head"]
BodyOf(f, n) == [of |-> f, attempt |-> n, part |-> "body"]

\* Upstream owes and has sent: nothing; or this.
Has(c, sent, asked) == wire[c] # None /\ wire[c].sent = sent /\ wire[c].asked = asked
Clean(c) == Has(c, <<>>, <<>>)

\* A connection is one fetch's, or idle, and idle ones have nothing left over.
Holding ==
    /\ \A f \in Fetches : step[f] \in {"write", "head", "body"} <=> conn[f] # None
    /\ \A f, g \in Fetches : conn[f] # None /\ conn[f] = conn[g] => f = g
    /\ \A f \in Fetches : conn[f] \notin pool
    /\ \A c \in pool : Clean(c)

\* On the way to a fetch is what its attempt has not read yet, or nothing.
Coming(f) ==
    LET h == HeadOf(f, attempt[f])
        b == BodyOf(f, attempt[f])
        c == conn[f]
    IN  /\ step[f] = "write" => Clean(c)
        /\ step[f] = "head" => Clean(c) \/ Has(c, <<>>, <<h, b>>) \/ Has(c, <<h>>, <<b>>) \/ Has(c, <<h, b>>, <<>>)
        /\ step[f] = "body" => Has(c, <<>>, <<b>>) \/ Has(c, <<b>>, <<>>)

\* What a fetch has handed on.
Given(f) ==
    /\ step[f] \in {"new", "dial", "write", "head"} => got[f] = <<>>
    /\ step[f] = "body" => got[f] = <<HeadOf(f, attempt[f])>>
    /\ step[f] = "done" => \E n \in 0..1 : got[f] = <<HeadOf(f, n), BodyOf(f, n)>>
    /\ step[f] = "threw" => got[f] = <<>> \/ \E n \in 0..1 : got[f] = <<HeadOf(f, n)>>

\* From the head on, an attempt is committed.
CommittedOnHead(f) == step[f] = "body" => committed[f]

ClientInv == TypeOK /\ Holding /\ \A f \in Fetches : Coming(f) /\ Given(f) /\ CommittedOnHead(f)

-----------------------------------------------------------------------------
(* Types                                                                    *)

LEMMA PieceType ==
    ASSUME NEW f \in Fetches, NEW n \in 0..1
    PROVE  HeadOf(f, n) \in Pieces /\ BodyOf(f, n) \in Pieces
BY DEF HeadOf, BodyOf, Pieces

LEMMA Appended ==
    ASSUME NEW S, NEW x \in S, NEW y \in S
    PROVE  Append(<<x>>, y) = <<x, y>>
<1>1. <<x>> \in Seq(S) /\ Len(<<x>>) = 1
  OBVIOUS
<1>2. Append(<<x>>, y) \in Seq(S) /\ Len(Append(<<x>>, y)) = 2
  BY <1>1
<1>3. Append(<<x>>, y)[1] = x /\ Append(<<x>>, y)[2] = y
  BY <1>1
<1>4. <<x, y>> \in Seq(S) /\ Len(<<x, y>>) = 2 /\ <<x, y>>[1] = x /\ <<x, y>>[2] = y
  OBVIOUS
<1>5. \A i \in 1..2 : Append(<<x>>, y)[i] = <<x, y>>[i]
  BY <1>3, <1>4
<1> QED  BY <1>2, <1>4, <1>5, SeqEqual

LEMMA NewWireType == NewWire \in Wires /\ NewWire # None
<1>1. NewWire \in Wires
  BY DEF NewWire, Wires
<1> QED  BY <1>1, HttpClientAssumption

LEMMA EndsType ==
    ASSUME TypeOK, NEW f \in Fetches, NEW s \in {"done", "threw"}, Ends(f, s)
    PROVE  /\ step' \in [Fetches -> {"new", "dial", "write", "head", "body", "done", "threw"}]
           /\ conn' \in [Fetches -> Conns \cup {None}]
           /\ reused' \in [Fetches -> BOOLEAN] /\ committed' \in [Fetches -> BOOLEAN]
           /\ attempt' \in [Fetches -> 0..1]
BY DEF Ends, TypeOK

LEMMA TakesType ==
    ASSUME TypeOK, NEW f \in Fetches, Take(f) \/ TakeNone(f)
    PROVE  TypeOK'
<1>1. CASE TakeNone(f)
  BY <1>1 DEF TakeNone, Goto, TypeOK
<1>2. CASE Take(f)
  <2>1. \A C : Closed(C) \in [Conns -> Wires \cup {None}]
    BY DEF Closed, TypeOK
  <2>2. wire' \in [Conns -> Wires \cup {None}]
    BY <1>2, <2>1 DEF Take
  <2>3. step' \in [Fetches -> {"new", "dial", "write", "head", "body", "done", "threw"}]
    BY <1>2 DEF Take, Goto, TypeOK
  <2>4. pool' \subseteq Conns
    BY <1>2 DEF Take, TypeOK
  <2>5. conn' \in [Fetches -> Conns \cup {None}] /\ reused' \in [Fetches -> BOOLEAN]
    BY <1>2 DEF Take, TypeOK
  <2> QED  BY <1>2, <2>2, <2>3, <2>4, <2>5 DEF Take, TypeOK
<1> QED  BY <1>1, <1>2

LEMMA DialsType ==
    ASSUME TypeOK, NEW f \in Fetches, Dial(f) \/ DialFails(f)
    PROVE  TypeOK'
<1>1. CASE Dial(f)
  <2>1. (CHOOSE c \in Unused : TRUE) \in Conns
    BY <1>1 DEF Dial, Unused
  <2> QED  BY <1>1, <2>1, NewWireType DEF Dial, Goto, TypeOK
<1>2. CASE DialFails(f)
  BY <1>2, EndsType DEF DialFails, TypeOK
<1> QED  BY <1>1, <1>2

LEMMA WireType ==
    ASSUME TypeOK, NEW c \in Conns, wire[c] # None
    PROVE  /\ wire[c] \in Wires /\ wire[c].sent \in Seq(Pieces) /\ wire[c].asked \in Seq(Pieces)
           /\ \A s \in Seq(Pieces), a \in Seq(Pieces), o \in BOOLEAN :
                 [wire[c] EXCEPT !.sent = s] \in Wires /\ [wire[c] EXCEPT !.asked = a] \in Wires
                 /\ [wire[c] EXCEPT !.open = o] \in Wires
                 /\ [wire[c] EXCEPT !.sent = s, !.asked = a] \in Wires
<1>1. wire[c] \in Wires
  BY DEF TypeOK
<1> QED  BY <1>1 DEF Wires

\* A fetch that has a connection is not one that a lost connection was taken from.
LEMMA ConnType ==
    ASSUME TypeOK, Holding, NEW f \in Fetches, step[f] \in {"write", "head", "body"}
    PROVE  conn[f] \in Conns
BY DEF TypeOK, Holding

LEMMA WriteType ==
    ASSUME ClientInv, NEW f \in Fetches, Write(f)
    PROVE  TypeOK'
<1> DEFINE c == conn[f]
           asks == <<Piece(f, "head"), Piece(f, "body")>>
<1>1. TypeOK /\ c \in Conns /\ wire[c] # None /\ wire[c].asked = <<>>
  BY ConnType DEF ClientInv, Write, Coming, Clean, Has
<1>2. asks \in Seq(Pieces)
  <2>1. Piece(f, "head") \in Pieces /\ Piece(f, "body") \in Pieces
    BY <1>1 DEF Piece, Pieces, TypeOK
  <2> QED  BY <2>1
<1>3. [wire[c] EXCEPT !.asked = @ \o asks] \in Wires
  <2> HIDE DEF asks, c
  <2>1. wire[c].asked \o asks \in Seq(Pieces)
    BY <1>1, <1>2
  <2> QED  BY <1>1, <2>1, WireType
<1>4. wire' \in [Conns -> Wires \cup {None}]
  <2>1. wire' = wire \/ wire' = [wire EXCEPT ![c] = [wire[c] EXCEPT !.asked = @ \o asks]]
    BY <1>1 DEF Write, TypeOK
  <2> HIDE DEF c, asks
  <2> QED  BY <1>1, <1>3, <2>1 DEF TypeOK
<1> QED  BY <1>1, <1>4 DEF Write, Goto, TypeOK

LEMMA ReceiveType ==
    ASSUME TypeOK, NEW f \in Fetches, conn[f] \in Conns, wire[conn[f]] # None, wire[conn[f]].sent # <<>>
    PROVE  /\ Arriving(f) \in Pieces
           /\ [got EXCEPT ![f] = Append(@, Arriving(f))] \in [Fetches -> Seq(Pieces)]
           /\ [wire EXCEPT ![conn[f]].sent = Tail(@)] \in [Conns -> Wires \cup {None}]
<1> DEFINE c == conn[f]
<1>1. wire[c].sent \in Seq(Pieces)
  BY WireType
<1>2. Head(wire[c].sent) \in Pieces /\ Tail(wire[c].sent) \in Seq(Pieces)
  BY <1>1
<1>3. [wire[c] EXCEPT !.sent = Tail(wire[c].sent)] \in Wires
  BY <1>1, <1>2, WireType
<1>4. [wire EXCEPT ![c].sent = Tail(@)] = [wire EXCEPT ![c] = [wire[c] EXCEPT !.sent = Tail(wire[c].sent)]]
  OBVIOUS
<1> HIDE DEF c
<1>5. [wire EXCEPT ![c].sent = Tail(@)] \in [Conns -> Wires \cup {None}]
  BY <1>3, <1>4 DEF TypeOK, c
<1> QED  BY <1>2, <1>5 DEF Arriving, TypeOK, c

LEMMA ReadsType ==
    ASSUME ClientInv, NEW f \in Fetches, ReadHead(f) \/ ReadBody(f)
    PROVE  TypeOK'
<1>1. TypeOK /\ conn[f] \in Conns /\ wire[conn[f]] # None /\ wire[conn[f]].sent # <<>>
  BY ConnType DEF ClientInv, ReadHead, ReadBody, Arrived, Coming, Clean, Has
<1>2. CASE ReadHead(f)
  <2>1. got' \in [Fetches -> Seq(Pieces)] /\ wire' \in [Conns -> Wires \cup {None}]
    BY <1>1, <1>2, ReceiveType DEF ReadHead, Receive
  <2> QED  BY <1>1, <1>2, <2>1 DEF ReadHead, Goto, TypeOK
<1>3. CASE ReadBody(f)
  <2>1. Closed({conn[f]}) \in [Conns -> Wires \cup {None}]
    BY <1>1 DEF Closed, TypeOK
  <2>2. got' \in [Fetches -> Seq(Pieces)] /\ wire' \in [Conns -> Wires \cup {None}]
    BY <1>1, <1>3, <2>1, ReceiveType DEF ReadBody
  <2>3. pool' \subseteq Conns
    BY <1>1, <1>3 DEF ReadBody, TypeOK
  <2> QED  BY <1>1, <1>3, <2>2, <2>3, EndsType DEF ReadBody, TypeOK
<1> QED  BY <1>2, <1>3

LEMMA FailsType ==
    ASSUME TypeOK, NEW f \in Fetches, Fails(f) \/ HandlerThrows(f)
    PROVE  TypeOK'
<1>1. wire' \in [Conns -> Wires \cup {None}]
  BY DEF Fails, HandlerThrows, Closed, TypeOK
<1>2. CASE Ends(f, "threw")
  BY <1>1, <1>2, EndsType DEF Fails, HandlerThrows, TypeOK
<1>3. CASE Fails(f) /\ Retries(f)
  <2>1. /\ Goto(f, "dial") /\ conn' = [conn EXCEPT ![f] = None]
        /\ reused' = [reused EXCEPT ![f] = FALSE] /\ attempt' = [attempt EXCEPT ![f] = 1]
        /\ UNCHANGED <<committed, got, pool>>
    BY <1>3 DEF Fails
  <2> QED  BY <1>1, <2>1 DEF Goto, TypeOK
<1> QED  BY <1>2, <1>3 DEF Fails, HandlerThrows

LEMMA UpstreamType ==
    ASSUME TypeOK, NEW c \in Conns, Sends(c) \/ Closes(c)
    PROVE  TypeOK'
<1>1. wire[c] # None
  BY DEF Sends, Closes
<1>2. CASE Sends(c)
  <2> DEFINE s == Append(wire[c].sent, Head(wire[c].asked))
             a == Tail(wire[c].asked)
             w == [wire[c] EXCEPT !.sent = s, !.asked = a]
  <2>1. wire[c].sent \in Seq(Pieces) /\ wire[c].asked \in Seq(Pieces) /\ wire[c].asked # <<>>
    BY <1>1, <1>2, WireType DEF Sends
  <2>2. s \in Seq(Pieces) /\ a \in Seq(Pieces)
    BY <2>1
  <2>3. w \in Wires
    <3> HIDE DEF s, a
    <3> QED  BY <1>1, <2>2, WireType
  <2>4. wire' = [wire EXCEPT ![c] = w]
    BY <1>1, <1>2 DEF Sends, TypeOK
  <2> HIDE DEF w
  <2> QED  BY <1>2, <2>3, <2>4 DEF Sends, call, TypeOK
<1>3. CASE Closes(c)
  <2>1. [wire[c] EXCEPT !.open = FALSE] \in Wires
    BY <1>1, WireType
  <2>2. wire' = [wire EXCEPT ![c] = [wire[c] EXCEPT !.open = FALSE]]
    BY <1>3 DEF Closes, TypeOK
  <2> QED  BY <1>3, <2>1, <2>2 DEF Closes, call, TypeOK
<1> QED  BY <1>2, <1>3

-----------------------------------------------------------------------------
(* Whose connection, and what is on it                                      *)

\* A step of one fetch leaves the others alone, when their connections keep what they have.
LEMMA OthersKept ==
    ASSUME ClientInv, NEW f \in Fetches, NEW g \in Fetches, g # f,
           step'[g] = step[g], conn'[g] = conn[g], attempt'[g] = attempt[g], got'[g] = got[g],
           conn[g] # None => wire'[conn[g]] = wire[conn[g]]
    PROVE  Coming(g)' /\ Given(g)'
<1>1. Coming(g) /\ Given(g) /\ TypeOK /\ Holding
  BY DEF ClientInv
<1>2. Given(g)'
  BY <1>1 DEF Given
<1>3. CASE step[g] \in {"write", "head", "body"}
  <2>1. wire'[conn'[g]] = wire[conn[g]]
    BY <1>1, <1>3 DEF Holding
  <2>2. \A s, a : Has(conn[g], s, a)' <=> Has(conn[g], s, a)
    BY <2>1 DEF Has
  <2>3. Clean(conn[g])' <=> Clean(conn[g])
    BY <2>2 DEF Clean
  <2>4. /\ HeadOf(g, attempt[g])' = HeadOf(g, attempt[g])
        /\ BodyOf(g, attempt[g])' = BodyOf(g, attempt[g])
    BY DEF HeadOf, BodyOf
  <2> QED  BY <1>1, <1>2, <2>2, <2>3, <2>4 DEF Coming
<1>4. CASE step[g] \notin {"write", "head", "body"}
  <2>1. step'[g] \notin {"write", "head", "body"}
    BY <1>4
  <2> QED  BY <1>2, <2>1 DEF Coming
<1> QED  BY <1>2, <1>3, <1>4

\* A fetch that was at rest takes a connection that nobody has, or still has none.
LEMMA TakesKeeps ==
    ASSUME ClientInv, NEW f \in Fetches, Take(f) \/ TakeNone(f) \/ Dial(f)
    PROVE  Holding' /\ \A g \in Fetches : Coming(g)' /\ Given(g)'
<1>1. TypeOK /\ Holding /\ Coming(f) /\ Given(f) /\ step[f] \in {"new", "dial"} /\ conn[f] = None
  BY DEF ClientInv, Take, TakeNone, Dial, Holding
<1>2. UNCHANGED <<attempt, got>>
  BY DEF Take, TakeNone, Dial
<1>3. \A g \in Fetches : g # f => step'[g] = step[g] /\ conn'[g] = conn[g]
  BY <1>1 DEF Take, TakeNone, Dial, Goto, TypeOK
<1>4. \A g \in Fetches : conn[g] # None => wire[conn[g]] # None
  BY DEF ClientInv, Holding, Coming, Clean, Has
<1>5. \A g \in Fetches : conn[g] # None => wire'[conn[g]] = wire[conn[g]]
  <2>1. CASE Take(f)
    BY <1>1, <2>1 DEF Take, Closed, Holding, TypeOK
  <2>2. CASE TakeNone(f)
    BY <2>2 DEF TakeNone
  <2>3. CASE Dial(f)
    <3>1. PICK c \in Unused : wire' = [wire EXCEPT ![c] = NewWire]
      BY <2>3 DEF Dial
    <3> QED  BY <1>1, <1>4, <3>1 DEF Unused, TypeOK
  <2> QED  BY <2>1, <2>2, <2>3
<1>6. \A g \in Fetches : g # f => Coming(g)' /\ Given(g)'
  BY <1>2, <1>3, <1>5, OthersKept
<1>7. \/ step'[f] = "dial" /\ conn'[f] = None
      \/ step'[f] = "write" /\ conn'[f] \in Conns /\ conn'[f] \notin pool' /\ Clean(conn[f])'
         /\ \A g \in Fetches : conn[g] # conn'[f]
  <2>1. CASE Take(f)
    <3>1. PICK old \in SUBSET pool :
              /\ wire' = Closed(old)
              /\ \/ \E c \in pool \ old : /\ conn' = [conn EXCEPT ![f] = c]
                                         /\ pool' = pool \ (old \cup {c})
                                         /\ Goto(f, "write")
                 \/ Goto(f, "dial") /\ conn' = conn
      BY <2>1 DEF Take
    <3>2. CASE Goto(f, "dial") /\ conn' = conn
      BY <1>1, <3>2 DEF Goto, TypeOK
    <3>3. ASSUME NEW c \in pool \ old, conn' = [conn EXCEPT ![f] = c],
                 pool' = pool \ (old \cup {c}), Goto(f, "write")
          PROVE  <1>7!2
      <4>1. step'[f] = "write" /\ conn'[f] = c /\ c \in Conns /\ c \notin pool'
        BY <1>1, <3>3 DEF Goto, TypeOK
      <4>2. wire'[c] = wire[c] /\ Clean(c)
        BY <1>1, <3>1, <4>1 DEF Closed, Holding
      <4>3. Clean(conn[f])'
        BY <4>1, <4>2 DEF Clean, Has
      <4>4. \A g \in Fetches : conn[g] # c
        BY <1>1 DEF Holding
      <4> QED  BY <4>1, <4>3, <4>4
    <3> QED  BY <3>1, <3>2, <3>3
  <2>2. CASE TakeNone(f)
    BY <1>1, <2>2 DEF TakeNone, Goto, TypeOK
  <2>3. CASE Dial(f)
    <3>1. PICK c \in Unused : wire' = [wire EXCEPT ![c] = NewWire] /\ conn' = [conn EXCEPT ![f] = c]
      BY <2>3 DEF Dial
    <3>2. step'[f] = "write" /\ conn'[f] = c /\ pool' = pool /\ c \in Conns /\ wire[c] = None
      BY <1>1, <2>3, <3>1 DEF Dial, Goto, TypeOK, Unused
    <3>3. c \notin pool /\ \A g \in Fetches : conn[g] # c
      BY <1>1, <1>4, <3>2, HttpClientAssumption DEF Holding, Clean, Has
    <3>4. wire'[conn'[f]] = NewWire
      BY <1>1, <3>1, <3>2 DEF TypeOK
    <3>5. Clean(conn[f])'
      BY <3>4, NewWireType DEF Clean, Has, NewWire
    <3> QED  BY <3>2, <3>3, <3>5
  <2> QED  BY <2>1, <2>2, <2>3
<1>8. \A c \in pool' : c \in pool /\ wire'[c] = wire[c]
  <2>1. CASE Take(f)
    BY <1>1, <2>1 DEF Take, Closed, TypeOK
  <2>2. CASE TakeNone(f)
    BY <2>2 DEF TakeNone
  <2>3. CASE Dial(f)
    <3>1. PICK c \in Unused : wire' = [wire EXCEPT ![c] = NewWire]
      BY <2>3 DEF Dial
    <3> QED  BY <1>1, <2>3, <3>1 DEF Dial, Unused, Holding, Clean, Has, TypeOK
  <2> QED  BY <2>1, <2>2, <2>3
<1>9. Holding'
  BY <1>1, <1>3, <1>7, <1>8, HttpClientAssumption DEF Holding, Clean, Has
<1>10. Coming(f)' /\ Given(f)'
  BY <1>1, <1>2, <1>7 DEF Coming, Given
<1> QED  BY <1>6, <1>9, <1>10

\* A fetch that lets its connection go, into the pool or not at all.
LEMMA LetsGo ==
    ASSUME ClientInv, NEW f \in Fetches, step[f] \in {"write", "head", "body"}, conn'[f] = None,
           step'[f] \in {"dial", "done", "threw"},
           \A g \in Fetches : g # f => /\ step'[g] = step[g] /\ conn'[g] = conn[g]
                                      /\ attempt'[g] = attempt[g] /\ got'[g] = got[g],
           \A c \in Conns \ {conn[f]} : wire'[c] = wire[c],
           pool' \subseteq pool \cup {conn[f]},
           conn[f] \in pool' => wire'[conn[f]] # None /\ wire'[conn[f]].sent = <<>> /\ wire'[conn[f]].asked = <<>>,
           Given(f)'
    PROVE  Holding' /\ \A g \in Fetches : Coming(g)' /\ Given(g)'
<1>1. TypeOK /\ Holding /\ conn[f] \in Conns
  BY ConnType DEF ClientInv
<1>2. \A g \in Fetches : g # f /\ conn[g] # None => conn[g] # conn[f] /\ wire'[conn[g]] = wire[conn[g]]
  BY <1>1 DEF Holding, TypeOK
<1>3. \A g \in Fetches : g # f => Coming(g)' /\ Given(g)'
  BY <1>2, OthersKept
<1>4. Coming(f)'
  BY DEF Coming
<1>5. \A c \in pool' : Clean(c)'
  <2>1. ASSUME NEW c \in pool', c # conn[f]
        PROVE  Clean(c)'
    BY <1>1, <2>1 DEF Holding, Clean, Has, TypeOK
  <2>2. ASSUME NEW c \in pool', c = conn[f]
        PROVE  Clean(c)'
    BY <2>2 DEF Clean, Has
  <2> QED  BY <2>1, <2>2
<1>6. Holding'
  <2>1. \A g \in Fetches : step'[g] \in {"write", "head", "body"} <=> conn'[g] # None
    BY <1>1 DEF Holding
  <2>2. \A g, h \in Fetches : conn'[g] # None /\ conn'[g] = conn'[h] => g = h
    BY <1>1 DEF Holding
  <2>3. pool' \subseteq Conns /\ None \notin Conns
    BY <1>1, HttpClientAssumption DEF TypeOK
  <2>4. \A g \in Fetches : conn'[g] \notin pool'
    BY <1>1, <1>2, <2>3 DEF Holding
  <2> QED  BY <1>5, <2>1, <2>2, <2>4 DEF Holding
<1> QED  BY <1>3, <1>4, <1>6

LEMMA EndsShape ==
    ASSUME TypeOK, NEW f \in Fetches, NEW s \in {"done", "threw"}, Ends(f, s)
    PROVE  /\ step'[f] = s /\ conn'[f] = None
           /\ \A g \in Fetches : g # f => /\ step'[g] = step[g] /\ conn'[g] = conn[g]
                                          /\ attempt'[g] = attempt[g]
BY DEF Ends, TypeOK

LEMMA FailsKeeps ==
    ASSUME ClientInv, NEW f \in Fetches, Fails(f) \/ HandlerThrows(f)
    PROVE  Holding' /\ \A g \in Fetches : Coming(g)' /\ Given(g)'
<1>1. TypeOK /\ Holding /\ Given(f) /\ step[f] \in {"write", "head", "body"} /\ UNCHANGED <<got, pool>>
      /\ wire' = Closed({conn[f]}) /\ attempt[f] \in 0..1
  BY DEF ClientInv, Fails, HandlerThrows, TypeOK
<1>2. /\ \A c \in Conns \ {conn[f]} : wire'[c] = wire[c]
      /\ conn[f] \notin pool' /\ pool' \subseteq pool \cup {conn[f]}
  BY <1>1 DEF Closed, Holding
<1>3. CASE Ends(f, "threw")
  <2>1. got[f] = <<>> \/ got[f] = <<HeadOf(f, attempt[f])>>
    BY <1>1 DEF Given
  <2>2. Given(f)'
    BY <1>1, <1>3, <2>1, EndsShape DEF Given, HeadOf
  <2> QED  BY <1>1, <1>2, <1>3, <2>2, EndsShape, LetsGo
<1>4. CASE Fails(f) /\ Retries(f)
  <2>1. /\ Goto(f, "dial") /\ conn' = [conn EXCEPT ![f] = None]
        /\ attempt' = [attempt EXCEPT ![f] = 1] /\ ~committed[f]
    BY <1>4 DEF Fails, Retries
  <2>2. /\ step'[f] = "dial" /\ conn'[f] = None
        /\ \A g \in Fetches : g # f => step'[g] = step[g] /\ conn'[g] = conn[g] /\ attempt'[g] = attempt[g]
    BY <1>1, <2>1 DEF Goto, TypeOK
  <2>3. step[f] # "body"
    BY <2>1 DEF ClientInv, CommittedOnHead
  <2>4. Given(f)'
    BY <1>1, <2>2, <2>3 DEF Given
  <2> QED  BY <1>1, <1>2, <2>2, <2>4, LetsGo
<1> QED  BY <1>3, <1>4 DEF Fails, HandlerThrows

LEMMA DialFailsKeeps ==
    ASSUME ClientInv, NEW f \in Fetches, DialFails(f)
    PROVE  Holding' /\ \A g \in Fetches : Coming(g)' /\ Given(g)'
<1>1. TypeOK /\ Holding /\ Given(f) /\ step[f] = "dial" /\ Ends(f, "threw") /\ UNCHANGED <<got, pool, wire>>
  BY DEF ClientInv, DialFails
<1>2. /\ step'[f] = "threw" /\ conn'[f] = None
      /\ \A g \in Fetches : g # f => step'[g] = step[g] /\ conn'[g] = conn[g] /\ attempt'[g] = attempt[g]
  BY <1>1, EndsShape
<1>3. \A g \in Fetches : g # f => Coming(g)' /\ Given(g)'
  BY <1>1, <1>2, OthersKept
<1>4. Coming(f)' /\ Given(f)'
  BY <1>1, <1>2 DEF Coming, Given
<1>5. Holding'
  <2>1. \A g \in Fetches : step'[g] \in {"write", "head", "body"} <=> conn'[g] # None
    BY <1>1, <1>2 DEF Holding
  <2>2. \A g, i \in Fetches : conn'[g] # None /\ conn'[g] = conn'[i] => g = i
    BY <1>1, <1>2 DEF Holding
  <2>3. \A g \in Fetches : conn'[g] \notin pool'
    BY <1>1, <1>2, HttpClientAssumption DEF Holding, TypeOK
  <2>4. \A c \in pool' : Clean(c)'
    BY <1>1 DEF Holding, Clean, Has
  <2> QED  BY <2>1, <2>2, <2>3, <2>4 DEF Holding
<1> QED  BY <1>3, <1>4, <1>5

\* A fetch that keeps its connection, which nobody else has.
LEMMA HoldsOn ==
    ASSUME ClientInv, NEW f \in Fetches, step[f] \in {"write", "head", "body"},
           step'[f] \in {"write", "head", "body"}, UNCHANGED <<conn, attempt, pool>>,
           \A g \in Fetches : g # f => step'[g] = step[g] /\ got'[g] = got[g],
           \A c \in Conns \ {conn[f]} : wire'[c] = wire[c],
           Coming(f)', Given(f)'
    PROVE  Holding' /\ \A g \in Fetches : Coming(g)' /\ Given(g)'
<1>1. TypeOK /\ Holding /\ conn[f] \in Conns
  BY ConnType DEF ClientInv
<1>2. \A g \in Fetches : g # f /\ conn[g] # None => wire'[conn[g]] = wire[conn[g]]
  BY <1>1 DEF Holding, TypeOK
<1>3. \A g \in Fetches : g # f => Coming(g)' /\ Given(g)'
  BY <1>2, OthersKept
<1>4. \A c \in pool' : Clean(c)'
  BY <1>1 DEF Holding, Clean, Has, TypeOK
<1>5. \A g \in Fetches : step'[g] \in {"write", "head", "body"} <=> conn'[g] # None
  BY <1>1 DEF Holding
<1>6. Holding'
  BY <1>1, <1>4, <1>5 DEF Holding
<1> QED  BY <1>3, <1>6

LEMMA WriteKeeps ==
    ASSUME ClientInv, NEW f \in Fetches, Write(f)
    PROVE  Holding' /\ \A g \in Fetches : Coming(g)' /\ Given(g)'
<1> DEFINE c == conn[f]
           h == HeadOf(f, attempt[f])
           b == BodyOf(f, attempt[f])
<1>1. /\ TypeOK /\ Given(f) /\ step[f] = "write" /\ Clean(c) /\ c \in Conns
      /\ UNCHANGED <<conn, attempt, pool, got>>
      /\ step' = [step EXCEPT ![f] = "head"]
  BY ConnType DEF ClientInv, Write, Goto, Coming
<1>2. wire[c] # None /\ wire[c] \in Wires /\ wire[c].sent = <<>> /\ wire[c].asked = <<>>
  BY <1>1, WireType DEF Clean, Has
<1>3. Piece(f, "head") = h /\ Piece(f, "body") = b
  BY DEF Piece, HeadOf, BodyOf
<1>4. \/ wire' = wire
      \/ wire' = [wire EXCEPT ![c] = [wire[c] EXCEPT !.asked = <<h, b>>]]
  <2>1. <<>> \o <<h, b>> = <<h, b>>
    OBVIOUS
  <2>2. wire' = wire \/ wire' = [wire EXCEPT ![c] = [wire[c] EXCEPT !.asked = @ \o <<h, b>>]]
    BY <1>1, <1>3 DEF Write, TypeOK
  <2> HIDE DEF c, h, b
  <2> QED  BY <1>2, <2>1, <2>2
<1>5. wire'[c] # None /\ wire'[c].sent = <<>> /\ wire'[c].asked \in {<<>>, <<h, b>>}
  <2>1. <<h, b>> \in Seq(Pieces)
    <3>1. attempt[f] \in 0..1
      BY <1>1 DEF TypeOK
    <3>2. h \in Pieces /\ b \in Pieces
      BY <3>1, PieceType
    <3> HIDE DEF h, b
    <3> QED  BY <3>2
  <2> HIDE DEF h, b
  <2>2. CASE wire' = wire
    BY <1>2, <2>2
  <2>3. CASE wire' = [wire EXCEPT ![c] = [wire[c] EXCEPT !.asked = <<h, b>>]]
    <3>1. wire'[c] = [wire[c] EXCEPT !.asked = <<h, b>>]
      BY <1>1, <2>3 DEF TypeOK
    <3>2. wire'[c].asked = <<h, b>> /\ wire'[c].sent = <<>>
      BY <1>2, <3>1 DEF Wires
    <3>3. wire'[c] \in Wires
      <4>1. [wire[c] EXCEPT !.asked = <<h, b>>] \in Wires
        BY <1>2, <2>1 DEF Wires
      <4> QED  BY <3>1, <4>1
    <3> QED  BY <3>2, <3>3, HttpClientAssumption
  <2> QED  BY <1>4, <2>2, <2>3
<1>6. step'[f] = "head" /\ \A g \in Fetches : g # f => step'[g] = step[g]
  BY <1>1 DEF TypeOK
<1>7. Coming(f)'
  BY <1>1, <1>5, <1>6 DEF Coming, Clean, Has
<1>8. Given(f)'
  BY <1>1, <1>6 DEF Given
<1>9. \A d \in Conns \ {conn[f]} : wire'[d] = wire[d]
  BY <1>1 DEF Write, TypeOK
<1> QED  BY <1>1, <1>6, <1>7, <1>8, <1>9, HoldsOn

\* What is read from a connection: its first piece.
LEMMA Reading ==
    ASSUME ClientInv, NEW f \in Fetches, NEW part \in {"head", "body"}, step[f] = part, Arrived(f, part)
    PROVE  LET h == HeadOf(f, attempt[f])
               b == BodyOf(f, attempt[f])
               c == conn[f]
           IN  /\ part = "head" => /\ Arriving(f) = h
                                   /\ \/ wire[c].sent = <<h>> /\ wire[c].asked = <<b>>
                                      \/ wire[c].sent = <<h, b>> /\ wire[c].asked = <<>>
               /\ part = "body" => Arriving(f) = b /\ wire[c].sent = <<b>> /\ wire[c].asked = <<>>
               /\ c \in Conns /\ wire[c] # None
<1>1. Coming(f) /\ conn[f] \in Conns
  BY ConnType DEF ClientInv
<1>2. wire[conn[f]].sent # <<>>
  BY DEF Arrived
<1> QED  BY <1>1, <1>2 DEF Coming, Clean, Has, Arriving

\* Taking a piece off a connection.
LEMMA Taken ==
    ASSUME TypeOK, NEW c \in Conns, wire[c] # None, NEW s \in Seq(Pieces),
           wire' = [wire EXCEPT ![c].sent = Tail(@)], Tail(wire[c].sent) = s
    PROVE  /\ wire'[c] # None /\ wire'[c].sent = s /\ wire'[c].asked = wire[c].asked
           /\ \A d \in Conns \ {c} : wire'[d] = wire[d]
<1>1. wire'[c] = [wire[c] EXCEPT !.sent = s] /\ \A d \in Conns \ {c} : wire'[d] = wire[d]
  BY DEF TypeOK
<1>2. wire[c] \in Wires /\ wire'[c] \in Wires
  BY <1>1, WireType
<1> QED  BY <1>1, <1>2, HttpClientAssumption DEF Wires

LEMMA ReadHeadKeeps ==
    ASSUME ClientInv, NEW f \in Fetches, ReadHead(f)
    PROVE  Holding' /\ \A g \in Fetches : Coming(g)' /\ Given(g)'
<1> DEFINE c == conn[f]
           h == HeadOf(f, attempt[f])
           b == BodyOf(f, attempt[f])
<1>1. /\ TypeOK /\ Given(f) /\ step[f] = "head" /\ Arrived(f, "head")
      /\ UNCHANGED <<conn, attempt, pool>>
      /\ step' = [step EXCEPT ![f] = "body"]
      /\ wire' = [wire EXCEPT ![c].sent = Tail(@)]
      /\ got' = [got EXCEPT ![f] = Append(@, Arriving(f))]
  BY DEF ClientInv, ReadHead, Receive, Goto
<1>2. /\ Arriving(f) = h /\ c \in Conns /\ wire[c] # None
      /\ \/ wire[c].sent = <<h>> /\ wire[c].asked = <<b>>
         \/ wire[c].sent = <<h, b>> /\ wire[c].asked = <<>>
  BY <1>1, Reading
<1>3. h \in Pieces /\ b \in Pieces
  BY <1>1, PieceType DEF TypeOK
<1>4. /\ wire'[c] # None
      /\ \/ wire'[c].sent = <<>> /\ wire'[c].asked = <<b>>
         \/ wire'[c].sent = <<b>> /\ wire'[c].asked = <<>>
      /\ \A d \in Conns \ {c} : wire'[d] = wire[d]
  <2> HIDE DEF c, h, b
  <2>1. CASE wire[c].sent = <<h>> /\ wire[c].asked = <<b>>
    <3>1. Tail(wire[c].sent) = <<>> /\ <<>> \in Seq(Pieces)
      BY <2>1
    <3> QED  BY <1>1, <1>2, <2>1, <3>1, Taken
  <2>2. CASE wire[c].sent = <<h, b>> /\ wire[c].asked = <<>>
    <3>1. Tail(wire[c].sent) = <<b>> /\ <<b>> \in Seq(Pieces)
      BY <1>3, <2>2
    <3> QED  BY <1>1, <1>2, <2>2, <3>1, Taken
  <2> QED  BY <1>2, <2>1, <2>2
<1>5. step'[f] = "body" /\ \A g \in Fetches : g # f => step'[g] = step[g] /\ got'[g] = got[g]
  BY <1>1 DEF TypeOK
<1>6. Coming(f)'
  BY <1>1, <1>4, <1>5 DEF Coming, Has
<1>7. got'[f] = <<h>>
  <2>1. got[f] = <<>>
    BY <1>1 DEF Given
  <2> HIDE DEF h
  <2> QED  BY <1>1, <1>2, <2>1 DEF TypeOK
<1>8. Given(f)'
  BY <1>1, <1>5, <1>7 DEF Given
<1> QED  BY <1>1, <1>4, <1>5, <1>6, <1>8, HoldsOn

LEMMA ReadBodyKeeps ==
    ASSUME ClientInv, NEW f \in Fetches, ReadBody(f)
    PROVE  Holding' /\ \A g \in Fetches : Coming(g)' /\ Given(g)'
<1> DEFINE c == conn[f]
           h == HeadOf(f, attempt[f])
           b == BodyOf(f, attempt[f])
<1>1. /\ TypeOK /\ Holding /\ Given(f) /\ step[f] = "body" /\ Arrived(f, "body") /\ Ends(f, "done")
      /\ got' = [got EXCEPT ![f] = Append(@, Arriving(f))]
      /\ \/ pool' = pool \cup {c} /\ wire' = [wire EXCEPT ![c].sent = Tail(@)]
         \/ pool' = pool /\ wire' = Closed({c})
  BY DEF ClientInv, ReadBody
<1>2. /\ Arriving(f) = b /\ c \in Conns /\ wire[c] # None
      /\ wire[c].sent = <<b>> /\ wire[c].asked = <<>>
  BY <1>1, Reading
<1>3. /\ step'[f] = "done" /\ conn'[f] = None
      /\ \A g \in Fetches : g # f => step'[g] = step[g] /\ conn'[g] = conn[g] /\ attempt'[g] = attempt[g]
  BY <1>1, EndsShape
<1>4. /\ pool' \subseteq pool \cup {c}
      /\ c \in pool' => wire'[c] # None /\ wire'[c].sent = <<>> /\ wire'[c].asked = <<>>
      /\ \A d \in Conns \ {c} : wire'[d] = wire[d]
  <2> HIDE DEF b
  <2>1. CASE wire' = [wire EXCEPT ![c].sent = Tail(@)]
    <3>1. Tail(wire[c].sent) = <<>> /\ <<>> \in Seq(Pieces)
      BY <1>2
    <3> QED  BY <1>1, <1>2, <2>1, <3>1, Taken
  <2>2. CASE pool' = pool /\ wire' = Closed({c})
    BY <1>1, <2>2 DEF Closed, Holding
  <2> QED  BY <1>1, <2>1, <2>2
<1>5. got'[f] = <<h, b>> /\ \A g \in Fetches : g # f => got'[g] = got[g]
  <2>1. got[f] = <<h>>
    BY <1>1 DEF Given
  <2>2. got'[f] = Append(got[f], b)
    BY <1>1, <1>2 DEF TypeOK
  <2>4. h \in Pieces /\ b \in Pieces
    BY <1>1, PieceType DEF TypeOK
  <2> HIDE DEF h, b
  <2>3. Append(<<h>>, b) = <<h, b>>
    BY <2>4, Appended
  <2> QED  BY <1>1, <2>1, <2>2, <2>3 DEF TypeOK
<1>6. Given(f)'
  <2>1. attempt[f] \in 0..1
    BY <1>1 DEF TypeOK
  <2> QED  BY <1>3, <1>5, <2>1 DEF Given, HeadOf, BodyOf
<1> QED  BY <1>1, <1>3, <1>4, <1>5, <1>6, LetsGo

\* What upstream does to a connection only brings on what was asked.
LEMMA UpstreamKeeps ==
    ASSUME ClientInv, NEW c \in Conns, Sends(c) \/ Closes(c)
    PROVE  Holding' /\ \A g \in Fetches : Coming(g)' /\ Given(g)'
<1> DEFINE sent == wire[c].sent
           asked == wire[c].asked
<1>1. /\ TypeOK /\ Holding /\ UNCHANGED <<call, pool>> /\ wire[c] # None
      /\ wire[c] \in Wires /\ sent \in Seq(Pieces) /\ asked \in Seq(Pieces)
  BY WireType DEF ClientInv, Sends, Closes
<1>2. wire'[c] # None
  <2>1. TypeOK'
    BY UpstreamType DEF ClientInv
  <2>2. CASE Sends(c)
    <3>1. wire'[c] = [wire[c] EXCEPT !.sent = Append(sent, Head(asked)), !.asked = Tail(asked)]
      BY <1>1, <2>2 DEF Sends, TypeOK
    <3>2. asked # <<>>
      BY <2>2 DEF Sends
    <3>3. Append(sent, Head(asked)) \in Seq(Pieces) /\ Tail(asked) \in Seq(Pieces)
      BY <1>1, <3>2
    <3>4. wire'[c] \in Wires
      <4> DEFINE s == Append(sent, Head(asked))
                 t == Tail(asked)
      <4>1. s \in Seq(Pieces) /\ t \in Seq(Pieces) /\ wire'[c] = [wire[c] EXCEPT !.sent = s, !.asked = t]
        BY <3>1, <3>3
      <4> HIDE DEF s, t
      <4>2. [wire[c] EXCEPT !.sent = s, !.asked = t] \in Wires
        BY <1>1, <4>1, WireType
      <4> QED  BY <4>1, <4>2
    <3> QED  BY <3>4, HttpClientAssumption
  <2>3. CASE Closes(c)
    <3>1. wire'[c] = [wire[c] EXCEPT !.open = FALSE]
      BY <1>1, <2>3 DEF Closes, TypeOK
    <3>2. wire'[c] \in Wires
      BY <1>1, <3>1, WireType
    <3> QED  BY <3>2, HttpClientAssumption
  <2> QED  BY <2>2, <2>3
<1>3. \/ wire'[c].sent = sent /\ wire'[c].asked = asked
      \/ asked # <<>> /\ wire'[c].sent = Append(sent, Head(asked)) /\ wire'[c].asked = Tail(asked)
  BY <1>1 DEF Sends, Closes, Wires, TypeOK
<1>4. \A d \in Conns \ {c} : wire'[d] = wire[d]
  BY <1>1 DEF Sends, Closes, TypeOK
<1>5. ASSUME NEW d \in Conns, Clean(d)
      PROVE  Clean(d)'
  BY <1>2, <1>3, <1>4, <1>5 DEF Clean, Has
<1>6. Holding'
  BY <1>1, <1>5 DEF Holding, call, TypeOK
<1>7. ASSUME NEW g \in Fetches
      PROVE  Coming(g)' /\ Given(g)'
  <2> DEFINE h == HeadOf(g, attempt[g])
             b == BodyOf(g, attempt[g])
  <2>1. Coming(g) /\ Given(g)
    BY DEF ClientInv
  <2>2. UNCHANGED <<step, conn, attempt, got>>
    BY <1>1 DEF call
  <2>3. h \in Pieces /\ b \in Pieces
    BY <1>1, PieceType DEF TypeOK
  <2>4. CASE conn[g] # c \/ step[g] \notin {"write", "head", "body"}
    <3>1. step[g] \in {"write", "head", "body"} => conn[g] \in Conns \ {c}
      BY <2>4, ConnType DEF ClientInv
    <3> QED  BY <1>4, <2>1, <2>2, <3>1 DEF Coming, Given, Clean, Has
  <2>5. CASE conn[g] = c /\ step[g] \in {"write", "head", "body"}
    <3>1. Given(g)'
      BY <2>1, <2>2 DEF Given
    <3>2. CASE Clean(c)
      BY <1>2, <1>3, <2>1, <2>2, <2>5, <3>1, <3>2 DEF Coming, Clean, Has
    <3>3. CASE sent = <<>> /\ asked = <<h, b>>
      <4> HIDE DEF h, b, sent, asked
      <4>1. Append(sent, Head(asked)) = <<h>> /\ Tail(asked) = <<b>>
        BY <2>3, <3>3
      <4>2. \/ wire'[c].sent = <<>> /\ wire'[c].asked = <<h, b>>
            \/ wire'[c].sent = <<h>> /\ wire'[c].asked = <<b>>
        BY <1>3, <3>3, <4>1
      <4>3. step[g] = "head"
        BY <2>1, <2>3, <2>5, <3>3 DEF Coming, Clean, Has, h, b, sent, asked
      <4> QED  BY <1>2, <2>2, <2>5, <3>1, <4>2, <4>3 DEF Coming, Has, h, b
    <3>4. CASE sent = <<h>> /\ asked = <<b>>
      <4> HIDE DEF h, b, sent, asked
      <4>1. Append(sent, Head(asked)) = <<h, b>> /\ Tail(asked) = <<>>
        BY <2>3, <3>4, Appended
      <4>2. \/ wire'[c].sent = <<h>> /\ wire'[c].asked = <<b>>
            \/ wire'[c].sent = <<h, b>> /\ wire'[c].asked = <<>>
        BY <1>3, <3>4, <4>1
      <4>3. step[g] = "head"
        BY <2>1, <2>5, <3>4 DEF Coming, Clean, Has, sent, asked
      <4> QED  BY <1>2, <2>2, <2>5, <3>1, <4>2, <4>3 DEF Coming, Has, h, b
    <3>5. CASE sent = <<>> /\ asked = <<b>> /\ step[g] = "body"
      <4> HIDE DEF b, sent, asked
      <4>1. Append(sent, Head(asked)) = <<b>> /\ Tail(asked) = <<>>
        BY <2>3, <3>5
      <4>2. \/ wire'[c].sent = <<>> /\ wire'[c].asked = <<b>>
            \/ wire'[c].sent = <<b>> /\ wire'[c].asked = <<>>
        BY <1>3, <3>5, <4>1
      <4> QED  BY <1>2, <2>2, <2>5, <3>1, <3>5, <4>2 DEF Coming, Has, b
    <3>6. CASE asked = <<>>
      BY <1>2, <1>3, <2>1, <2>2, <2>5, <3>1, <3>6 DEF Coming, Clean, Has
    <3> QED  BY <2>1, <2>5, <3>2, <3>3, <3>4, <3>5, <3>6 DEF Coming, Has
  <2> QED  BY <2>4, <2>5
<1> QED  BY <1>6, <1>7

LEMMA CommittedKept ==
    ASSUME ClientInv, Next
    PROVE  \A f \in Fetches : CommittedOnHead(f)'
<1>1. TypeOK /\ \A f \in Fetches : CommittedOnHead(f)
  BY DEF ClientInv
<1>2. CASE Upstream
  BY <1>1, <1>2 DEF Upstream, Sends, Closes, call, CommittedOnHead
<1>3. ASSUME NEW f \in Fetches, FetchStep(f)
      PROVE  \A g \in Fetches : CommittedOnHead(g)'
  <2>1. \A g \in Fetches : g # f => step'[g] = step[g] /\ committed'[g] = committed[g]
    BY <1>1, <1>3 DEF FetchStep, Take, TakeNone, Dial, DialFails, Write, ReadHead, HandlerThrows, ReadBody,
                      Fails, Goto, Ends, TypeOK
  <2>2. step'[f] = "body" => committed'[f]
    BY <1>1, <1>3 DEF FetchStep, Take, TakeNone, Dial, DialFails, Write, ReadHead, HandlerThrows, ReadBody,
                      Fails, Goto, Ends, TypeOK
  <2> QED  BY <1>1, <2>1, <2>2 DEF CommittedOnHead
<1> QED  BY <1>2, <1>3 DEF Next

LEMMA ClientStep == ClientInv /\ [Next]_vars => ClientInv'
<1> SUFFICES ASSUME ClientInv, [Next]_vars PROVE ClientInv'
  OBVIOUS
<1>1. CASE UNCHANGED vars
  BY <1>1 DEF vars, ClientInv, TypeOK, Holding, Coming, Given, CommittedOnHead, Clean, Has, HeadOf, BodyOf
<1>2. ASSUME NEW c \in Conns, Sends(c) \/ Closes(c)
      PROVE  ClientInv'
  BY <1>2, UpstreamType, UpstreamKeeps, CommittedKept DEF Next, Upstream, ClientInv
<1>3. ASSUME NEW f \in Fetches, FetchStep(f)
      PROVE  ClientInv'
  <2>1. TypeOK'
    BY <1>3, TakesType, DialsType, WriteType, ReadsType, FailsType DEF FetchStep, ClientInv
  <2>2. Holding' /\ \A g \in Fetches : Coming(g)' /\ Given(g)'
    BY <1>3, TakesKeeps, DialFailsKeeps, WriteKeeps, ReadHeadKeeps, ReadBodyKeeps, FailsKeeps DEF FetchStep
  <2> QED  BY <1>3, <2>1, <2>2, CommittedKept DEF Next, ClientInv
<1> QED  BY <1>1, <1>2, <1>3 DEF Next, Upstream

LEMMA ClientInit == Init => ClientInv
BY DEF Init, ClientInv, TypeOK, Holding, Coming, Given, CommittedOnHead

-----------------------------------------------------------------------------
(* The sessions use the client                                              *)

LEMMA SessionSteps == [SNext]_all => [Next]_vars
<1>1. ASSUME NEW b \in Browsers,
             Answers(b) \/ HandlerFails(b) \/ EndsResponse(b) \/ Idles(b) \/ Reads(b) \/ Leaves(b)
      PROVE  UNCHANGED vars
  BY <1>1 DEF Answers, HandlerFails, EndsResponse, Idles, Reads, Leaves
<1>2. ASSUME NEW b \in Browsers, NEW f \in Fetches, Fetching(b, f) \/ PassesHead(b, f) \/ PassesBody(b, f)
      PROVE  FetchStep(f)
  BY <1>2 DEF Fetching, PassesHead, PassesBody, FetchStep
<1>3. ASSUME NEW b \in Browsers, NEW f \in Fetches, Passed(b, f) \/ PassFails(b, f)
      PROVE  UNCHANGED vars
  BY <1>3 DEF Passed, PassFails
<1>4. ASSUME NEW f \in Fetches, FetchStep(f) PROVE Next
  BY <1>4 DEF Next
<1>5. Upstream => Next
  BY DEF Next
<1>6. UNCHANGED all => UNCHANGED vars
  BY DEF all
<1> QED  BY <1>1, <1>2, <1>3, <1>4, <1>5, <1>6 DEF SNext, Goes

\* A session, with what it passes on and to whom, makes only the steps of the client's
\* specification: session.cpp, proxy_pass and serve_direct_remote call fetch, and
\* nothing else of it.
THEOREM SessionsUseClient == SSpec => Spec
<1>1. SInit => Init
  BY DEF SInit
<1> QED  BY <1>1, SessionSteps, PTL DEF SSpec, Spec

LEMMA ClientHolds == Spec => []ClientInv
BY ClientInit, ClientStep, PTL DEF Spec

\* Types of the client's state are kept, whoever uses it, sessions among them.
THEOREM TypeCorrect == Spec => []TypeOK
<1>1. ClientInv => TypeOK
  BY DEF ClientInv
<1> QED  BY <1>1, ClientHolds, PTL

\* Whoever has used a connection before, however often the request is sent, what a
\* fetch hands to its caller, a session or another, is one answer to its own request, in
\* order, and all of it when the fetch returns: fetch_plain, fetch_tls and the pool.
THEOREM OwnAnswerCorrect == Spec => []OwnAnswer
<1>1. ClientInv => OwnAnswer
  BY DEF ClientInv, TypeOK, Given, HeadOf, BodyOf, OwnAnswer
<1> QED  BY <1>1, ClientHolds, PTL

\* A connection is used by one fetch at a time; idle ones by none, and nothing that
\* was asked or sent is left on them for the next.
PoolIdle ==
    /\ \A f, g \in Fetches : conn[f] # None /\ conn[f] = conn[g] => f = g
    /\ \A c \in pool : /\ \A f \in Fetches : conn[f] # c
                       /\ wire[c] # None /\ wire[c].asked = <<>> /\ wire[c].sent = <<>>

\* The pool gives each connection to one fetch, and gets it back only when the answer
\* was read to its end: an exception, a deadline or a handler that throws closes it.
THEOREM PoolIdleCorrect == Spec => []PoolIdle
<1>1. ClientInv => PoolIdle
  BY DEF ClientInv, Holding, Clean, Has, PoolIdle
<1> QED  BY <1>1, ClientHolds, PTL

\* As many connections are idle as there are places for them, at most.
PoolBounded == IsFiniteSet(pool) /\ Cardinality(pool) <= MaxIdle

\* However many fetches end at once, pool_put keeps no more connections than
\* kMaxIdlePerHost.
THEOREM PoolBoundedCorrect == Spec => []PoolBounded
<1>1. Init => PoolBounded
  BY HttpClientAssumption, FS_EmptySet DEF Init, PoolBounded
<1>2. PoolBounded /\ [Next]_vars => PoolBounded'
  <2> SUFFICES ASSUME PoolBounded, [Next]_vars PROVE PoolBounded'
    OBVIOUS
  <2>1. ASSUME pool' \subseteq pool PROVE PoolBounded'
    <3>1. IsFiniteSet(pool') /\ Cardinality(pool') <= Cardinality(pool)
          /\ Cardinality(pool') \in Nat /\ Cardinality(pool) \in Nat
      BY <2>1, FS_Subset, FS_CardinalityType DEF PoolBounded
    <3> QED BY <3>1, HttpClientAssumption DEF PoolBounded
  <2>2. ASSUME NEW c, Cardinality(pool) < MaxIdle, pool' = pool \cup {c} PROVE PoolBounded'
    <3>1. IsFiniteSet(pool') /\ Cardinality(pool) \in Nat
          /\ (c \in pool => Cardinality(pool') = Cardinality(pool))
          /\ (c \notin pool => Cardinality(pool') = Cardinality(pool) + 1)
      BY <2>2, FS_AddElement, FS_CardinalityType DEF PoolBounded
    <3> QED BY <2>2, <3>1, HttpClientAssumption DEF PoolBounded
  <2>3. ASSUME NEW f \in Fetches, ReadBody(f) PROVE PoolBounded'
    BY <2>1, <2>2, <2>3 DEF ReadBody
  <2>4. ASSUME NEW f \in Fetches, FetchStep(f), ~ReadBody(f) PROVE pool' \subseteq pool
    BY <2>4 DEF FetchStep, Take, TakeNone, Dial, DialFails, Write, ReadHead, HandlerThrows, Fails
  <2>5. Upstream \/ UNCHANGED vars => pool' = pool
    BY DEF Upstream, Sends, Closes, vars
  <2> QED BY <2>1, <2>3, <2>4, <2>5 DEF Next
<1> QED BY <1>1, <1>2, PTL DEF Spec

-----------------------------------------------------------------------------
(* The sessions' answers                                                    *)

Framings == {"length", "chunked"}
Parts == [of: Requests, part: {"full", "head", "body", "end"}, framing: Framings]
Writers == [header: BOOLEAN, finished: BOOLEAN, framing: Framings \cup {None}]

SessionsType ==
    /\ at \in [Browsers -> {"reading", "handling", "ending", "closed"}] /\ turn \in [Browsers -> Nat]
    /\ writer \in [Browsers -> Writers] /\ closing \in [Browsers -> BOOLEAN] /\ gone \in [Browsers -> BOOLEAN]
    /\ stream \in [Browsers -> Seq(Parts)]

InTurns(b) == turn[b] <= Len(Turns[b]) /\ (at[b] \in {"handling", "ending"} => turn[b] > 0)

\* What is written is of requests read, in the order they were; the current one's is last.
OfTurns(b) == \A i \in DOMAIN stream[b] : \E m \in 1 .. turn[b] : stream[b][i].of = Turns[b][m]
InTurn(b) ==
    \A i, j \in DOMAIN stream[b] : i < j =>
        \E m, n \in 1 .. turn[b] : m <= n /\ stream[b][i].of = Turns[b][m] /\ stream[b][j].of = Turns[b][n]
AtTail(s, r) == (\A i \in DOMAIN s : s[i].of # r) \/ (s # <<>> /\ s[Len(s)].of = r)

\* Nobody has fetched a request yet that is not read.
Fresh(b) == \A n \in turn[b] + 1 .. Len(Turns[b]) : Turns[b][n] \in Fetches => step[Turns[b][n]] = "new"

Shapes(b) == \A n \in 1 .. turn[b] : Answer(b, Turns[b][n]) \in AnswersTo(Turns[b][n])

\* A head has gone out, or the browser.
HeadOut(b) ==
    LET a == Answer(b, Request(b))
        w == writer[b]
    IN  w.header /\ w.framing \in Framings /\ (a = <<Part(Request(b), "head", w.framing)>> \/ (a = <<>> /\ gone[b]))

\* How far the answer is, by what the fetch has done.
Handled(b) ==
    LET r == Request(b)
        a == Answer(b, r)
        w == writer[b]
    IN  /\ ~w.finished
        /\ r \notin Fetches => a = <<>>
        /\ r \in Fetches =>
            /\ step[r] \in {"new", "dial", "write", "head"} => ~w.header /\ w.framing = None /\ a = <<>>
            /\ step[r] = "body" => w.framing \in Framings /\ w.header /\ a = <<Part(r, "head", w.framing)>>
            /\ step[r] = "done" =>
                w.framing \in Framings /\ a = <<Part(r, "head", w.framing), Part(r, "body", w.framing)>>
            /\ step[r] = "threw" => (~w.header /\ a = <<>>) \/ HeadOut(b)

SessionInv(b) ==
    /\ InTurns(b) /\ OfTurns(b) /\ InTurn(b) /\ Fresh(b) /\ Shapes(b)
    /\ (turn[b] > 0 => AtTail(stream[b], Request(b)))
    /\ (at[b] = "handling" => Handled(b))
    /\ (at[b] = "ending" /\ ~writer[b].finished => HeadOut(b))

SessionsInv == ClientInv /\ SessionsType /\ \A b \in Browsers : SessionInv(b)

\* The answer to r in what was written.
AnswerIn(s, r) ==
    LET parts == {i \in DOMAIN s : s[i].of = r}
    IN  IF parts = {} THEN <<>> ELSE SubSeq(s, Min(parts), Max(parts))

LEMMA FirstAndLast ==
    ASSUME NEW n \in Nat, NEW S \in SUBSET (1 .. n), S # {}
    PROVE  Min(S) \in S /\ Max(S) \in S /\ \A i \in S : Min(S) <= i /\ i <= Max(S)
<1>1. \E m \in S : \A i \in S : m <= i
  <2>1. S \subseteq Nat  OBVIOUS
  <2>2. PICK m \in S : \A y \in S : ~(<<y, m>> \in OpToRel(<, Nat))
    BY <2>1, NatLessThanWellFounded, WFMin
  <2>3. \A y \in S : ~(y < m)  BY <2>1, <2>2 DEF OpToRel
  <2> QED  BY <2>1, <2>3
<1>2. \E m \in S : \A i \in S : m >= i
  <2> DEFINE T == {n - i : i \in S}
  <2>1. T \subseteq Nat /\ T # {}
    <3>1. \A i \in S : n - i \in Nat  OBVIOUS
    <3>2. PICK i \in S : TRUE  OBVIOUS
    <3>3. n - i \in T  BY <3>2
    <3> QED  BY <3>1, <3>3
  <2>2. PICK m \in T : \A y \in T : ~(<<y, m>> \in OpToRel(<, Nat))
    BY <2>1, NatLessThanWellFounded, WFMin
  <2>3. \A y \in T : ~(y < m)  BY <2>1, <2>2 DEF OpToRel
  <2>4. PICK k \in S : m = n - k  OBVIOUS
  <2>5. \A i \in S : n - i \in T /\ ~(n - i < n - k)  BY <2>3, <2>4
  <2> QED  BY <2>5
<1>3. Min(S) \in S /\ \A i \in S : Min(S) <= i  BY <1>1 DEF Min
<1>4. Max(S) \in S /\ \A i \in S : Max(S) >= i  BY <1>2 DEF Max
<1> QED  BY <1>3, <1>4

\* An answer, part by part.
LEMMA AnswerIs ==
    ASSUME NEW s \in Seq(Parts), NEW r, NEW m \in 1 .. Len(s), NEW n \in 1 .. Len(s),
           s[m].of = r, s[n].of = r, \A i \in DOMAIN s : s[i].of = r => m <= i /\ i <= n
    PROVE  AnswerIn(s, r) = SubSeq(s, m, n)
<1> DEFINE S == {i \in DOMAIN s : s[i].of = r}
<1>1. Len(s) \in Nat /\ DOMAIN s = 1 .. Len(s)  BY LenProperties
<1>2. S \in SUBSET (1 .. Len(s)) /\ m \in S /\ n \in S  BY <1>1
<1>3. Min(S) \in S /\ Max(S) \in S /\ \A i \in S : Min(S) <= i /\ i <= Max(S)
  <2> HIDE DEF S
  <2> QED  BY <1>1, <1>2, FirstAndLast
<1>4. Min(S) = m /\ Max(S) = n  BY <1>1, <1>2, <1>3
<1> QED  BY <1>2, <1>4 DEF AnswerIn

LEMMA NoAnswer ==
    ASSUME NEW s, NEW r, \A i \in DOMAIN s : s[i].of # r
    PROVE  AnswerIn(s, r) = <<>>
BY DEF AnswerIn

LEMMA AnswerSpan ==
    ASSUME NEW s \in Seq(Parts), NEW r
    PROVE  \/ \A i \in DOMAIN s : s[i].of # r
           \/ \E m, n \in 1 .. Len(s) : /\ s[m].of = r /\ s[n].of = r /\ m <= n
                                        /\ \A i \in DOMAIN s : s[i].of = r => m <= i /\ i <= n
<1> DEFINE S == {i \in DOMAIN s : s[i].of = r}
<1>1. Len(s) \in Nat /\ DOMAIN s = 1 .. Len(s)  BY LenProperties
<1>2. CASE S = {}  BY <1>2
<1>3. CASE S # {}
  <2>1. Min(S) \in S /\ Max(S) \in S /\ \A i \in S : Min(S) <= i /\ i <= Max(S)
    <3>1. S \in SUBSET (1 .. Len(s))  BY <1>1
    <3> HIDE DEF S
    <3> QED  BY <1>1, <1>3, <3>1, FirstAndLast
  <2> DEFINE m == Min(S)
             n == Max(S)
  <2>2. m \in S /\ n \in S /\ m <= n /\ \A i \in S : m <= i /\ i <= n  BY <2>1
  <2> HIDE DEF m, n
  <2> QED  BY <1>1, <2>2
<1> QED  BY <1>2, <1>3

\* A part of another answer leaves it as it is;
LEMMA AnswerKept ==
    ASSUME NEW s \in Seq(Parts), NEW p \in Parts, NEW r, p.of # r
    PROVE  AnswerIn(Append(s, p), r) = AnswerIn(s, r)
<1> DEFINE t == Append(s, p)
<1>1. /\ t \in Seq(Parts) /\ Len(t) = Len(s) + 1 /\ Len(s) \in Nat /\ t[Len(s) + 1] = p
      /\ \A i \in 1 .. Len(s) : t[i] = s[i]
  BY AppendProperties, LenProperties
<1>2. DOMAIN s = 1 .. Len(s) /\ DOMAIN t = 1 .. Len(s) + 1  BY <1>1, LenProperties
<1> HIDE DEF t
<1>3. \A i : i \in 1 .. Len(s) + 1 <=> i \in 1 .. Len(s) \/ i = Len(s) + 1  BY <1>1
<1>4. CASE \A i \in DOMAIN s : s[i].of # r
  <2>1. \A i \in DOMAIN t : t[i].of # r  BY <1>1, <1>2, <1>3, <1>4
  <2> QED  BY <1>4, <2>1, NoAnswer DEF t
<1>5. CASE \E m, n \in 1 .. Len(s) : /\ s[m].of = r /\ s[n].of = r /\ m <= n
                                     /\ \A i \in DOMAIN s : s[i].of = r => m <= i /\ i <= n
  <2>1. PICK m \in 1 .. Len(s), n \in 1 .. Len(s) :
           /\ s[m].of = r /\ s[n].of = r /\ m <= n
           /\ \A i \in DOMAIN s : s[i].of = r => m <= i /\ i <= n
    BY <1>5
  <2>2. AnswerIn(s, r) = SubSeq(s, m, n)  BY <2>1, AnswerIs
  <2>3. AnswerIn(t, r) = SubSeq(t, m, n)
    <3>1. m \in 1 .. Len(t) /\ n \in 1 .. Len(t)  BY <1>1
    <3>2. t[m].of = r /\ t[n].of = r  BY <1>1, <2>1
    <3>3. \A i \in DOMAIN t : t[i].of = r => m <= i /\ i <= n  BY <1>1, <1>2, <1>3, <2>1
    <3> QED  BY <1>1, <3>1, <3>2, <3>3, AnswerIs
  <2>4. SubSeq(t, m, n) = SubSeq(s, m, n)
    <3>1. \A i \in m .. n : i \in 1 .. Len(s) /\ t[i] = s[i]  BY <1>1, <2>1
    <3>2. /\ SubSeq(t, m, n) = [i \in 1 .. (n - m) + 1 |-> t[(i + m) - 1]]
          /\ SubSeq(s, m, n) = [i \in 1 .. (n - m) + 1 |-> s[(i + m) - 1]]
      BY <1>1, <2>1
    <3>3. \A i \in 1 .. (n - m) + 1 : (i + m) - 1 \in m .. n  BY <2>1
    <3> QED  BY <3>1, <3>2, <3>3
  <2> QED  BY <2>2, <2>3, <2>4 DEF t
<1> QED  BY <1>4, <1>5, AnswerSpan

\* one of its own goes to its end, if that is where it is.
LEMMA AnswerGrows ==
    ASSUME NEW s \in Seq(Parts), NEW p \in Parts, AtTail(s, p.of)
    PROVE  AnswerIn(Append(s, p), p.of) = Append(AnswerIn(s, p.of), p)
<1> DEFINE t == Append(s, p)
           r == p.of
<1>1. /\ t \in Seq(Parts) /\ Len(t) = Len(s) + 1 /\ Len(s) \in Nat /\ t[Len(s) + 1] = p
      /\ \A i \in 1 .. Len(s) : t[i] = s[i]
  BY AppendProperties, LenProperties
<1>2. DOMAIN s = 1 .. Len(s) /\ DOMAIN t = 1 .. Len(s) + 1  BY <1>1, LenProperties
<1> HIDE DEF t
<1>3. \A i : i \in 1 .. Len(s) + 1 <=> i \in 1 .. Len(s) \/ i = Len(s) + 1  BY <1>1
<1>4. CASE \A i \in DOMAIN s : s[i].of # r
  <2> DEFINE n == Len(s) + 1
  <2>1. n \in 1 .. Len(t) /\ t[n].of = r  BY <1>1
  <2>2. \A i \in DOMAIN t : t[i].of = r => n <= i /\ i <= n
    BY <1>1, <1>2, <1>3, <1>4
  <2>n. n \in Nat /\ t[n] = p  BY <1>1
  <2> HIDE DEF n
  <2>3. AnswerIn(t, r) = SubSeq(t, n, n)  BY <1>1, <2>1, <2>2, AnswerIs
  <2>4. AnswerIn(s, r) = <<>>  BY <1>4, NoAnswer
  <2>5. SubSeq(t, n, n) = <<t[n]>>
    <3>1. SubSeq(t, n, n) = [i \in 1 .. 1 |-> t[(i + n) - 1]]  BY <1>1, <2>1, <2>n
    <3>2. \A i \in 1 .. 1 : (i + n) - 1 = n  BY <2>n
    <3>3. [i \in 1 .. 1 |-> t[n]] = <<t[n]>>  OBVIOUS
    <3> QED  BY <3>1, <3>2, <3>3
  <2>6. Append(<<>>, p) = <<p>>  OBVIOUS
  <2> QED  BY <2>3, <2>4, <2>5, <2>6, <2>n DEF t
<1>5. CASE \E m, n \in 1 .. Len(s) : /\ s[m].of = r /\ s[n].of = r /\ m <= n
                                     /\ \A i \in DOMAIN s : s[i].of = r => m <= i /\ i <= n
  <2>1. PICK m \in 1 .. Len(s), n \in 1 .. Len(s) :
           /\ s[m].of = r /\ s[n].of = r /\ m <= n
           /\ \A i \in DOMAIN s : s[i].of = r => m <= i /\ i <= n
    BY <1>5
  <2>2. s # <<>> /\ s[Len(s)].of = r
    BY <1>2, <2>1 DEF AtTail
  <2>3. n = Len(s)
    <3>1. Len(s) \in DOMAIN s  BY <1>1, <1>2, <2>1
    <3>2. Len(s) <= n  BY <2>1, <2>2, <3>1
    <3> QED  BY <1>1, <2>1, <3>2
  <2>4. AnswerIn(s, r) = SubSeq(s, m, Len(s))  BY <2>1, <2>3, AnswerIs
  <2> DEFINE k == Len(s) + 1
  <2>k. k \in Nat /\ t[k] = p /\ k = Len(s) + 1  BY <1>1
  <2>5. AnswerIn(t, r) = SubSeq(t, m, k)
    <3>1. m \in 1 .. Len(t) /\ k \in 1 .. Len(t)  BY <1>1
    <3>2. t[m].of = r /\ t[k].of = r  BY <1>1, <2>1
    <3>3. \A i \in DOMAIN t : t[i].of = r => m <= i /\ i <= k  BY <1>1, <1>2, <1>3, <2>1
    <3> HIDE DEF k
    <3> QED  BY <1>1, <3>1, <3>2, <3>3, AnswerIs
  <2> HIDE DEF k
  <2>6. SubSeq(t, m, k) = Append(SubSeq(s, m, Len(s)), p)
    <3> DEFINE u == SubSeq(s, m, Len(s))
               v == SubSeq(t, m, k)
               d == (Len(s) - m) + 1
    <3>1. d \in Nat /\ (k - m) + 1 = d + 1  BY <1>1, <2>1, <2>k
    <3>2. u = [i \in 1 .. d |-> s[(i + m) - 1]] /\ v = [i \in 1 .. (k - m) + 1 |-> t[(i + m) - 1]]
      BY <1>1, <2>1, <2>k
    <3>3. \A i \in 1 .. d : (i + m) - 1 \in 1 .. Len(s)  BY <1>1, <2>1
    <3>4. u \in Seq(Parts) /\ Len(u) = d /\ \A i \in 1 .. d : u[i] = s[(i + m) - 1]
      <4>1. \A i \in 1 .. d : s[(i + m) - 1] \in Parts  BY <3>3, ElementOfSeq
      <4> HIDE DEF d, u
      <4> QED  BY <3>1, <3>2, <4>1
    <3>5. v \in Seq(Parts) /\ Len(v) = d + 1 /\ \A i \in 1 .. d + 1 : v[i] = t[(i + m) - 1]
      <4>0. \A i \in 1 .. d + 1 : (i + m) - 1 \in 1 .. Len(t)  BY <1>1, <2>1
      <4>1. \A i \in 1 .. d + 1 : t[(i + m) - 1] \in Parts  BY <1>1, <4>0, ElementOfSeq
      <4>2. v = [i \in 1 .. d + 1 |-> t[(i + m) - 1]]  BY <3>1, <3>2
      <4>3. d + 1 \in Nat  BY <3>1
      <4> HIDE DEF d, v
      <4> QED  BY <4>1, <4>2, <4>3
    <3>6. (d + 1 + m) - 1 = Len(s) + 1  BY <1>1, <2>1
    <3> HIDE DEF u, v, d
    <3>7. /\ Append(u, p) \in Seq(Parts) /\ Len(Append(u, p)) = d + 1 /\ Append(u, p)[d + 1] = p
          /\ \A i \in 1 .. d : Append(u, p)[i] = u[i]
      BY <3>4, AppendProperties
    <3>8. ASSUME NEW i \in 1 .. d + 1 PROVE v[i] = Append(u, p)[i]
      <4>1. CASE i \in 1 .. d
        <5>1. v[i] = t[(i + m) - 1]  BY <3>5
        <5>2. t[(i + m) - 1] = s[(i + m) - 1]  BY <1>1, <3>3, <4>1
        <5> QED  BY <3>4, <3>7, <4>1, <5>1, <5>2
      <4>2. CASE i = d + 1
        <5>1. v[i] = t[(d + 1 + m) - 1]  BY <3>5, <4>2
        <5>2. t[(d + 1 + m) - 1] = p  BY <1>1, <3>6
        <5>3. Append(u, p)[i] = p  BY <3>7, <4>2
        <5> QED  BY <5>1, <5>2, <5>3
      <4>3. i \in 1 .. d \/ i = d + 1
        <5>1. d \in Nat  BY <3>1
        <5> QED  BY <5>1
      <4> QED  BY <4>1, <4>2, <4>3
    <3>9. v = Append(u, p)  BY <3>5, <3>7, <3>8, SeqEqual
    <3> QED  BY <3>9 DEF u, v
  <2> QED  BY <2>4, <2>5, <2>6 DEF t
<1> QED  BY <1>4, <1>5, AnswerSpan

LEMMA TurnsAre ==
    ASSUME NEW b \in Browsers
    PROVE  /\ Len(Turns[b]) \in Nat /\ DOMAIN Turns[b] = 1 .. Len(Turns[b])
           /\ \A n \in 1 .. Len(Turns[b]) : Turns[b][n] \in Requests
           /\ \A c \in Browsers : \A m \in 1 .. Len(Turns[b]), n \in 1 .. Len(Turns[c]) :
                Turns[b][m] = Turns[c][n] => b = c /\ m = n
<1>1. \A c \in Browsers : Turns[c] \in Seq(Requests)  BY SessionsAssumption
<1>2. \A c \in Browsers : /\ Len(Turns[c]) \in Nat /\ DOMAIN Turns[c] = 1 .. Len(Turns[c])
                          /\ \A n \in 1 .. Len(Turns[c]) : Turns[c][n] \in Requests
  BY <1>1, LenProperties, ElementOfSeq
<1> QED  BY <1>2, SessionsAssumption

LEMMA OneRead ==
    ASSUME SessionsType, NEW b \in Browsers, InTurns(b), turn[b] > 0
    PROVE  /\ turn[b] \in 1 .. Len(Turns[b]) /\ Request(b) \in Requests
           /\ \A n \in 1 .. Len(Turns[b]) : n # turn[b] => Turns[b][n] # Request(b)
<1>1. turn[b] \in Nat  BY DEF SessionsType
<1>2. turn[b] \in 1 .. Len(Turns[b])  BY <1>1, TurnsAre DEF InTurns
<1> QED  BY <1>2, TurnsAre DEF Request

LEMMA AnswerIsIn ==
    ASSUME NEW b, NEW r PROVE Answer(b, r) = AnswerIn(stream[b], r) /\ Answer(b, r)' = AnswerIn(stream'[b], r)
BY DEF Answer, AnswerIn

\* A session's step that writes nothing,
LEMMA WritesNothing ==
    ASSUME NEW b \in Browsers, SessionsType, SessionInv(b), turn'[b] = turn[b], stream'[b] = stream[b],
           at'[b] \in {"handling", "ending"} => turn[b] > 0,
           \A f \in Fetches : step'[f] # step[f] => turn[b] > 0 /\ f = Request(b),
           at'[b] = "handling" => Handled(b)', at'[b] = "ending" /\ ~writer'[b].finished => HeadOut(b)'
    PROVE  SessionInv(b)'
<1>0. /\ InTurns(b) /\ OfTurns(b) /\ InTurn(b) /\ Fresh(b) /\ Shapes(b)
      /\ (turn[b] > 0 => AtTail(stream[b], Request(b)))
  BY DEF SessionInv
<1>1. InTurns(b)' /\ OfTurns(b)' /\ InTurn(b)'  BY <1>0 DEF InTurns, OfTurns, InTurn
<1>2. Fresh(b)'
  <2> SUFFICES ASSUME NEW n \in turn[b] + 1 .. Len(Turns[b]), Turns[b][n] \in Fetches
               PROVE  step'[Turns[b][n]] = "new"
    BY DEF Fresh
  <2>1. step[Turns[b][n]] = "new"  BY <1>0 DEF Fresh
  <2>2. CASE turn[b] > 0
    <3>1. n \in 1 .. Len(Turns[b]) /\ n # turn[b]
      <4>1. turn[b] \in Nat /\ Len(Turns[b]) \in Nat  BY TurnsAre DEF SessionsType
      <4> QED  BY <4>1
    <3>2. Turns[b][n] # Request(b)  BY <1>0, <2>2, <3>1, OneRead
    <3> QED  BY <2>1, <3>2
  <2>3. CASE ~(turn[b] > 0)
    BY <2>1, <2>3
  <2> QED  BY <2>2, <2>3
<1>3. Shapes(b)'
  <2>1. \A r : Answer(b, r)' = Answer(b, r)  BY DEF Answer
  <2> QED  BY <1>0, <2>1 DEF Shapes
<1>4. (turn[b] > 0 => AtTail(stream[b], Request(b)))'  BY <1>0 DEF Request, AtTail
<1> QED  BY <1>1, <1>2, <1>3, <1>4 DEF SessionInv

\* and one that writes a part.
LEMMA WritesPart ==
    ASSUME NEW b \in Browsers, SessionsType, SessionInv(b), turn[b] > 0, turn'[b] = turn[b],
           NEW p \in Parts, p.of = Request(b), stream'[b] = Append(stream[b], p)
    PROVE  /\ OfTurns(b)' /\ InTurn(b)' /\ (turn[b] > 0 => AtTail(stream[b], Request(b)))'
           /\ \A r : Answer(b, r)' = IF r = Request(b) THEN Append(Answer(b, r), p) ELSE Answer(b, r)
<1> DEFINE s == stream[b]
           t == stream'[b]
           r == Request(b)
<1>0. /\ InTurns(b) /\ OfTurns(b) /\ InTurn(b) /\ AtTail(s, r) /\ s \in Seq(Parts)
  BY DEF SessionInv, SessionsType
<1>1. /\ t \in Seq(Parts) /\ Len(t) = Len(s) + 1 /\ Len(s) \in Nat /\ t[Len(s) + 1] = p
      /\ \A i \in 1 .. Len(s) : t[i] = s[i]
  BY <1>0, AppendProperties, LenProperties
<1>2. DOMAIN s = 1 .. Len(s) /\ DOMAIN t = 1 .. Len(s) + 1  BY <1>0, <1>1, LenProperties
<1>3. turn[b] \in 1 .. Len(Turns[b]) /\ r = Turns[b][turn[b]]  BY <1>0, OneRead DEF Request
<1>4. \A q : Answer(b, q)' = IF q = r THEN Append(Answer(b, q), p) ELSE Answer(b, q)
  <2> SUFFICES ASSUME NEW q PROVE Answer(b, q)' = IF q = r THEN Append(Answer(b, q), p) ELSE Answer(b, q)
    OBVIOUS
  <2>1. Answer(b, q) = AnswerIn(s, q) /\ Answer(b, q)' = AnswerIn(Append(s, p), q)  BY AnswerIsIn
  <2>2. CASE q = r  BY <1>0, <2>1, <2>2, AnswerGrows
  <2>3. CASE q # r  BY <1>0, <2>1, <2>3, AnswerKept
  <2> QED  BY <2>2, <2>3
<1>5. turn[b] \in 1 .. turn[b]  BY <1>3, TurnsAre
<1> HIDE DEF s, t, r
<1>12. turn'[b] = turn[b] /\ stream'[b] = t  BY DEF t
<1>6. \A i : i \in 1 .. Len(s) + 1 <=> i \in 1 .. Len(s) \/ i = Len(s) + 1  BY <1>1
<1>7. ASSUME NEW i \in DOMAIN t PROVE \E m \in 1 .. turn[b] : t[i].of = Turns[b][m]
  <2>1. CASE i \in 1 .. Len(s)
    <3>1. \E m \in 1 .. turn[b] : s[i].of = Turns[b][m]  BY <1>0, <1>2, <2>1 DEF OfTurns, s
    <3> QED  BY <1>1, <2>1, <3>1
  <2>2. CASE i = Len(s) + 1
    BY <1>1, <1>3, <1>5, <2>2 DEF r
  <2> QED  BY <1>2, <1>6, <2>1, <2>2
<1>8. OfTurns(b)'  BY <1>7 DEF OfTurns, t
<1>9. InTurn(b)'
  <2> SUFFICES ASSUME NEW i \in DOMAIN t, NEW j \in DOMAIN t, i < j
               PROVE  \E m, n \in 1 .. turn[b] : m <= n /\ t[i].of = Turns[b][m] /\ t[j].of = Turns[b][n]
    BY <1>12 DEF InTurn
  <2>1. CASE j \in 1 .. Len(s)
    <3>1. i \in 1 .. Len(s)  BY <1>1, <1>2, <2>1
    <3>2. \A u, v \in DOMAIN s : u < v =>
            \E m, n \in 1 .. turn[b] : m <= n /\ s[u].of = Turns[b][m] /\ s[v].of = Turns[b][n]
      <4>1. InTurn(b)  BY <1>0
      <4> QED  BY <4>1 DEF InTurn, s
    <3>3. \E m, n \in 1 .. turn[b] : m <= n /\ s[i].of = Turns[b][m] /\ s[j].of = Turns[b][n]
      BY <1>2, <2>1, <3>1, <3>2
    <3> QED  BY <1>1, <2>1, <3>1, <3>3
  <2>2. CASE j = Len(s) + 1
    <3>1. t[j].of = Turns[b][turn[b]]  BY <1>1, <1>3, <2>2 DEF r
    <3>2. PICK m \in 1 .. turn[b] : t[i].of = Turns[b][m]  BY <1>7
    <3>3. m <= turn[b]  BY <3>2, <1>3
    <3> QED  BY <1>5, <3>1, <3>2, <3>3
  <2> QED  BY <1>2, <1>6, <2>1, <2>2
<1>10. AtTail(t, r)
  <2>1. t # <<>> /\ t[Len(t)] = p
    <3>1. Len(t) # 0  BY <1>1
    <3> QED  BY <1>1, <3>1, EmptySeq
  <2> QED  BY <2>1 DEF AtTail, r
<1>11. Request(b)' = Request(b)  BY DEF Request
<1> QED  BY <1>4, <1>8, <1>9, <1>10, <1>11 DEF r, t

LEMMA Grows ==
    ASSUME NEW b \in Browsers, SessionsType, SessionInv(b), turn[b] > 0, turn'[b] = turn[b],
           NEW p \in Parts, p.of = Request(b), stream'[b] = Append(stream[b], p),
           Append(Answer(b, Request(b)), p) \in AnswersTo(Request(b)),
           \A f \in Fetches : step'[f] # step[f] => f = Request(b),
           at'[b] = "handling" => Handled(b)', at'[b] = "ending" /\ ~writer'[b].finished => HeadOut(b)'
    PROVE  SessionInv(b)'
<1>0. InTurns(b) /\ Fresh(b) /\ Shapes(b)  BY DEF SessionInv
<1>1. /\ OfTurns(b)' /\ InTurn(b)' /\ (turn[b] > 0 => AtTail(stream[b], Request(b)))'
      /\ \A r : Answer(b, r)' = IF r = Request(b) THEN Append(Answer(b, r), p) ELSE Answer(b, r)
  BY WritesPart
<1>2. InTurns(b)'  BY <1>0 DEF InTurns
<1>3. Fresh(b)'
  <2> SUFFICES ASSUME NEW n \in turn[b] + 1 .. Len(Turns[b]), Turns[b][n] \in Fetches
               PROVE  step'[Turns[b][n]] = "new"
    BY DEF Fresh
  <2>1. step[Turns[b][n]] = "new"  BY <1>0 DEF Fresh
  <2>2. n \in 1 .. Len(Turns[b]) /\ n # turn[b]
    <3>1. turn[b] \in Nat /\ Len(Turns[b]) \in Nat  BY TurnsAre DEF SessionsType
    <3> QED  BY <3>1
  <2>3. Turns[b][n] # Request(b)  BY <1>0, <2>2, OneRead
  <2> QED  BY <2>1, <2>3
<1>4. Shapes(b)'
  <2> SUFFICES ASSUME NEW n \in 1 .. turn[b] PROVE Answer(b, Turns[b][n])' \in AnswersTo(Turns[b][n])
    BY DEF Shapes
  <2> DEFINE q == Turns[b][n]
  <2>1. Answer(b, q)' = IF q = Request(b) THEN Append(Answer(b, q), p) ELSE Answer(b, q)  BY <1>1
  <2>2. Answer(b, q) \in AnswersTo(q)  BY <1>0 DEF Shapes
  <2> QED  BY <2>1, <2>2
<1> QED  BY <1>1, <1>2, <1>3, <1>4 DEF SessionInv

\* A step of b's session, and of no other.
OnlyOf(b) ==
    /\ SessionsType'
    /\ \A c \in Browsers \ {b} : /\ at'[c] = at[c] /\ turn'[c] = turn[c] /\ writer'[c] = writer[c]
                                 /\ gone'[c] = gone[c] /\ stream'[c] = stream[c]
    /\ \A f \in Fetches : step'[f] # step[f] => turn[b] > 0 /\ f = Request(b)

LEMMA OthersStay ==
    ASSUME SessionsInv, NEW b \in Browsers, OnlyOf(b), SessionInv(b)'
    PROVE  \A c \in Browsers : SessionInv(c)'
<1> SUFFICES ASSUME NEW c \in Browsers, c # b PROVE SessionInv(c)'
  OBVIOUS
<1>0. SessionsType /\ SessionInv(b) /\ SessionInv(c) /\ InTurns(b) /\ InTurns(c)  BY DEF SessionsInv, SessionInv
<1>1. /\ at'[c] = at[c] /\ turn'[c] = turn[c] /\ writer'[c] = writer[c] /\ gone'[c] = gone[c] /\ stream'[c] = stream[c]
  BY DEF OnlyOf
<1>2. \A n \in 1 .. Len(Turns[c]) : Turns[c][n] \in Fetches => step'[Turns[c][n]] = step[Turns[c][n]]
  <2> SUFFICES ASSUME NEW n \in 1 .. Len(Turns[c]), Turns[c][n] \in Fetches,
                      step'[Turns[c][n]] # step[Turns[c][n]]
               PROVE  FALSE
    OBVIOUS
  <2>1. turn[b] > 0 /\ Turns[c][n] = Request(b)  BY DEF OnlyOf
  <2>2. turn[b] \in 1 .. Len(Turns[b])  BY <1>0, <2>1, OneRead
  <2> QED  BY <2>1, <2>2, TurnsAre DEF Request
<1>3. \A r : Answer(c, r)' = Answer(c, r)  BY <1>1 DEF Answer
<1>4. Request(c)' = Request(c)  BY <1>1 DEF Request
<1>5. Fresh(c)'
  <2>1. \A n \in turn[c] + 1 .. Len(Turns[c]) : n \in 1 .. Len(Turns[c])
    <3>1. turn[c] \in Nat /\ Len(Turns[c]) \in Nat  BY <1>0, TurnsAre DEF SessionsType
    <3> QED  BY <3>1
  <2> QED  BY <1>0, <1>1, <1>2, <2>1 DEF Fresh, SessionInv
<1>6. InTurns(c)' /\ OfTurns(c)' /\ InTurn(c)'
  BY <1>0, <1>1 DEF SessionInv, InTurns, OfTurns, InTurn
<1>7. Shapes(c)'  BY <1>0, <1>1, <1>3 DEF SessionInv, Shapes
<1>8. (turn[c] > 0 => AtTail(stream[c], Request(c)))'
  BY <1>0, <1>1, <1>4 DEF SessionInv, AtTail
<1>9. ASSUME turn[c] > 0
      PROVE  /\ Answer(c, Request(c))' = Answer(c, Request(c))
             /\ Request(c) \in Fetches => step'[Request(c)] = step[Request(c)]
  <2>1. turn[c] \in 1 .. Len(Turns[c])  BY <1>0, <1>9, OneRead
  <2> QED  BY <1>1, <1>2, <2>1 DEF Request, Answer
<1>10. HeadOut(c)' <=> HeadOut(c)
  <2>1. Answer(c, Request(c))' = Answer(c, Request(c))  BY <1>1 DEF Answer, Request
  <2> QED  BY <1>1, <1>4, <2>1 DEF HeadOut
<1>11. at[c] = "handling" => Handled(c)'
  <2> SUFFICES ASSUME at[c] = "handling" PROVE Handled(c)'
    OBVIOUS
  <2>1. Handled(c) /\ turn[c] > 0  BY <1>0 DEF SessionInv, InTurns
  <2> QED  BY <1>1, <1>4, <1>9, <1>10, <2>1 DEF Handled
<1> QED  BY <1>0, <1>1, <1>5, <1>6, <1>7, <1>8, <1>10, <1>11 DEF SessionInv

LEMMA AnswerStays ==
    ASSUME NEW b, turn'[b] = turn[b], stream'[b] = stream[b]
    PROVE  Request(b)' = Request(b) /\ Answer(b, Request(b))' = Answer(b, Request(b))
BY DEF Request, Answer

LEMMA AnswerHasPart ==
    ASSUME NEW b \in Browsers, SessionsType, SessionInv(b), turn[b] > 0, turn'[b] = turn[b],
           NEW p \in Parts, p.of = Request(b), stream'[b] = Append(stream[b], p)
    PROVE  Request(b)' = Request(b) /\ Answer(b, Request(b))' = Append(Answer(b, Request(b)), p)
<1>1. Request(b)' = Request(b)  BY DEF Request
<1>2. \A r : r = Request(b) => Answer(b, r)' = Append(Answer(b, r), p)  BY WritesPart
<1>3. \A r : r = Request(b)' => Answer(b, Request(b))' = Answer(b, r)'  BY DEF Answer
<1> QED  BY <1>1, <1>2, <1>3

LEMMA PartIs ==
    ASSUME NEW r \in Requests, NEW k \in {"full", "head", "body", "end"}, NEW f \in Framings
    PROVE  Part(r, k, f) \in Parts /\ Part(r, k, f).of = r
BY DEF Part, Parts

LEMMA WrittenIs ==
    ASSUME SessionsType, NEW b \in Browsers, NEW p \in Parts, Written(b, <<p>>)
    PROVE  /\ stream' \in [Browsers -> Seq(Parts)] /\ \A c \in Browsers \ {b} : stream'[c] = stream[c]
           /\ stream'[b] = IF gone[b] THEN stream[b] ELSE Append(stream[b], p)
<1> DEFINE s == stream[b]
           q == <<p>>
<1>1. stream \in [Browsers -> Seq(Parts)] /\ s \in Seq(Parts)  BY DEF SessionsType
<1>2. s \o q = Append(s, p)
  <2> HIDE DEF s
  <2> QED  BY <1>1
<1>3. Append(s, p) \in Seq(Parts)  BY <1>1, AppendProperties
<1>4. stream' = [stream EXCEPT ![b] = IF gone[b] THEN @ ELSE @ \o q]  BY DEF Written
<1>5. stream' = [stream EXCEPT ![b] = IF gone[b] THEN s ELSE Append(s, p)]  BY <1>1, <1>2, <1>4
<1> HIDE DEF s, q
<1>6. stream' \in [Browsers -> Seq(Parts)]  BY <1>1, <1>3, <1>5
<1>7. stream'[b] = IF gone[b] THEN s ELSE Append(s, p)  BY <1>1, <1>5
<1>8. \A c \in Browsers \ {b} : stream'[c] = stream[c]  BY <1>1, <1>5
<1> QED  BY <1>6, <1>7, <1>8 DEF s

LEMMA NothingWritten ==
    ASSUME SessionsType, NEW b \in Browsers, Written(b, <<>>)
    PROVE  stream' = stream
<1> DEFINE s == stream[b]
           z == <<>>
<1>1. stream \in [Browsers -> Seq(Parts)] /\ s \in Seq(Parts)  BY DEF SessionsType
<1>2. s \o z = s
  <2> HIDE DEF s
  <2> QED  BY <1>1
<1>3. stream' = [stream EXCEPT ![b] = IF gone[b] THEN @ ELSE @ \o z]  BY DEF Written
<1> HIDE DEF z
<1>4. stream' = [stream EXCEPT ![b] = s]  BY <1>1, <1>2, <1>3
<1> QED  BY <1>1, <1>4

\* The shapes an answer goes through.
LEMMA ShapesAre ==
    ASSUME NEW r \in Requests, NEW f \in Framings,
           NEW H, H = Part(r, "head", f), NEW B, B = Part(r, "body", f),
           NEW E, E = Part(r, "end", "chunked"), NEW F, F = Part(r, "full", "length")
    PROVE  /\ <<>> \in AnswersTo(r)
           /\ Append(<<>>, F) \in AnswersTo(r) /\ Append(<<>>, H) = <<H>>
           /\ <<H>> \in AnswersTo(r) /\ <<H, B>> \in AnswersTo(r) /\ Append(<<H>>, B) = <<H, B>>
           /\ f = "chunked" => Append(<<H>>, E) \in AnswersTo(r) /\ Append(<<H, B>>, E) \in AnswersTo(r)
<1>1. H \in Parts /\ B \in Parts /\ E \in Parts /\ F \in Parts
  BY PartIs DEF Framings
<1>2. Begun(r, f) = {<<H>>, <<H, B>>}  BY DEF Begun
<1>3. f = "length" \/ f = "chunked"  BY DEF Framings
<1>4. Begun(r, f) \subseteq AnswersTo(r)  BY <1>3 DEF AnswersTo
<1>5. <<>> \in AnswersTo(r) /\ <<F>> \in AnswersTo(r)  BY DEF AnswersTo
<1>6. Append(<<>>, F) = <<F>> /\ Append(<<>>, H) = <<H>>  OBVIOUS
<1>7. Append(<<H>>, B) = <<H, B>>  BY <1>1, Appended
<1>8. f = "chunked" => \A a \in Begun(r, f) : Append(a, E) \in AnswersTo(r)
  <2> DEFINE X == Begun(r, "chunked")
             Y == {Append(a, Part(r, "end", "chunked")) : a \in X}
  <2>1. Y \subseteq AnswersTo(r)  BY DEF AnswersTo
  <2>2. f = "chunked" => Begun(r, f) = X  OBVIOUS
  <2> HIDE DEF X
  <2>3. \A a \in X : Append(a, E) \in Y  OBVIOUS
  <2> QED  BY <2>1, <2>2, <2>3
<1> QED  BY <1>2, <1>4, <1>5, <1>6, <1>7, <1>8

LEMMA WritesFullKeeps ==
    ASSUME SessionsType, NEW b \in Browsers, SessionInv(b), turn[b] > 0, turn'[b] = turn[b], Answer(b, Request(b)) = <<>>,
           Written(b, <<Part(Request(b), "full", "length")>>), gone' = gone,
           writer' = [writer EXCEPT ![b].header = TRUE, ![b].finished = TRUE],
           step' = step, at'[b] = "ending"
    PROVE  /\ SessionInv(b)' /\ stream' \in [Browsers -> Seq(Parts)] /\ writer' \in [Browsers -> Writers]
           /\ \A c \in Browsers \ {b} : stream'[c] = stream[c] /\ writer'[c] = writer[c]
<1> DEFINE r == Request(b)
           F == Part(r, "full", "length")
<1>1. r \in Requests  BY OneRead DEF SessionInv
<1>2. F \in Parts /\ F.of = r  BY <1>1, PartIs DEF Framings
<1>3. Append(<<>>, F) \in AnswersTo(r)  BY <1>1, ShapesAre DEF Framings
<1> HIDE DEF F
<1>4. /\ stream' \in [Browsers -> Seq(Parts)] /\ \A c \in Browsers \ {b} : stream'[c] = stream[c]
      /\ stream'[b] = IF gone[b] THEN stream[b] ELSE Append(stream[b], F)
  BY <1>2, WrittenIs DEF F
<1>5. /\ writer' \in [Browsers -> Writers] /\ writer'[b].finished
      /\ \A c \in Browsers \ {b} : writer'[c] = writer[c]
  BY DEF SessionsType, Writers
<1>6. CASE gone[b]
  <2>1. stream'[b] = stream[b]  BY <1>4, <1>6
  <2> QED  BY <1>4, <1>5, <2>1, WritesNothing
<1>7. CASE ~gone[b]
  <2>1. stream'[b] = Append(stream[b], F)  BY <1>4, <1>7
  <2>2. SessionInv(b)'  BY <1>2, <1>3, <1>5, <2>1, Grows
  <2> QED  BY <1>4, <1>5, <2>2
<1> QED  BY <1>6, <1>7

LEMMA FinishesKeeps ==
    ASSUME SessionsType, NEW b \in Browsers, SessionInv(b), turn[b] > 0, turn'[b] = turn[b], gone' = gone, Finishes(b),
           step' = step, at'[b] \in {"ending", "reading", "closed"},
           \/ HeadOut(b)
           \/ /\ writer[b].framing \in Framings
              /\ Answer(b, Request(b)) = <<Part(Request(b), "head", writer[b].framing), Part(Request(b), "body", writer[b].framing)>>
    PROVE  /\ SessionInv(b)' /\ stream' \in [Browsers -> Seq(Parts)] /\ writer' \in [Browsers -> Writers]
           /\ \A c \in Browsers \ {b} : stream'[c] = stream[c] /\ writer'[c] = writer[c]
<1> DEFINE r == Request(b)
           w == writer[b].framing
           H == Part(r, "head", w)
           B == Part(r, "body", w)
           E == Part(r, "end", "chunked")
           a == Answer(b, r)
<1>1. r \in Requests /\ w \in Framings  BY OneRead DEF SessionInv, HeadOut
<1>2. E \in Parts /\ E.of = r  BY <1>1, PartIs DEF Framings
<1>3. \/ a = <<>> /\ gone[b]
      \/ a = <<H>> \/ a = <<H, B>>
  BY DEF HeadOut
<1>4. w = "chunked" => Append(<<H>>, E) \in AnswersTo(r) /\ Append(<<H, B>>, E) \in AnswersTo(r)
  BY <1>1, ShapesAre
<1>5. /\ writer' \in [Browsers -> Writers] /\ writer'[b].finished
      /\ \A c \in Browsers \ {b} : writer'[c] = writer[c]
  BY DEF Finishes, SessionsType, Writers
<1>6. CASE w # "chunked"
  <2>1. Written(b, <<>>)  BY <1>6 DEF Finishes, LastChunk
  <2>2. stream' = stream  BY <2>1, NothingWritten
  <2>3. stream' \in [Browsers -> Seq(Parts)]  BY <2>2 DEF SessionsType
  <2>4. SessionInv(b)'  BY <1>5, <2>2, WritesNothing
  <2> QED  BY <1>5, <2>2, <2>3, <2>4
<1>7. CASE w = "chunked"
  <2>1. Written(b, <<E>>)  BY <1>7 DEF Finishes, LastChunk
  <2> HIDE DEF E, H, B, w
  <2>2. /\ stream' \in [Browsers -> Seq(Parts)] /\ \A c \in Browsers \ {b} : stream'[c] = stream[c]
        /\ stream'[b] = IF gone[b] THEN stream[b] ELSE Append(stream[b], E)
    BY <1>2, <2>1, WrittenIs
  <2>3. CASE gone[b]
    <3>1. stream'[b] = stream[b]  BY <2>2, <2>3
    <3>2. SessionInv(b)'  BY <1>5, <3>1, WritesNothing
    <3> QED  BY <1>5, <2>2, <3>2
  <2>4. CASE ~gone[b]
    <3>1. stream'[b] = Append(stream[b], E)  BY <2>2, <2>4
    <3>2. Append(a, E) \in AnswersTo(r)  BY <1>3, <1>4, <1>7, <2>4
    <3>3. SessionInv(b)'  BY <1>2, <1>5, <3>1, <3>2, Grows
    <3> QED  BY <1>5, <2>2, <3>3
  <2> QED  BY <2>3, <2>4
<1> QED  BY <1>6, <1>7

LEMMA HeadOutStays ==
    ASSUME NEW b, HeadOut(b), turn'[b] = turn[b], stream'[b] = stream[b], writer'[b] = writer[b], gone[b] => gone'[b]
    PROVE  HeadOut(b)'
BY AnswerStays DEF HeadOut

LEMMA IdlesKeeps ==
    ASSUME SessionsInv, NEW b \in Browsers, Idles(b)
    PROVE  OnlyOf(b) /\ SessionInv(b)'
<1>1. SessionsType /\ SessionInv(b)  BY DEF SessionsInv
<1>2. at' = [at EXCEPT ![b] = "closed"] /\ UNCHANGED <<turn, writer, closing, gone, stream, step>>
  BY DEF Idles, Enter, vars
<1>3. at'[b] = "closed" /\ \A c \in Browsers \ {b} : at'[c] = at[c]  BY <1>1, <1>2 DEF SessionsType
<1>4. OnlyOf(b)  BY <1>1, <1>2, <1>3 DEF OnlyOf, SessionsType
<1> QED  BY <1>1, <1>2, <1>3, <1>4, WritesNothing

LEMMA LeavesKeeps ==
    ASSUME SessionsInv, NEW b \in Browsers, Leaves(b)
    PROVE  OnlyOf(b) /\ SessionInv(b)'
<1>1. SessionsType /\ SessionInv(b) /\ InTurns(b)  BY DEF SessionsInv, SessionInv
<1>2. gone' = [gone EXCEPT ![b] = TRUE] /\ UNCHANGED <<at, turn, writer, closing, stream, step>>
  BY DEF Leaves, vars
<1>3. gone'[b] /\ \A c \in Browsers \ {b} : gone'[c] = gone[c]  BY <1>1, <1>2 DEF SessionsType
<1>4. OnlyOf(b)  BY <1>1, <1>2, <1>3 DEF OnlyOf, SessionsType
<1>5. HeadOut(b) => HeadOut(b)'  BY <1>2, <1>3, HeadOutStays
<1>6. Handled(b) => Handled(b)'  BY <1>2, <1>5, AnswerStays DEF Handled
<1> QED  BY <1>1, <1>2, <1>4, <1>5, <1>6, WritesNothing DEF SessionInv, InTurns

\* A new request has no answer yet.
LEMMA ReadsKeeps ==
    ASSUME SessionsInv, NEW b \in Browsers, Reads(b)
    PROVE  OnlyOf(b) /\ SessionInv(b)'
<1>1. SessionsType /\ SessionInv(b)  BY DEF SessionsInv
<1>2. /\ turn[b] < Len(Turns[b]) /\ turn' = [turn EXCEPT ![b] = @ + 1]
      /\ writer' = [writer EXCEPT ![b] = NewWriter] /\ at' = [at EXCEPT ![b] = "handling"]
      /\ UNCHANGED <<closing, gone, stream, step>>
  BY DEF Reads, Enter, vars
<1>3. /\ turn'[b] = turn[b] + 1 /\ turn[b] \in Nat /\ writer'[b] = NewWriter /\ at'[b] = "handling"
      /\ \A c \in Browsers \ {b} : turn'[c] = turn[c] /\ writer'[c] = writer[c] /\ at'[c] = at[c]
      /\ Len(Turns[b]) \in Nat
  BY <1>1, <1>2, TurnsAre DEF SessionsType
<1>4. OnlyOf(b)
  <2>1. NewWriter \in Writers  BY DEF NewWriter, Writers
  <2>2. turn' \in [Browsers -> Nat] /\ writer' \in [Browsers -> Writers]
    BY <1>1, <1>2, <2>1 DEF SessionsType
  <2> QED  BY <1>1, <1>2, <1>3, <2>2 DEF OnlyOf, SessionsType
<1> DEFINE k == turn[b] + 1
           r == Turns[b][k]
<1>5. k \in 1 .. Len(Turns[b]) /\ k \in turn[b] + 1 .. Len(Turns[b])  BY <1>2, <1>3
<1>6. \A n \in 1 .. Len(Turns[b]) : Turns[b][n] = r => n = k  BY <1>5, TurnsAre
<1>7. Request(b)' = r  BY <1>3 DEF Request
<1>8. \A i \in DOMAIN stream[b] : stream[b][i].of # r
  <2> SUFFICES ASSUME NEW i \in DOMAIN stream[b], stream[b][i].of = r PROVE FALSE
    OBVIOUS
  <2>1. PICK m \in 1 .. turn[b] : r = Turns[b][m]  BY <1>1 DEF SessionInv, OfTurns
  <2>2. m \in 1 .. Len(Turns[b]) /\ m # k  BY <1>2, <1>3, <2>1
  <2> QED  BY <1>6, <2>1, <2>2
<1>9. Answer(b, r) = <<>>  BY <1>8, NoAnswer, AnswerIsIn
<1>10. r \in Fetches => step[r] = "new"  BY <1>1, <1>5 DEF SessionInv, Fresh
<1>11. \A n \in 1 .. turn[b] : n \in 1 .. turn'[b]  BY <1>3
<1>a. \A q : Answer(b, q)' = Answer(b, q)  BY <1>2 DEF Answer
<1> HIDE DEF r, k
<1>12. InTurns(b)' /\ OfTurns(b)' /\ InTurn(b)'
  <2>1. InTurns(b)'  BY <1>2, <1>3 DEF InTurns
  <2>2. OfTurns(b)'  BY <1>1, <1>2, <1>11 DEF SessionInv, OfTurns
  <2>3. InTurn(b)'  BY <1>1, <1>2, <1>11 DEF SessionInv, InTurn
  <2> QED  BY <2>1, <2>2, <2>3
<1>13. Fresh(b)'
  <2>1. \A n \in turn'[b] + 1 .. Len(Turns[b]) : n \in turn[b] + 1 .. Len(Turns[b])  BY <1>3
  <2> QED  BY <1>1, <1>2, <2>1 DEF SessionInv, Fresh
<1>14. Shapes(b)'
  <2> SUFFICES ASSUME NEW n \in 1 .. turn'[b] PROVE Answer(b, Turns[b][n])' \in AnswersTo(Turns[b][n])
    BY DEF Shapes
  <2>1. n \in 1 .. turn[b] \/ n = k  BY <1>3 DEF k
  <2>2. <<>> \in AnswersTo(r)  BY DEF AnswersTo
  <2>3. n = k => Turns[b][n] = r  BY DEF r
  <2> QED  BY <1>1, <1>9, <1>a, <2>1, <2>2, <2>3 DEF SessionInv, Shapes
<1>15. (turn[b] > 0 => AtTail(stream[b], Request(b)))'  BY <1>2, <1>7, <1>8 DEF AtTail
<1>16. Handled(b)'
  <2>1. Answer(b, Request(b))' = <<>>
    <3>1. \A q : q = Request(b)' => Answer(b, Request(b))' = Answer(b, q)'  BY DEF Answer
    <3> QED  BY <1>7, <1>9, <1>a, <3>1
  <2>2. Request(b)' \in Fetches => step'[Request(b)'] = "new"  BY <1>2, <1>7, <1>10
  <2>3. ~writer'[b].finished /\ ~writer'[b].header /\ writer'[b].framing = None  BY <1>3 DEF NewWriter
  <2> QED  BY <2>1, <2>2, <2>3 DEF Handled
<1>17. SessionInv(b)'
  BY <1>3, <1>12, <1>13, <1>14, <1>15, <1>16 DEF SessionInv
<1> QED  BY <1>4, <1>17

LEMMA AnswersKeeps ==
    ASSUME SessionsInv, NEW b \in Browsers, Answers(b) \/ HandlerFails(b)
    PROVE  OnlyOf(b) /\ SessionInv(b)'
<1>1. SessionsType /\ SessionInv(b)  BY DEF SessionsInv
<1>2. /\ at[b] = "handling" /\ Request(b) \notin Fetches
      /\ Written(b, <<Part(Request(b), "full", "length")>>)
      /\ writer' = [writer EXCEPT ![b].header = TRUE, ![b].finished = TRUE]
      /\ at' = [at EXCEPT ![b] = "ending"] /\ UNCHANGED <<turn, gone, step>>
      /\ \E x \in BOOLEAN : closing' = [closing EXCEPT ![b] = x]
  BY <1>1 DEF Answers, HandlerFails, WritesFull, Enter, vars, SessionsType
<1>3. at'[b] = "ending" /\ \A c \in Browsers \ {b} : at'[c] = at[c]  BY <1>1, <1>2 DEF SessionsType
<1>4. turn[b] > 0 /\ Handled(b)  BY <1>1, <1>2 DEF SessionInv, InTurns
<1>5. Answer(b, Request(b)) = <<>>  BY <1>2, <1>4 DEF Handled
<1>6. /\ SessionInv(b)' /\ stream' \in [Browsers -> Seq(Parts)] /\ writer' \in [Browsers -> Writers]
      /\ \A c \in Browsers \ {b} : stream'[c] = stream[c] /\ writer'[c] = writer[c]
  BY <1>1, <1>2, <1>3, <1>4, <1>5, WritesFullKeeps
<1>7. OnlyOf(b)
  BY <1>1, <1>2, <1>3, <1>6 DEF OnlyOf, SessionsType
<1> QED  BY <1>6, <1>7

LEMMA EndsResponseKeeps ==
    ASSUME SessionsInv, NEW b \in Browsers, EndsResponse(b)
    PROVE  OnlyOf(b) /\ SessionInv(b)'
<1>1. SessionsType /\ SessionInv(b)  BY DEF SessionsInv
<1>2. /\ at[b] = "ending" /\ UNCHANGED <<turn, closing, gone, step>>
      /\ \E x \in {"closed", "reading"} : at' = [at EXCEPT ![b] = x]
  BY DEF EndsResponse, Enter, vars
<1>3. at'[b] \in {"closed", "reading"} /\ (\A c \in Browsers \ {b} : at'[c] = at[c])
      /\ at' \in [Browsers -> {"reading", "handling", "ending", "closed"}]
  BY <1>1, <1>2 DEF SessionsType
<1>4. turn[b] > 0  BY <1>1, <1>2 DEF SessionInv, InTurns
<1>5. CASE writer[b].finished
  <2>1. UNCHANGED <<writer, stream>>  BY <1>5 DEF EndsResponse
  <2>2. SessionInv(b)'  BY <1>1, <1>2, <1>3, <2>1, WritesNothing
  <2>3. OnlyOf(b)  BY <1>1, <1>2, <1>3, <2>1 DEF OnlyOf, SessionsType
  <2> QED  BY <2>2, <2>3
<1>6. CASE ~writer[b].finished
  <2>1. Finishes(b) /\ HeadOut(b)  BY <1>1, <1>2, <1>6 DEF EndsResponse, SessionInv
  <2>2. /\ SessionInv(b)' /\ stream' \in [Browsers -> Seq(Parts)] /\ writer' \in [Browsers -> Writers]
        /\ \A c \in Browsers \ {b} : stream'[c] = stream[c] /\ writer'[c] = writer[c]
    BY <1>1, <1>2, <1>3, <1>4, <2>1, FinishesKeeps
  <2>3. OnlyOf(b)  BY <1>1, <1>2, <1>3, <2>2 DEF OnlyOf, SessionsType
  <2> QED  BY <2>2, <2>3
<1> QED  BY <1>5, <1>6

\* What a fetch does before its head, and its failures, leave the answer as it was.
LEMMA FetchingKeeps ==
    ASSUME SessionsInv, NEW b \in Browsers, NEW f \in Fetches, Fetching(b, f)
    PROVE  OnlyOf(b) /\ SessionInv(b)'
<1>1. ClientInv /\ TypeOK /\ SessionsType /\ SessionInv(b)  BY DEF SessionsInv, ClientInv
<1>2. /\ at[b] = "handling" /\ turn[b] > 0 /\ f = Request(b) /\ UNCHANGED <<at, turn, writer, closing, gone, stream>>
      /\ (Take(f) \/ TakeNone(f) \/ Dial(f) \/ DialFails(f) \/ Write(f) \/ Fails(f))
  BY DEF Fetching, Passing, session
<1>3. \A g \in Fetches : g # f => step'[g] = step[g]
  BY <1>1, <1>2 DEF Take, TakeNone, Dial, DialFails, Write, Fails, Goto, Ends, TypeOK
<1>4. \/ step[f] \in {"new", "dial", "write", "head"} /\ step'[f] \in {"new", "dial", "write", "head", "threw"}
      \/ step[f] = "body" /\ step'[f] = "threw"
  <2>1. CASE Take(f) \/ TakeNone(f) \/ Dial(f) \/ DialFails(f) \/ Write(f)
    BY <1>1, <2>1 DEF Take, TakeNone, Dial, DialFails, Write, Goto, Ends, TypeOK
  <2>2. CASE Fails(f)
    <3>1. step[f] = "body" => ~Retries(f)  BY <1>1 DEF ClientInv, CommittedOnHead, Retries
    <3> QED  BY <1>1, <2>2, <3>1 DEF Fails, Goto, Ends, TypeOK
  <2> QED  BY <1>2, <2>1, <2>2
<1>5. Handled(b)  BY <1>1, <1>2 DEF SessionInv
<1>6. HeadOut(b)' <=> HeadOut(b)  BY <1>2, AnswerStays DEF HeadOut
<1>7. step[f] = "body" => HeadOut(b)  BY <1>2, <1>5 DEF Handled, HeadOut
<1>8. Handled(b)'
  <2>1. Request(b)' = f /\ Answer(b, Request(b))' = Answer(b, Request(b))  BY <1>2, AnswerStays
  <2> QED  BY <1>2, <1>4, <1>5, <1>6, <1>7, <2>1 DEF Handled
<1>9. OnlyOf(b)  BY <1>1, <1>2, <1>3 DEF OnlyOf, SessionsType
<1>10. SessionInv(b)'  BY <1>1, <1>2, <1>3, <1>8, WritesNothing
<1> QED  BY <1>9, <1>10

LEMMA PassesHeadKeeps ==
    ASSUME SessionsInv, NEW b \in Browsers, NEW f \in Fetches, PassesHead(b, f)
    PROVE  OnlyOf(b) /\ SessionInv(b)'
<1>1. ClientInv /\ TypeOK /\ SessionsType /\ SessionInv(b)  BY DEF SessionsInv, ClientInv
<1>2. /\ at[b] = "handling" /\ turn[b] > 0 /\ f = Request(b) /\ UNCHANGED <<at, turn, closing, gone>>
      /\ step[f] = "head" /\ Arrived(f, "head")
      /\ IF gone[b] THEN HandlerThrows(f) ELSE ReadHead(f)
  BY DEF PassesHead, Passing, HandlerThrows, ReadHead
<1>3. PICK w \in Framings : /\ writer' = [writer EXCEPT ![b].header = TRUE, ![b].framing = w]
                            /\ Written(b, <<Part(Arriving(f).of, "head", w)>>)
  BY DEF PassesHead, Framings
<1> DEFINE H == Part(f, "head", w)
<1>4. Arriving(f).of = f
  <2>1. Arriving(f) = HeadOf(f, attempt[f])  BY <1>1, <1>2, Reading
  <2> QED  BY <2>1 DEF HeadOf
<1>5. f \in Requests /\ H \in Parts /\ H.of = f  BY SessionsAssumption, PartIs
<1>6. /\ stream' \in [Browsers -> Seq(Parts)] /\ \A c \in Browsers \ {b} : stream'[c] = stream[c]
      /\ stream'[b] = IF gone[b] THEN stream[b] ELSE Append(stream[b], H)
  <2>1. Written(b, <<H>>)  BY <1>3, <1>4
  <2> HIDE DEF H
  <2> QED  BY <1>1, <1>5, <2>1, WrittenIs
<1>7. /\ writer' \in [Browsers -> Writers] /\ writer'[b].header /\ writer'[b].framing = w
      /\ writer'[b].finished = writer[b].finished
      /\ \A c \in Browsers \ {b} : writer'[c] = writer[c]
  BY <1>1, <1>3 DEF SessionsType, Writers
<1>8. \A g \in Fetches : g # f => step'[g] = step[g]
  BY <1>1, <1>2 DEF HandlerThrows, ReadHead, Goto, Ends, TypeOK
<1>9. step'[f] = IF gone[b] THEN "threw" ELSE "body"
  BY <1>1, <1>2 DEF HandlerThrows, ReadHead, Goto, Ends, TypeOK
<1>10. Handled(b) /\ Answer(b, f) = <<>> /\ ~writer[b].finished
  BY <1>1, <1>2 DEF SessionInv, Handled
<1>11. Append(<<>>, H) = <<H>> /\ <<H>> \in AnswersTo(f)  BY <1>5, ShapesAre
<1>12. OnlyOf(b)  BY <1>1, <1>2, <1>6, <1>7, <1>8 DEF OnlyOf, SessionsType
<1> HIDE DEF H
<1>13. CASE gone[b]
  <2>1. stream'[b] = stream[b] /\ step'[f] = "threw" /\ gone'[b]  BY <1>2, <1>6, <1>9, <1>13
  <2>2. Request(b)' = f /\ Answer(b, Request(b))' = <<>>  BY <1>2, <1>10, <2>1, AnswerStays
  <2>3. HeadOut(b)'  BY <1>7, <2>1, <2>2 DEF HeadOut
  <2>4. Handled(b)'  BY <1>7, <1>10, <2>1, <2>2, <2>3 DEF Handled
  <2> QED  BY <1>1, <1>2, <1>8, <1>12, <2>1, <2>4, WritesNothing
<1>14. CASE ~gone[b]
  <2>1. stream'[b] = Append(stream[b], H) /\ step'[f] = "body"  BY <1>6, <1>9, <1>14
  <2>2. Request(b)' = f /\ Answer(b, Request(b))' = <<H>>  BY <1>1, <1>2, <1>5, <1>10, <1>11, <2>1, AnswerHasPart
  <2>3. Handled(b)'  BY <1>7, <1>10, <2>1, <2>2 DEF Handled, H
  <2> QED  BY <1>1, <1>2, <1>5, <1>8, <1>10, <1>11, <1>12, <2>1, <2>3, Grows
<1> QED  BY <1>13, <1>14

LEMMA PassesBodyKeeps ==
    ASSUME SessionsInv, NEW b \in Browsers, NEW f \in Fetches, PassesBody(b, f)
    PROVE  OnlyOf(b) /\ SessionInv(b)'
<1> DEFINE w == writer[b].framing
           H == Part(f, "head", w)
           B == Part(f, "body", w)
<1>1. ClientInv /\ TypeOK /\ SessionsType /\ SessionInv(b)  BY DEF SessionsInv, ClientInv
<1>2. /\ at[b] = "handling" /\ turn[b] > 0 /\ f = Request(b) /\ ~gone[b] /\ UNCHANGED <<at, turn, writer, closing, gone>>
      /\ step[f] = "body" /\ Arrived(f, "body") /\ Ends(f, "done")
      /\ Written(b, <<Part(Arriving(f).of, "body", w)>>)
  BY DEF PassesBody, Passing, ReadBody
<1>3. Arriving(f).of = f
  <2>1. Arriving(f) = BodyOf(f, attempt[f])  BY <1>1, <1>2, Reading
  <2> QED  BY <2>1 DEF BodyOf
<1>4. Handled(b)  BY <1>1, <1>2 DEF SessionInv
<1>5. w \in Framings /\ Answer(b, f) = <<H>> /\ ~writer[b].finished  BY <1>2, <1>4 DEF Handled
<1>6. f \in Requests /\ B \in Parts /\ B.of = f  BY <1>5, SessionsAssumption, PartIs
<1>7. Append(<<H>>, B) = <<H, B>> /\ <<H, B>> \in AnswersTo(f)  BY <1>5, <1>6, ShapesAre
<1>8. /\ stream' \in [Browsers -> Seq(Parts)] /\ \A c \in Browsers \ {b} : stream'[c] = stream[c]
      /\ stream'[b] = Append(stream[b], B)
  <2>1. Written(b, <<B>>)  BY <1>2, <1>3
  <2> HIDE DEF B
  <2> QED  BY <1>1, <1>2, <1>6, <2>1, WrittenIs
<1>9. step'[f] = "done" /\ \A g \in Fetches : g # f => step'[g] = step[g]
  BY <1>1, <1>2, EndsShape
<1>10. OnlyOf(b)  BY <1>1, <1>2, <1>8, <1>9 DEF OnlyOf, SessionsType
<1> HIDE DEF H, B
<1>11. Request(b)' = f /\ Answer(b, Request(b))' = <<H, B>>
  BY <1>1, <1>2, <1>5, <1>6, <1>7, <1>8, AnswerHasPart
<1>12. Handled(b)'  BY <1>2, <1>5, <1>9, <1>11 DEF Handled, H, B
<1>13. SessionInv(b)'  BY <1>1, <1>2, <1>5, <1>6, <1>7, <1>8, <1>9, <1>12, Grows
<1> QED  BY <1>10, <1>13

LEMMA PassedKeeps ==
    ASSUME SessionsInv, NEW b \in Browsers, NEW f \in Fetches, Passed(b, f)
    PROVE  OnlyOf(b) /\ SessionInv(b)'
<1>1. SessionsType /\ SessionInv(b)  BY DEF SessionsInv
<1>2. /\ at[b] = "handling" /\ turn[b] > 0 /\ f = Request(b) /\ step[f] = "done" /\ Finishes(b)
      /\ closing' = [closing EXCEPT ![b] = @ \/ gone[b]] /\ at' = [at EXCEPT ![b] = "ending"]
      /\ UNCHANGED <<turn, gone, step>>
  BY DEF Passed, Passing, Enter, vars
<1>3. at'[b] = "ending" /\ \A c \in Browsers \ {b} : at'[c] = at[c]  BY <1>1, <1>2 DEF SessionsType
<1>4. Handled(b)  BY <1>1, <1>2 DEF SessionInv
<1>5. /\ writer[b].framing \in Framings
      /\ Answer(b, Request(b)) = <<Part(Request(b), "head", writer[b].framing), Part(Request(b), "body", writer[b].framing)>>
  BY <1>2, <1>4 DEF Handled
<1>6. /\ SessionInv(b)' /\ stream' \in [Browsers -> Seq(Parts)] /\ writer' \in [Browsers -> Writers]
      /\ \A c \in Browsers \ {b} : stream'[c] = stream[c] /\ writer'[c] = writer[c]
  BY <1>1, <1>2, <1>3, <1>5, FinishesKeeps
<1>7. OnlyOf(b)  BY <1>1, <1>2, <1>3, <1>6 DEF OnlyOf, SessionsType
<1> QED  BY <1>6, <1>7

LEMMA PassFailsKeeps ==
    ASSUME SessionsInv, NEW b \in Browsers, NEW f \in Fetches, PassFails(b, f)
    PROVE  OnlyOf(b) /\ SessionInv(b)'
<1>1. SessionsType /\ SessionInv(b)  BY DEF SessionsInv
<1>2. /\ at[b] = "handling" /\ turn[b] > 0 /\ f = Request(b) /\ step[f] = "threw"
      /\ at' = [at EXCEPT ![b] = "ending"] /\ UNCHANGED <<turn, gone, step>>
      /\ IF BadGateway(b) THEN WritesFull(b) ELSE UNCHANGED <<writer, closing, stream>>
  BY DEF PassFails, Passing, Enter, vars
<1>3. at'[b] = "ending" /\ \A c \in Browsers \ {b} : at'[c] = at[c]  BY <1>1, <1>2 DEF SessionsType
<1>4. Handled(b)  BY <1>1, <1>2 DEF SessionInv
<1>5. (~writer[b].header /\ Answer(b, f) = <<>>) \/ HeadOut(b)  BY <1>2, <1>4 DEF Handled
<1>6. CASE BadGateway(b)
  <2>1. Answer(b, Request(b)) = <<>>  BY <1>2, <1>5, <1>6 DEF BadGateway, HeadOut
  <2>2. /\ SessionInv(b)' /\ stream' \in [Browsers -> Seq(Parts)] /\ writer' \in [Browsers -> Writers]
        /\ \A c \in Browsers \ {b} : stream'[c] = stream[c] /\ writer'[c] = writer[c]
    BY <1>1, <1>2, <1>3, <1>6, <2>1, WritesFullKeeps DEF WritesFull
  <2>3. closing' \in [Browsers -> BOOLEAN]  BY <1>1, <1>2, <1>6 DEF WritesFull, SessionsType
  <2>4. OnlyOf(b)  BY <1>1, <1>2, <1>3, <2>2, <2>3 DEF OnlyOf, SessionsType
  <2> QED  BY <2>2, <2>4
<1>7. CASE ~BadGateway(b)
  <2>1. HeadOut(b) /\ UNCHANGED <<writer, closing, stream>>  BY <1>2, <1>5, <1>7 DEF BadGateway
  <2>2. HeadOut(b)'  BY <1>2, <2>1, HeadOutStays
  <2>3. SessionInv(b)'  BY <1>1, <1>2, <1>3, <2>1, <2>2, WritesNothing
  <2>4. OnlyOf(b)  BY <1>1, <1>2, <1>3, <2>1 DEF OnlyOf, SessionsType
  <2> QED  BY <2>3, <2>4
<1> QED  BY <1>6, <1>7

\* Nothing of a session changes.
LEMMA SessionsStay ==
    ASSUME SessionsInv, UNCHANGED <<session, step>>
    PROVE  SessionsType' /\ \A b \in Browsers : SessionInv(b)'
<1>1. UNCHANGED <<at, turn, writer, closing, gone, stream, step>>  BY DEF session
<1>2. SessionsType'  BY <1>1 DEF SessionsInv, SessionsType
<1> SUFFICES ASSUME NEW b \in Browsers PROVE SessionInv(b)'
  BY <1>2
<1>3. SessionsType /\ SessionInv(b) /\ InTurns(b)  BY DEF SessionsInv, SessionInv
<1>4. HeadOut(b) => HeadOut(b)'  BY <1>1, HeadOutStays
<1>5. Handled(b) => Handled(b)'  BY <1>1, <1>4, AnswerStays DEF Handled
<1> QED  BY <1>1, <1>3, <1>4, <1>5, WritesNothing DEF SessionInv, InTurns

LEMMA SessionsStep == SessionsInv /\ [SNext]_all => SessionsInv'
<1> SUFFICES ASSUME SessionsInv, [SNext]_all PROVE SessionsInv'
  OBVIOUS
<1>1. ClientInv'
  <2>1. [Next]_vars
    BY SessionSteps
  <2> QED  BY <2>1, ClientStep DEF SessionsInv
<1>2. CASE UNCHANGED all \/ (Upstream /\ UNCHANGED session)
  <2>1. UNCHANGED <<session, step>>
    BY <1>2 DEF all, vars, Upstream, Sends, Closes, call
  <2> QED  BY <1>1, <2>1, SessionsStay DEF SessionsInv
<1>3. ASSUME NEW b \in Browsers, Goes(b) \/ Reads(b) \/ Leaves(b)
      PROVE  SessionsInv'
  <2>1. OnlyOf(b) /\ SessionInv(b)'
    BY <1>3, AnswersKeeps, EndsResponseKeeps, IdlesKeeps, FetchingKeeps, PassesHeadKeeps, PassesBodyKeeps,
       PassedKeeps, PassFailsKeeps, ReadsKeeps, LeavesKeeps DEF Goes
  <2>2. \A c \in Browsers : SessionInv(c)'  BY <2>1, OthersStay
  <2>3. SessionsType'  BY <2>1 DEF OnlyOf
  <2> QED  BY <1>1, <2>2, <2>3 DEF SessionsInv
<1> QED  BY <1>2, <1>3 DEF SNext

LEMMA SessionsInit == SInit => SessionsInv
<1> SUFFICES ASSUME SInit PROVE SessionsInv
  OBVIOUS
<1> DEFINE z == <<>>
<1>1. ClientInv  BY ClientInit DEF SInit
<1>2. /\ at = [b \in Browsers |-> "reading"] /\ turn = [b \in Browsers |-> 0] /\ writer = [b \in Browsers |-> NewWriter]
      /\ closing = [b \in Browsers |-> FALSE] /\ gone = [b \in Browsers |-> FALSE] /\ stream = [b \in Browsers |-> z]
      /\ step = [f \in Fetches |-> "new"]
  BY DEF SInit, Init
<1>3. z \in Seq(Parts) /\ DOMAIN z = {}  OBVIOUS
<1> HIDE DEF z
<1>4. NewWriter \in Writers  BY DEF NewWriter, Writers
<1>5. SessionsType  BY <1>2, <1>3, <1>4 DEF SessionsType
<1>6. ASSUME NEW b \in Browsers PROVE SessionInv(b)
  <2>1. turn[b] = 0 /\ at[b] = "reading" /\ stream[b] = z /\ Len(Turns[b]) \in Nat  BY <1>2, TurnsAre
  <2>2. 1 .. 0 = {}  OBVIOUS
  <2>3. \A n \in 1 .. Len(Turns[b]) : Turns[b][n] \in Fetches => step[Turns[b][n]] = "new"  BY <1>2
  <2>4. InTurns(b) /\ OfTurns(b) /\ InTurn(b) /\ Shapes(b)
    BY <1>3, <2>1, <2>2 DEF InTurns, OfTurns, InTurn, Shapes
  <2>5. Fresh(b)  BY <2>1, <2>3 DEF Fresh
  <2> QED  BY <2>1, <2>4, <2>5 DEF SessionInv
<1> QED  BY <1>1, <1>5, <1>6 DEF SessionsInv

\* Of every answer a session writes: in the order the requests were read, each once, of one fetch,
\* with nothing of an error or of another's answer in between; for any browsers, requests and connections.
THEOREM AnswersInOrderCorrect == SSpec => []AnswersInOrder
<1>1. SessionsInv => AnswersInOrder
  BY DEF SessionsInv, SessionInv, InTurn, Shapes, AnswersInOrder
<1> QED  BY <1>1, SessionsInit, SessionsStep, PTL DEF SSpec

=============================================================================
