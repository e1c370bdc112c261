-------------------------- MODULE ReverseProxyProofs --------------------------
(* Theorems about ReverseProxy, for any requests, contents, versions and     *)
(* inputs.  That every request ends is liveness, and is model-checked only.  *)
EXTENDS ReverseProxy, TLAPS

USE ProxyAssumption DEF coalescing, locals

-----------------------------------------------------------------------------
(* Types, and what each step has at hand.                                    *)

AtHand ==
    \A r \in Requests :
        /\ step[r] # "idle" => input[r] \in Inputs
        /\ step[r] = "refreshing" => known[r] # NoMeta
        /\ step[r] \in {"storing", "enforcing"} => body[r] \in Contents
        /\ step[r] = "waiting" => flight[r] \in Flights
        /\ step[r] = "serving" => serving[r] # Nothing

Typed == TypeOK /\ AtHand

\* Only one request at a time is inside the flight, and it is the open one's.
Leads(r) == step[r] \in {"leading", "fetching", "refreshing", "storing", "enforcing"}
OneLeader ==
    \A r \in Requests : Leads(r) =>
        /\ flight[r] \in Flights /\ open[Key] = flight[r]
        /\ \A q \in Requests : Leads(q) => q = r

LEMMA InputFields ==
    ASSUME NEW i \in Inputs
    PROVE  i.have \in Contents \cup {NoContent} /\ i.version \in Versions
BY DEF Input

LEMMA TypedInit == Init => Typed
BY DEF Init, F!Init, Typed, TypeOK, AtHand

\* What a request replies, or goes on to serve.
LEMMA TypedReply ==
    ASSUME Typed, NEW r \in Requests, NEW a \in Answer, Reply(r, a),
           UNCHANGED <<origin, entry, open>>,
           flight' \in [Requests -> Flights \cup {NoFlight}],
           outcome' \in [Flights -> Result \cup {NoOutcome}],
           \A q \in Requests \ {r} : flight'[q] = flight[q]
    PROVE  Typed'
BY DEF Typed, TypeOK, AtHand, Reply, Goto

LEMMA TypedServe ==
    ASSUME Typed, NEW r \in Requests, NEW m \in Meta, NEW s \in Statuses, Serve(r, m, s),
           step[r] # "idle",
           UNCHANGED <<origin, entry, open>>,
           flight' \in [Requests -> Flights \cup {NoFlight}],
           outcome' \in [Flights -> Result \cup {NoOutcome}],
           \A q \in Requests \ {r} : flight'[q] = flight[q]
    PROVE  Typed'
<1>1. [meta |-> m, status |-> s] \in Serving
  BY DEF Serving
<1> QED
  BY <1>1 DEF Typed, TypeOK, AtHand, Serve, Goto

\* A leader's end moves nobody else, but for followers that it strands.
LEMMA WakesSteps ==
    ASSUME TypeOK, NEW r \in Requests, Wakes(r)
    PROVE  /\ step' \in [Requests -> {"idle", "asked", "passing", "missed", "leading", "fetching",
                                      "refreshing", "storing", "enforcing", "waiting",
                                      "stranded", "serving"}]
           /\ step'[r] = "waiting"
           /\ \A q \in Requests \ {r} :
                 step'[q] = step[q] \/ (step[q] = "waiting" /\ step'[q] = "stranded")
BY DEF Wakes, TypeOK

LEMMA TypedEnd ==
    ASSUME Typed, NEW r \in Requests, NEW o \in Result, End(r, o),
           step[r] # "idle", flight[r] \in Flights,
           origin' = origin, entry' \in Entry \cup {NoEntry},
           sent' \in [Requests -> BOOLEAN], LeaderUnchanged
    PROVE  Typed'
BY WakesSteps DEF Typed, TypeOK, AtHand, End, F!Finish, LeaderUnchanged

\* A request that is neither at a flight's end nor done.
LEMMA TypedLook == ASSUME Typed, NEW r \in Requests, Look(r) PROVE Typed'
<1> USE DEF Typed, Look
<1>1. PICK m \in {Stored, NoMeta} :
         \/ Fresh(m) /\ Serve(r, m, "HIT")
         \/ m # NoMeta /\ Serve(r, m, "STALE-HEAD")
         \/ /\ cached' = [cached EXCEPT ![r] = m]
            /\ Goto(r, "passing") \/ Goto(r, "missed")
            /\ UNCHANGED <<input, known, body, serving, sent, answer>>
  OBVIOUS
<1>2. m # NoMeta => m \in Meta
  BY <1>1 DEF TypeOK, Stored, Entry
<1>3. "HIT" \in Statuses /\ "STALE-HEAD" \in Statuses
  BY DEF Statuses
<1>4. ASSUME Serve(r, m, "HIT"), m # NoMeta PROVE Typed'
  BY <1>2, <1>3, <1>4, TypedServe DEF TypeOK
<1>5. ASSUME Serve(r, m, "STALE-HEAD"), m # NoMeta PROVE Typed'
  BY <1>2, <1>3, <1>5, TypedServe DEF TypeOK
<1>6. ASSUME cached' = [cached EXCEPT ![r] = m],
             step' = [step EXCEPT ![r] = "passing"] \/ step' = [step EXCEPT ![r] = "missed"],
             UNCHANGED <<input, known, body, serving, sent, answer>>
      PROVE  Typed'
  BY <1>2, <1>6 DEF TypeOK, AtHand
<1> QED
  BY <1>1, <1>4, <1>5, <1>6 DEF Fresh, Goto

LEMMA TypedPass == ASSUME Typed, NEW r \in Requests, Pass(r) PROVE Typed'
<1>1. \A e \in Contents : SendsContent(r, "BYPASS", e) \in Answer
  BY DEF SendsContent, Sends, Answer, Statuses
<1>2. Sends("BYPASS", 502) \in Answer
  BY DEF Sends, Answer, Statuses
<1>3. origin[input[r].version] \in Contents
  BY InputFields DEF Typed, TypeOK, AtHand, Pass
<1>4. PICK a \in Answer : Reply(r, a)
  BY <1>1, <1>2, <1>3 DEF Pass
<1> QED
  BY <1>4, TypedReply DEF Pass, Typed, TypeOK

LEMMA TypedConclude == ASSUME Typed, NEW r \in Requests, Conclude(r) PROVE Typed'
<1> DEFINE o == outcome[flight[r]]
<1>1. /\ flight' \in [Requests -> Flights \cup {NoFlight}]
      /\ outcome' \in [Flights -> Result \cup {NoOutcome}]
      /\ \A q \in Requests \ {r} : flight'[q] = flight[q]
      /\ UNCHANGED <<origin, entry, open>>
      /\ step[r] # "idle"
  BY DEF Typed, TypeOK, Conclude
<1>2. o \in Result /\ ServeResult(r, o)
  BY DEF Conclude
<1>3. ASSUME NEW a \in Answer, Reply(r, a) PROVE Typed'
  BY <1>1, <1>3, TypedReply
<1>4. ASSUME NEW m \in Meta, NEW s \in Statuses, Serve(r, m, s) PROVE Typed'
  BY <1>1, <1>4, TypedServe
<1>5. /\ Sends("DROPPED", 200) \in Answer /\ Sends("STALE", 502) \in Answer
      /\ Sends("MISS", 200) \in Answer /\ "STALE" \in Statuses
  BY DEF Sends, Answer, Statuses
<1>6. ASSUME o.kind = "failed", AfterFailure(r) PROVE Typed'
  BY <1>3, <1>4, <1>5, <1>6 DEF AfterFailure, FallBack, Typed, TypeOK
<1>7. ASSUME o.kind = "committed", ServeResult(r, o) PROVE Typed'
  <2>1. o.meta \in Meta /\ o.status \in Statuses
    BY <1>2, <1>7 DEF Result, Committed, Uncached, Failed, Statuses
  <2> QED
    BY <2>1, <1>3, <1>4, <1>5, <1>7 DEF ServeResult
<1>8. ASSUME o.kind = "uncached", Reply(r, Sends("MISS-UNCACHED", o.code)) PROVE Typed'
  <2>1. o.code \in {200, 304, 500}
    BY <1>2, <1>8 DEF Result, Committed, Uncached, Failed
  <2>2. Sends("MISS-UNCACHED", o.code) \in Answer
    BY <2>1 DEF Sends, Answer, Statuses
  <2> QED
    BY <2>2, <1>3, <1>8
<1> QED
  BY <1>2, <1>6, <1>7, <1>8 DEF ServeResult

LEMMA TypedOpenBody == ASSUME Typed, NEW r \in Requests, OpenBody(r) PROVE Typed'
<1>1. Sends("ERROR", 500) \in Answer
  BY DEF Sends, Answer, Statuses
<1>2. serving[r] \in Serving
  BY DEF Typed, TypeOK, AtHand, OpenBody
<1>3. SendsContent(r, serving[r].status, serving[r].meta.etag) \in Answer
  BY <1>2 DEF SendsContent, Sends, Answer, Serving
<1>4. PICK a \in Answer : Reply(r, a)
  BY <1>1, <1>3 DEF OpenBody
<1> QED
  BY <1>4, TypedReply DEF OpenBody, Typed, TypeOK

-----------------------------------------------------------------------------
(* The steps of a leader.                                                    *)

LEMMA TypedLookAgain ==
    ASSUME Typed, OneLeader, NEW r \in Requests, LookAgain(r) PROVE Typed'
<1> USE DEF Typed, LookAgain, Leads, OneLeader
<1>1. PICK m \in {Stored, NoMeta} :
         \/ Fresh(m) /\ End(r, Commits(m, "HIT"))
         \/ /\ known' = [known EXCEPT ![r] = m]
            /\ Goto(r, "fetching")
            /\ UNCHANGED <<coalescing, body>>
  BY DEF FoundNow
<1>2. m # NoMeta => m \in Meta
  BY <1>1 DEF TypeOK, Stored, Entry
<1>3. ASSUME Fresh(m), End(r, Commits(m, "HIT")) PROVE Typed'
  <2>1. Commits(m, "HIT") \in Result
    BY <1>2, <1>3 DEF Commits, Result, Committed, Fresh
  <2> QED
    BY <2>1, <1>3, TypedEnd DEF TypeOK
<1>4. ASSUME known' = [known EXCEPT ![r] = m], Goto(r, "fetching"),
             UNCHANGED <<coalescing, body>>
      PROVE  Typed'
  BY <1>2, <1>4 DEF TypeOK, AtHand, Goto, LeaderUnchanged
<1> QED
  BY <1>1, <1>3, <1>4

LEMMA TypedFetch ==
    ASSUME Typed, OneLeader, NEW r \in Requests, Fetch(r) PROVE Typed'
<1> USE DEF Typed, Fetch, Leads, OneLeader
<1> DEFINE content == origin[input[r].version]
<1>1. content \in Contents
  BY InputFields DEF TypeOK, AtHand
<1>2. /\ \A c \in {200, 304, 500}, b \in Contents \cup {NoContent} : Passes(c, b) \in Result
      /\ Failed \in Result
  BY DEF Passes, Result, Uncached
<1>3. sent' \in [Requests -> BOOLEAN]
  BY DEF NotModified, Fetched, Trouble, TypeOK
<1>4. ASSUME NEW o \in Result, End(r, o) PROVE Typed'
  BY <1>3, <1>4, TypedEnd DEF TypeOK
<1>5. ASSUME NotModified(r) PROVE Typed'
  <2>1. ASSUME known[r] # NoMeta, Goto(r, "refreshing"), UNCHANGED <<coalescing, known, body>>
        PROVE  Typed'
    BY <1>3, <2>1 DEF TypeOK, AtHand, Goto, LeaderUnchanged
  <2> QED
    BY <2>1, <1>2, <1>4, <1>5 DEF NotModified
<1>6. ASSUME Fetched(r) PROVE Typed'
  <2>1. ASSUME body' = [body EXCEPT ![r] = content], Goto(r, "storing"),
               UNCHANGED <<coalescing, known>>
        PROVE  Typed'
    BY <1>1, <1>3, <2>1 DEF TypeOK, AtHand, Goto, LeaderUnchanged
  <2> QED
    BY <2>1, <1>1, <1>2, <1>4, <1>6 DEF Fetched
<1>7. ASSUME Trouble(r) PROVE Typed'
  BY <1>2, <1>4, <1>7 DEF Trouble
<1> QED
  BY <1>5, <1>6, <1>7

LEMMA TypedRefresh ==
    ASSUME Typed, OneLeader, NEW r \in Requests, Refresh(r) PROVE Typed'
<1> USE DEF Typed, Refresh, Leads, OneLeader
<1> DEFINE m == [etag |-> known[r].etag, version |-> input[r].version]
<1>1. m \in Meta /\ known[r] \in Meta
  BY InputFields DEF TypeOK, AtHand, Meta
<1>2. entry' \in Entry \cup {NoEntry}
  <2>1. \A lives \in BOOLEAN : entry # NoEntry => [entry EXCEPT !.meta = m, !.fresh = lives] \in Entry
    BY <1>1 DEF TypeOK, Entry
  <2>2. entry \in Entry \cup {NoEntry}
    BY DEF TypeOK
  <2> QED
    BY <2>1, <2>2
<1>3. Updated(r, m) \in Meta
  BY <1>1 DEF Updated
<1>4. Failed \in Result /\ Commits(Updated(r, m), "REVALIDATED") \in Result
  BY <1>3 DEF Result, Commits, Committed
<1> QED
  BY <1>2, <1>4, TypedEnd DEF TypeOK

LEMMA TypedPut ==
    ASSUME Typed, OneLeader, NEW r \in Requests, Put(r) PROVE Typed'
<1> USE DEF Typed, Put, Leads, OneLeader
<1>1. Committing(r) \in Meta /\ body[r] \in Contents
  BY InputFields DEF Committing, TypeOK, AtHand, Meta
<1>2. ASSUME NEW lives \in BOOLEAN,
             entry' = [meta |-> Committing(r), fresh |-> lives, body |-> body[r]],
             Goto(r, "enforcing"), UNCHANGED <<coalescing, known, body>>
      PROVE  Typed'
  <2>1. entry' \in Entry
    BY <1>1, <1>2 DEF Entry
  <2> QED
    BY <2>1, <1>1, <1>2 DEF TypeOK, AtHand, Goto, LeaderUnchanged
<1>3. ASSUME End(r, Failed), UNCHANGED entry PROVE Typed'
  BY <1>3, TypedEnd DEF TypeOK, Result
<1> QED
  BY <1>2, <1>3

LEMMA TypedEnforce ==
    ASSUME Typed, OneLeader, NEW r \in Requests, Enforce(r) PROVE Typed'
<1> USE DEF Typed, Enforce, Leads, OneLeader
<1>1. Committing(r) \in Meta
  BY InputFields DEF Committing, TypeOK, AtHand, Meta
<1>2. Failed \in Result /\ Commits(Committing(r), "MISS") \in Result
  BY <1>1 DEF Result, Commits, Committed
<1> QED
  BY <1>2, TypedEnd DEF TypeOK

LEMMA TypedStep == Typed /\ OneLeader /\ [Next]_vars => Typed'
<1> SUFFICES ASSUME Typed, OneLeader, [Next]_vars PROVE Typed'
  OBVIOUS
<1>1. ASSUME NEW r \in Requests, Arrive(r) PROVE Typed'
  BY <1>1 DEF Arrive, Goto, Typed, TypeOK, AtHand
<1>2. ASSUME NEW r \in Requests, Join(r) PROVE Typed'
  BY <1>2 DEF Join, F!Lead, F!Follow, Goto, Typed, TypeOK, AtHand
<1>3. ASSUME NEW r \in Requests, Proceed(r) \/ AsksUpstream(r) PROVE Typed'
  BY <1>2, <1>3, TypedLook, TypedPass, TypedConclude, TypedOpenBody, TypedLookAgain,
     TypedFetch, TypedRefresh, TypedPut, TypedEnforce DEF Proceed, AsksUpstream
<1>4. ASSUME Deploy \/ Lose \/ Expire PROVE Typed'
  <2>1. UNCHANGED <<coalescing, locals>>
    BY <1>4 DEF Deploy, Lose, Expire
  <2>2. entry' \in Entry \cup {NoEntry}
    BY <1>4 DEF Deploy, Lose, Expire, Typed, TypeOK, Entry
  <2>3. origin' \in [Versions -> Contents]
    BY <1>4 DEF Deploy, Lose, Expire, Typed, TypeOK
  <2> QED
    BY <2>1, <2>2, <2>3 DEF coalescing, locals, Typed, TypeOK, AtHand
<1>5. ASSUME UNCHANGED vars PROVE Typed'
  BY <1>5 DEF vars, Typed, TypeOK, AtHand
<1> QED
  BY <1>1, <1>3, <1>4, <1>5 DEF Next

-----------------------------------------------------------------------------
(* The inductive invariant.                                                  *)

\* What the flight knows is the stored body's, or the entry is gone: nobody
\* but its leader puts a body, and a lost entry does not come back by itself.
KnownIsStored ==
    \A r \in Requests :
        step[r] \in {"fetching", "refreshing"} /\ known[r] # NoMeta /\ entry # NoEntry
            => entry.body = known[r].etag

\* A stream is under way only until do_call has returned.
Streaming == \A r \in Requests : sent[r] => step[r] \in {"storing", "enforcing", "waiting", "stranded"}

Inv == Typed /\ OneLeader /\ KnownIsStored /\ Coherent /\ Streaming

LEMMA InvInit == Init => Inv
BY TypedInit DEF Init, Inv, OneLeader, Leads, KnownIsStored, Coherent, Streaming

\* A request that leads leads the open flight; only End closes it.
LEMMA OneLeaderStep == Inv /\ [Next]_vars => OneLeader'
<1> SUFFICES ASSUME Typed, OneLeader, [Next]_vars PROVE OneLeader'
  BY DEF Inv
<1> USE DEF Typed, TypeOK, OneLeader, Leads, Goto
<1>1. ASSUME NEW r \in Requests, NEW o, Leads(r), End(r, o) PROVE OneLeader'
  BY <1>1, WakesSteps DEF End, F!Finish
<1>2. ASSUME NEW r \in Requests, Leads(r), UNCHANGED coalescing,
             \E s \in {"fetching", "refreshing", "storing", "enforcing"} : Goto(r, s)
      PROVE  OneLeader'
  BY <1>2
<1>3. ASSUME NEW r \in Requests, LookAgain(r) \/ Fetch(r) \/ Refresh(r) \/ Put(r) \/ Enforce(r)
      PROVE  OneLeader'
  <2> DEFINE Ends == \E o : End(r, o)
             Goes == /\ UNCHANGED coalescing
                     /\ \E s \in {"fetching", "refreshing", "storing", "enforcing"} : Goto(r, s)
  <2>1. Leads(r)
    BY <1>3 DEF LookAgain, Fetch, Refresh, Put, Enforce
  <2>2. LookAgain(r) \/ Refresh(r) \/ Put(r) \/ Enforce(r) => Ends \/ Goes
    BY DEF LookAgain, Refresh, Put, Enforce
  <2>3. Fetch(r) => Ends \/ Goes
    BY DEF Fetch, NotModified, Fetched, Trouble
  <2> QED
    BY <1>1, <1>2, <1>3, <2>1, <2>2, <2>3
<1>4. ASSUME NEW r \in Requests, Join(r) PROVE OneLeader'
  <2>1. ASSUME F!Lead(r, Key, open'[Key]), open'[Key] \in Flights, Goto(r, "leading")
        PROVE  OneLeader'
    <3>1. open[Key] = NoFlight /\ \A q \in Requests : ~Leads(q)
      BY <2>1 DEF F!Lead
    <3>2. flight' = [flight EXCEPT ![r] = open'[Key]]
      BY <2>1 DEF F!Lead
    <3> QED
      BY <2>1, <3>1, <3>2
  <2>2. ASSUME F!Follow(r, Key), Goto(r, "waiting") PROVE OneLeader'
    BY <1>4, <2>2 DEF F!Follow, Join
  <2>3. ASSUME NEW f \in Flights, F!Lead(r, Key, f) PROVE open'[Key] = f
    BY <2>3 DEF F!Lead
  <2> QED
    BY <1>4, <2>1, <2>2, <2>3 DEF Join
<1>5. ASSUME NEW r \in Requests, Arrive(r) \/ Look(r) \/ Pass(r) \/ OpenBody(r)
      PROVE  OneLeader'
  BY <1>5 DEF Arrive, Look, Pass, OpenBody, Reply, Serve
<1>6. ASSUME NEW r \in Requests, Conclude(r) PROVE OneLeader'
  BY <1>6 DEF Conclude, ServeResult, AfterFailure, FallBack, Reply, Serve
<1>7. ASSUME Deploy \/ Lose \/ Expire \/ UNCHANGED vars PROVE OneLeader'
  BY <1>7 DEF Deploy, Lose, Expire, vars
<1> QED
  BY <1>3, <1>4, <1>5, <1>6, <1>7 DEF Next, Proceed, AsksUpstream

LEMMA StoredStep == Inv /\ [Next]_vars => KnownIsStored' /\ Coherent'
<1> SUFFICES ASSUME Inv, [Next]_vars PROVE KnownIsStored' /\ Coherent'
  OBVIOUS
<1> USE DEF Inv, Typed, TypeOK, OneLeader, Leads, KnownIsStored, Coherent, Goto
<1>1. ASSUME NEW r \in Requests, NEW o, End(r, o), UNCHANGED entry
      PROVE  KnownIsStored' /\ Coherent'
  BY <1>1, WakesSteps DEF End
<1>2. ASSUME NEW r \in Requests, LookAgain(r) PROVE KnownIsStored' /\ Coherent'
  <2>1. ASSUME NEW m \in {Stored, NoMeta}, known' = [known EXCEPT ![r] = m],
               Goto(r, "fetching"), UNCHANGED entry
        PROVE  KnownIsStored' /\ Coherent'
    BY <2>1 DEF Stored
  <2> QED
    BY <1>1, <1>2, <2>1 DEF LookAgain, FoundNow
<1>3. ASSUME NEW r \in Requests, Fetch(r) PROVE KnownIsStored' /\ Coherent'
  <2>1. ASSUME Goto(r, "refreshing") \/ Goto(r, "storing"), UNCHANGED <<known, entry>>,
               step[r] = "fetching"
        PROVE  KnownIsStored' /\ Coherent'
    BY <2>1
  <2> QED
    BY <1>1, <1>3, <2>1 DEF Fetch, NotModified, Fetched, Trouble
<1>4. ASSUME NEW r \in Requests, Refresh(r) PROVE KnownIsStored' /\ Coherent'
  <2>1. ASSUME entry # NoEntry,
               NEW m, m.etag = known[r].etag, NEW lives \in BOOLEAN,
               entry' = [entry EXCEPT !.meta = m, !.fresh = lives]
        PROVE  entry'.meta.etag = entry'.body /\ entry'.body = entry.body
    <3>1. entry \in Entry /\ known[r].etag = entry.body
      BY <1>4, <2>1 DEF Refresh, AtHand
    <3>2. entry'.meta = m /\ entry'.body = entry.body
      BY <2>1, <3>1 DEF Entry
    <3> QED
      BY <2>1, <3>1, <3>2
  <2>2. entry' # NoEntry =>
           entry # NoEntry /\ entry'.meta.etag = entry'.body /\ entry'.body = entry.body
    BY <1>4, <2>1 DEF Refresh
  <2>3. \A o : End(r, o) => step'[r] = "waiting" /\ known'[r] = NoMeta
    BY WakesSteps DEF End
  <2>4. \A o : End(r, o) =>
           \A q \in Requests \ {r} : /\ known'[q] = known[q]
                                     /\ step'[q] = step[q] \/ step'[q] = "stranded"
    BY WakesSteps DEF End
  <2>5. \E o : End(r, o)
    BY <1>4 DEF Refresh
  <2> QED
    BY <1>4, <2>2, <2>3, <2>4, <2>5 DEF Refresh
<1>5. ASSUME NEW r \in Requests, Put(r) PROVE KnownIsStored' /\ Coherent'
  <2>1. ASSUME entry'.meta.etag = entry'.body, Goto(r, "enforcing"), UNCHANGED known
        PROVE  KnownIsStored' /\ Coherent'
    BY <1>5, <2>1 DEF Put
  <2> QED
    BY <1>1, <1>5, <2>1 DEF Put, Committing
<1>6. ASSUME NEW r \in Requests, Enforce(r) PROVE KnownIsStored' /\ Coherent'
  BY <1>6, WakesSteps DEF Enforce, End
<1>7. ASSUME NEW r \in Requests,
             Arrive(r) \/ Look(r) \/ Pass(r) \/ Join(r) \/ OpenBody(r)
      PROVE  KnownIsStored' /\ Coherent'
  BY <1>7 DEF Arrive, Look, Pass, Join, OpenBody, Reply, Serve
<1>8. ASSUME NEW r \in Requests, Conclude(r) PROVE KnownIsStored' /\ Coherent'
  BY <1>8 DEF Conclude, ServeResult, AfterFailure, FallBack, Reply, Serve
<1>9. ASSUME Deploy \/ Lose \/ Expire \/ UNCHANGED vars PROVE KnownIsStored' /\ Coherent'
  BY <1>9 DEF Deploy, Lose, Expire, vars, Entry
<1> QED
  BY <1>2, <1>3, <1>4, <1>5, <1>6, <1>7, <1>8, <1>9 DEF Next, Proceed, AsksUpstream

LEMMA StreamingStep == Inv /\ [Next]_vars => Streaming'
<1> SUFFICES ASSUME Typed, Streaming, [Next]_vars PROVE Streaming'
  BY DEF Inv
<1> USE DEF Typed, TypeOK, Streaming, Goto, LeaderUnchanged
<1>1. ASSUME NEW r \in Requests, Fetch(r) PROVE Streaming'
  BY <1>1, WakesSteps DEF Fetch, NotModified, Fetched, Trouble, End
<1>2. ASSUME NEW r \in Requests, LookAgain(r) \/ Refresh(r) \/ Put(r) \/ Enforce(r)
      PROVE  Streaming'
  <2>1. ASSUME NEW o, End(r, o), UNCHANGED sent PROVE Streaming'
    BY <2>1, WakesSteps DEF End
  <2> QED
    BY <1>2, <2>1 DEF LookAgain, Refresh, Put, Enforce
<1>3. ASSUME NEW r \in Requests,
             Arrive(r) \/ Look(r) \/ Pass(r) \/ Join(r) \/ OpenBody(r)
      PROVE  Streaming'
  BY <1>3 DEF Arrive, Look, Pass, Join, OpenBody, Reply, Serve
<1>4. ASSUME NEW r \in Requests, Conclude(r) PROVE Streaming'
  BY <1>4 DEF Conclude, ServeResult, AfterFailure, FallBack, Reply, Serve
<1>5. ASSUME Deploy \/ Lose \/ Expire \/ UNCHANGED vars PROVE Streaming'
  BY <1>5 DEF Deploy, Lose, Expire, vars
<1> QED
  BY <1>1, <1>2, <1>3, <1>4, <1>5 DEF Next, Proceed, AsksUpstream

LEMMA InvAlways == Spec => []Inv
<1>1. Inv /\ [Next]_vars => Inv'
  BY TypedStep, OneLeaderStep, StoredStep, StreamingStep DEF Inv
<1> QED
  BY InvInit, <1>1, PTL DEF Spec

-----------------------------------------------------------------------------
(* Theorems.                                                                 *)

\* serve_target and fetch keep the types of their locals, of the flight's
\* results and of the answers.
THEOREM TypeCorrect == Spec => []TypeOK
<1>1. Inv => TypeOK
  BY DEF Inv, Typed
<1> QED
  BY InvAlways, <1>1, PTL

\* The store never holds one body under another's metadata: a 304 is applied
\* only to the entry it was asked for.
THEOREM CoherentCorrect == Spec => []Coherent
<1>1. Inv => Coherent
  BY DEF Inv
<1> QED
  BY InvAlways, <1>1, PTL

\* serve_target sends nothing after a streamed response but its end.
THEOREM OneResponseCorrect == Spec => OneResponse
<1> DEFINE Ends(r) == sent[r] /\ ~sent'[r]
           Final(r) == answer'[r].status \in {"MISS", "MISS-UNCACHED", "DROPPED"}
<1>1. ASSUME Inv, Next PROVE \A r \in Requests : Ends(r) => Final(r)
  <2> SUFFICES ASSUME NEW r \in Requests, Ends(r) PROVE Final(r)
    OBVIOUS
  <2> USE <1>1 DEF Inv, Typed, TypeOK, Streaming
  <2>1. \A q \in Requests : Look(q) \/ Pass(q) \/ OpenBody(q) => q # r
    BY DEF Look, Pass, OpenBody
  <2>2. ASSUME NEW q \in Requests,
               Arrive(q) \/ Look(q) \/ Pass(q) \/ Join(q) \/ OpenBody(q)
        PROVE  FALSE
    BY <2>1, <2>2 DEF Arrive, Look, Pass, Join, OpenBody, Reply, Serve
  <2>3. ASSUME NEW q \in Requests,
               LookAgain(q) \/ Refresh(q) \/ Put(q) \/ Enforce(q)
        PROVE  FALSE
    BY <2>3 DEF LookAgain, Refresh, Put, Enforce
  <2>4. ASSUME NEW q \in Requests, Fetch(q) PROVE FALSE
    BY <2>4 DEF Fetch, NotModified, Fetched, Trouble
  <2>5. ASSUME NEW q \in Requests, Conclude(q) PROVE Final(r)
    <3>1. q = r /\ ServeResult(r, outcome[flight[r]])
      BY <2>5 DEF Conclude, ServeResult, AfterFailure, FallBack, Reply, Serve
    <3>2. \E s \in {"MISS", "MISS-UNCACHED", "DROPPED"}, c \in {200, outcome[flight[r]].code} :
             Reply(r, Sends(s, c))
      BY <3>1 DEF ServeResult, AfterFailure, Serve
    <3> QED
      BY <3>2 DEF Reply, Sends
  <2>6. ASSUME Deploy \/ Lose \/ Expire PROVE FALSE
    BY <2>6 DEF Deploy, Lose, Expire
  <2> QED
    BY <2>2, <2>3, <2>4, <2>5, <2>6 DEF Next, Proceed, AsksUpstream
<1>2. Inv /\ [Next]_vars => [\A r \in Requests : Ends(r) => Final(r)]_vars
  BY <1>1
<1> QED
  BY InvAlways, <1>2, PTL DEF Spec, OneResponse
=============================================================================
