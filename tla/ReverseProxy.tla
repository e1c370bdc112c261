----------------------------- MODULE ReverseProxy -----------------------------
(***************************************************************************)
(* The caching reverse proxy, src/src/host/reverseproxy/provider.cpp: how  *)
(* requests for one cache key are served from the store or upstream.       *)
(*                                                                         *)
(* Requests are coroutines of different connections.  Each co_await lets   *)
(* others run: the look into the store, the flight, the upstream request,  *)
(* the put, the enforcement, and the read of the body, which open_body     *)
(* takes from the store long after the metadata was read.  The flight is   *)
(* Coalescer (Flight implements it); one store operation is one step       *)
(* (CacheStore has their insides) and may throw; the store may at any time *)
(* lose the entry to clear or to an eviction, or have it expired.          *)
(*                                                                         *)
(* The key's rule is one that revalidates on a version change: requests    *)
(* for the versions of a resource, each at a URL of its own, share a key.  *)
(* Upstream's responses carry an ETag, and its errors are not cacheable.   *)
(***************************************************************************)
CONSTANTS Requests,  \* request handlers
          Key, Flights,
          Contents,  \* bodies; a body's ETag is named by the body
          Versions,  \* version labels
          Inputs,    \* the requests clients make
          ForceCache,   \* the rule's force_cache
          NoContent, NoInput, NoMeta, NoEntry, NoAnswer, Nothing,
          NoFlight, NoOutcome, Pending

\* What decides how a request is served: method, no-cache, Range, the body the
\* client already has (its If-None-Match), the version its URL names; bypass
\* stands for other methods and bypass rules.
Input == [method: {"GET", "HEAD"}, bypass: BOOLEAN, reload: BOOLEAN, range: BOOLEAN,
          have: Contents \cup {NoContent}, version: Versions]

\* Metadata: the ETag and the version it was stored or validated for.  Its
\* expiry matters only where it is read, and stays with the entry.
Meta == [etag: Contents, version: Versions]
Entry == [meta: Meta, fresh: BOOLEAN, body: Contents]

\* FetchResult of a flight, or the exception that ends it.
Committed == [kind: {"committed"}, meta: Meta, status: {"HIT", "MISS", "REVALIDATED"}]
Uncached == [kind: {"uncached"}, code: {200, 304, 500}, body: Contents \cup {NoContent}]
Failed == [kind |-> "failed"]
Result == Committed \cup Uncached \cup {Failed}

Statuses == {"BYPASS", "HIT", "STALE-HEAD", "STALE", "MISS", "REVALIDATED",
             "MISS-UNCACHED", "DROPPED", "ERROR"}
Serving == [meta: Meta, status: Statuses]
Answer == [status: Statuses, code: {200, 304, 500, 502}]

ASSUME ProxyAssumption ==
    /\ Inputs \subseteq Input /\ NoInput \notin Inputs
    /\ ForceCache \in BOOLEAN
    /\ NoContent \notin Contents /\ NoMeta \notin Meta /\ NoEntry \notin Entry
    /\ Nothing \notin Serving
    /\ NoFlight \notin Flights /\ NoOutcome \notin Result

VARIABLES
    origin,    \* upstream: the body at each version's URL
    entry,     \* the store: metadata and body of the key, or NoEntry
    open, flight, outcome,   \* flights_, see Coalescer
    step,      \* per request: progress, "idle" between requests
    input,     \* per request: what the client asks, or NoInput
    cached,    \* per request: the metadata it found, or NoMeta
    known,     \* per leader: the metadata its flight found, or NoMeta
    body,      \* per leader: the upstream body collected, or NoContent
    serving,   \* per request: the metadata it serves a body for, and as what
    sent,      \* per request: header_sent, the leader's stream has begun
    answer     \* per request: status and X-Studio-Cache of its last answer

coalescing == <<open, flight, outcome>>
locals == <<step, input, cached, known, body, serving, sent, answer>>
vars == <<origin, entry, coalescing, locals>>

F == INSTANCE Coalescer WITH Callers <- Requests, Keys <- {Key}, Outcomes <- Result,
                               got <- [r \in Requests |-> Pending]

Init ==
    /\ origin \in [Versions -> Contents]
    /\ entry = NoEntry
    /\ F!Init
    /\ step = [r \in Requests |-> "idle"]
    /\ input = [r \in Requests |-> NoInput]
    /\ cached = [r \in Requests |-> NoMeta]
    /\ known = [r \in Requests |-> NoMeta]
    /\ body = [r \in Requests |-> NoContent]
    /\ serving = [r \in Requests |-> Nothing]
    /\ sent = [r \in Requests |-> FALSE]
    /\ answer = [r \in Requests |-> NoAnswer]

Goto(r, s) == step' = [step EXCEPT ![r] = s]
Stored == IF entry = NoEntry THEN NoMeta ELSE entry.meta

\* The request is over; its locals are gone.
Reply(r, a) ==
    /\ answer' = [answer EXCEPT ![r] = a]
    /\ Goto(r, "idle")
    /\ input' = [input EXCEPT ![r] = NoInput]
    /\ cached' = [cached EXCEPT ![r] = NoMeta]
    /\ serving' = [serving EXCEPT ![r] = Nothing]
    /\ sent' = [sent EXCEPT ![r] = FALSE]
    /\ UNCHANGED <<known, body>>

Sends(s, code) == [status |-> s, code |-> code]

\* serve_content: the body with this ETag, unless the client has it.
SendsContent(r, s, etag) == Sends(s, IF input[r].have = etag THEN 304 ELSE 200)

\* The next step of r reads the body that goes with metadata m.
Serve(r, m, s) ==
    /\ serving' = [serving EXCEPT ![r] = [meta |-> m, status |-> s]]
    /\ Goto(r, "serving")
    /\ UNCHANGED <<input, cached, known, body, sent, answer>>

Arrive(r) ==
    /\ step[r] = "idle"
    /\ \E i \in Inputs : input' = [input EXCEPT ![r] = i]
    /\ answer' = [answer EXCEPT ![r] = NoAnswer]
    /\ Goto(r, "asked")
    /\ UNCHANGED <<origin, entry, coalescing, cached, known, body, serving, sent>>

-----------------------------------------------------------------------------
(* serve_target                                                             *)

\* no-cache, or stored for another version than the one asked for.
MustRevalidate(r, m) == input[r].reload \/ (m # NoMeta /\ m.version # input[r].version)
Fresh(m) == m # NoMeta /\ entry.fresh

\* One look into the store, whose errors count as nothing found, decides: a
\* hit, a HEAD answered from what is stored, or no use of what was found.
Look(r) ==
    /\ step[r] = "asked" /\ ~input[r].bypass
    /\ \E m \in {Stored, NoMeta} :
          LET forced == MustRevalidate(r, m)
              head == input[r].method = "HEAD"
              slice == input[r].range /\ m = NoMeta /\ ~ForceCache
          IN \/ Fresh(m) /\ ~forced /\ Serve(r, m, "HIT")
             \/ ~Fresh(m) /\ m # NoMeta /\ ~forced /\ head /\ Serve(r, m, "STALE-HEAD")
             \/ /\ m = NoMeta \/ forced \/ (~Fresh(m) /\ ~head)
                /\ cached' = [cached EXCEPT ![r] = m]
                /\ Goto(r, IF head \/ slice THEN "passing" ELSE "missed")
                /\ UNCHANGED <<input, known, body, serving, sent, answer>>
    /\ UNCHANGED <<origin, entry, coalescing>>

\* proxy_pass: upstream's own answer, or 502 if it cannot be reached.
Pass(r) ==
    /\ step[r] = "passing" \/ (step[r] = "asked" /\ input[r].bypass)
    /\ LET etag == origin[input[r].version]
       IN \E a \in {SendsContent(r, "BYPASS", etag), Sends("BYPASS", 502)} : Reply(r, a)
    /\ UNCHANGED <<origin, entry, coalescing>>

\* flights_.do_call
Join(r) ==
    /\ step[r] = "missed"
    /\ \/ (\E f \in Flights : F!Lead(r, Key, f)) /\ Goto(r, "leading")
       \/ F!Follow(r, Key) /\ Goto(r, "waiting")
    /\ UNCHANGED <<origin, entry, input, cached, known, body, serving, sent, answer>>

\* A failure serves what was found before, if stale-if-error still allows it;
\* a leader that has begun to stream can only drop the connection.
FallBack(r) ==
    \/ cached[r] # NoMeta /\ Serve(r, cached[r], "STALE")
    \/ Reply(r, Sends("STALE", 502))

AfterFailure(r) ==
    \/ sent[r] /\ Reply(r, Sends("DROPPED", 200))
    \/ ~sent[r] /\ FallBack(r)

ServeResult(r, o) ==
    \/ o.kind = "failed" /\ AfterFailure(r)
    \/ /\ o.kind = "committed"
       /\ IF sent[r] THEN Reply(r, Sends("MISS", 200))
                     ELSE Serve(r, o.meta, o.status)
    \/ /\ o.kind = "uncached"
       /\ Reply(r, Sends("MISS-UNCACHED", o.code))

\* do_call returns or throws what the flight ended with (F!Return), which is
\* used at once; nothing is left of a flight nobody waits for.
Conclude(r) ==
    /\ step[r] = "waiting" /\ outcome[flight[r]] \in Result
    /\ flight' = [flight EXCEPT ![r] = NoFlight]
    /\ outcome' = [f \in Flights |-> IF \E q \in Requests \ {r} : flight[q] = f
                                     THEN outcome[f] ELSE NoOutcome]
    /\ ServeResult(r, outcome[flight[r]])
    /\ UNCHANGED <<origin, entry, open>>

\* serve_entry: without a body open_body throws, and the session answers 500.
OpenBody(r) ==
    /\ step[r] = "serving"
    /\ \/ entry # NoEntry /\ Reply(r, SendsContent(r, serving[r].status, serving[r].meta.etag))
       \/ Reply(r, Sends("ERROR", 500))
    /\ UNCHANGED <<origin, entry, coalescing>>
-----------------------------------------------------------------------------
(* The flight: the lambda of serve_target, and fetch                        *)

LeaderUnchanged == UNCHANGED <<input, cached, serving, answer>>

\* The leader has its outcome, and the followers are woken: but for those whose
\* wait comes between the two halves of expires_at, of which nobody knows any more.
Wakes(r) ==
    \E late \in SUBSET {q \in Requests : step[q] = "waiting" /\ flight[q] = flight[r]} :
        step' = [q \in Requests |-> IF q = r THEN "waiting"
                                   ELSE IF q \in late THEN "stranded"
                                   ELSE step[q]]

\* The lambda returns o or throws: the flight is over.
EndValue(r, o) ==
    /\ IF o = Failed THEN UNCHANGED coalescing ELSE F!Finish(Key, o)
    /\ known' = [known EXCEPT ![r] = NoMeta]
    /\ body' = [body EXCEPT ![r] = NoContent]
    /\ Wakes(r)

End(r, o) ==
    /\ F!Finish(Key, o)
    /\ known' = [known EXCEPT ![r] = NoMeta]
    /\ body' = [body EXCEPT ![r] = NoContent]
    /\ Wakes(r)

Commits(m, s) == [kind |-> "committed", meta |-> m, status |-> s]
Passes(code, b) == [kind |-> "uncached", code |-> code, body |-> b]

FoundBefore(r) == {IF entry = NoEntry THEN NoMeta ELSE cached[r]}
FoundNow(r) == {Stored, NoMeta}

\* The leader looks again: another flight may have filled the cache.
LookAgain(r) ==
    /\ step[r] = "leading"
    /\ \E m \in FoundNow(r) :
          LET forced == MustRevalidate(r, cached[r]) \/ MustRevalidate(r, m)
          IN IF Fresh(m) /\ ~forced
             THEN End(r, Commits(m, "HIT"))
             ELSE /\ known' = [known EXCEPT ![r] = m]
                  /\ Goto(r, "fetching")
                  /\ UNCHANGED <<coalescing, body>>
    /\ UNCHANGED <<origin, entry, sent>> /\ LeaderUnchanged

\* The If-None-Match sent: ours, else the client's own.
Condition(r) == IF known[r] # NoMeta THEN known[r].etag ELSE input[r].have

\* A 304 refreshes what is known; without that it is a response like others.
NotModified(r) ==
    /\ origin[input[r].version] = Condition(r)
    /\ \/ known[r] # NoMeta /\ Goto(r, "refreshing") /\ UNCHANGED <<coalescing, known, body>>
       \/ known[r] = NoMeta /\ End(r, Passes(304, NoContent))
    /\ UNCHANGED sent

\* A 200, streamed to the leader's client while it is collected unless it has
\* to be decoded; whether it is cacheable is a matter of its headers.
Fetched(r) ==
    LET content == origin[input[r].version]
    IN /\ content # Condition(r)
       /\ \E streamed \in BOOLEAN : sent' = [sent EXCEPT ![r] = streamed]
       /\ \/ End(r, Passes(200, content))
          \/ /\ body' = [body EXCEPT ![r] = content]
             /\ Goto(r, "storing")
             /\ UNCHANGED <<coalescing, known>>

\* A 5xx counts as a failure when something is known, else it is passed on;
\* the connection may fail, and after the stream has begun.
Trouble(r) ==
    /\ \E streamed \in BOOLEAN : sent' = [sent EXCEPT ![r] = streamed]
    /\ \/ End(r, Failed)
       \/ known[r] = NoMeta /\ End(r, Passes(500, NoContent))

Fetch(r) ==
    /\ step[r] = "fetching"
    /\ NotModified(r) \/ Fetched(r) \/ Trouble(r)
    /\ UNCHANGED <<origin, entry>> /\ LeaderUnchanged

\* What is served after a 304: the refreshed metadata, or else what was known.
Updated(r, m) == IF entry # NoEntry THEN m ELSE known[r]

\* update_metadata: an entry lost meanwhile stays lost.
Refresh(r) ==
    LET m == [etag |-> known[r].etag, version |-> input[r].version]
    IN /\ step[r] = "refreshing"
       /\ \/ /\ \E lives \in BOOLEAN :
                   entry' = IF entry = NoEntry THEN NoEntry
                            ELSE [entry EXCEPT !.meta = m, !.fresh = lives]
             /\ End(r, Commits(Updated(r, m), "REVALIDATED"))
          \/ End(r, Failed) /\ UNCHANGED entry
       /\ UNCHANGED <<origin, sent>> /\ LeaderUnchanged

Committing(r) == [etag |-> body[r], version |-> input[r].version]

Put(r) ==
    /\ step[r] = "storing"
    /\ \/ /\ \E lives \in BOOLEAN :
                entry' = [meta |-> Committing(r), fresh |-> lives, body |-> body[r]]
          /\ Goto(r, "enforcing")
          /\ UNCHANGED <<coalescing, known, body>>
       \/ End(r, Failed) /\ UNCHANGED entry
    /\ UNCHANGED <<origin, sent>> /\ LeaderUnchanged

\* enforce_max_size may evict what was just put.
Enforce(r) ==
    /\ step[r] = "enforcing"
    /\ \/ entry' \in {entry, NoEntry} /\ End(r, Commits(Committing(r), "MISS"))
       \/ End(r, Failed) /\ UNCHANGED entry
    /\ UNCHANGED <<origin, sent>> /\ LeaderUnchanged
-----------------------------------------------------------------------------
(* Upstream and the store's other users                                     *)

\* Upstream publishes something else at a URL.
Deploy ==
    /\ \E v \in Versions, b \in Contents : origin' = [origin EXCEPT ![v] = b]
    /\ UNCHANGED <<entry, coalescing, locals>>

\* clear, or an eviction on behalf of another key.
Lose ==
    /\ entry # NoEntry
    /\ entry' = NoEntry
    /\ UNCHANGED <<origin, coalescing, locals>>

\* The entry's time is up, or expire_cache says so.
Expire ==
    /\ entry # NoEntry
    /\ entry' = [entry EXCEPT !.fresh = FALSE]
    /\ UNCHANGED <<origin, coalescing, locals>>

AsksUpstream(r) == Pass(r) \/ Fetch(r)
Proceed(r) ==
    \/ Look(r) \/ Join(r) \/ Conclude(r) \/ OpenBody(r)
    \/ LookAgain(r) \/ Refresh(r) \/ Put(r) \/ Enforce(r)

Next ==
    \/ \E r \in Requests : Arrive(r) \/ Proceed(r) \/ AsksUpstream(r)
    \/ Deploy \/ Lose \/ Expire

Spec == Init /\ [][Next]_vars

\* The executors run every coroutine that can go on.  A request to upstream need
\* not end: its timeout does not cover the dial.
FairSpec == Spec /\ \A r \in Requests : WF_vars(Proceed(r))

-----------------------------------------------------------------------------
(* Properties.                                                              *)

TypeOK ==
    /\ origin \in [Versions -> Contents]
    /\ entry \in Entry \cup {NoEntry}
    /\ open \in [{Key} -> Flights \cup {NoFlight}]
    /\ flight \in [Requests -> Flights \cup {NoFlight}]
    /\ outcome \in [Flights -> Result \cup {NoOutcome}]
    /\ step \in [Requests -> {"idle", "asked", "passing", "missed", "leading", "fetching",
                              "refreshing", "storing", "enforcing", "waiting",
                              "stranded", "serving"}]
    /\ input \in [Requests -> Inputs \cup {NoInput}]
    /\ cached \in [Requests -> Meta \cup {NoMeta}]
    /\ known \in [Requests -> Meta \cup {NoMeta}]
    /\ body \in [Requests -> Contents \cup {NoContent}]
    /\ serving \in [Requests -> Serving \cup {Nothing}]
    /\ sent \in [Requests -> BOOLEAN]
    /\ answer \in [Requests -> Answer \cup {NoAnswer}]

\* The stored metadata is that of the stored body, however flights, lost
\* entries and redeployed resources alternate: a 304 is applied only to the
\* entry it was asked for, which the flight sees to.
Coherent == entry # NoEntry => entry.meta.etag = entry.body

\* A client that has begun to receive a streamed response is sent no other:
\* no stale copy, no 502, no second serving of what was committed.
OneResponse ==
    [][\A r \in Requests : sent[r] /\ ~sent'[r]
          => answer'[r].status \in {"MISS", "MISS-UNCACHED", "DROPPED"}]_vars

\* A request of its own to upstream is under way.
AtUpstream(r) ==
    \/ step[r] \in {"passing", "fetching"}
    \/ step[r] = "asked" /\ input[r].bypass

\* Unless a request to upstream hangs for good, every request is answered or
\* dropped, or is a follower stranded by the join race: no failure of the store or
\* upstream, before or after the stream has begun, leaves a leader, or a follower
\* that was on the timer, waiting.
EveryRequestEnds ==
    (\A q \in Requests : []<>~AtUpstream(q))
        => \A r \in Requests : step[r] # "idle" ~> step[r] \in {"idle", "stranded"}
=============================================================================
