-------------------------------- MODULE Flight --------------------------------
(***************************************************************************)
(* Request coalescing, FlightGroup::do_call in src/src/cache/flight.hpp.   *)
(*                                                                         *)
(* The first caller of a key registers a Call object and runs fn; those    *)
(* who find it registered wait on its steady_timer, whose expiry is far    *)
(* away until the leader sets it to the past.  The callers are coroutines  *)
(* on the threads of IoRuntime (at least two), so that a caller may be     *)
(* anywhere between finding the Call and waiting on its timer while the    *)
(* leader ends.  mutex_ is held for one step at a time.                    *)
(*                                                                         *)
(* The timer is Boost.Asio's.  expires_at first cancels the waits queued,  *)
(* then stores the new expiry; async_wait puts the waiter in the reactor's *)
(* queue, and the first waiter of the queue fixes, by the expiry it reads, *)
(* when the queue is due.                                                  *)
(***************************************************************************)
CONSTANTS Callers,   \* coroutines that call do_call
          Keys,
          Calls,     \* Call objects, of which a dead one may be allocated again
          Values, Errors,   \* what fn may return, and throw
          NoCall, NoOutcome, Pending

Outcomes == Values \cup Errors

ASSUME FlightAssumption ==
    /\ NoCall \notin Calls
    /\ NoOutcome \notin Outcomes

VARIABLES
    calls,    \* calls_: the Call registered for a key, or NoCall
    result,   \* of a Call: its value or error, or NoOutcome while both are empty
    expiry,   \* of a Call's timer: "far" (time_point::max) or "past" (min)
    queue,    \* of a Call's timer: the waiters in the reactor
    due,      \* of a Call's timer: when the reactor will complete its queue
    step,     \* per caller: progress in do_call, "out" when not in a call
    key, call,   \* per caller: its key and the Call it holds, or NoCall
    got       \* per caller: what its last call returned or threw

vars == <<calls, result, expiry, queue, due, step, key, call, got>>
timers == <<expiry, queue, due>>

Init ==
    /\ calls = [k \in Keys |-> NoCall]
    /\ result = [f \in Calls |-> NoOutcome]
    /\ expiry = [f \in Calls |-> "far"]
    /\ queue = [f \in Calls |-> {}]
    /\ due = [f \in Calls |-> "far"]
    /\ step = [c \in Callers |-> "out"]
    /\ key \in [Callers -> Keys]
    /\ call = [c \in Callers |-> NoCall]
    /\ got = [c \in Callers |-> Pending]

Goto(c, s) == step' = [step EXCEPT ![c] = s]
\* Nobody holds the Call: shared_ptr has freed it.
Free(f) == \A c \in Callers : call[c] # f

Enter(c, k, f) ==
    /\ step[c] = "out"
    /\ key' = [key EXCEPT ![c] = k]
    /\ call' = [call EXCEPT ![c] = f]
    /\ got' = [got EXCEPT ![c] = Pending]

\* calls_.find(key)
Overlooked(k) == NoCall
Registered(k) == calls[k]

\* The lookup, under mutex_, finds nothing: the caller is the leader.
Lead(c, k, f) ==
    /\ Registered(k) = NoCall
    /\ Free(f)
    /\ Enter(c, k, f)
    /\ calls' = [calls EXCEPT ![k] = f]
    /\ result' = [result EXCEPT ![f] = NoOutcome]
    /\ expiry' = [expiry EXCEPT ![f] = "far"]
    /\ Goto(c, "running")
    /\ UNCHANGED <<queue, due>>

\* The lookup finds the Call of another caller.
Follow(c, k) ==
    /\ Registered(k) # NoCall
    /\ Enter(c, k, Registered(k))
    /\ Goto(c, "joined")
    /\ UNCHANGED <<calls, result, timers>>

\* async_wait
Wait(c) ==
    /\ step[c] = "joined"
    /\ queue' = [queue EXCEPT ![call[c]] = @ \cup {c}]
    /\ due' = [due EXCEPT ![call[c]] = IF queue[call[c]] = {} THEN expiry[call[c]] ELSE @]
    /\ Goto(c, "queued")
    /\ UNCHANGED <<calls, result, expiry, key, call, got>>

ValueOnly(o) == IF o \in Values THEN o ELSE NoOutcome
ValueOrError(o) == o

\* fn is done, with a value or by an exception, and the leader publishes it.
Publish(c, o) ==
    /\ step[c] = "running"
    /\ result' = [result EXCEPT ![call[c]] = ValueOrError(o)]
    /\ Goto(c, "published")
    /\ UNCHANGED <<calls, timers, key, call, got>>

Erase(c) ==
    /\ step[c] = "published"
    /\ calls' = [calls EXCEPT ![key[c]] = NoCall]
    /\ Goto(c, "erased")
    /\ UNCHANGED <<result, timers, key, call, got>>

CancelledOnValue(f) == IF result[f] \in Values THEN queue[f] ELSE {}
Cancelled(f) == queue[f]

\* The first half of expires_at completes what is queued.
Cancel(c) ==
    /\ step[c] = "erased"
    /\ queue' = [queue EXCEPT ![call[c]] = @ \ Cancelled(call[c])]
    /\ step' = [d \in Callers |-> IF d = c THEN "cancelled"
                                  ELSE IF d \in Cancelled(call[c]) THEN "woken"
                                  ELSE step[d]]
    /\ UNCHANGED <<calls, result, expiry, due, key, call, got>>

\* do_call returns, or rethrows, what its Call holds.
Leave(c) ==
    /\ got' = [got EXCEPT ![c] = result[call[c]]]
    /\ call' = [call EXCEPT ![c] = NoCall]
    /\ Goto(c, "out")

\* The second half of expires_at, and the leader's return.
ExpireAndReturn(c) ==
    /\ step[c] = "cancelled"
    /\ expiry' = [expiry EXCEPT ![call[c]] = "past"]
    /\ Leave(c)
    /\ UNCHANGED <<calls, result, queue, due, key>>

\* The reactor completes a queue that is due.
Fire(f) ==
    /\ due[f] = "past" /\ queue[f] # {}
    /\ queue' = [queue EXCEPT ![f] = {}]
    /\ step' = [c \in Callers |-> IF c \in queue[f] THEN "woken" ELSE step[c]]
    /\ UNCHANGED <<calls, result, expiry, due, key, call, got>>

Resume(c) ==
    /\ step[c] = "woken"
    /\ Leave(c)
    /\ UNCHANGED <<calls, result, timers, key>>

Proceed(c) ==
    \/ Wait(c) \/ Erase(c) \/ Cancel(c) \/ ExpireAndReturn(c) \/ Resume(c)

Next ==
    \/ \E c \in Callers, k \in Keys : Follow(c, k) \/ \E f \in Calls : Lead(c, k, f)
    \/ \E c \in Callers, o \in Outcomes : Publish(c, o)
    \/ \E c \in Callers : Proceed(c)
    \/ \E f \in Calls : Fire(f)

Spec == Init /\ [][Next]_vars

\* Coroutines that can go on are run, and due timers fire.  Nothing is assumed
\* of callers (they need not call) or of fn (it need not end).
FairSpec ==
    /\ Spec
    /\ \A c \in Callers : WF_vars(Proceed(c))
    /\ \A f \in Calls : WF_vars(Fire(f))

-----------------------------------------------------------------------------
(* Properties.                                                              *)

\* Types of do_call's state; what a call returned is an outcome of fn.
TypeOK ==
    /\ calls \in [Keys -> Calls \cup {NoCall}]
    /\ result \in [Calls -> Outcomes \cup {NoOutcome}]
    /\ expiry \in [Calls -> {"far", "past"}]
    /\ queue \in [Calls -> SUBSET Callers]
    /\ due \in [Calls -> {"far", "past"}]
    /\ step \in [Callers -> {"out", "running", "published", "erased", "cancelled",
                             "joined", "queued", "woken"}]
    /\ key \in [Callers -> Keys]
    /\ call \in [Callers -> Calls \cup {NoCall}]
    /\ got \in [Callers -> Outcomes \cup {Pending}]

\* A Call is registered exactly while one caller runs fn for its key or has
\* not yet erased it: fn never runs twice at a time for a key, and a caller
\* never joins a Call whose leader is past waking its waiters.
Leads(c, k) == step[c] \in {"running", "published"} /\ key[c] = k
RegisteredIsLed ==
    \A k \in Keys :
        /\ \A c, d \in Callers : Leads(c, k) /\ Leads(d, k) => c = d
        /\ calls[k] # NoCall <=> \E c \in Callers : Leads(c, k) /\ call[c] = calls[k]

\* do_call implements the coalescing its comments promise: one run at a time
\* for a key, and every caller gets the outcome, value or exception, of the
\* run it joined.  A flight finishes when its Call is erased from calls_.
decided == [f \in Calls |-> IF \E k \in Keys : calls[k] = f THEN NoOutcome
                                                            ELSE result[f]]
Coalescing == INSTANCE Coalescer WITH
    Flights <- Calls, NoFlight <- NoCall,
    open <- calls, flight <- call, outcome <- decided
Coalesces == Coalescing!Spec

\* Whoever waits on the timer when fn ends returns, and by an exception too:
\* "the completion is guaranteed even on exception".
QueuedReturn ==
    \A c \in Callers :
        step[c] = "queued" /\ (\E d \in Callers : call[d] = call[c] /\ step[d] = "published")
            ~> step[c] = "out"
=============================================================================
