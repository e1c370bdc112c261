---------------------------- MODULE ResponseStore ----------------------------
(***************************************************************************)
(* What a cache Backend (src/src/cache/backend.hpp) promises: under a key  *)
(* there is nothing, or a copy of one response whose metadata and body     *)
(* belong together; and a call changes what is held in one step at most,   *)
(* between its beginning and its return: "put stores a fully-buffered body *)
(* + metadata in one atomic write", expire reaches "every entry the        *)
(* predicate accepts, keeping bodies".                                     *)
(*                                                                         *)
(* LevelDbStore keeps the promise until an operation that does not take    *)
(* write_mu_ overtakes one that does; of what comes after nothing is said. *)
(***************************************************************************)
CONSTANTS Keys, Contents, Callers,
          Calls,            \* the operations, with their arguments, that are called
          Missing, NoCall

Copy == [of: Contents, stale: BOOLEAN]

VARIABLES
    held,    \* per key: the Copy held, or Missing
    call,    \* per caller: the call it is in, or NoCall
    done,    \* callers whose call has had its effect
    passed,  \* callers in whose call a put has had its effect
    broken   \* the promise is off

vars == <<held, call, done, passed, broken>>

Init ==
    /\ held = [k \in Keys |-> Missing]
    /\ call = [t \in Callers |-> NoCall]
    /\ done = {} /\ passed = {}
    /\ broken = FALSE

Begin(t) ==
    /\ call[t] = NoCall
    /\ \E c \in Calls : call' = [call EXCEPT ![t] = c]
    /\ UNCHANGED <<held, done, passed>>

Calling(t, op) == call[t] # NoCall /\ call[t].op = op /\ t \notin done

Acts(t) == done' = done \cup {t} /\ UNCHANGED <<call, passed>>
Leaves(t) ==
    /\ call' = [call EXCEPT ![t] = NoCall]
    /\ done' = done \ {t} /\ passed' = passed \ {t}

Dropped(gone) == [k \in Keys |-> IF k \in gone THEN Missing ELSE held[k]]

\* A put passes others that are in a call.
Put(t) ==
    /\ Calling(t, "put")
    /\ held' = [held EXCEPT ![call[t].key] = [of |-> call[t].content, stale |-> call[t].stale]]
    /\ done' = done \cup {t}
    /\ \E P \in SUBSET {u \in Callers : call[u] # NoCall} : passed' = passed \cup P
    /\ UNCHANGED call

\* update_metadata after a 304: the copy there is stays, and is good again, or not.
Refresh(t) ==
    LET k == call[t].key
    IN /\ Calling(t, "refresh")
       /\ held[k] \in Copy
       /\ held' = [held EXCEPT ![k] = [of |-> held[k].of, stale |-> call[t].stale]]

\* expire: of the copies the predicate accepts only one put meanwhile may be left out.
Expire(t) ==
    /\ Calling(t, "expire")
    /\ \E K \in SUBSET call[t].match :
          /\ \A k \in K : held[k] \in Copy
          /\ t \notin passed => \A k \in call[t].match \ K : held[k] = Missing
          /\ held' = [k \in Keys |-> IF k \in K THEN [of |-> held[k].of, stale |-> TRUE] ELSE held[k]]

\* clear: only what is put meanwhile may stay.
Clear(t) ==
    /\ Calling(t, "clear")
    /\ \E gone \in SUBSET Keys :
          /\ t \notin passed => \A k \in Keys \ gone : held[k] = Missing
          /\ held' = Dropped(gone)

\* enforce_max_size: whole copies go, which is not said here.
Enforce(t) ==
    /\ Calling(t, "enforce")
    /\ \E gone \in SUBSET Keys : held' = Dropped(gone)

\* A call returns, or fails; a touch changes nothing that is told apart here.
Return(t) == call[t] # NoCall /\ Leaves(t) /\ UNCHANGED held

\* The process stops: no call outlives it, and every copy does.
Crash ==
    /\ call' = [t \in Callers |-> NoCall]
    /\ done' = {} /\ passed' = {}
    /\ UNCHANGED held

Kept ==
    \/ \E t \in Callers :
          \/ Begin(t) \/ Put(t) \/ Return(t)
          \/ (Refresh(t) \/ Expire(t) \/ Clear(t) \/ Enforce(t)) /\ (Acts(t) \/ Leaves(t))
    \/ Crash

Break == broken' = TRUE

Next == (Kept /\ UNCHANGED broken) \/ Break

Spec == Init /\ [][Next]_vars
=============================================================================
