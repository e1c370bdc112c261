------------------------------ MODULE Coalescer ------------------------------
(***************************************************************************)
(* What FlightGroup (src/src/cache/flight.hpp) promises, by its comments:  *)
(* "only the first caller (leader) runs the work; others wait and share    *)
(* the result", and "exceptions thrown by fn propagate to every waiter".   *)
(* A flight is one run of the work for a key; it is open from the call     *)
(* that starts it until its outcome, a value or an exception, is decided.  *)
(***************************************************************************)
CONSTANTS Callers, Keys, Flights, Outcomes, NoFlight, NoOutcome, Pending

VARIABLES
    open,     \* per key: the flight a caller joins, or NoFlight
    flight,   \* per caller: the flight whose outcome it waits for, or NoFlight
    outcome,  \* per flight: the value or exception it ended with, or NoOutcome
    got       \* per caller: what its last call returned or threw

vars == <<open, flight, outcome, got>>

Init ==
    /\ open = [k \in Keys |-> NoFlight]
    /\ flight = [c \in Callers |-> NoFlight]
    /\ outcome = [f \in Flights |-> NoOutcome]
    /\ got = [c \in Callers |-> Pending]

\* The first caller starts a flight nobody has to do with.
Lead(c, k, f) ==
    /\ flight[c] = NoFlight /\ open[k] = NoFlight
    /\ \A d \in Callers : flight[d] # f
    /\ open' = [open EXCEPT ![k] = f]
    /\ flight' = [flight EXCEPT ![c] = f]
    /\ outcome' = [outcome EXCEPT ![f] = NoOutcome]
    /\ got' = [got EXCEPT ![c] = Pending]

Follow(c, k) ==
    /\ flight[c] = NoFlight /\ open[k] # NoFlight
    /\ flight' = [flight EXCEPT ![c] = open[k]]
    /\ got' = [got EXCEPT ![c] = Pending]
    /\ UNCHANGED <<open, outcome>>

Finish(k, o) ==
    /\ open[k] # NoFlight
    /\ outcome' = [outcome EXCEPT ![open[k]] = o]
    /\ open' = [open EXCEPT ![k] = NoFlight]
    /\ UNCHANGED <<flight, got>>

\* Whoever waits for a finished flight returns with that flight's outcome.
Return(c) ==
    /\ flight[c] # NoFlight /\ outcome[flight[c]] \in Outcomes
    /\ got' = [got EXCEPT ![c] = outcome[flight[c]]]
    /\ flight' = [flight EXCEPT ![c] = NoFlight]
    /\ UNCHANGED <<open, outcome>>

Next ==
    \/ \E c \in Callers, k \in Keys, f \in Flights : Lead(c, k, f)
    \/ \E c \in Callers, k \in Keys : Follow(c, k)
    \/ \E k \in Keys, o \in Outcomes : Finish(k, o)
    \/ \E c \in Callers : Return(c)

Spec == Init /\ [][Next]_vars
=============================================================================
