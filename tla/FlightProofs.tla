----------------------------- MODULE FlightProofs -----------------------------
(* Theorems about Flight, for any set of callers, keys, Calls and outcomes.  *)
(* That waiters return is a liveness property, and is model-checked only.    *)
EXTENDS Flight, TLAPS

USE FlightAssumption DEF timers

Leading == {"running", "published", "erased", "cancelled"}

\* The Call has its result and nobody can find it any more.
Done(f) == result[f] \in Outcomes /\ \A k \in Keys : calls[k] # f

-----------------------------------------------------------------------------
(* The inductive invariant.                                                  *)

Holding == \A c \in Callers : call[c] = NoCall <=> step[c] = "out"

\* A leader's Call is registered until the leader erases it, and is its own.
LeaderRegistered ==
    \A c \in Callers : step[c] \in {"running", "published"} => calls[key[c]] = call[c]
RegisteredLed ==
    \A k \in Keys : calls[k] # NoCall => \E c \in Callers : Leads(c, k) /\ call[c] = calls[k]
OneLeader ==
    \A c, d \in Callers :
        step[c] \in Leading /\ step[d] \in Leading /\ call[c] = call[d] => c = d

\* Everything that lets a caller return comes after the result and the erase.
Ended ==
    /\ \A c \in Callers : step[c] = "published" => result[call[c]] \in Outcomes
    /\ \A c \in Callers : step[c] \in {"erased", "cancelled", "woken"} => Done(call[c])
Timers ==
    /\ \A f \in Calls : expiry[f] = "past" => Done(f)
    /\ \A f \in Calls : due[f] = "past" /\ queue[f] # {} => Done(f)
    /\ \A f \in Calls, c \in Callers : c \in queue[f] => step[c] = "queued" /\ call[c] = f

Inv == TypeOK /\ Holding /\ LeaderRegistered /\ RegisteredLed /\ OneLeader /\ Ended /\ Timers

LEMMA InvInit == Init => Inv
BY DEF Init, Inv, TypeOK, Holding, LeaderRegistered, RegisteredLed, OneLeader, Ended,
       Timers, Leading, Done

\* Where a Call ends: its leader erases it, and no other key leads to it.
LEMMA EraseEnds ==
    ASSUME Inv, NEW c \in Callers, Erase(c)
    PROVE  \A k \in Keys : calls'[k] # call[c]
<1> SUFFICES ASSUME NEW k \in Keys, calls'[k] = call[c] PROVE FALSE
  OBVIOUS
<1> USE DEF Inv, TypeOK
<1>1. call[c] # NoCall
  BY DEF Holding, Erase
<1>2. k # key[c] /\ calls[k] = call[c]
  BY <1>1 DEF Erase
<1>3. PICK d \in Callers : Leads(d, k) /\ call[d] = call[c]
  BY <1>1, <1>2 DEF RegisteredLed
<1>4. d = c
  BY <1>3 DEF OneLeader, Leading, Leads, Erase
<1> QED
  BY <1>2, <1>3, <1>4 DEF Leads

LEMMA InvStep == Inv /\ [Next]_vars => Inv'
<1> SUFFICES ASSUME Inv, [Next]_vars PROVE Inv'
  OBVIOUS
<1> USE DEF Inv, TypeOK, Holding, LeaderRegistered, RegisteredLed, OneLeader, Ended, Timers,
            Leading, Done, Leads, Goto
<1>1. ASSUME NEW c \in Callers, NEW k \in Keys, NEW f \in Calls, Lead(c, k, f) PROVE Inv'
  BY <1>1 DEF Lead, Enter, Free, Registered
<1>2. ASSUME NEW c \in Callers, NEW k \in Keys, Follow(c, k) PROVE Inv'
  BY <1>2 DEF Follow, Enter, Registered
<1>3. ASSUME NEW c \in Callers, NEW o \in Outcomes, Publish(c, o) PROVE Inv'
  BY <1>3 DEF Publish, ValueOrError
<1>4. ASSUME NEW c \in Callers, Wait(c) PROVE Inv'
  BY <1>4 DEF Wait
<1>5. ASSUME NEW c \in Callers, Erase(c) PROVE Inv'
  BY <1>5, EraseEnds DEF Erase
<1>6. ASSUME NEW c \in Callers, Cancel(c) PROVE Inv'
  BY <1>6 DEF Cancel, Cancelled
<1>7. ASSUME NEW c \in Callers, ExpireAndReturn(c) PROVE Inv'
  BY <1>7 DEF ExpireAndReturn, Leave
<1>8. ASSUME NEW c \in Callers, Resume(c) PROVE Inv'
  BY <1>8 DEF Resume, Leave
<1>9. ASSUME NEW f \in Calls, Fire(f) PROVE Inv'
  BY <1>9 DEF Fire
<1>10. CASE UNCHANGED vars
  BY <1>10 DEF vars
<1> QED
  BY <1>1, <1>2, <1>3, <1>4, <1>5, <1>6, <1>7, <1>8, <1>9, <1>10 DEF Next, Proceed

LEMMA InvCorrect == Spec => []Inv
BY InvInit, InvStep, PTL DEF Spec

\* do_call's state keeps its types; what a caller returns is what fn returned
\* or threw, never an empty result.
THEOREM TypeCorrect == Spec => []TypeOK
BY InvCorrect, PTL DEF Inv

\* fn never runs twice at a time for a key, and a Call is registered just as
\* long as its leader has not erased it.
THEOREM LedCorrect == Spec => []RegisteredIsLed
<1>1. Inv => RegisteredIsLed
  <2> SUFFICES ASSUME Inv, NEW k \in Keys
               PROVE  /\ \A c, d \in Callers : Leads(c, k) /\ Leads(d, k) => c = d
                      /\ calls[k] # NoCall <=>
                             \E c \in Callers : Leads(c, k) /\ call[c] = calls[k]
    BY DEF RegisteredIsLed
  <2>1. \A c, d \in Callers : Leads(c, k) /\ Leads(d, k) => c = d
    BY DEF Inv, LeaderRegistered, OneLeader, Leading, Leads
  <2>2. calls[k] # NoCall => \E c \in Callers : Leads(c, k) /\ call[c] = calls[k]
    BY DEF Inv, RegisteredLed
  <2>3. \A c \in Callers : Leads(c, k) => call[c] # NoCall
    BY DEF Inv, Holding, Leads
  <2> QED BY <2>1, <2>2, <2>3
<1> QED BY <1>1, InvCorrect, PTL

-----------------------------------------------------------------------------
(* do_call implements Coalescer.                                             *)

LEMMA CoalescingInit == Init => Coalescing!Init
BY DEF Init, Coalescing!Init, decided

LEMMA CoalescingStep == Inv /\ [Next]_vars => [Coalescing!Next]_(Coalescing!vars)
<1> SUFFICES ASSUME Inv, [Next]_vars
             PROVE  Coalescing!Next \/ UNCHANGED Coalescing!vars
  OBVIOUS
<1> USE DEF Inv, TypeOK, Goto
<1>1. ASSUME NEW c \in Callers, NEW k \in Keys, NEW f \in Calls, Lead(c, k, f)
      PROVE  Coalescing!Lead(c, k, f)
  <2>1. call[c] = NoCall /\ calls[k] = NoCall /\ \A d \in Callers : call[d] # f
    BY <1>1 DEF Lead, Enter, Registered, Free, Holding
  <2>2. decided' = [decided EXCEPT ![f] = NoOutcome]
    BY <1>1, <2>1 DEF Lead, decided
  <2> QED
    BY <1>1, <2>1, <2>2 DEF Lead, Enter, Coalescing!Lead
<1>2. ASSUME NEW c \in Callers, NEW k \in Keys, Follow(c, k) PROVE Coalescing!Follow(c, k)
  BY <1>2 DEF Follow, Enter, Registered, Holding, decided, Coalescing!Follow
<1>3. ASSUME NEW c \in Callers, NEW o \in Outcomes, Publish(c, o)
      PROVE  UNCHANGED Coalescing!vars
  <2>1. calls[key[c]] = call[c] /\ UNCHANGED <<calls, call, got>>
    BY <1>3 DEF Publish, LeaderRegistered
  <2>2. decided' = decided
    BY <1>3, <2>1 DEF Publish, decided
  <2> QED BY <2>1, <2>2 DEF Coalescing!vars
<1>4. ASSUME NEW c \in Callers, Wait(c) PROVE UNCHANGED Coalescing!vars
  BY <1>4 DEF Wait, decided, Coalescing!vars
\* The flight finishes with the result of the Call that is erased.
<1>5. ASSUME NEW c \in Callers, Erase(c) PROVE Coalescing!Finish(key[c], result[call[c]])
  <2>1. calls[key[c]] = call[c] /\ call[c] \in Calls
    BY <1>5 DEF Erase, LeaderRegistered, Holding
  <2>2. decided' = [decided EXCEPT ![call[c]] = result[call[c]]]
    BY <1>5, <2>1, EraseEnds DEF Erase, decided
  <2> QED
    BY <1>5, <2>1, <2>2 DEF Erase, Coalescing!Finish
<1>6. ASSUME NEW c \in Callers, Cancel(c) PROVE UNCHANGED Coalescing!vars
  BY <1>6 DEF Cancel, decided, Coalescing!vars
<1>7. ASSUME NEW c \in Callers, ExpireAndReturn(c) \/ Resume(c) PROVE Coalescing!Return(c)
  <2>1. Leave(c) /\ UNCHANGED <<calls, result>>
    BY <1>7 DEF ExpireAndReturn, Resume
  <2>2. call[c] \in Calls /\ Done(call[c])
    BY <1>7 DEF ExpireAndReturn, Resume, Holding, Ended
  <2>3. decided[call[c]] = result[call[c]]
    BY <2>2 DEF decided, Done
  <2> QED
    BY <2>1, <2>2, <2>3 DEF Leave, decided, Done, Coalescing!Return
<1>8. ASSUME NEW f \in Calls, Fire(f) PROVE UNCHANGED Coalescing!vars
  BY <1>8 DEF Fire, decided, Coalescing!vars
<1>9. CASE UNCHANGED vars
  BY <1>9 DEF vars, decided, Coalescing!vars
<1>10. ASSUME NEW c \in Callers, Erase(c) PROVE Coalescing!Next
  BY <1>10, <1>5 DEF Erase, Ended, Coalescing!Next
<1> QED
  BY <1>1, <1>2, <1>3, <1>4, <1>6, <1>7, <1>8, <1>9, <1>10
     DEF Next, Proceed, Coalescing!Next

\* do_call coalesces: every behaviour of the callers, the mutex and the timers
\* is one of Coalescer, where the callers of a flight all return its outcome.
THEOREM CoalescesCorrect == Spec => Coalesces
BY InvCorrect, CoalescingInit, CoalescingStep, PTL DEF Spec, Coalesces, Coalescing!Spec
=============================================================================
