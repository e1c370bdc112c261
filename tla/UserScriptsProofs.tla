-------------------------- MODULE UserScriptsProofs --------------------------
(***************************************************************************)
(* What holds of the user scripts for any number of scripts, versions,     *)
(* windows and passes of the updater.                                      *)
(***************************************************************************)
EXTENDS UserScripts, TLAPS, FiniteSetTheorems

Scripts == [Ids -> Script \cup {None}]

-----------------------------------------------------------------------------
(* Types                                                                    *)

LEMMA JobShape ==
    ASSUME NEW j \in Job
    PROVE  /\ j.op = "listing" => j.saw \in Scripts
           /\ j.op = "removing" => j.id \in Ids /\ j.saw \in SUBSET Names
           /\ j.op = "reordering" => j.ids \in Seq(Ids) /\ j.saw \in Scripts
           /\ j.op = "applying" => j.id \in Ids /\ j.saw \in Script
           /\ j.op = "confirmed" => j.id \in Ids /\ j.saw \in Script /\ j.to \in Versions
BY DEF Job, Idle, Scripts

\* The sequences that reorder is given are sequences of ids.
LEMMA ListedSequences ==
    ASSUME TypeOK, NEW w \in Windows, NEW ids \in SetToSeqs(Listed(w))
    PROVE  ids \in Seq(Ids)
<1>1. Listed(w) \subseteq Ids /\ IsFiniteSet(Listed(w))
  BY UserScriptsAssumption, FS_Subset DEF Listed
<1>2. Cardinality(Listed(w)) \in Nat
  BY <1>1, FS_CardinalityType
<1>3. ids \in [1..Cardinality(Listed(w)) -> Listed(w)]
  BY DEF SetToSeqs
<1>4. ids \in [1..Cardinality(Listed(w)) -> Ids]
  BY <1>1, <1>3
<1> QED  BY <1>2, <1>4

\* Reordering numbers the scripts it has read, and changes nothing else of them.
LEMMA NumberedScripts ==
    ASSUME NEW ids \in Seq(Ids), NEW saw \in Scripts
    PROVE  LET new == Numbered(ids, saw)
           IN  /\ DOMAIN new = {i \in ToSet(ids) : saw[i] # None}
               /\ DOMAIN new \subseteq Ids
               /\ \A id \in DOMAIN new :
                    /\ new[id] = [saw[id] EXCEPT !.order = new[id].order]
                    /\ new[id] \in Script /\ new[id].ver = saw[id].ver
<1> DEFINE Before(id) == {n \in 1..Len(ids) :
                            saw[ids[n]] # None /\ \E k \in (n + 1)..Len(ids) : ids[k] = id}
           there == {i \in ToSet(ids) : saw[i] # None}
           new == Numbered(ids, saw)
<1>1. new = [id \in there |-> [saw[id] EXCEPT !.order = Cardinality(Before(id))]]
  BY DEF Numbered
<1>2. ToSet(ids) \subseteq Ids
  BY DEF ToSet
<1>3. ASSUME NEW id \in there
      PROVE  Cardinality(Before(id)) \in Nat
  <2>1. IsFiniteSet(1..Len(ids))
    BY FS_Interval
  <2>2. Before(id) \subseteq 1..Len(ids)
    OBVIOUS
  <2> HIDE DEF Before
  <2> QED  BY <2>1, <2>2, FS_Subset, FS_CardinalityType
<1>4. ASSUME NEW id \in there
      PROVE  /\ new[id] = [saw[id] EXCEPT !.order = new[id].order]
             /\ new[id] \in Script /\ new[id].ver = saw[id].ver
  <2>1. saw[id] \in Script
    BY <1>2 DEF Scripts
  <2>2. new[id] = [saw[id] EXCEPT !.order = Cardinality(Before(id))]
    BY <1>1
  <2>3. Cardinality(Before(id)) \in Nat
    BY <1>3
  <2> HIDE DEF Before, new
  <2> QED  BY <2>1, <2>2, <2>3 DEF Script
<1>5. DOMAIN new = there
  BY <1>1
<1> QED  BY <1>2, <1>4, <1>5

LEMMA LocksType ==
    ASSUME TypeOK, NEW w \in Windows, NEW j \in Job, Locks(w, j)
    PROVE  TypeOK'
BY DEF Locks, Goto, TypeOK, stored, passes

LEMMA UnlocksType ==
    ASSUME TypeOK, NEW w \in Windows, Unlocks(w)
    PROVE  /\ mu' \in Windows \cup {None}
           /\ job' \in [Windows -> Job]
           /\ missed' \in [Windows -> SUBSET Ids]
BY DEF Unlocks, Goto, TypeOK, Job

LEMMA OutdatesType ==
    ASSUME TypeOK, NEW ids, Outdates(ids)
    PROVE  changed' \in [Passes -> SUBSET Ids]
BY DEF Outdates, TypeOK, Checking

LEMMA WindowTypes ==
    ASSUME TypeOK, NEW w \in Windows, WindowStep(w)
    PROVE  TypeOK'
<1> USE DEF Scripts
<1>0. job[w] \in Job
  BY DEF TypeOK
<1>1. CASE ListScripts(w)
  <2>1. [op |-> "listing", saw |-> script] \in Job
    BY DEF TypeOK, Job
  <2> QED  BY <1>1, <2>1 DEF ListScripts, Goto, TypeOK, stored, passes, history
<1>2. CASE ListPendings(w)
  <2>1. job[w].saw \in Scripts
    BY <1>0, <1>2, JobShape DEF ListPendings, Doing
  <2>2. ASSUME NEW id \in Ids, job[w].saw[id] # None, pending[id] # None
        PROVE  [job[w].saw[id] EXCEPT !.badge = pending[id]] \in Script
    <3>1. job[w].saw[id] \in Script /\ pending[id] \in Versions
      BY <2>1, <2>2 DEF TypeOK
    <3> QED  BY <3>1 DEF Script
  <2>3. [id \in Ids |-> IF job[w].saw[id] # None /\ pending[id] # None
                        THEN [job[w].saw[id] EXCEPT !.badge = pending[id]]
                        ELSE job[w].saw[id]] \in Scripts
    BY <2>1, <2>2
  <2>4. view' \in [Windows -> Scripts]
    BY <1>2, <2>3 DEF ListPendings, TypeOK
  <2> QED  BY <1>2, <2>4 DEF ListPendings, Goto, TypeOK, Job, stored, passes, history
<1>3. ASSUME NEW id \in Ids, NEW s \in Saved(w, id), Save(w, id, s)
      PROVE  TypeOK'
  <2>1. s \in Script
    <3>1. view[w][id] \in Script \cup {None}
      BY DEF TypeOK
    <3>2. ASSUME NEW order \in Nat, s \in [ver: Versions, order: {order}, badge: {None}]
          PROVE  s \in Script
      BY <3>2 DEF Script
    <3>3. view[w][id] # None => view[w][id].order \in Nat
      BY <3>1 DEF Script
    <3> QED  BY <3>1, <3>2, <3>3 DEF Saved
  <2>2. changed' \in [Passes -> SUBSET Ids]
    BY <1>3, OutdatesType DEF Save
  <2> QED  BY <1>3, <2>1, <2>2 DEF Save, Goto, TypeOK, Job, passes
<1>4. ASSUME NEW id \in Ids, RemoveRead(w, id)
      PROVE  TypeOK'
  <2>1. [op |-> "removing", id |-> id, saw |-> values[id]] \in Job
    BY DEF TypeOK, Job
  <2> QED  BY <1>4, <2>1, LocksType DEF RemoveRead
<1>5. ASSUME NEW id \in Ids, ApplyRead(w, id)
      PROVE  TypeOK'
  <2>1. [op |-> "applying", id |-> id, saw |-> script[id]] \in Job
    BY <1>5 DEF ApplyRead, TypeOK, Job
  <2> QED  BY <1>5, <2>1, LocksType DEF ApplyRead
<1>6. ASSUME NEW id \in Ids, Dismiss(w, id)
      PROVE  TypeOK'
  BY <1>6 DEF Dismiss, Goto, TypeOK, Job, passes
<1>7. ASSUME NEW ids \in SetToSeqs(Listed(w)), ReorderRead(w, ids)
      PROVE  TypeOK'
  <2>1. [op |-> "reordering", ids |-> ids, saw |-> script] \in Job
    BY ListedSequences DEF TypeOK, Job
  <2> QED  BY <1>7, <2>1, LocksType DEF ReorderRead
<1>8. CASE RemoveWrite(w)
  <2>1. job[w].id \in Ids
    BY <1>0, <1>8, JobShape DEF RemoveWrite, Doing
  <2> QED  BY <1>8, <2>1, UnlocksType DEF RemoveWrite, TypeOK, passes
<1>9. CASE ReorderWrite(w)
  <2> DEFINE new == Numbered(job[w].ids, job[w].saw)
  <2>1. job[w].ids \in Seq(Ids) /\ job[w].saw \in Scripts
    BY <1>0, <1>9, JobShape DEF ReorderWrite, Doing
  <2>2. \A id \in DOMAIN new : new[id] \in Script
    BY <2>1, NumberedScripts
  <2>3. script' = [id \in Ids |-> IF id \in DOMAIN new THEN new[id] ELSE script[id]]
    BY <1>9 DEF ReorderWrite
  <2>4. script' \in Scripts
    <3> HIDE DEF new
    <3> QED  BY <2>2, <2>3 DEF TypeOK
  <2>5. changed' \in [Passes -> SUBSET Ids]
    BY <1>9, OutdatesType DEF ReorderWrite
  <2>6. lagging' \subseteq Ids
    BY <1>9 DEF ReorderWrite, TypeOK
  <2> QED  BY <1>9, <2>4, <2>5, <2>6, UnlocksType DEF ReorderWrite, TypeOK, passes
<1>10. CASE ApplyReadPending(w)
  <2>1. job[w].id \in Ids /\ job[w].saw \in Script
    BY <1>0, <1>10, JobShape DEF ApplyReadPending, Doing
  <2>2. [op |-> "confirmed", id |-> job[w].id, saw |-> job[w].saw, to |-> pending[job[w].id]] \in Job
    BY <1>10, <2>1 DEF ApplyReadPending, TypeOK, Job
  <2> QED  BY <1>10, <2>2 DEF ApplyReadPending, Goto, TypeOK, stored, passes, history
<1>11. CASE ApplyWrite(w)
  <2>1. job[w].id \in Ids /\ job[w].saw \in Script /\ job[w].to \in Versions
    BY <1>0, <1>11, JobShape DEF ApplyWrite, Doing
  <2>2. [job[w].saw EXCEPT !.ver = job[w].to] \in Script
    BY <2>1 DEF Script
  <2>3. changed' \in [Passes -> SUBSET Ids]
    BY <1>11, OutdatesType DEF ApplyWrite
  <2> QED  BY <1>11, <2>1, <2>2, <2>3, UnlocksType DEF ApplyWrite, TypeOK, passes
<1>12. CASE CallFails(w)
  <2>1. CASE mu = w
    BY <1>12, <2>1, UnlocksType DEF CallFails, TypeOK, stored, passes
  <2>2. CASE mu # w
    BY <1>12, <2>2 DEF CallFails, Goto, TypeOK, Job, stored, passes
  <2> QED  BY <2>1, <2>2
<1>13. ASSUME NEW id \in Ids, NEW n \in Names, SetValue(w, id, n) \/ DelValue(w, id, n)
       PROVE  TypeOK'
  BY <1>13 DEF SetValue, DelValue, TypeOK, passes, history
<1> QED
  BY <1>1, <1>2, <1>3, <1>4, <1>5, <1>6, <1>7, <1>8, <1>9, <1>10, <1>11, <1>12, <1>13 DEF WindowStep

LEMMA PassTypes ==
    ASSUME TypeOK, NEW p \in Passes, PassStep(p)
    PROVE  TypeOK'
<1>1. ASSUME NEW on \in SUBSET {id \in Ids : script[id] # None}, PassBegin(p, on)
      PROVE  TypeOK'
  <2>1. \A id \in on : script[id].ver \in Versions
    BY DEF TypeOK, Script
  <2> QED  BY <1>1, <2>1 DEF PassBegin, TypeOK, stored
<1>2. ASSUME NEW id \in Ids, FetchNothing(p, id)
      PROVE  TypeOK'
  BY <1>2 DEF FetchNothing, TypeOK, stored
<1>3. ASSUME NEW id \in Ids, NEW v \in Versions, FetchNewer(p, id, v)
      PROVE  TypeOK'
  BY <1>3 DEF FetchNewer, TypeOK, Update, stored, history
<1>4. CASE Record(p)
  <2>1. found[p] \in Update
    BY <1>4 DEF Record, TypeOK
  <2> QED  BY <1>4, <2>1 DEF Record, TypeOK, Update
<1>5. CASE RecordFails(p)
  BY <1>5 DEF RecordFails, TypeOK, stored
<1> QED  BY <1>1, <1>2, <1>3, <1>4, <1>5 DEF PassStep

LEMMA TypeStep == TypeOK /\ [Next]_vars => TypeOK'
<1> SUFFICES ASSUME TypeOK, [Next]_vars PROVE TypeOK'
  OBVIOUS
<1>1. CASE Restart
  BY <1>1 DEF Restart, TypeOK, Job, Nothing, stored
<1>2. CASE UNCHANGED vars
  BY <1>2 DEF vars, TypeOK
<1> QED  BY <1>1, <1>2, WindowTypes, PassTypes DEF Next

LEMMA TypeInit == Init => TypeOK
BY DEF Init, TypeOK, Nothing, Job

\* The store, the windows and the passes keep to their types.
THEOREM TypeCorrect == Spec => []TypeOK
BY TypeInit, TypeStep, PTL DEF Spec

-----------------------------------------------------------------------------
(* The mutex, and what its owner has read                                   *)

LockedOps == {"removing", "reordering", "applying", "confirmed"}

\* mu_ is owned by the window whose call has read and not yet written.
Holder == \A w \in Windows : job[w].op \in LockedOps <=> mu = w

\* What the owner has read of a script is what is stored, but for a save since.
SawCurrent ==
    \A w \in Windows :
        /\ Doing(w, "reordering") => \A id \in Ids \ missed[w] : job[w].saw[id] = script[id]
        /\ job[w].op \in {"applying", "confirmed"} /\ job[w].id \notin missed[w] =>
              job[w].saw = script[job[w].id]

Owned == TypeOK /\ Holder /\ SawCurrent

LEMMA LocksOwned ==
    ASSUME Owned, NEW w \in Windows, NEW j \in Job, Locks(w, j),
           j.op \in LockedOps,
           j.op = "reordering" => j.saw = script,
           j.op \in {"applying", "confirmed"} => j.saw = script[j.id]
    PROVE  (Holder /\ SawCurrent)'
<1>1. /\ mu = None /\ mu' = w /\ w # None
      /\ job' = [job EXCEPT ![w] = j] /\ script' = script
      /\ missed' = [missed EXCEPT ![w] = {}]
      /\ job \in [Windows -> Job] /\ missed \in [Windows -> SUBSET Ids]
  BY UserScriptsAssumption DEF Locks, Goto, stored, Owned, TypeOK
<1>2. \A v \in Windows : v # w => job'[v] = job[v] /\ job[v].op \notin LockedOps
  BY <1>1, UserScriptsAssumption DEF Owned, Holder
<1>3. job'[w] = j /\ missed'[w] = {}
  BY <1>1
<1>4. Holder'
  BY <1>1, <1>2, <1>3 DEF Holder
<1>5. SawCurrent'
  BY <1>1, <1>2, <1>3 DEF SawCurrent, Doing, LockedOps
<1> QED  BY <1>4, <1>5

LEMMA UnlocksOwned ==
    ASSUME Owned, NEW w \in Windows, Unlocks(w), mu = w
    PROVE  (Holder /\ SawCurrent)'
<1>1. /\ mu' = None
      /\ job' = [job EXCEPT ![w] = Idle]
      /\ job \in [Windows -> Job]
  BY DEF Unlocks, Goto, Owned, TypeOK
<1>2. \A v \in Windows : job'[v].op \notin LockedOps
  BY <1>1 DEF Owned, Holder, Idle, LockedOps
<1> QED  BY <1>1, <1>2, UserScriptsAssumption DEF Holder, SawCurrent, Doing, LockedOps

\* A call that neither held the mutex nor takes it, and leaves the scripts alone.
LEMMA FreeOwned ==
    ASSUME Owned, NEW w \in Windows, NEW j \in Job, Goto(w, j),
           job[w].op \notin LockedOps, j.op \notin LockedOps,
           UNCHANGED <<script, mu, missed>>
    PROVE  (Holder /\ SawCurrent)'
<1>1. job' = [job EXCEPT ![w] = j] /\ job \in [Windows -> Job]
  BY DEF Goto, Owned, TypeOK
<1>2. \A v \in Windows : v # w => job'[v] = job[v]
  BY <1>1
<1>3. job'[w].op \notin LockedOps
  BY <1>1
<1> QED  BY <1>2, <1>3 DEF Owned, Holder, SawCurrent, Doing, LockedOps

LEMMA OwnedStep == Owned /\ [Next]_vars => Owned'
<1> SUFFICES ASSUME Owned, [Next]_vars PROVE (Holder /\ SawCurrent)'
  BY TypeStep DEF Owned
<1> USE DEF Scripts
<1>0. TypeOK  BY DEF Owned
<1>1. ASSUME UNCHANGED <<script, mu, job, missed>>
      PROVE  (Holder /\ SawCurrent)'
  BY <1>1 DEF Owned, Holder, SawCurrent, Doing
<1>2. CASE Restart
  <2>1. \A w \in Windows : job'[w] = Idle
    BY <1>2 DEF Restart
  <2> QED  BY <1>2, <2>1, UserScriptsAssumption DEF Restart, Holder, SawCurrent, Doing, Idle, LockedOps
<1>3. CASE UNCHANGED vars
  BY <1>1, <1>3 DEF vars
<1>4. ASSUME NEW p \in Passes, PassStep(p)
      PROVE  (Holder /\ SawCurrent)'
  BY <1>1, <1>4 DEF PassStep, PassBegin, FetchNothing, FetchNewer, Record, RecordFails, stored, history
<1>5. ASSUME NEW w \in Windows, WindowStep(w)
      PROVE  (Holder /\ SawCurrent)'
  <2>0. job[w] \in Job /\ Idle \in Job /\ Idle.op \notin LockedOps
    BY <1>0 DEF TypeOK, Job, Idle, LockedOps
  <2>1. CASE ListScripts(w)
    <3>1. [op |-> "listing", saw |-> script] \in Job
      BY <1>0 DEF TypeOK, Job
    <3> QED  BY <2>0, <2>1, <3>1, FreeOwned DEF ListScripts, Ready, stored, history, LockedOps
  <2>2. CASE ListPendings(w)
    BY <2>0, <2>2, FreeOwned DEF ListPendings, Doing, stored, history, LockedOps
  <2>3. ASSUME NEW id \in Ids, NEW s \in Saved(w, id), Save(w, id, s)
        PROVE  (Holder /\ SawCurrent)'
    <3>1. /\ job[w] = Idle /\ job' = job /\ mu' = mu
          /\ script' = [script EXCEPT ![id] = s]
          /\ \A v \in Windows : missed'[v] = IF mu = v THEN missed[v] \cup {id} ELSE missed[v]
      BY <2>3, <1>0 DEF Save, Ready, Goto, TypeOK
    <3>2. Holder'
      BY <3>1 DEF Owned, Holder
    <3>3. ASSUME NEW v \in Windows
          PROVE  /\ Doing(v, "reordering")' => \A i \in Ids \ missed'[v] : job'[v].saw[i] = script'[i]
                 /\ job'[v].op \in {"applying", "confirmed"} /\ job'[v].id \notin missed'[v] =>
                       job'[v].saw = script'[job'[v].id]
      <4>1. script \in Scripts
        BY <1>0 DEF TypeOK
      <4>2. \A i \in Ids : i # id => script'[i] = script[i]
        BY <3>1, <4>1
      <4>3. CASE job[v].op \in LockedOps
        <5>1. mu = v
          BY <4>3 DEF Owned, Holder
        <5>2. missed'[v] = missed[v] \cup {id}
          BY <3>1, <5>1
        <5>3. Doing(v, "reordering") => \A i \in Ids \ missed'[v] : job[v].saw[i] = script'[i]
          BY <4>2, <5>2 DEF Owned, SawCurrent
        <5>4. job[v].op \in {"applying", "confirmed"} => job[v].id \in Ids
          BY <1>0, JobShape DEF TypeOK
        <5>5. job[v].op \in {"applying", "confirmed"} /\ job[v].id \notin missed'[v] =>
                 job[v].saw = script'[job[v].id]
          BY <4>2, <5>2, <5>4 DEF Owned, SawCurrent
        <5> QED  BY <3>1, <5>3, <5>5 DEF Doing
      <4>4. CASE job[v].op \notin LockedOps
        BY <3>1, <4>4 DEF Doing, LockedOps
      <4> QED  BY <4>3, <4>4
    <3> QED  BY <3>2, <3>3 DEF SawCurrent, Doing
  <2>4. ASSUME NEW id \in Ids, RemoveRead(w, id)
        PROVE  (Holder /\ SawCurrent)'
    <3>1. [op |-> "removing", id |-> id, saw |-> values[id]] \in Job
      BY <1>0 DEF TypeOK, Job
    <3> QED  BY <2>4, <3>1, LocksOwned DEF RemoveRead, LockedOps
  <2>5. ASSUME NEW id \in Ids, ApplyRead(w, id)
        PROVE  (Holder /\ SawCurrent)'
    <3>1. [op |-> "applying", id |-> id, saw |-> script[id]] \in Job
      BY <1>0, <2>5 DEF ApplyRead, TypeOK, Job
    <3> QED  BY <2>5, <3>1, LocksOwned DEF ApplyRead, LockedOps
  <2>6. ASSUME NEW id \in Ids, Dismiss(w, id)
        PROVE  (Holder /\ SawCurrent)'
    BY <2>0, <2>6, FreeOwned DEF Dismiss, Ready
  <2>7. ASSUME NEW ids \in SetToSeqs(Listed(w)), ReorderRead(w, ids)
        PROVE  (Holder /\ SawCurrent)'
    <3>1. [op |-> "reordering", ids |-> ids, saw |-> script] \in Job
      BY <1>0, ListedSequences DEF TypeOK, Job
    <3> QED  BY <2>7, <3>1, LocksOwned DEF ReorderRead, LockedOps
  <2>8. CASE RemoveWrite(w) \/ ReorderWrite(w) \/ ApplyWrite(w)
    <3>1. mu = w /\ Unlocks(w)
      BY <2>8 DEF RemoveWrite, ReorderWrite, ApplyWrite, Doing, Owned, Holder, LockedOps
    <3> QED  BY <3>1, UnlocksOwned
  <2>9. CASE ApplyReadPending(w)
    <3> DEFINE j == [op |-> "confirmed", id |-> job[w].id, saw |-> job[w].saw,
                     to |-> pending[job[w].id]]
    <3>1. /\ job[w].op = "applying" /\ job' = [job EXCEPT ![w] = j]
          /\ mu' = mu /\ script' = script /\ missed' = missed
          /\ job \in [Windows -> Job]
      BY <1>0, <2>9 DEF ApplyReadPending, Doing, Goto, TypeOK, stored, history
    <3>2. \A v \in Windows : v # w => job'[v] = job[v]
      BY <3>1
    <3>3. job'[w].op = "confirmed" /\ job'[w].id = job[w].id /\ job'[w].saw = job[w].saw
      BY <3>1
    <3>4. Holder'
      BY <3>1, <3>2, <3>3 DEF Owned, Holder, LockedOps
    <3>5. SawCurrent'
      BY <3>1, <3>2, <3>3 DEF Owned, SawCurrent, Doing
    <3> QED  BY <3>4, <3>5
  <2>10. CASE CallFails(w)
    <3>1. CASE mu = w
      BY <2>10, <3>1, UnlocksOwned DEF CallFails
    <3>2. CASE mu # w
      <4>1. job[w].op \notin LockedOps
        BY <3>2 DEF Owned, Holder
      <4> QED  BY <2>0, <2>10, <3>2, <4>1, FreeOwned DEF CallFails, stored
    <3> QED  BY <3>1, <3>2
  <2>11. ASSUME NEW id \in Ids, NEW n \in Names, SetValue(w, id, n) \/ DelValue(w, id, n)
         PROVE  (Holder /\ SawCurrent)'
    BY <1>1, <2>11 DEF SetValue, DelValue, history
  <2> QED
    BY <1>5, <2>1, <2>2, <2>3, <2>4, <2>5, <2>6, <2>7, <2>8, <2>9, <2>10, <2>11 DEF WindowStep
<1> QED  BY <1>2, <1>3, <1>4, <1>5 DEF Next

LEMMA OwnedInit == Init => Owned
<1> SUFFICES ASSUME Init PROVE Owned
  OBVIOUS
<1>1. \A w \in Windows : job[w].op = "idle" /\ mu = None
  BY DEF Init, Idle
<1> QED  BY <1>1, TypeInit, UserScriptsAssumption DEF Owned, Holder, SawCurrent, Doing, LockedOps

-----------------------------------------------------------------------------
(* What is written back                                                     *)

\* A reordering keeps all of a script but its order, where nothing was saved since.
LEMMA ReorderKeeps ==
    ASSUME Owned, NEW w \in Windows, ReorderWrite(w)
    PROVE  \A id \in Ids \ missed[w] :
              \/ script'[id] = script[id]
              \/ /\ script[id] # None /\ script'[id] # None
                 /\ script'[id] = [script[id] EXCEPT !.order = script'[id].order]
                 /\ script'[id].ver = script[id].ver
<1> DEFINE new == Numbered(job[w].ids, job[w].saw)
<1>1. job[w].ids \in Seq(Ids) /\ job[w].saw \in Scripts
  BY JobShape DEF Owned, TypeOK, ReorderWrite, Doing
<1>2. /\ DOMAIN new \subseteq Ids
      /\ \A id \in DOMAIN new :
            /\ job[w].saw[id] # None
            /\ new[id] = [job[w].saw[id] EXCEPT !.order = new[id].order]
            /\ new[id] \in Script /\ new[id].ver = job[w].saw[id].ver
  <2>1. /\ DOMAIN new = {i \in ToSet(job[w].ids) : job[w].saw[i] # None}
        /\ DOMAIN new \subseteq Ids
        /\ \A id \in DOMAIN new :
              /\ new[id] = [job[w].saw[id] EXCEPT !.order = new[id].order]
              /\ new[id] \in Script /\ new[id].ver = job[w].saw[id].ver
    BY <1>1, NumberedScripts
  <2> HIDE DEF new
  <2> QED  BY <2>1
<1>3. \A id \in Ids : script'[id] = IF id \in DOMAIN new THEN new[id] ELSE script[id]
  BY DEF ReorderWrite
<1>4. \A id \in Ids \ missed[w] : job[w].saw[id] = script[id]
  BY DEF ReorderWrite, Owned, SawCurrent
<1> HIDE DEF new
<1> QED  BY <1>2, <1>3, <1>4, NoneAssumption

\* Applying an update changes version (and source) of the one script.
LEMMA ApplyKeeps ==
    ASSUME Owned, NEW w \in Windows, ApplyWrite(w)
    PROVE  /\ job[w].id \in Ids
           /\ script'[job[w].id] = [job[w].saw EXCEPT !.ver = job[w].to]
           /\ script'[job[w].id] \in Script
           /\ job[w].id \notin missed[w] => job[w].saw = script[job[w].id]
           /\ script'[job[w].id].ver = job[w].to
           /\ job[w].saw \in Script
           /\ \A id \in Ids : id # job[w].id => script'[id] = script[id]
<1>1. job[w].id \in Ids /\ job[w].saw \in Script /\ job[w].to \in Versions
  BY JobShape DEF Owned, TypeOK, ApplyWrite, Doing
<1>2. script' = [script EXCEPT ![job[w].id] = [job[w].saw EXCEPT !.ver = job[w].to]]
  BY DEF ApplyWrite
<1>3. script \in [Ids -> Script \cup {None}]
  BY DEF Owned, TypeOK
<1>4. [job[w].saw EXCEPT !.ver = job[w].to] \in Script
      /\ [job[w].saw EXCEPT !.ver = job[w].to].ver = job[w].to
  BY <1>1 DEF Script
<1>5. job[w].id \notin missed[w] => job[w].saw = script[job[w].id]
  BY DEF ApplyWrite, Doing, Owned, SawCurrent
<1> QED  BY <1>1, <1>2, <1>3, <1>4, <1>5

Keeps(w, id) ==
    \/ script'[id] = script[id]
    \/ /\ script[id] # None /\ script'[id] # None
       /\ script'[id] = IF ReorderWrite(w)
                        THEN [script[id] EXCEPT !.order = script'[id].order]
                        ELSE [script[id] EXCEPT !.ver = script'[id].ver]

\* Under mu_, reordering and applying lose no change, and bring back no script, but
\* where a save came between their read and their write (userscript_store.cpp:177, 228).
THEOREM KeepsCorrect == Spec => KeepsTheRest
<1>1. ASSUME Owned, NEW w \in Windows, Rewrites(w), NEW id \in Ids \ missed[w]
      PROVE  Keeps(w, id)
  <2>1. CASE ReorderWrite(w)
    BY <1>1, <2>1, ReorderKeeps DEF Keeps
  <2>2. CASE ApplyWrite(w) /\ ~ReorderWrite(w)
    <3>1. CASE id # job[w].id
      BY <1>1, <2>2, <3>1, ApplyKeeps DEF Keeps
    <3>2. CASE id = job[w].id
      <4>1. /\ script[id] \in Script /\ script'[id] \in Script
            /\ script'[id] = [script[id] EXCEPT !.ver = job[w].to]
            /\ script'[id].ver = job[w].to
        BY <1>1, <2>2, <3>2, ApplyKeeps
      <4> QED  BY <2>2, <4>1, NoneAssumption DEF Keeps
    <3> QED  BY <3>1, <3>2
  <2> QED  BY <1>1, <2>1, <2>2 DEF Rewrites
<1>2. Owned => [\A w \in Windows : Rewrites(w) => \A id \in Ids \ missed[w] : Keeps(w, id)]_vars
  BY <1>1
<1> QED  BY <1>2, OwnedInit, OwnedStep, PTL DEF Spec, KeepsTheRest, Keeps

-----------------------------------------------------------------------------
(* Nothing is left of a script that is gone                                 *)

LEMMA LeftStep == Owned /\ NothingLeft /\ [Next]_vars => NothingLeft'
<1> SUFFICES ASSUME Owned, NothingLeft, [Next]_vars PROVE NothingLeft'
  OBVIOUS
<1>0. TypeOK  BY DEF Owned
<1>1. ASSUME UNCHANGED <<script, pending, values, late>>
      PROVE  NothingLeft'
  BY <1>1 DEF NothingLeft
<1>2. CASE Restart \/ UNCHANGED vars
  BY <1>1, <1>2 DEF Restart, vars, stored
<1>3. ASSUME NEW p \in Passes, PassStep(p)
      PROVE  NothingLeft'
  <2>1. CASE Record(p)
    <3>1. found[p].id \in Ids
      BY <1>0, <2>1 DEF Record, TypeOK, Update
    <3> QED  BY <1>0, <2>1, <3>1 DEF Record, NothingLeft, TypeOK
  <2>2. CASE ~Record(p)
    BY <1>1, <1>3, <2>2 DEF PassStep, PassBegin, FetchNothing, FetchNewer, RecordFails, stored, history
  <2> QED  BY <2>1, <2>2
<1>4. ASSUME NEW w \in Windows, WindowStep(w)
      PROVE  NothingLeft'
  <2>1. ASSUME NEW id \in Ids, NEW s \in Saved(w, id), Save(w, id, s)
        PROVE  NothingLeft'
    <3>1. script' \in Scripts /\ script' = [script EXCEPT ![id] = s] /\ s # None
      <4>1. view[w][id] \in Script \cup {None}
        BY <1>0 DEF TypeOK
      <4>2. None \notin Saved(w, id)
        <5>1. \A order : None \notin [ver: Versions, order: {order}, badge: {None}] \/ order \notin Nat
          BY NoneAssumption DEF Script
        <5>2. view[w][id] # None => view[w][id].order \in Nat
          BY <4>1 DEF Script
        <5> QED  BY <4>1, <5>1, <5>2 DEF Saved
      <4> QED  BY <1>0, <1>4, <2>1, <4>2, WindowTypes DEF Save, TypeOK, Scripts
    <3> QED  BY <1>0, <2>1, <3>1 DEF Save, NothingLeft, TypeOK
  <2>2. CASE RemoveWrite(w)
    <3>1. job[w].id \in Ids
      BY <1>0, <2>2, JobShape DEF RemoveWrite, Doing, TypeOK
    <3>2. script' = [script EXCEPT ![job[w].id] = None]
          /\ pending' = [pending EXCEPT ![job[w].id] = None]
          /\ values' = [values EXCEPT ![job[w].id] = values[job[w].id] \ job[w].saw]
          /\ late' = IF values[job[w].id] \ job[w].saw # {} THEN late \cup {job[w].id}
                                                            ELSE late \ {job[w].id}
      BY <2>2 DEF RemoveWrite
    <3> QED  BY <1>0, <3>1, <3>2 DEF NothingLeft, TypeOK
  <2>3. CASE ReorderWrite(w)
    <3> DEFINE new == Numbered(job[w].ids, job[w].saw)
    <3>1. job[w].ids \in Seq(Ids) /\ job[w].saw \in Scripts
      BY <1>0, <2>3, JobShape DEF TypeOK, ReorderWrite, Doing
    <3>2. \A id \in DOMAIN new : new[id] \in Script
      BY <3>1, NumberedScripts
    <3>3. \A id \in Ids : script'[id] = IF id \in DOMAIN new THEN new[id] ELSE script[id]
      BY <2>3 DEF ReorderWrite
    <3>4. \A id \in Ids : script'[id] = None => script[id] = None
      <4> HIDE DEF new
      <4> QED  BY <3>2, <3>3, NoneAssumption
    <3> QED  BY <2>3, <3>4 DEF ReorderWrite, NothingLeft
  <2>4. CASE ApplyWrite(w)
    <3>1. \A id \in Ids : script'[id] = None => id # job[w].id /\ script[id] = None
      BY <2>4, ApplyKeeps, NoneAssumption
    <3> QED  BY <1>0, <2>4, <3>1 DEF ApplyWrite, NothingLeft, TypeOK
  <2>5. ASSUME NEW id \in Ids, Dismiss(w, id)
        PROVE  NothingLeft'
    BY <1>0, <2>5 DEF Dismiss, NothingLeft, TypeOK
  <2>6. ASSUME NEW id \in Ids, NEW n \in Names, SetValue(w, id, n) \/ DelValue(w, id, n)
        PROVE  NothingLeft'
    BY <1>0, <2>6 DEF SetValue, DelValue, NothingLeft, TypeOK, history
  <2>7. CASE \/ ListScripts(w) \/ ListPendings(w) \/ ApplyReadPending(w) \/ CallFails(w)
             \/ \E id \in Ids : RemoveRead(w, id) \/ ApplyRead(w, id)
             \/ \E ids \in SetToSeqs(Listed(w)) : ReorderRead(w, ids)
    BY <1>1, <2>7 DEF ListScripts, ListPendings, ApplyReadPending, CallFails, RemoveRead, ApplyRead,
                      ReorderRead, Locks, stored, history
  <2> QED  BY <1>4, <2>1, <2>2, <2>3, <2>4, <2>5, <2>6, <2>7 DEF WindowStep
<1> QED  BY <1>2, <1>3, <1>4 DEF Next

\* A script that is removed leaves neither update nor values but late ones, however
\* many windows and passes there are (UserscriptStore::remove).
THEOREM LeftCorrect == Spec => []NothingLeft
<1>1. Init => NothingLeft
  BY DEF Init, NothingLeft, Nothing
<1> QED  BY <1>1, LeftStep, OwnedInit, OwnedStep, PTL DEF Spec

-----------------------------------------------------------------------------
(* An update that waits is newer                                            *)

\* What a pass has listed of a script, or found for it, is right unless the script
\* has changed since.
ListedStands ==
    \A p \in Passes, id \in Ids :
        id \notin changed[p] /\ script[id] # None =>
            /\ todo[p][id] # None => todo[p][id] = script[id].ver
            /\ found[p] # None /\ found[p].id = id => Newer(found[p].ver, script[id].ver)

FoundIsDone == \A p \in Passes : found[p] # None => todo[p][found[p].id] = None

Fresh == ListedStands /\ FoundIsDone /\ PendingNewer

LEMMA OutdatedStands ==
    ASSUME TypeOK, ListedStands, NEW ids, Outdates(ids), todo' = todo, found' = found,
           \A id \in Ids \ ids : script'[id] # None =>
               script[id] # None /\ script'[id].ver = script[id].ver
    PROVE  ListedStands'
<1> SUFFICES ASSUME NEW p \in Passes, NEW id \in Ids, id \notin changed'[p], script'[id] # None
             PROVE  /\ todo[p][id] # None => todo[p][id] = script'[id].ver
                    /\ found[p] # None /\ found[p].id = id => Newer(found[p].ver, script'[id].ver)
  BY DEF ListedStands
<1>1. changed'[p] = changed[p] \cup (ids \cap Checking(p))
  BY DEF Outdates
<1>2. CASE id \in ids
  BY <1>1, <1>2 DEF Checking
<1>3. CASE id \notin ids
  BY <1>1, <1>3 DEF ListedStands
<1> QED  BY <1>2, <1>3

\* Steps that change neither scripts nor what is pending or passes know.
LEMMA QuietFresh ==
    ASSUME Fresh, UNCHANGED <<script, pending, todo, found, changed, lagging>>
    PROVE  Fresh'
BY DEF Fresh, ListedStands, FoundIsDone, PendingNewer

LEMMA PassFresh ==
    ASSUME TypeOK, Fresh, NEW p \in Passes, PassStep(p)
    PROVE  Fresh'
<1> USE DEF Fresh
<1>1. ASSUME NEW on \in SUBSET {id \in Ids : script[id] # None}, PassBegin(p, on)
      PROVE  Fresh'
  <2>1. /\ todo' = [todo EXCEPT ![p] = [id \in Ids |-> IF id \in on THEN script[id].ver ELSE None]]
        /\ changed' = [changed EXCEPT ![p] = {}]
        /\ found[p] = None /\ UNCHANGED <<script, pending, found, lagging>>
    BY <1>1 DEF PassBegin, stored
  <2>2. ListedStands'
    BY <2>1 DEF ListedStands, TypeOK
  <2>3. FoundIsDone'
    BY <2>1 DEF FoundIsDone, TypeOK
  <2> QED  BY <2>1, <2>2, <2>3 DEF PendingNewer
<1>2. ASSUME NEW id \in Ids, FetchNothing(p, id)
      PROVE  Fresh'
  <2>1. /\ todo' = [todo EXCEPT ![p][id] = None]
        /\ changed' = [changed EXCEPT ![p] = @ \ {id}]
        /\ found[p] = None /\ UNCHANGED <<script, pending, found, lagging>>
    BY <1>2 DEF FetchNothing, stored
  <2>2. ListedStands'
    BY <2>1 DEF ListedStands, TypeOK
  <2>3. FoundIsDone'
    BY <2>1 DEF FoundIsDone, TypeOK
  <2> QED  BY <2>1, <2>2, <2>3 DEF PendingNewer
<1>3. ASSUME NEW id \in Ids, NEW v \in Versions, FetchNewer(p, id, v)
      PROVE  Fresh'
  <2>1. /\ todo' = [todo EXCEPT ![p][id] = None] /\ todo[p][id] # None
        /\ found' = [found EXCEPT ![p] = [id |-> id, ver |-> v]]
        /\ Newer(v, todo[p][id])
        /\ UNCHANGED <<script, pending, changed, lagging>>
    BY <1>3 DEF FetchNewer, stored, history
  <2>2. found'[p].id = id /\ found'[p].ver = v /\ todo'[p][id] = None
    BY <2>1 DEF TypeOK
  <2>3. \A q \in Passes : q # p => found'[q] = found[q] /\ todo'[q] = todo[q]
    BY <2>1 DEF TypeOK
  <2>4. \A i \in Ids : i # id => todo'[p][i] = todo[p][i]
    BY <2>1 DEF TypeOK
  <2>5. ListedStands'
    BY <2>1, <2>2, <2>3, <2>4 DEF ListedStands
  <2>6. FoundIsDone'
    BY <2>1, <2>2, <2>3 DEF FoundIsDone
  <2> QED  BY <2>1, <2>5, <2>6 DEF PendingNewer
<1>4. CASE Record(p)
  <2> DEFINE id == found[p].id
  <2>1. id \in Ids /\ found[p] \in Update
    BY <1>4 DEF Record, TypeOK, Update
  <2>2. /\ found[p] # None
        /\ pending' = [pending EXCEPT ![id] = found[p].ver]
        /\ lagging' = IF id \in changed[p] THEN lagging \cup {id} ELSE lagging \ {id}
        /\ changed' = [changed EXCEPT ![p] = @ \ {id}]
        /\ found' = [found EXCEPT ![p] = None]
        /\ UNCHANGED <<script, todo>>
    BY <1>4 DEF Record
  <2>3. todo[p][id] = None
    BY <2>2 DEF FoundIsDone
  <2>4. ListedStands'
    BY <2>1, <2>2, <2>3 DEF ListedStands, TypeOK
  <2>5. FoundIsDone'
    BY <2>2 DEF FoundIsDone, TypeOK
  <2>6. id \notin changed[p] /\ script[id] # None => Newer(found[p].ver, script[id].ver)
    BY <2>1, <2>2 DEF ListedStands
  <2>7. PendingNewer'
    BY <2>1, <2>2, <2>6 DEF PendingNewer, TypeOK
  <2> QED  BY <2>4, <2>5, <2>7
<1>5. CASE RecordFails(p)
  <2>1. /\ found[p] # None
        /\ changed' = [changed EXCEPT ![p] = @ \ {found[p].id}]
        /\ found' = [found EXCEPT ![p] = None]
        /\ UNCHANGED <<script, pending, todo, lagging>>
    BY <1>5 DEF RecordFails, stored
  <2>2. todo[p][found[p].id] = None
    BY <2>1 DEF FoundIsDone
  <2>3. ListedStands'
    BY <2>1, <2>2 DEF ListedStands, TypeOK
  <2>4. FoundIsDone'
    BY <2>1 DEF FoundIsDone, TypeOK
  <2> QED  BY <2>1, <2>3, <2>4 DEF PendingNewer
<1> QED  BY <1>1, <1>2, <1>3, <1>4, <1>5 DEF PassStep

LEMMA WindowFresh ==
    ASSUME Owned, Fresh, NEW w \in Windows, WindowStep(w)
    PROVE  Fresh'
<1> USE DEF Fresh
<1>0. TypeOK  BY DEF Owned
<1>1. ASSUME NEW id \in Ids, NEW s \in Saved(w, id), Save(w, id, s)
      PROVE  Fresh'
  <2>1. /\ script' = [script EXCEPT ![id] = s] /\ Outdates({id})
        /\ lagging' = IF pending[id] # None THEN lagging \cup {id} ELSE lagging
        /\ UNCHANGED <<pending, todo, found>>
    BY <1>1 DEF Save, passes
  <2>2. \A i \in Ids \ {id} : script'[i] = script[i]
    BY <1>0, <2>1 DEF TypeOK
  <2>3. ListedStands'
    BY <1>0, <2>1, <2>2, OutdatedStands
  <2> QED  BY <2>1, <2>2, <2>3 DEF FoundIsDone, PendingNewer
<1>2. CASE RemoveWrite(w)
  <2>1. /\ script' = [script EXCEPT ![job[w].id] = None]
        /\ pending' = [pending EXCEPT ![job[w].id] = None]
        /\ lagging' = lagging \ {job[w].id}
        /\ UNCHANGED <<changed, todo, found>>
    BY <1>2 DEF RemoveWrite, passes
  <2>2. \A i \in Ids : script'[i] # None =>
            i # job[w].id /\ script'[i] = script[i] /\ pending'[i] = pending[i]
    BY <1>0, <2>1 DEF TypeOK
  <2> QED  BY <2>1, <2>2 DEF ListedStands, FoundIsDone, PendingNewer
<1>3. CASE ReorderWrite(w)
  <2>1. /\ Outdates(missed[w])
        /\ lagging' = lagging \cup {id \in missed[w] : pending[id] # None}
        /\ UNCHANGED <<pending, todo, found>>
    BY <1>3 DEF ReorderWrite, passes
  <2>2. \A id \in Ids \ missed[w] : script'[id] # None =>
            script[id] # None /\ script'[id].ver = script[id].ver
    BY <1>3, ReorderKeeps
  <2>3. ListedStands'
    BY <1>0, <2>1, <2>2, OutdatedStands
  <2> QED  BY <2>1, <2>2, <2>3 DEF FoundIsDone, PendingNewer
<1>4. CASE ApplyWrite(w)
  <2>1. /\ Outdates({job[w].id})
        /\ pending' = [pending EXCEPT ![job[w].id] = None]
        /\ lagging' = lagging \ {job[w].id}
        /\ UNCHANGED <<todo, found>>
    BY <1>4 DEF ApplyWrite, passes
  <2>2. \A id \in Ids \ {job[w].id} : script'[id] = script[id]
    BY <1>4, ApplyKeeps
  <2>3. ListedStands'
    BY <1>0, <2>1, <2>2, OutdatedStands
  <2>4. PendingNewer'
    BY <1>0, <2>1, <2>2 DEF PendingNewer, TypeOK
  <2> QED  BY <2>1, <2>3, <2>4 DEF FoundIsDone
<1>5. ASSUME NEW id \in Ids, Dismiss(w, id)
      PROVE  Fresh'
  <2>1. /\ pending' = [pending EXCEPT ![id] = None] /\ lagging' = lagging \ {id}
        /\ UNCHANGED <<script, changed, todo, found>>
    BY <1>5 DEF Dismiss, passes
  <2> QED  BY <1>0, <2>1 DEF ListedStands, FoundIsDone, PendingNewer, TypeOK
<1>6. CASE \/ ListScripts(w) \/ ListPendings(w) \/ ApplyReadPending(w) \/ CallFails(w)
           \/ \E id \in Ids : RemoveRead(w, id) \/ ApplyRead(w, id)
           \/ \E ids \in SetToSeqs(Listed(w)) : ReorderRead(w, ids)
           \/ \E id \in Ids, n \in Names : SetValue(w, id, n) \/ DelValue(w, id, n)
  BY <1>6, QuietFresh DEF ListScripts, ListPendings, ApplyReadPending, CallFails, RemoveRead, ApplyRead,
                          ReorderRead, Locks, SetValue, DelValue, stored, passes, history
<1> QED  BY <1>1, <1>2, <1>3, <1>4, <1>5, <1>6 DEF WindowStep

LEMMA FreshStep == Owned /\ Fresh /\ [Next]_vars => Fresh'
<1> SUFFICES ASSUME Owned, Fresh, [Next]_vars PROVE Fresh'
  OBVIOUS
<1>0. TypeOK  BY DEF Owned
<1>1. CASE Restart
  <2>1. /\ \A p \in Passes, id \in Ids : todo'[p][id] = None
        /\ \A p \in Passes : found'[p] = None
        /\ UNCHANGED <<script, pending, lagging>>
    BY <1>1 DEF Restart, Nothing, stored
  <2> QED  BY <2>1 DEF Fresh, ListedStands, FoundIsDone, PendingNewer
<1>2. CASE UNCHANGED vars
  BY <1>2, QuietFresh DEF vars
<1> QED  BY <1>0, <1>1, <1>2, PassFresh, WindowFresh DEF Next

\* An update that waits for consent is newer than the script it would replace, for any
\* number of overlapping passes and windows (run_pass compares with what it listed).
THEOREM NewerCorrect == Spec => []PendingNewer
<1>1. Init => Fresh
  <2> SUFFICES ASSUME Init PROVE Fresh
    OBVIOUS
  <2>1. /\ \A id \in Ids : script[id] = None /\ pending[id] = None
        /\ \A p \in Passes : found[p] = None
    BY DEF Init, Nothing
  <2> QED  BY <2>1 DEF Fresh, ListedStands, FoundIsDone, PendingNewer
<1>2. Fresh => PendingNewer
  BY DEF Fresh
<1> QED  BY <1>1, <1>2, FreshStep, OwnedInit, OwnedStep, PTL DEF Spec
=============================================================================
