-------------------------- MODULE CacheStoreProofs --------------------------
(* Theorems about CacheStore, for any set of keys, bodies, clocks, budgets, *)
(* operations and threads.                                                  *)
EXTENDS CacheStore, FunctionTheorems, FiniteSetTheorems, TLAPS

USE DEF data, flags

-----------------------------------------------------------------------------
(* Which task a thread runs follows from its operation's name.              *)

LEMMA TaskKinds ==
    ASSUME NEW j \in Task \cup {NoTask}
    PROVE  /\ j.op = "put" => j \in PutTask
           /\ j.op = "touch" => j \in TouchTask
           /\ j.op = "refresh" => j \in RefreshTask
           /\ j.op = "expire" => j \in ExpireTask
           /\ j.op = "enforce" => j \in EnforceTask
BY DEF Task, NoTask, PutTask, TouchTask, RefreshTask, ExpireTask, ClearTask, EnforceTask

LEMMA NewEntryType ==
    ASSUME NEW j \in PutTask
    PROVE  NewEntry(j) \in Entry /\ NewEntry(j).of = j.content
BY DEF PutTask, NewEntry, Entry

\* Rewriting metadata keeps the body it describes.
LEMMA RewriteKeepsBody ==
    ASSUME NEW j \in TouchTask \cup RefreshTask \cup ExpireTask, NEW m \in Entry
    PROVE  Rewrite(j, m) \in Entry /\ Rewrite(j, m).of = m.of
<1>1. CASE j \in TouchTask
  BY <1>1 DEF TouchTask, Rewrite, Entry
<1>2. CASE j \in RefreshTask
  BY <1>2 DEF RefreshTask, Rewrite, Entry
<1>3. CASE j \in ExpireTask
  BY <1>3 DEF ExpireTask, Rewrite, Entry
<1> QED BY <1>1, <1>2, <1>3

-----------------------------------------------------------------------------
(* Types.                                                                   *)

LEMMA TypeInit == Init => TypeOK
<1> SUFFICES ASSUME Init PROVE TypeOK
  OBVIOUS
<1> USE DEF Init, EmptyScan
<1>1. meta \in [Keys -> Entry \cup {NoEntry}] /\ body \in [Keys -> Contents \cup {NoBody}]
  OBVIOUS
<1>2. /\ step \in [Threads -> {"idle", "begun", "read", "wrote", "count"}]
      /\ task \in [Threads -> Task \cup {NoTask}]
      /\ scanBody \in [Threads -> SUBSET Keys]
  OBVIOUS
<1>3. scan \in [Threads -> [Keys -> Entry \cup {NoEntry}]]
  OBVIOUS
<1>4. writeMu \in Threads \cup {NoThread} /\ missed \in SUBSET Threads
  OBVIOUS
<1>5. overtaken \in BOOLEAN /\ raced \in BOOLEAN
  OBVIOUS
<1> QED
  BY <1>1, <1>2, <1>3, <1>4, <1>5 DEF TypeOK

LocalsOK ==
    /\ step \in [Threads -> {"idle", "begun", "read", "wrote", "count"}]
    /\ task \in [Threads -> Task \cup {NoTask}]
    /\ scan \in [Threads -> [Keys -> Entry \cup {NoEntry}]]
    /\ scanBody \in [Threads -> SUBSET Keys]
    /\ missed \in SUBSET Threads

\* The locals of a thread whose operation returns keep their types.
LEMMA ReturnType ==
    ASSUME TypeOK, NEW t \in Threads, Return(t)
    PROVE  LocalsOK'
<1> EmptyScan \in [Keys -> Entry \cup {NoEntry}]
  BY DEF EmptyScan
<1> QED
  BY DEF TypeOK, Return, Goto, LocalsOK

LEMMA TypeStep == TypeOK /\ [Next]_vars => TypeOK'
<1> SUFFICES ASSUME TypeOK, [Next]_vars PROVE TypeOK'
  OBVIOUS
<1> USE DEF TypeOK, At, Goto
<1>1. ASSUME NEW t \in Threads, Begin(t) PROVE TypeOK'
  BY <1>1, JobsAssumption DEF Begin
<1>2. ASSUME NEW t \in Threads, PutWrite(t) PROVE TypeOK'
  BY <1>2, TaskKinds, NewEntryType DEF PutWrite, Readers, PutTask
<1>3. ASSUME NEW t \in Threads, PutSeeded(t) PROVE TypeOK'
  <2>1. CASE Seeded
    BY <1>3, <2>1 DEF PutSeeded
  <2>2. CASE ~Seeded
    BY <1>3, <2>2, ReturnType DEF PutSeeded, LocalsOK
  <2> QED BY <2>1, <2>2
<1>4. ASSUME NEW t \in Threads, PutAdd(t) PROVE TypeOK'
  BY <1>4, ReturnType DEF PutAdd, LocalsOK
<1>5. ASSUME NEW t \in Threads, LockAndRead(t) PROVE TypeOK'
  <2> DEFINE found == [k \in Keys |-> IF k \in Selected(task[t]) THEN meta[k] ELSE NoEntry]
  <2>1. CASE Present(found) = {}
    BY <1>5, <2>1, ReturnType DEF LockAndRead, LocalsOK
  <2>2. CASE Present(found) # {}
    <3>1. found \in [Keys -> Entry \cup {NoEntry}]
      OBVIOUS
    <3>2. writeMu' = t /\ scan' = [scan EXCEPT ![t] = found] /\ step' = [step EXCEPT ![t] = "read"]
      BY <1>5, <2>2 DEF LockAndRead
    <3>3. UNCHANGED <<meta, body, task, scanBody, missed, overtaken, raced>>
      BY <1>5, <2>2 DEF LockAndRead
    <3> HIDE DEF found
    <3> QED BY <3>1, <3>2, <3>3
  <2> QED BY <2>1, <2>2
<1>6. ASSUME NEW t \in Threads, WriteBack(t) PROVE TypeOK'
  <2>1. Return(t) => LocalsOK'
    BY ReturnType
  <2>2. writeMu \in Threads \cup {NoThread} => writeMu' \in Threads \cup {NoThread}
    BY <1>6 DEF WriteBack, Unlocked
  <2> QED
    BY <1>6, <2>1, <2>2, TaskKinds, RewriteKeepsBody, SMTT(30) DEF WriteBack, LocalsOK, Rewriting
<1>7. ASSUME NEW t \in Threads, ClearScan(t) PROVE TypeOK'
  BY <1>7 DEF ClearScan
<1>8. ASSUME NEW t \in Threads, ClearWrite(t) PROVE TypeOK'
  BY <1>8 DEF ClearWrite, Without, DeleteBodies
<1>9. ASSUME NEW t \in Threads, ClearTotal(t) PROVE TypeOK'
  BY <1>9, ReturnType DEF ClearTotal, StoreTotal, LocalsOK
<1>10. ASSUME NEW t \in Threads, EnforceFastPath(t) PROVE TypeOK'
  BY <1>10, ReturnType DEF EnforceFastPath, LocalsOK
<1>11. ASSUME NEW t \in Threads, EnforceSlowPath(t) PROVE TypeOK'
  BY <1>11 DEF EnforceSlowPath
<1>12. ASSUME NEW t \in Threads, EnforceScan(t) PROVE TypeOK'
  BY <1>12 DEF EnforceScan
<1>13. ASSUME NEW t \in Threads, EnforceEvict(t) PROVE TypeOK'
  BY <1>13 DEF EnforceEvict, Without, DeleteBodies, Victims
<1>14. ASSUME NEW t \in Threads, EnforceTotal(t) PROVE TypeOK'
  BY <1>14, ReturnType DEF EnforceTotal, StoreTotal, LocalsOK
<1>15. ASSUME NEW t \in Threads, DbError(t) PROVE TypeOK'
  BY <1>15, ReturnType DEF DbError, LocalsOK, Unlocked
<1>16. CASE Restart
  BY <1>16 DEF Restart, EmptyScan
<1>17. CASE UNCHANGED vars
  BY <1>17 DEF vars
<1> QED
  BY <1>1, <1>2, <1>3, <1>4, <1>5, <1>6, <1>7, <1>8, <1>9, <1>10, <1>11, <1>12,
     <1>13, <1>14, <1>15, <1>16, <1>17 DEF Next, Advance

\* The store's variables keep their types in every reachable state.
THEOREM TypeCorrect == Spec => []TypeOK
BY TypeInit, TypeStep, PTL DEF Spec
-----------------------------------------------------------------------------
(* The inductive invariant.                                                 *)

\* A rewriting operation is between its read and its write exactly when it
\* owns write_mu_.
MutexInv == \A t \in Threads : At(t, "read", Rewriting) <=> writeMu = t

\* clear has seen bodies and metadata of the same keys, as long as they have
\* come and gone together.
ClearPaired ==
    ~overtaken =>
        \A t \in Threads : At(t, "read", {"clear"}) => scanBody[t] = Present(scan[t])

\* What a rewriting operation has read is what is stored, or has been deleted,
\* unless a put has passed it.
ScanCurrent ==
    \A t \in Threads : At(t, "read", Rewriting) /\ t \notin missed =>
        \A k \in Present(scan[t]) : meta[k] \in {NoEntry, scan[t][k]}

Pairing == PairedUntilOvertaken /\ ClearPaired

LEMMA MutexInit == Init => MutexInv
BY StoreAssumption DEF Init, MutexInv, At

LEMMA MutexStep == TypeOK /\ MutexInv /\ [Next]_vars => MutexInv'
<1> SUFFICES ASSUME TypeOK, MutexInv, [Next]_vars PROVE MutexInv'
  OBVIOUS
<1> USE DEF TypeOK, MutexInv, At, Goto, Rewriting
<1>1. ASSUME NEW t \in Threads, Begin(t) PROVE MutexInv'
  BY <1>1, StoreAssumption DEF Begin
<1>2. ASSUME NEW t \in Threads, PutWrite(t) PROVE MutexInv'
  BY <1>2, StoreAssumption DEF PutWrite
<1>3. ASSUME NEW t \in Threads, PutSeeded(t) PROVE MutexInv'
  BY <1>3, StoreAssumption DEF PutSeeded, Return
<1>4. ASSUME NEW t \in Threads, PutAdd(t) PROVE MutexInv'
  BY <1>4, StoreAssumption DEF PutAdd, Return
<1>5. ASSUME NEW t \in Threads, LockAndRead(t) PROVE MutexInv'
  BY <1>5, StoreAssumption DEF LockAndRead, Return, MutexFree
<1>6. ASSUME NEW t \in Threads, WriteBack(t) PROVE MutexInv'
  BY <1>6, StoreAssumption DEF WriteBack, Return, Unlocked
<1>7. ASSUME NEW t \in Threads, ClearScan(t) PROVE MutexInv'
  BY <1>7, StoreAssumption DEF ClearScan
<1>8. ASSUME NEW t \in Threads, ClearWrite(t) PROVE MutexInv'
  BY <1>8, StoreAssumption DEF ClearWrite
<1>9. ASSUME NEW t \in Threads, ClearTotal(t) PROVE MutexInv'
  BY <1>9, StoreAssumption DEF ClearTotal, Return
<1>10. ASSUME NEW t \in Threads, EnforceFastPath(t) PROVE MutexInv'
  BY <1>10, StoreAssumption DEF EnforceFastPath, Return
<1>11. ASSUME NEW t \in Threads, EnforceSlowPath(t) PROVE MutexInv'
  BY <1>11, StoreAssumption DEF EnforceSlowPath
<1>12. ASSUME NEW t \in Threads, EnforceScan(t) PROVE MutexInv'
  BY <1>12, StoreAssumption DEF EnforceScan
<1>13. ASSUME NEW t \in Threads, EnforceEvict(t) PROVE MutexInv'
  BY <1>13, StoreAssumption DEF EnforceEvict
<1>14. ASSUME NEW t \in Threads, EnforceTotal(t) PROVE MutexInv'
  BY <1>14, StoreAssumption DEF EnforceTotal, Return
<1>15. ASSUME NEW t \in Threads, DbError(t) PROVE MutexInv'
  BY <1>15, StoreAssumption DEF DbError, Return, Unlocked, MutexFree
<1>16. CASE Restart
  BY <1>16, StoreAssumption DEF Restart
<1>17. CASE UNCHANGED vars
  BY <1>17, StoreAssumption DEF vars
<1> QED
  BY <1>1, <1>2, <1>3, <1>4, <1>5, <1>6, <1>7, <1>8, <1>9, <1>10, <1>11,
     <1>12, <1>13, <1>14, <1>15, <1>16, <1>17 DEF Next, Advance

LEMMA MutexCorrect == Spec => []MutexInv
BY TypeCorrect, MutexInit, MutexStep, PTL DEF Spec
-----------------------------------------------------------------------------
(* Metadata and body, paired.                                               *)

LEMMA PairingInit == Init => Pairing
BY DEF Init, Pairing, PairedUntilOvertaken, ClearPaired, Matches, At, EmptyScan

LEMMA PairingStep == TypeOK /\ Pairing /\ [Next]_vars => Pairing'
<1> SUFFICES ASSUME TypeOK, Pairing, [Next]_vars PROVE Pairing'
  OBVIOUS
<1> USE NoEntryAssumption, StoreAssumption
    DEF TypeOK, Pairing, PairedUntilOvertaken, ClearPaired, Matches, At, Goto
<1>1. ASSUME NEW t \in Threads, Begin(t) PROVE Pairing'
  BY <1>1 DEF Begin
<1>2. ASSUME NEW t \in Threads, PutWrite(t) PROVE Pairing'
  BY <1>2, TaskKinds, NewEntryType DEF PutWrite, PutTask
<1>3. ASSUME NEW t \in Threads, PutSeeded(t) PROVE Pairing'
  <2>1. CASE Seeded
    BY <1>3, <2>1 DEF PutSeeded
  <2>2. CASE ~Seeded
    BY <1>3, <2>2 DEF PutSeeded, Return
  <2> QED BY <2>1, <2>2
<1>4. ASSUME NEW t \in Threads, PutAdd(t) PROVE Pairing'
  BY <1>4 DEF PutAdd, Return
<1>5. ASSUME NEW t \in Threads, LockAndRead(t) PROVE Pairing'
  <2>1. UNCHANGED <<meta, body, overtaken>>
    BY <1>5 DEF LockAndRead
  <2>2. step'[t] # "begun" /\ (step'[t] = "read" => task'[t].op # "clear")
    BY <1>5 DEF LockAndRead, Return, Rewriting
  <2>3. \A u \in Threads \ {t} : /\ step'[u] = step[u] /\ task'[u] = task[u]
                                 /\ scan'[u] = scan[u] /\ scanBody'[u] = scanBody[u]
    BY <1>5 DEF LockAndRead, Return
  <2> QED
    BY <2>1, <2>2, <2>3 DEF Present
<1>6. ASSUME NEW t \in Threads, WriteBack(t) PROVE Pairing'
  <2>1. overtaken' = FALSE => \A k \in Present(scan[t]) : scan[t][k] = meta[k]
    BY <1>6 DEF WriteBack
  <2>2. \A k \in Keys : meta[k] # NoEntry => Rewrite(task[t], meta[k]).of = meta[k].of
                         /\ Rewrite(task[t], meta[k]) # NoEntry
    BY <1>6, TaskKinds, RewriteKeepsBody, NoEntryAssumption DEF WriteBack, Rewriting
  <2>3. \A k \in Keys : ~overtaken' /\ Matches(k) => Matches(k)'
    BY <1>6, <2>1, <2>2 DEF WriteBack, Present
  <2>4. ~overtaken' => ~overtaken
    BY <1>6 DEF WriteBack
  <2>5. \A u \in Threads : At(u, "read", {"clear"})' =>
            At(u, "read", {"clear"}) /\ scan'[u] = scan[u] /\ scanBody'[u] = scanBody[u]
    BY <1>6 DEF WriteBack, Return
  <2> QED
    BY <2>3, <2>4, <2>5 DEF Present
<1>7. ASSUME NEW t \in Threads, ClearScan(t) PROVE Pairing'
  <2>1. UNCHANGED <<meta, body, task, overtaken>> /\ step' = [step EXCEPT ![t] = "read"]
    BY <1>7 DEF ClearScan
  <2>2. scan' = [scan EXCEPT ![t] = meta]
    BY <1>7 DEF ClearScan
  <2>3. scanBody' = [scanBody EXCEPT ![t] = {k \in Keys : body[k] # NoBody}]
    BY <1>7 DEF ClearScan
  <2>4. (\A k \in Keys : Matches(k)) => {k \in Keys : body[k] # NoBody} = Present(meta)
    BY DEF Present, Entry
  <2>5. scan'[t] = meta /\ scanBody'[t] = {k \in Keys : body[k] # NoBody}
    BY <2>2, <2>3
  <2>6. \A u \in Threads \ {t} : scan'[u] = scan[u] /\ scanBody'[u] = scanBody[u] /\ step'[u] = step[u]
    BY <2>1, <2>2, <2>3
  <2>7. PairedUntilOvertaken'
    BY <2>1
  <2>8. ClearPaired'
    <3> SUFFICES ASSUME ~overtaken, NEW u \in Threads, At(u, "read", {"clear"})'
                 PROVE  scanBody'[u] = Present(scan'[u])
      BY <2>1 DEF Present
    <3>1. CASE u = t
      BY <3>1, <2>4, <2>5
    <3>2. CASE u # t
      BY <3>2, <2>1, <2>6
    <3> QED BY <3>1, <3>2
  <2> QED
    BY <2>7, <2>8
<1>8. ASSUME NEW t \in Threads, ClearWrite(t) PROVE Pairing'
  BY <1>8 DEF ClearWrite, Without, DeleteBodies
<1>9. ASSUME NEW t \in Threads, ClearTotal(t) PROVE Pairing'
  BY <1>9 DEF ClearTotal, Return
<1>10. ASSUME NEW t \in Threads, EnforceFastPath(t) PROVE Pairing'
  BY <1>10 DEF EnforceFastPath, Return
<1>11. ASSUME NEW t \in Threads, EnforceSlowPath(t) PROVE Pairing'
  BY <1>11 DEF EnforceSlowPath
<1>12. ASSUME NEW t \in Threads, EnforceScan(t) PROVE Pairing'
  BY <1>12 DEF EnforceScan, Present
<1>13. ASSUME NEW t \in Threads, EnforceEvict(t) PROVE Pairing'
  BY <1>13 DEF EnforceEvict, Without, DeleteBodies, Victims
<1>14. ASSUME NEW t \in Threads, EnforceTotal(t) PROVE Pairing'
  BY <1>14 DEF EnforceTotal, Return
<1>15. ASSUME NEW t \in Threads, DbError(t) PROVE Pairing'
  BY <1>15 DEF DbError, Return
<1>16. CASE Restart
  BY <1>16 DEF Restart
<1>17. CASE UNCHANGED vars
  BY <1>17 DEF vars
<1> QED
  BY <1>1, <1>2, <1>3, <1>4, <1>5, <1>6, <1>7, <1>8, <1>9, <1>10, <1>11,
     <1>12, <1>13, <1>14, <1>15, <1>16, <1>17 DEF Next, Advance

\* A read-modify-write that was overtaken is the only way to lose the pairing
\* of metadata and body that get's callers rely on: no interleaving of put,
\* clear, eviction, failures and restarts loses it otherwise.
THEOREM PairedCorrect == Spec => []PairedUntilOvertaken
<1>1. Spec => []Pairing
  BY TypeCorrect, PairingInit, PairingStep, PTL DEF Spec
<1>2. Pairing => PairedUntilOvertaken
  BY DEF Pairing
<1> QED BY <1>1, <1>2, PTL

-----------------------------------------------------------------------------
(* What write_mu_ gives the read-modify-write operations.                   *)

LEMMA ScanInit == Init => ScanCurrent
BY DEF Init, ScanCurrent, At

LEMMA ScanStep == TypeOK /\ MutexInv /\ ScanCurrent /\ [Next]_vars => ScanCurrent'
<1> SUFFICES ASSUME TypeOK, MutexInv, ScanCurrent, [Next]_vars PROVE ScanCurrent'
  OBVIOUS
<1> USE DEF TypeOK, ScanCurrent, At, Goto, Rewriting, Present
<1>1. ASSUME NEW t \in Threads, Begin(t) PROVE ScanCurrent'
  BY <1>1 DEF Begin
<1>2. ASSUME NEW t \in Threads, PutWrite(t) PROVE ScanCurrent'
  BY <1>2 DEF PutWrite, Readers
<1>3. ASSUME NEW t \in Threads, PutSeeded(t) PROVE ScanCurrent'
  BY <1>3 DEF PutSeeded, Return
<1>4. ASSUME NEW t \in Threads, PutAdd(t) PROVE ScanCurrent'
  BY <1>4 DEF PutAdd, Return
<1>5. ASSUME NEW t \in Threads, LockAndRead(t) PROVE ScanCurrent'
  <2> DEFINE found == [k \in Keys |-> IF k \in Selected(task[t]) THEN meta[k] ELSE NoEntry]
  <2>1. CASE Present(found) = {}
    BY <1>5, <2>1 DEF LockAndRead, Return
  <2>2. CASE Present(found) # {}
    <3>1. scan' = [scan EXCEPT ![t] = found] /\ UNCHANGED <<meta, missed, task>>
      BY <1>5, <2>2 DEF LockAndRead
    <3>2. step' = [step EXCEPT ![t] = "read"]
      BY <1>5, <2>2 DEF LockAndRead
    <3>3. \A k \in Keys : found[k] # NoEntry => found[k] = meta[k]
      OBVIOUS
    <3> HIDE DEF found
    <3> QED BY <3>1, <3>2, <3>3
  <2> QED BY <2>1, <2>2
<1>6. ASSUME NEW t \in Threads, WriteBack(t) PROVE ScanCurrent'
  BY <1>6 DEF WriteBack, Return, Rewriting, MutexInv
<1>7. ASSUME NEW t \in Threads, ClearScan(t) PROVE ScanCurrent'
  BY <1>7 DEF ClearScan
<1>8. ASSUME NEW t \in Threads, ClearWrite(t) PROVE ScanCurrent'
  BY <1>8 DEF ClearWrite, Without
<1>9. ASSUME NEW t \in Threads, ClearTotal(t) PROVE ScanCurrent'
  BY <1>9 DEF ClearTotal, Return
<1>10. ASSUME NEW t \in Threads, EnforceFastPath(t) PROVE ScanCurrent'
  BY <1>10 DEF EnforceFastPath, Return
<1>11. ASSUME NEW t \in Threads, EnforceSlowPath(t) PROVE ScanCurrent'
  BY <1>11 DEF EnforceSlowPath
<1>12. ASSUME NEW t \in Threads, EnforceScan(t) PROVE ScanCurrent'
  BY <1>12 DEF EnforceScan
<1>13. ASSUME NEW t \in Threads, EnforceEvict(t) PROVE ScanCurrent'
  BY <1>13 DEF EnforceEvict, Without
<1>14. ASSUME NEW t \in Threads, EnforceTotal(t) PROVE ScanCurrent'
  BY <1>14 DEF EnforceTotal, Return
<1>15. ASSUME NEW t \in Threads, DbError(t) PROVE ScanCurrent'
  BY <1>15 DEF DbError, Return
<1>16. CASE Restart
  BY <1>16 DEF Restart
<1>17. CASE UNCHANGED vars
  BY <1>17 DEF vars
<1> QED
  BY <1>1, <1>2, <1>3, <1>4, <1>5, <1>6, <1>7, <1>8, <1>9, <1>10, <1>11,
     <1>12, <1>13, <1>14, <1>15, <1>16, <1>17 DEF Next, Advance

LEMMA ScanCorrect == Spec => []ScanCurrent
BY TypeCorrect, MutexCorrect, ScanInit, ScanStep, PTL DEF Spec

LEMMA ExpiryStep ==
    ASSUME TypeOK, ScanCurrent, [Next]_vars, NEW k \in Keys, Freshens(k)
    PROVE  \E t \in Threads : MayFreshen(k, t)
<1> USE DEF TypeOK, Freshens, At
<1>1. ASSUME NEW t \in Threads, PutWrite(t) PROVE MayFreshen(k, t)
  BY <1>1 DEF PutWrite, MayFreshen
<1>2. ASSUME NEW t \in Threads, WriteBack(t) PROVE MayFreshen(k, t)
  <2> SUFFICES ASSUME task[t].op # "refresh", t \notin missed PROVE FALSE
    BY <1>2 DEF MayFreshen
  <2>1. scan[t][k] # NoEntry /\ meta'[k] = Rewrite(task[t], scan[t][k])
    BY <1>2 DEF WriteBack
  <2>2. scan[t][k] = meta[k]
    BY <1>2, <2>1 DEF WriteBack, ScanCurrent, Present
  <2>3. meta[k] \in Entry
    OBVIOUS
  <2>4. CASE task[t].op = "touch"
    BY <2>1, <2>2, <2>3, <2>4 DEF Rewrite, Entry
  <2>5. CASE task[t].op = "expire"
    BY <2>1, <2>2, <2>3, <2>5 DEF Rewrite, Entry
  <2> QED
    BY <1>2, <2>4, <2>5 DEF WriteBack, Rewriting
<1>3. ASSUME NEW t \in Threads, ClearWrite(t) \/ EnforceEvict(t) PROVE FALSE
  BY <1>3 DEF ClearWrite, EnforceEvict, Without
<1>4. (\E t \in Threads : Begin(t) \/ PutSeeded(t) \/ PutAdd(t) \/ LockAndRead(t)
            \/ ClearScan(t) \/ ClearTotal(t) \/ EnforceFastPath(t) \/ EnforceSlowPath(t)
            \/ EnforceScan(t) \/ EnforceTotal(t) \/ DbError(t)) => UNCHANGED meta
  BY DEF Begin, PutSeeded, PutAdd, LockAndRead, ClearScan, ClearTotal, EnforceFastPath,
         EnforceSlowPath, EnforceScan, EnforceTotal, DbError
<1>5. Restart \/ UNCHANGED vars => UNCHANGED meta
  BY DEF Restart, vars
<1>6. ~UNCHANGED meta
  OBVIOUS
<1> QED
  BY <1>1, <1>2, <1>3, <1>4, <1>5, <1>6 DEF Next, Advance

\* An expired entry becomes fresh again only by a put or a 304 refresh of its
\* key, or by a read-modify-write that a put has passed: the mutex that touch
\* and expire share keeps a touch from writing back what it read before.
THEOREM ExpiryCorrect == Spec => ExpiryStands
<1>1. TypeOK /\ ScanCurrent /\ [Next]_vars =>
        \A k \in Keys : Freshens(k) => \E t \in Threads : MayFreshen(k, t)
  BY ExpiryStep
<1> QED
  BY <1>1, TypeCorrect, ScanCorrect, PTL DEF Spec, ExpiryStands

-----------------------------------------------------------------------------
(* Sums of sizes: Total counts what it adds up, so that a sum is the        *)
(* cardinality of a union of disjoint blocks.                               *)

Block(x, n) == {x} \X (1 .. n)
Blocks(f) == UNION {Block(x, f[x]) : x \in DOMAIN f}

LEMMA TotalIs == \A f : Total(f) = Cardinality(Blocks(f))
BY DEF Total, Blocks, Block

LEMMA BlockSize ==
    ASSUME NEW x, NEW n \in Nat
    PROVE  IsFiniteSet(Block(x, n)) /\ Cardinality(Block(x, n)) = n
<1>1. IsFiniteSet({x}) /\ Cardinality({x}) = 1
  BY FS_Singleton
<1>2. IsFiniteSet(1 .. n) /\ Cardinality(1 .. n) = n
  BY FS_Interval
<1>3. IsFiniteSet({x} \X (1 .. n)) /\ Cardinality({x} \X (1 .. n)) = 1 * n
  <2>1. Cardinality({x} \X (1 .. n)) = Cardinality({x}) * Cardinality(1 .. n)
    BY <1>1, <1>2, FS_Product
  <2>2. IsFiniteSet({x} \X (1 .. n))
    BY <1>1, <1>2, FS_Product
  <2> QED  BY <1>1, <1>2, <2>1, <2>2
<1> QED
  BY <1>3 DEF Block

LEMMA BlocksFinite ==
    ASSUME NEW D, IsFiniteSet(D), NEW f \in [D -> Nat]
    PROVE  IsFiniteSet(Blocks(f)) /\ Total(f) \in Nat
<1> DEFINE all == {Block(x, f[x]) : x \in D}
           g == [x \in D |-> Block(x, f[x])]
<1>1. g \in Surjection(D, all)
  BY DEF Surjection
<1>2. IsFiniteSet(all)
  BY <1>1, FS_Surjection
<1>3. \A T \in all : IsFiniteSet(T)
  BY BlockSize
<1>4. IsFiniteSet(Blocks(f))
  BY <1>2, <1>3, FS_UNION DEF Blocks
<1> QED
  BY <1>4, FS_CardinalityType, TotalIs

LEMMA InBlocks ==
    ASSUME NEW D, NEW f \in [D -> Nat], NEW b
    PROVE  b \in Blocks(f) <=> \E x \in D : \E i \in 1 .. f[x] : b = <<x, i>>
BY DEF Blocks, Block

\* A sum of less over fewer is no more.
LEMMA TotalMonotone ==
    ASSUME NEW D, NEW E, IsFiniteSet(E), D \subseteq E,
           NEW f \in [D -> Nat], NEW g \in [E -> Nat], \A x \in D : f[x] <= g[x]
    PROVE  Total(f) <= Total(g)
<1>1. \A x \in D : \A i \in 1 .. f[x] : i \in 1 .. g[x]
  OBVIOUS
<1>2. Blocks(f) \subseteq Blocks(g)
  BY <1>1, InBlocks
<1> QED
  BY <1>2, BlocksFinite, FS_Subset, TotalIs

\* One more term adds to a sum.
LEMMA TotalAdd ==
    ASSUME NEW D, IsFiniteSet(D), NEW f \in [D -> Nat], NEW x, x \notin D,
           NEW g \in [D \cup {x} -> Nat], \A y \in D : g[y] = f[y]
    PROVE  Total(g) = Total(f) + g[x]
<1>1. Blocks(g) = Blocks(f) \cup Block(x, g[x])
  BY DEF Blocks
<1>2. Blocks(f) \cap Block(x, g[x]) = {}
  BY InBlocks DEF Block
<1>3. IsFiniteSet(Blocks(f)) /\ Cardinality(Blocks(f)) \in Nat
  BY BlocksFinite, TotalIs
<1>4. IsFiniteSet(Block(x, g[x])) /\ Cardinality(Block(x, g[x])) = g[x] /\ g[x] \in Nat
  BY BlockSize
<1>5. Cardinality(Blocks(f) \cup Block(x, g[x]))
        = Cardinality(Blocks(f)) + g[x] - Cardinality(Blocks(f) \cap Block(x, g[x]))
  BY <1>3, <1>4, FS_Union
<1>6. Cardinality(Blocks(f) \cap Block(x, g[x])) = 0
  BY <1>2, FS_EmptySet
<1>7. Total(g) = Cardinality(Blocks(f) \cup Block(x, g[x])) /\ Total(f) = Cardinality(Blocks(f))
  BY <1>1, TotalIs
<1> QED
  BY <1>3, <1>4, <1>5, <1>6, <1>7

Metas == [Keys -> Entry \cup {NoEntry}]
Sizes(e) == [k \in Present(e) |-> Size[e[k].of]]

LEMMA SizesType ==
    ASSUME NEW e \in Metas
    PROVE  /\ Sizes(e) \in [Present(e) -> Nat] /\ IsFiniteSet(Present(e))
           /\ Bytes(e) = Total(Sizes(e)) /\ Bytes(e) \in Nat
<1>1. Present(e) \subseteq Keys /\ IsFiniteSet(Present(e))
  BY StoreAssumption, FS_Subset DEF Present
<1>2. \A k \in Present(e) : e[k] \in Entry /\ e[k].of \in Contents /\ Size[e[k].of] \in Nat
  BY StoreAssumption DEF Present, Metas, Entry
<1>3. Sizes(e) \in [Present(e) -> Nat] /\ Bytes(e) = Total(Sizes(e))
  BY <1>2 DEF Sizes, Bytes
<1> QED
  BY <1>1, <1>3, BlocksFinite

\* e has the bodies of d and maybe more.
Covers(e, d) == \A k \in Keys : d[k] # NoEntry => e[k] # NoEntry /\ e[k].of = d[k].of

LEMMA CoverBytes ==
    ASSUME NEW e \in Metas, NEW d \in Metas, Covers(e, d)
    PROVE  Bytes(d) <= Bytes(e)
<1>1. Present(d) \subseteq Present(e)
  BY DEF Covers, Present
<1>2. \A k \in Present(d) : Sizes(d)[k] <= Sizes(e)[k]
  <2> TAKE k \in Present(d)
  <2>1. Sizes(d)[k] = Sizes(e)[k]
    BY <1>1 DEF Covers, Present, Sizes
  <2>2. Sizes(d)[k] \in Nat
    BY SizesType
  <2> QED BY <2>1, <2>2
<1> QED
  BY <1>1, <1>2, SizesType, TotalMonotone

\* Writing an entry adds its body's size at most.
LEMMA PutBytes ==
    ASSUME NEW e \in Metas, NEW k \in Keys, NEW m \in Entry
    PROVE  Bytes([e EXCEPT ![k] = m]) <= Bytes(e) + Size[m.of]
<1> DEFINE d == [e EXCEPT ![k] = m]
           rest == [e EXCEPT ![k] = NoEntry]
<1>1. d \in Metas /\ rest \in Metas
  BY DEF Metas
<1>2. k \notin Present(rest) /\ Present(d) = Present(rest) \cup {k}
  BY NoEntryAssumption DEF Present, Metas
<1>3. \A j \in Present(rest) : Sizes(d)[j] = Sizes(rest)[j]
  BY <1>2 DEF Present, Metas, Sizes
<1>4. Sizes(d)[k] = Size[m.of]
  BY <1>2 DEF Sizes, Metas
<1>5. Covers(e, rest)
  BY DEF Covers, Metas
<1>6. Bytes(rest) <= Bytes(e)
  BY <1>1, <1>5, CoverBytes
<1> HIDE DEF d, rest
<1>7. /\ Sizes(rest) \in [Present(rest) -> Nat] /\ IsFiniteSet(Present(rest))
      /\ Sizes(d) \in [Present(rest) \cup {k} -> Nat]
      /\ Bytes(d) = Total(Sizes(d)) /\ Bytes(rest) = Total(Sizes(rest))
      /\ Bytes(rest) \in Nat /\ Bytes(e) \in Nat
  BY <1>1, <1>2, SizesType
<1>8. Total(Sizes(d)) = Total(Sizes(rest)) + Sizes(d)[k]
  BY <1>2, <1>3, <1>7, TotalAdd
<1>9. Size[m.of] \in Nat
  BY StoreAssumption DEF Entry
<1>10. Bytes(d) <= Bytes(e) + Size[m.of]
  BY <1>4, <1>6, <1>7, <1>8, <1>9
<1> QED
  BY <1>10 DEF d

-----------------------------------------------------------------------------
(* The running total.                                                       *)

Puts == {u \in Threads : Putting(u)}
Shares == [u \in Puts |-> Size[task[u].content]]

PendingTyped ==
    /\ Shares \in [Puts -> Nat] /\ IsFiniteSet(Puts)
    /\ PendingBytes = Total(Shares) /\ PendingBytes \in Nat

LEMMA PendingType == TypeOK => PendingTyped
<1> SUFFICES ASSUME TypeOK PROVE PendingTyped
  OBVIOUS
<1>1. Puts \subseteq Threads /\ IsFiniteSet(Puts)
  BY StoreAssumption, FS_Subset DEF Puts
<1>2. \A u \in Puts : Size[task[u].content] \in Nat
  <2> TAKE u \in Puts
  <2>1. task[u] \in PutTask
    BY TaskKinds DEF TypeOK, Puts, Putting, At
  <2> QED BY <2>1, StoreAssumption DEF PutTask
<1>3. Shares \in [Puts -> Nat] /\ PendingBytes = Total(Shares)
  BY <1>2 DEF Shares, PendingBytes, Puts
<1> QED
  BY <1>1, <1>3, BlocksFinite DEF PendingTyped

LEMMA PendingTypeNext == TypeOK' => PendingTyped'
BY PendingType, PTL

LEMMA PendingSame ==
    ASSUME \A u \in Threads : Putting(u)' <=> Putting(u),
           \A u \in Threads : Putting(u) => task'[u] = task[u]
    PROVE  PendingBytes' = PendingBytes
<1>1. Puts' = Puts
  BY DEF Puts
<1>2. Shares' = Shares
  BY <1>1 DEF Shares, Puts
<1> QED
  BY <1>2 DEF PendingBytes, Shares, Puts

\* What a thread that began to put has yet to add.
LEMMA PendingMore ==
    ASSUME TypeOK, TypeOK', NEW t \in Threads, ~Putting(t), Putting(t)',
           \A u \in Threads \ {t} : Putting(u)' <=> Putting(u),
           \A u \in Threads \ {t} : task'[u] = task[u]
    PROVE  PendingBytes' = PendingBytes + Size[task'[t].content] /\ Size[task'[t].content] \in Nat
<1>1. t \notin Puts /\ Puts' = Puts \cup {t}
  BY DEF Puts
<1>2. \A u \in Puts : Shares'[u] = Shares[u]
  BY <1>1 DEF Shares, Puts
<1>3. Shares'[t] = Size[task'[t].content]
  BY <1>1 DEF Shares
<1>4. /\ Shares \in [Puts -> Nat] /\ IsFiniteSet(Puts) /\ PendingBytes = Total(Shares)
      /\ PendingBytes \in Nat
  BY PendingType DEF PendingTyped
<1>5. Shares' \in [Puts \cup {t} -> Nat] /\ PendingBytes' = Total(Shares')
  BY <1>1, PendingTypeNext DEF PendingTyped
<1>6. Total(Shares') = Total(Shares) + Shares'[t]
  <2> DEFINE f == Shares
             g == Shares'
             D == Puts
  <2>1. f \in [D -> Nat] /\ g \in [D \cup {t} -> Nat] /\ IsFiniteSet(D) /\ t \notin D
    BY <1>1, <1>4, <1>5
  <2>2. \A u \in D : g[u] = f[u]
    BY <1>2
  <2> HIDE DEF f, g, D
  <2>3. Total(g) = Total(f) + g[t]
    BY <2>1, <2>2, TotalAdd
  <2> QED BY <2>3 DEF f, g
<1> QED
  BY <1>3, <1>4, <1>5, <1>6

\* What a thread has added is not pending any more.
LEMMA PendingLess ==
    ASSUME TypeOK, TypeOK', NEW t \in Threads, Putting(t), ~Putting(t)',
           \A u \in Threads \ {t} : Putting(u)' <=> Putting(u),
           \A u \in Threads \ {t} : task'[u] = task[u]
    PROVE  PendingBytes = PendingBytes' + Size[task[t].content] /\ Size[task[t].content] \in Nat
<1>1. t \notin Puts' /\ Puts = Puts' \cup {t}
  BY DEF Puts
<1>2. \A u \in Puts' : Shares'[u] = Shares[u]
  BY <1>1 DEF Shares, Puts
<1>3. Shares[t] = Size[task[t].content]
  BY <1>1 DEF Shares
<1>4. /\ Shares' \in [Puts' -> Nat] /\ IsFiniteSet(Puts') /\ PendingBytes' = Total(Shares')
      /\ PendingBytes' \in Nat
  BY PendingTypeNext DEF PendingTyped
<1>5. Shares \in [Puts' \cup {t} -> Nat] /\ PendingBytes = Total(Shares)
  BY <1>1, PendingType DEF PendingTyped
<1>6. Total(Shares) = Total(Shares') + Shares[t]
  <2> DEFINE f == Shares'
             g == Shares
             D == Puts'
  <2>1. f \in [D -> Nat] /\ g \in [D \cup {t} -> Nat] /\ IsFiniteSet(D) /\ t \notin D
    BY <1>1, <1>4, <1>5
  <2>2. \A u \in D : g[u] = f[u]
    BY <1>2
  <2> HIDE DEF f, g, D
  <2>3. Total(g) = Total(f) + g[t]
    BY <2>1, <2>2, TotalAdd
  <2> QED BY <2>3 DEF f, g
<1> QED
  BY <1>3, <1>4, <1>5, <1>6

\* What clear or an enforcement has read, and no put has passed since, has all that is
\* stored; once clear has deleted it, nothing is stored.
Sees(t) == At(t, "read", {"clear", "enforce"}) \/ At(t, "wrote", {"enforce"})
ScanCovers ==
    ~overtaken => \A t \in Threads \ missed :
        /\ Sees(t) => Covers(scan[t], meta)
        /\ At(t, "wrote", {"clear"}) => Present(meta) = {}

LEMMA CoversInit == Init => ScanCovers
BY DEF Init, ScanCovers, Sees, At

LEMMA CoversStep == TypeOK /\ ScanCovers /\ [Next]_vars => ScanCovers'
<1> SUFFICES ASSUME TypeOK, ScanCovers, [Next]_vars PROVE ScanCovers'
  OBVIOUS
<1> USE DEF TypeOK, ScanCovers, At, Goto, Sees, Covers
<1>1. ASSUME NEW t \in Threads, Begin(t) PROVE ScanCovers'
  BY <1>1 DEF Begin, Present
<1>2. ASSUME NEW t \in Threads, PutWrite(t) PROVE ScanCovers'
  BY <1>2 DEF PutWrite, Readers
<1>3. ASSUME NEW t \in Threads, PutSeeded(t) PROVE ScanCovers'
  BY <1>3 DEF PutSeeded, Return, Present
<1>4. ASSUME NEW t \in Threads, PutAdd(t) PROVE ScanCovers'
  BY <1>4 DEF PutAdd, Return, Present
<1>5. ASSUME NEW t \in Threads, LockAndRead(t) PROVE ScanCovers'
  <2>1. UNCHANGED <<meta, overtaken>>
    BY <1>5 DEF LockAndRead
  <2>2. ~Sees(t)' /\ ~At(t, "wrote", {"clear"})'
    BY <1>5 DEF LockAndRead, Return, Rewriting
  <2>3. \A u \in Threads \ {t} : /\ step'[u] = step[u] /\ task'[u] = task[u]
                                 /\ scan'[u] = scan[u] /\ (u \in missed' <=> u \in missed)
    BY <1>5 DEF LockAndRead, Return
  <2> QED
    BY <2>1, <2>2, <2>3 DEF Present
<1>6. ASSUME NEW t \in Threads, WriteBack(t) PROVE ScanCovers'
  <2> SUFFICES ASSUME ~overtaken' PROVE ScanCovers'
    OBVIOUS
  <2>1. ~overtaken /\ \A k \in Keys : scan[t][k] # NoEntry => scan[t][k] = meta[k]
    BY <1>6 DEF WriteBack, Present
  <2>2. \A k \in Keys : meta[k] # NoEntry => Rewrite(task[t], meta[k]).of = meta[k].of
                         /\ Rewrite(task[t], meta[k]) # NoEntry
    BY <1>6, TaskKinds, RewriteKeepsBody, NoEntryAssumption DEF WriteBack, Rewriting
  <2>3. \A k \in Keys : /\ meta'[k] # NoEntry <=> meta[k] # NoEntry
                        /\ meta[k] # NoEntry => meta'[k].of = meta[k].of
    BY <1>6, <2>1, <2>2 DEF WriteBack
  <2>4. ~Sees(t)' /\ ~At(t, "wrote", {"clear"})'
    BY <1>6 DEF WriteBack, Return
  <2>5. \A u \in Threads \ {t} : /\ step'[u] = step[u] /\ task'[u] = task[u]
                                 /\ scan'[u] = scan[u] /\ (u \in missed' <=> u \in missed)
    BY <1>6 DEF WriteBack, Return
  <2>6. Present(meta)' = Present(meta)
    BY <2>3 DEF Present
  <2> QED
    BY <2>1, <2>3, <2>4, <2>5, <2>6
<1>7. ASSUME NEW t \in Threads, ClearScan(t) PROVE ScanCovers'
  BY <1>7 DEF ClearScan, Present
<1>8. ASSUME NEW t \in Threads, ClearWrite(t) PROVE ScanCovers'
  BY <1>8 DEF ClearWrite, Without, DeleteBodies, Present
<1>9. ASSUME NEW t \in Threads, ClearTotal(t) PROVE ScanCovers'
  BY <1>9 DEF ClearTotal, Return, Present
<1>10. ASSUME NEW t \in Threads, EnforceFastPath(t) PROVE ScanCovers'
  BY <1>10 DEF EnforceFastPath, Return, Present
<1>11. ASSUME NEW t \in Threads, EnforceSlowPath(t) PROVE ScanCovers'
  BY <1>11 DEF EnforceSlowPath, Present
<1>12. ASSUME NEW t \in Threads, EnforceScan(t) PROVE ScanCovers'
  BY <1>12 DEF EnforceScan, Present
<1>13. ASSUME NEW t \in Threads, EnforceEvict(t) PROVE ScanCovers'
  BY <1>13 DEF EnforceEvict, Without, DeleteBodies, Victims, Present
<1>14. ASSUME NEW t \in Threads, EnforceTotal(t) PROVE ScanCovers'
  BY <1>14 DEF EnforceTotal, Return, Present
<1>15. ASSUME NEW t \in Threads, DbError(t) PROVE ScanCovers'
  BY <1>15 DEF DbError, Return, Present
<1>16. CASE Restart
  BY <1>16 DEF Restart
<1>17. CASE UNCHANGED vars
  BY <1>17 DEF vars, Present
<1> QED
  BY <1>1, <1>2, <1>3, <1>4, <1>5, <1>6, <1>7, <1>8, <1>9, <1>10, <1>11,
     <1>12, <1>13, <1>14, <1>15, <1>16, <1>17 DEF Next, Advance

LEMMA BytesNow == TypeOK => Bytes(meta) \in Nat
BY SizesType DEF TypeOK, Metas

LEMMA BytesNext == TypeOK' => Bytes(meta') \in Nat
<1>1. TypeOK' => meta' \in Metas
  BY DEF TypeOK, Metas
<1> QED
  BY <1>1, SizesType

\* The total is -1 until seeded, and a put that adds to it has found it seeded.
HintInv ==
    /\ totalBytes \in Nat \cup {-1}
    /\ \A t \in Threads : At(t, "count", {"put"}) => totalBytes \in Nat
    /\ HintCoversUntilRaced

LEMMA HintInit == Init => HintInv
BY DEF Init, HintInv, HintCoversUntilRaced, HintCovers, At

LEMMA Nothing ==
    ASSUME NEW e \in Metas, Present(e) = {}
    PROVE  Bytes(e) = 0
<1>1. Blocks(Sizes(e)) = {}
  BY DEF Blocks, Sizes
<1> QED
  BY <1>1, SizesType, TotalIs, FS_EmptySet

\* A step that neither adds to nor forgets a put, and after which no more is stored.
LEMMA HintKept ==
    ASSUME TypeOK, TypeOK', HintInv, Covers(meta, meta'), totalBytes' = totalBytes,
           raced' = raced, ~overtaken' => ~overtaken,
           \A u \in Threads : Putting(u)' <=> Putting(u),
           \A u \in Threads : Putting(u) => task'[u] = task[u],
           \A u \in Threads : At(u, "count", {"put"})' => At(u, "count", {"put"}) \/ Seeded
    PROVE  HintInv'
<1>1. PendingBytes' = PendingBytes /\ PendingBytes \in Nat
  BY PendingSame, PendingType DEF PendingTyped
<1>2. meta \in Metas /\ meta' \in Metas
  BY DEF TypeOK, Metas
<1>3. Bytes(meta') <= Bytes(meta) /\ Bytes(meta) \in Nat /\ Bytes(meta') \in Nat
  BY <1>2, CoverBytes, SizesType
<1>4. (Bytes(meta))' = Bytes(meta')
  OBVIOUS
<1>5. HintCoversUntilRaced'
  <2> SUFFICES ASSUME ~raced', ~overtaken', totalBytes' >= 0
               PROVE  totalBytes' + PendingBytes' >= Bytes(meta')
    BY DEF HintCoversUntilRaced, HintCovers
  <2>1. totalBytes \in Nat /\ totalBytes + PendingBytes >= Bytes(meta)
    BY DEF HintInv, HintCoversUntilRaced, HintCovers
  <2> QED
    BY <2>1, <1>1, <1>3
<1>6. \A u \in Threads : At(u, "count", {"put"})' => totalBytes' \in Nat
  BY DEF HintInv, Seeded
<1> QED
  BY <1>5, <1>6 DEF HintInv

\* A thread that puts nothing leaves what is pending alone.
LEMMA NotPutting ==
    ASSUME TypeOK, TypeOK', NEW t \in Threads, ~Putting(t), ~Putting(t)',
           \E v : step' = [step EXCEPT ![t] = v],
           task' = task \/ \E j : task' = [task EXCEPT ![t] = j]
    PROVE  /\ \A u \in Threads : Putting(u)' <=> Putting(u)
           /\ \A u \in Threads : Putting(u) => task'[u] = task[u]
           /\ \A u \in Threads : At(u, "count", {"put"})' => At(u, "count", {"put"})
<1>1. \A u \in Threads \ {t} : step'[u] = step[u] /\ task'[u] = task[u]
  BY DEF TypeOK
<1> QED
  BY <1>1 DEF Putting, At

LEMMA HintStep ==
    TypeOK /\ TypeOK' /\ ScanCovers /\ HintInv /\ [Next]_vars => HintInv'
<1> SUFFICES ASSUME TypeOK, TypeOK', ScanCovers, HintInv, [Next]_vars PROVE HintInv'
  OBVIOUS
<1> USE DEF At, Goto
<1>a. Covers(meta, meta)
  BY DEF Covers
<1>b. meta \in Metas /\ meta' \in Metas
  BY DEF TypeOK, Metas
<1>c. PendingBytes \in Nat /\ PendingBytes' \in Nat
  BY PendingType, PendingTypeNext DEF PendingTyped
<1>d. Bytes(meta) \in Nat /\ Bytes(meta') \in Nat
  BY BytesNow, BytesNext
<1>1. ASSUME NEW t \in Threads, Begin(t) PROVE HintInv'
  <2>1. /\ UNCHANGED <<meta, totalBytes, raced, overtaken>>
        /\ step' = [step EXCEPT ![t] = "begun"] /\ step[t] = "idle"
        /\ \E j : task' = [task EXCEPT ![t] = j]
    BY <1>1 DEF Begin
  <2>2. ~Putting(t) /\ ~Putting(t)'
    BY <2>1 DEF Putting, TypeOK
  <2> QED
    BY <2>1, <2>2, <1>a, NotPutting, HintKept
<1>2. ASSUME NEW t \in Threads, PutWrite(t) PROVE HintInv'
  <2>1. /\ step[t] = "begun" /\ task[t].op = "put" /\ task' = task
        /\ step' = [step EXCEPT ![t] = "wrote"]
        /\ meta' = [meta EXCEPT ![task[t].key] = NewEntry(task[t])]
        /\ UNCHANGED <<totalBytes, raced, overtaken>>
    BY <1>2 DEF PutWrite
  <2>2. task[t] \in PutTask
    BY <2>1, TaskKinds DEF TypeOK
  <2>3. ~Putting(t) /\ Putting(t)' /\ \A u \in Threads \ {t} : Putting(u)' <=> Putting(u)
    BY <2>1 DEF Putting, TypeOK
  <2>4. PendingBytes' = PendingBytes + Size[task[t].content] /\ Size[task[t].content] \in Nat
    BY <2>1, <2>3, PendingMore
  <2>5. task[t].key \in Keys /\ NewEntry(task[t]) \in Entry /\ NewEntry(task[t]).of = task[t].content
    BY <2>2, NewEntryType DEF PutTask
  <2>6. Bytes(meta') <= Bytes(meta) + Size[task[t].content]
    BY <2>1, <2>5, <1>b, PutBytes
  <2>7. HintCoversUntilRaced'
    <3> SUFFICES ASSUME ~raced', ~overtaken', totalBytes' >= 0
                 PROVE  totalBytes' + PendingBytes' >= Bytes(meta')
      BY DEF HintCoversUntilRaced, HintCovers
    <3>1. totalBytes \in Nat /\ totalBytes + PendingBytes >= Bytes(meta)
      BY <2>1 DEF HintInv, HintCoversUntilRaced, HintCovers
    <3> QED
      BY <3>1, <2>1, <2>4, <2>6, <1>c, <1>d
  <2>8. \A u \in Threads : At(u, "count", {"put"})' => At(u, "count", {"put"})
    BY <2>1 DEF TypeOK
  <2> QED
    BY <2>1, <2>7, <2>8 DEF HintInv
<1>3. ASSUME NEW t \in Threads, PutSeeded(t) PROVE HintInv'
  <2>1. /\ step[t] = "wrote" /\ task[t].op = "put"
        /\ UNCHANGED <<meta, totalBytes, raced, overtaken>>
    BY <1>3 DEF PutSeeded
  <2>2. CASE Seeded
    <3>1. step' = [step EXCEPT ![t] = "count"] /\ task' = task
      BY <1>3, <2>2 DEF PutSeeded
    <3>2. /\ \A u \in Threads : Putting(u)' <=> Putting(u)
          /\ \A u \in Threads : Putting(u) => task'[u] = task[u]
          /\ \A u \in Threads : At(u, "count", {"put"})' => At(u, "count", {"put"}) \/ Seeded
      BY <2>1, <2>2, <3>1 DEF Putting, TypeOK
    <3> QED
      BY <2>1, <3>1, <3>2, <1>a, HintKept
  <2>3. CASE ~Seeded
    <3>1. step' = [step EXCEPT ![t] = "idle"] /\ task' = [task EXCEPT ![t] = NoTask]
      BY <1>3, <2>3 DEF PutSeeded, Return
    <3>2. totalBytes' = -1
      BY <2>1, <2>3 DEF Seeded, HintInv
    <3>3. \A u \in Threads : ~At(u, "count", {"put"})'
      BY <2>1, <3>1, <3>2 DEF HintInv, TypeOK
    <3> QED
      BY <3>2, <3>3 DEF HintInv, HintCoversUntilRaced, HintCovers
  <2> QED BY <2>2, <2>3
<1>4. ASSUME NEW t \in Threads, PutAdd(t) PROVE HintInv'
  <2>1. /\ step[t] = "count" /\ task[t].op = "put"
        /\ totalBytes' = totalBytes + Size[task[t].content]
        /\ UNCHANGED <<meta, raced, overtaken>>
        /\ step' = [step EXCEPT ![t] = "idle"] /\ task' = [task EXCEPT ![t] = NoTask]
    BY <1>4 DEF PutAdd, Return
  <2>2. \A u \in Threads \ {t} : step'[u] = step[u] /\ task'[u] = task[u]
    BY <2>1 DEF TypeOK
  <2>3. /\ Putting(t) /\ ~Putting(t)'
        /\ \A u \in Threads \ {t} : Putting(u)' <=> Putting(u)
    BY <2>1, <2>2 DEF Putting, TypeOK
  <2>4. PendingBytes = PendingBytes' + Size[task[t].content] /\ Size[task[t].content] \in Nat
    BY <2>2, <2>3, PendingLess
  <2>5. HintCoversUntilRaced'
    <3> SUFFICES ASSUME ~raced', ~overtaken', totalBytes' >= 0
                 PROVE  totalBytes' + PendingBytes' >= Bytes(meta')
      BY DEF HintCoversUntilRaced, HintCovers
    <3>1. totalBytes \in Nat
      BY <2>1 DEF HintInv
    <3>2. totalBytes + PendingBytes >= Bytes(meta)
      BY <2>1, <3>1 DEF HintInv, HintCoversUntilRaced, HintCovers
    <3> QED
      BY <3>1, <3>2, <2>1, <2>4, <1>c, <1>d
  <2>6. totalBytes' \in Nat
    BY <2>1, <2>4 DEF HintInv
  <2> QED
    BY <2>5, <2>6 DEF HintInv
<1>5. ASSUME NEW t \in Threads, LockAndRead(t) PROVE HintInv'
  <2>1. /\ UNCHANGED <<meta, totalBytes, raced, overtaken>>
        /\ \E v : step' = [step EXCEPT ![t] = v]
        /\ task' = task \/ \E j : task' = [task EXCEPT ![t] = j]
    BY <1>5 DEF LockAndRead, Return
  <2>2. ~Putting(t) /\ ~Putting(t)'
    BY <1>5 DEF LockAndRead, Return, Putting, TypeOK, NoTask, Rewriting
  <2> QED
    BY <2>1, <2>2, <1>a, NotPutting, HintKept
<1>6. ASSUME NEW t \in Threads, WriteBack(t) PROVE HintInv'
  <2>1. /\ UNCHANGED <<totalBytes, raced>> /\ (~overtaken' => ~overtaken)
        /\ \E v : step' = [step EXCEPT ![t] = v]
        /\ \E j : task' = [task EXCEPT ![t] = j]
    BY <1>6 DEF WriteBack, Return
  <2>2. ~Putting(t) /\ ~Putting(t)'
    BY <1>6 DEF WriteBack, Return, Putting, TypeOK, NoTask, Rewriting
  <2>3. CASE overtaken'
    BY <2>1, <2>2, <2>3, NotPutting DEF HintInv, HintCoversUntilRaced
  <2>4. CASE ~overtaken'
    <3>1. \A k \in Keys : scan[t][k] # NoEntry => scan[t][k] = meta[k]
      BY <1>6, <2>4 DEF WriteBack, Present
    <3>2. \A k \in Keys : meta[k] # NoEntry => Rewrite(task[t], meta[k]).of = meta[k].of
      BY <1>6, TaskKinds, RewriteKeepsBody DEF WriteBack, Rewriting, TypeOK
    <3>3. Covers(meta, meta')
      BY <1>6, <3>1, <3>2 DEF WriteBack, Covers
    <3> QED
      BY <2>1, <2>2, <3>3, NotPutting, HintKept
  <2> QED BY <2>3, <2>4
<1>7. ASSUME NEW t \in Threads, ClearScan(t) PROVE HintInv'
  <2>1. /\ UNCHANGED <<totalBytes, raced, overtaken>>
        /\ \E v : step' = [step EXCEPT ![t] = v]
        /\ task' = task \/ \E j : task' = [task EXCEPT ![t] = j]
    BY <1>7 DEF ClearScan
  <2>2. ~Putting(t) /\ ~Putting(t)'
    BY <1>7 DEF ClearScan, Putting, TypeOK, NoTask, Rewriting
  <2>3. Covers(meta, meta')
    BY <1>7, <1>a DEF ClearScan
  <2> QED
    BY <2>1, <2>2, <2>3, NotPutting, HintKept
<1>8. ASSUME NEW t \in Threads, ClearWrite(t) PROVE HintInv'
  <2>1. /\ UNCHANGED <<totalBytes, raced, overtaken>>
        /\ \E v : step' = [step EXCEPT ![t] = v]
        /\ task' = task \/ \E j : task' = [task EXCEPT ![t] = j]
    BY <1>8 DEF ClearWrite
  <2>2. ~Putting(t) /\ ~Putting(t)'
    BY <1>8 DEF ClearWrite, Putting, TypeOK, NoTask, Rewriting
  <2>3. Covers(meta, meta')
    BY <1>8 DEF ClearWrite, Without, Covers
  <2> QED
    BY <2>1, <2>2, <2>3, NotPutting, HintKept
<1>9. ASSUME NEW t \in Threads, ClearTotal(t) PROVE HintInv'
  <2>1. /\ UNCHANGED <<meta, overtaken>> /\ raced' = (raced \/ t \in missed)
        /\ totalBytes' = 0
        /\ step' = [step EXCEPT ![t] = "idle"] /\ task' = [task EXCEPT ![t] = NoTask]
    BY <1>9 DEF ClearTotal, StoreTotal, Return
  <2>2. totalBytes' \in Nat
    BY <2>1, SizesType DEF TypeOK, Metas
  <2>3. HintCoversUntilRaced'
    <3> SUFFICES ASSUME ~raced', ~overtaken'
                 PROVE  totalBytes' + PendingBytes' >= Bytes(meta')
      BY DEF HintCoversUntilRaced, HintCovers
    <3>1. t \in Threads \ missed /\ ~overtaken
      BY <2>1
    <3>2. Bytes(meta) = 0
      BY <3>1, <1>9, <1>b, Nothing DEF ClearTotal, ScanCovers
    <3>3. totalBytes' = 0 /\ Bytes(meta') = 0
      BY <3>2, <2>1
    <3>4. PendingBytes' \in Nat /\ \A n \in Nat : 0 + n >= 0
      BY <1>c
    <3> QED
      BY <3>3, <3>4
  <2> QED
    BY <2>2, <2>3 DEF HintInv
<1>10. ASSUME NEW t \in Threads, EnforceFastPath(t) PROVE HintInv'
  <2>1. /\ UNCHANGED <<totalBytes, raced, overtaken>>
        /\ \E v : step' = [step EXCEPT ![t] = v]
        /\ task' = task \/ \E j : task' = [task EXCEPT ![t] = j]
    BY <1>10 DEF EnforceFastPath, Return
  <2>2. ~Putting(t) /\ ~Putting(t)'
    BY <1>10 DEF EnforceFastPath, Return, Putting, TypeOK, NoTask, Rewriting
  <2>3. Covers(meta, meta')
    BY <1>10, <1>a DEF EnforceFastPath
  <2> QED
    BY <2>1, <2>2, <2>3, NotPutting, HintKept
<1>11. ASSUME NEW t \in Threads, EnforceSlowPath(t) PROVE HintInv'
  <2>1. /\ UNCHANGED <<totalBytes, raced, overtaken>>
        /\ \E v : step' = [step EXCEPT ![t] = v]
        /\ task' = task \/ \E j : task' = [task EXCEPT ![t] = j]
    BY <1>11 DEF EnforceSlowPath
  <2>2. ~Putting(t) /\ ~Putting(t)'
    BY <1>11 DEF EnforceSlowPath, Putting, TypeOK, NoTask, Rewriting
  <2>3. Covers(meta, meta')
    BY <1>11, <1>a DEF EnforceSlowPath
  <2> QED
    BY <2>1, <2>2, <2>3, NotPutting, HintKept
<1>12. ASSUME NEW t \in Threads, EnforceScan(t) PROVE HintInv'
  <2>1. /\ UNCHANGED <<totalBytes, raced, overtaken>>
        /\ \E v : step' = [step EXCEPT ![t] = v]
        /\ task' = task \/ \E j : task' = [task EXCEPT ![t] = j]
    BY <1>12 DEF EnforceScan
  <2>2. ~Putting(t) /\ ~Putting(t)'
    BY <1>12 DEF EnforceScan, Putting, TypeOK, NoTask, Rewriting
  <2>3. Covers(meta, meta')
    BY <1>12, <1>a DEF EnforceScan
  <2> QED
    BY <2>1, <2>2, <2>3, NotPutting, HintKept
<1>13. ASSUME NEW t \in Threads, EnforceEvict(t) PROVE HintInv'
  <2>1. /\ UNCHANGED <<totalBytes, raced, overtaken>>
        /\ \E v : step' = [step EXCEPT ![t] = v]
        /\ task' = task \/ \E j : task' = [task EXCEPT ![t] = j]
    BY <1>13 DEF EnforceEvict
  <2>2. ~Putting(t) /\ ~Putting(t)'
    BY <1>13 DEF EnforceEvict, Putting, TypeOK, NoTask, Rewriting
  <2>3. Covers(meta, meta')
    BY <1>13 DEF EnforceEvict, Without, Covers
  <2> QED
    BY <2>1, <2>2, <2>3, NotPutting, HintKept
<1>14. ASSUME NEW t \in Threads, EnforceTotal(t) PROVE HintInv'
  <2>1. /\ UNCHANGED <<meta, overtaken>> /\ raced' = (raced \/ t \in missed)
        /\ totalBytes' = Bytes(scan[t])
        /\ step' = [step EXCEPT ![t] = "idle"] /\ task' = [task EXCEPT ![t] = NoTask]
    BY <1>14 DEF EnforceTotal, StoreTotal, Return
  <2>2. totalBytes' \in Nat
    BY <2>1, SizesType DEF TypeOK, Metas
  <2>3. HintCoversUntilRaced'
    <3> SUFFICES ASSUME ~raced', ~overtaken'
                 PROVE  totalBytes' + PendingBytes' >= Bytes(meta')
      BY DEF HintCoversUntilRaced, HintCovers
    <3>1. t \in Threads \ missed /\ ~overtaken
      BY <2>1
    <3>2. Bytes(meta) <= Bytes(scan[t])
      <4>1. Covers(scan[t], meta) /\ scan[t] \in Metas
        BY <3>1, <1>14 DEF EnforceTotal, ScanCovers, Sees, TypeOK, Metas
      <4> QED
        BY <4>1, <1>b, CoverBytes
    <3> QED
      BY <3>2, <2>1, <2>2, <1>c, <1>d
  <2> QED
    BY <2>2, <2>3 DEF HintInv
<1>15. ASSUME NEW t \in Threads, DbError(t) PROVE HintInv'
  <2>1. /\ UNCHANGED <<meta, totalBytes, raced, overtaken>>
        /\ step' = [step EXCEPT ![t] = "idle"] /\ task' = [task EXCEPT ![t] = NoTask]
    BY <1>15 DEF DbError, Return
  <2>2. ~Putting(t) /\ ~Putting(t)'
    BY <1>15, <2>1 DEF DbError, Putting, TypeOK
  <2> QED
    BY <2>1, <2>2, <1>a, NotPutting, HintKept
<1>16. CASE Restart
  BY <1>16 DEF Restart, HintInv, HintCoversUntilRaced, HintCovers
<1>17. CASE UNCHANGED vars
  <2>1. UNCHANGED <<meta, totalBytes, raced, overtaken, step, task>>
    BY <1>17 DEF vars
  <2>2. \A u \in Threads : Putting(u)' <=> Putting(u)
    BY <2>1 DEF Putting
  <2> QED
    BY <2>1, <2>2, <1>a, HintKept
<1> QED
  BY <1>1, <1>2, <1>3, <1>4, <1>5, <1>6, <1>7, <1>8, <1>9, <1>10, <1>11,
     <1>12, <1>13, <1>14, <1>15, <1>16, <1>17 DEF Next, Advance

\* The running total never falls short of the bytes stored, so that eviction is never
\* skipped over budget, until a total is stored by a thread that a put has passed, or a
\* read-modify-write is overtaken: whatever puts, scans, failures and restarts interleave.
THEOREM HintCorrect == Spec => []HintCoversUntilRaced
<1>1. Spec => []ScanCovers
  BY TypeCorrect, CoversInit, CoversStep, PTL DEF Spec
<1>2. Spec => []HintInv
  BY <1>1, TypeCorrect, HintInit, HintStep, PTL DEF Spec
<1>3. HintInv => HintCoversUntilRaced
  BY DEF HintInv
<1> QED
  BY <1>2, <1>3, PTL

-----------------------------------------------------------------------------
(* Eviction.                                                                *)

LEMMA OneBody ==
    ASSUME NEW e \in Metas, NEW k \in Keys, Present(e) = {k}
    PROVE  Bytes(e) = Size[e[k].of]
<1>1. DOMAIN Sizes(e) = {k} /\ Sizes(e)[k] = Size[e[k].of]
  BY DEF Sizes
<1>2. Blocks(Sizes(e)) = Block(k, Size[e[k].of])
  BY <1>1 DEF Blocks
<1>3. Size[e[k].of] \in Nat
  BY StoreAssumption DEF Present, Metas, Entry
<1> QED
  BY <1>2, <1>3, SizesType, TotalIs, BlockSize

\* A shortest prefix in last-access order holds the newest only if it is all there is,
\* and the newest alone is over the budget.
LEMMA NewestIsLast ==
    ASSUME NEW e \in Metas, NEW max \in Int, NEW k \in Keys, Newest(e, k),
           Size[e[k].of] <= max, NEW gone \in Victims(e, max)
    PROVE  k \notin gone
<1> SUFFICES ASSUME k \in gone PROVE FALSE
  OBVIOUS
<1>1. gone \subseteq Present(e) /\ k \in Present(e)
  BY DEF Victims, Newest, Present
<1>2. \A j \in Present(e) : e[j] \in Entry
  BY DEF Present, Metas
<1>3. \A j \in Present(e) : e[j].stored \in Nat /\ e[j].accessed \in Nat
  <2>1. Times \subseteq Nat /\ Times \cup {0} \subseteq Nat
    BY StoreAssumption
  <2>2. \A m \in Entry : m.stored \in Times /\ m.accessed \in Times \cup {0}
    BY DEF Entry
  <2> QED
    BY <1>2, <2>1, <2>2
<1>4. \A j \in Present(e) : LastAccess(e[j]) \in Nat
  BY <1>3 DEF LastAccess
<1>5. \A j \in Present(e) \ {k} : LastAccess(e[j]) < LastAccess(e[k])
  BY <1>1, <1>3 DEF LastAccess, Newest
<1>6. PICK g \in gone : /\ \A h \in gone : LastAccess(e[h]) <= LastAccess(e[g])
                        /\ Bytes(Without(e, gone \ {g})) > max
  BY DEF Victims
<1>7. g = k
  BY <1>1, <1>4, <1>5, <1>6
<1>8. Present(e) = gone
  <2>1. \A j \in Present(e) \ gone : LastAccess(e[k]) <= LastAccess(e[j])
    BY DEF Victims
  <2> QED
    BY <2>1, <1>1, <1>4, <1>5
<1> DEFINE d == Without(e, gone \ {k})
<1>9. d \in Metas /\ Present(d) = {k} /\ d[k] = e[k]
  BY <1>1, <1>8 DEF Metas, Without, Present
<1>10. Bytes(d) = Size[e[k].of]
  BY <1>9, OneBody
<1>11. Size[e[k].of] \in Nat
  BY <1>1, <1>2, StoreAssumption DEF Entry
<1> QED
  BY <1>6, <1>7, <1>10, <1>11

\* An entry just put, newer than every use of the others, survives any eviction whose
\* budget it fits.
THEOREM NewestCorrect == Spec => NewestSurvives
<1>1. ASSUME TypeOK, NEW t \in Threads, NEW k \in Keys, EnforceEvict(t),
             Newest(scan[t], k), scan[t][k] = meta[k], Size[meta[k].of] <= task[t].max
      PROVE  meta'[k] = meta[k] /\ body'[k] = body[k]
  <2>1. task[t].max \in Int
    BY <1>1, TaskKinds, StoreAssumption DEF TypeOK, EnforceEvict, At, EnforceTask
  <2>2. scan[t] \in Metas
    BY <1>1 DEF TypeOK, Metas
  <2>3. PICK gone \in Victims(scan[t], task[t].max) :
            meta' = Without(meta, gone) /\ body' = DeleteBodies(gone)
    BY <1>1 DEF EnforceEvict
  <2>4. k \notin gone
    BY <1>1, <2>1, <2>2, NewestIsLast
  <2> QED
    BY <2>3, <2>4 DEF Without, DeleteBodies
<1>2. TypeOK =>
        \A t \in Threads, k \in Keys :
          /\ EnforceEvict(t) /\ Newest(scan[t], k) /\ scan[t][k] = meta[k]
          /\ Size[meta[k].of] <= task[t].max
          => meta'[k] = meta[k] /\ body'[k] = body[k]
  BY <1>1
<1> QED
  BY <1>2, TypeCorrect, PTL DEF NewestSurvives

-----------------------------------------------------------------------------
(* What an operation that takes write_mu_ is overtaken by.                  *)

\* At most one thread at a time is between the read of a touch, a refresh or an
\* expire and its write.
OneRewriter ==
    \A t, u \in Threads : At(t, "read", Rewriting) /\ At(u, "read", Rewriting) => t = u

\* write_mu_ excludes the others of these operations, whatever fails or restarts: the
\* lock_guard gives it up on every way out, also when LevelDB throws.
THEOREM OneRewriterCorrect == Spec => []OneRewriter
<1>1. MutexInv => OneRewriter
  BY DEF MutexInv, OneRewriter
<1> QED BY <1>1, MutexCorrect, PTL

\* What overtakes a write-back is a put since its read, or the deletion of an entry.
OvertakesUnlocked ==
    [][~overtaken /\ overtaken' =>
          \E t \in Threads :
              /\ WriteBack(t)
              /\ t \in missed \/ \E k \in Present(scan[t]) : meta[k] = NoEntry]_vars

\* Operations that take write_mu_ never lose each other's updates: only put, clear and
\* enforce_max_size, which do not take it, overtake them, so that these are all that
\* can end the promise of PromiseCorrect.
THEOREM OvertakesUnlockedCorrect == Spec => OvertakesUnlocked
<1>1. TypeOK /\ ScanCurrent /\ [Next]_vars =>
          [~overtaken /\ overtaken' =>
              \E t \in Threads :
                  /\ WriteBack(t)
                  /\ t \in missed \/ \E k \in Present(scan[t]) : meta[k] = NoEntry]_vars
  <2> SUFFICES ASSUME TypeOK, ScanCurrent, Next, ~overtaken, overtaken'
               PROVE  \E t \in Threads :
                          /\ WriteBack(t)
                          /\ t \in missed \/ \E k \in Present(scan[t]) : meta[k] = NoEntry
    OBVIOUS
  <2>1. PICK t \in Threads : Advance(t)
    BY DEF Next, Begin, Restart
  <2>2. WriteBack(t)
    BY <2>1 DEF Advance, PutWrite, PutSeeded, PutAdd, LockAndRead, ClearScan, ClearWrite, ClearTotal,
                EnforceFastPath, EnforceSlowPath, EnforceScan, EnforceEvict, EnforceTotal, DbError
  <2>3. PICK k \in Present(scan[t]) : scan[t][k] # meta[k]
    BY <2>2 DEF WriteBack
  <2>4. t \notin missed => meta[k] = NoEntry
    BY <2>2, <2>3 DEF WriteBack, ScanCurrent
  <2> QED BY <2>2, <2>3, <2>4
<1> QED BY <1>1, TypeCorrect, ScanCorrect, PTL DEF Spec, OvertakesUnlocked

-----------------------------------------------------------------------------
(* The store as its callers are promised it.                                *)

\* A thread has an operation exactly while it is not idle.
Busy == \A t \in Threads : task[t] = NoTask <=> step[t] = "idle"

\* What a rewriting operation has read is of the keys it is called for, and is all
\* there is of them, unless a put has passed it.
Reads(t) ==
    At(t, "read", Rewriting) =>
        /\ Present(scan[t]) \subseteq Selected(task[t])
        /\ t \notin missed => \A k \in Selected(task[t]) : meta[k] # NoEntry => scan[t][k] # NoEntry
ScanFull == \A t \in Threads : Reads(t)

LEMMA JobIsTask == \A job \in Jobs : job \in Task /\ job # NoTask
BY JobsAssumption
   DEF Task, NoTask, PutTask, TouchTask, RefreshTask, ExpireTask, ClearTask, EnforceTask

\* A thread takes a step: where it goes, and what becomes of its operation.
Goes(t) ==
    /\ step[t] # "idle"
    /\ \/ step'[t] = "idle" /\ task' = [task EXCEPT ![t] = NoTask] /\ missed' = missed \ {t}
       \/ step'[t] # "idle" /\ task' = task

LEMMA AdvanceGoes ==
    ASSUME TypeOK, NEW t \in Threads, Advance(t)
    PROVE  /\ Goes(t)
           /\ \A u \in Threads \ {t} : step'[u] = step[u] /\ task'[u] = task[u] /\ scan'[u] = scan[u]
<1> USE DEF TypeOK, At, Goto, Goes
<1>1. CASE PutWrite(t) \/ PutSeeded(t) \/ PutAdd(t)
  BY <1>1 DEF PutWrite, PutSeeded, PutAdd, Return
<1>2. CASE LockAndRead(t) \/ WriteBack(t)
  BY <1>2 DEF LockAndRead, WriteBack, Return
<1>3. CASE ClearScan(t) \/ ClearWrite(t) \/ ClearTotal(t)
  BY <1>3 DEF ClearScan, ClearWrite, ClearTotal, Return
<1>4. CASE EnforceFastPath(t) \/ EnforceSlowPath(t) \/ EnforceScan(t)
  BY <1>4 DEF EnforceFastPath, EnforceSlowPath, EnforceScan, Return
<1>5. CASE EnforceEvict(t) \/ EnforceTotal(t) \/ DbError(t)
  BY <1>5 DEF EnforceEvict, EnforceTotal, DbError, Return
<1> QED BY <1>1, <1>2, <1>3, <1>4, <1>5 DEF Advance

LEMMA BusyInit == Init => Busy
BY DEF Init, Busy

LEMMA BusyStep == TypeOK /\ Busy /\ [Next]_vars => Busy'
<1> SUFFICES ASSUME TypeOK, Busy, [Next]_vars PROVE Busy'
  OBVIOUS
<1>1. ASSUME NEW t \in Threads, Begin(t) PROVE Busy'
  BY <1>1, JobIsTask DEF Begin, Goto, Busy, TypeOK
<1>2. ASSUME NEW t \in Threads, Advance(t) PROVE Busy'
  BY <1>2, AdvanceGoes DEF Goes, Busy, TypeOK
<1>3. Restart \/ UNCHANGED vars => Busy'
  BY DEF Restart, vars, Busy
<1> QED BY <1>1, <1>2, <1>3 DEF Next

LEMMA FullInit == Init => ScanFull
BY DEF Init, ScanFull, Reads, At

LEMMA FullStep == TypeOK /\ MutexInv /\ Busy /\ ScanFull /\ [Next]_vars => ScanFull'
<1> SUFFICES ASSUME TypeOK, MutexInv, Busy, ScanFull, [Next]_vars, NEW u \in Threads, At(u, "read", Rewriting)'
             PROVE  Reads(u)'
  BY DEF ScanFull, Reads, At
<1>1. ASSUME step'[u] = step[u], task'[u] = task[u], scan'[u] = scan[u], missed \subseteq missed',
             u \notin missed' => \A k \in Keys : meta'[k] # NoEntry => meta[k] # NoEntry
      PROVE  Reads(u)'
  <2>1. At(u, "read", Rewriting) /\ Reads(u)
    BY <1>1 DEF At, ScanFull
  <2>2. Selected(task[u]) \subseteq Keys
    BY <2>1, TaskKinds DEF At, TypeOK, Rewriting, Selected, TouchTask, RefreshTask, ExpireTask
  <2> QED BY <1>1, <2>1, <2>2 DEF Reads, Present
<1>2. ASSUME NEW t \in Threads, Advance(t), u = t PROVE Reads(u)'
  <2> USE DEF TypeOK, At, Goto
  <2>1. step'[t] = "read" /\ task'[t].op \in Rewriting
    BY <1>2
  <2>2. ~(PutWrite(t) \/ PutSeeded(t) \/ PutAdd(t) \/ WriteBack(t))
    BY <2>1 DEF PutWrite, PutSeeded, PutAdd, WriteBack, Return
  <2>3. ~(ClearScan(t) \/ ClearWrite(t) \/ ClearTotal(t))
    BY <2>1 DEF ClearScan, ClearWrite, ClearTotal, Return, Rewriting
  <2>4. ~(EnforceFastPath(t) \/ EnforceSlowPath(t) \/ EnforceScan(t))
    BY <2>1 DEF EnforceFastPath, EnforceSlowPath, EnforceScan, Return, Rewriting
  <2>5. ~(EnforceEvict(t) \/ EnforceTotal(t) \/ DbError(t))
    BY <2>1 DEF EnforceEvict, EnforceTotal, DbError, Return
  <2>6. LockAndRead(t)
    BY <1>2, <2>2, <2>3, <2>4, <2>5 DEF Advance
  <2>7. /\ task' = task /\ meta' = meta
        /\ scan' = [scan EXCEPT ![t] = [k \in Keys |-> IF k \in Selected(task[t]) THEN meta[k] ELSE NoEntry]]
    BY <2>1, <2>6 DEF LockAndRead, Return
  <2>8. scan'[t] = [k \in Keys |-> IF k \in Selected(task[t]) THEN meta[k] ELSE NoEntry]
    BY <2>7
  <2>9. Selected(task[t]) \subseteq Keys
    BY <2>6, TaskKinds DEF LockAndRead, Rewriting, Selected, TouchTask, RefreshTask, ExpireTask
  <2> QED BY <1>2, <2>7, <2>8, <2>9 DEF Reads, Present
<1>3. ASSUME NEW t \in Threads, Advance(t), u # t PROVE Reads(u)'
  <2>1. step'[u] = step[u] /\ task'[u] = task[u] /\ scan'[u] = scan[u]
    BY <1>3, AdvanceGoes
  <2>2. CASE PutWrite(t)
    <3>1. u \in missed'
      BY <2>1, <2>2 DEF PutWrite, Readers, At, Rewriting, TypeOK
    <3>2. missed \subseteq missed'
      BY <2>2 DEF PutWrite
    <3> QED BY <1>1, <2>1, <3>1, <3>2
  <2>3. ~WriteBack(t)
    BY <1>3, <2>1 DEF WriteBack, MutexInv, At, TypeOK
  <2>4. CASE ~PutWrite(t)
    <3>1. \A k \in Keys : meta'[k] # NoEntry => meta[k] # NoEntry
      BY <1>3, <2>3, <2>4 DEF Advance, PutSeeded, PutAdd, LockAndRead, ClearScan, ClearWrite, ClearTotal,
             EnforceFastPath, EnforceSlowPath, EnforceScan, EnforceEvict, EnforceTotal, DbError, Without
    <3>2. missed' \in {missed, missed \ {t}}
      BY <1>3, <2>3, <2>4 DEF Advance, PutSeeded, PutAdd, LockAndRead, ClearScan, ClearWrite, ClearTotal,
             EnforceFastPath, EnforceSlowPath, EnforceScan, EnforceEvict, EnforceTotal, DbError, Return
    <3>3. At(u, "read", Rewriting) /\ Reads(u)
      BY <2>1 DEF At, ScanFull
    <3>4. u \notin missed' => u \notin missed
      BY <1>3, <3>2
    <3>5. Selected(task[u]) \subseteq Keys
      BY <3>3, TaskKinds DEF At, TypeOK, Rewriting, Selected, TouchTask, RefreshTask, ExpireTask
    <3> QED BY <2>1, <3>1, <3>3, <3>4, <3>5 DEF Reads, Present
  <2> QED BY <2>2, <2>4
<1>4. ASSUME NEW t \in Threads, Begin(t) PROVE Reads(u)'
  <2>1. u # t
    BY <1>4 DEF Begin, At, Goto, TypeOK
  <2>2. step'[u] = step[u] /\ task'[u] = task[u] /\ UNCHANGED <<scan, missed, meta>>
    BY <1>4, <2>1 DEF Begin, Goto, TypeOK
  <2> QED BY <1>1, <2>2
<1>5. ~Restart
  BY DEF Restart, At
<1>6. CASE UNCHANGED vars
  BY <1>1, <1>6 DEF vars
<1> QED
  BY <1>2, <1>3, <1>4, <1>5, <1>6 DEF Next

\* While metadata and body match, what is held is told by the metadata alone.
Shown(m) == IF m = NoEntry THEN NoEntry ELSE [of |-> m.of, stale |-> m.stale]

LEMMA HeldIs ==
    ASSUME Pairing, ~overtaken, NEW k \in Keys PROVE Held(k) = Shown(meta[k])
BY DEF Pairing, PairedUntilOvertaken, Matches, Held, Shown

LEMMA HeldNext ==
    ASSUME Pairing', ~overtaken', NEW k \in Keys PROVE Held(k)' = Shown(meta'[k])
BY DEF Pairing, PairedUntilOvertaken, Matches, Held, Shown

LEMMA ShownType ==
    ASSUME NEW m \in Entry
    PROVE  Shown(m) = [of |-> m.of, stale |-> m.stale] /\ Shown(m) \in Promise!Copy
BY NoEntryAssumption DEF Shown, Entry, Promise!Copy

\* Who has acted, after a step of t.
LEMMA ActedThen ==
    ASSUME NEW t \in Threads, \A u \in Threads \ {t} : step'[u] = step[u] /\ task'[u] = task[u]
    PROVE  /\ Acted(t)' => {u \in Threads : Acted(u)}' = {u \in Threads : Acted(u)} \cup {t}
           /\ ~Acted(t)' => {u \in Threads : Acted(u)}' = {u \in Threads : Acted(u)} \ {t}
BY DEF Acted, At

LEMMA PromiseInit == Init => Promise!Init
<1> SUFFICES ASSUME Init PROVE Promise!Init
  OBVIOUS
<1>1. [k \in Keys |-> Held(k)] = [k \in Keys |-> NoEntry]
  BY DEF Init, Held, Matches, EmptyScan
<1>2. {t \in Threads : Acted(t)} = {}
  BY DEF Init, Acted, At
<1> QED
  BY <1>1, <1>2 DEF Init, Promise!Init

LEMMA OvertakenStays == TypeOK /\ [Next]_vars /\ overtaken => overtaken'
<1>1. ASSUME NEW t \in Threads, Advance(t) PROVE overtaken => overtaken'
  BY <1>1 DEF Advance, PutWrite, PutSeeded, PutAdd, LockAndRead, WriteBack, ClearScan, ClearWrite, ClearTotal,
              EnforceFastPath, EnforceSlowPath, EnforceScan, EnforceEvict, EnforceTotal, DbError
<1> QED BY <1>1 DEF Next, Begin, Restart, vars

PromiseInv == TypeOK /\ Pairing /\ Busy /\ ScanFull /\ ScanCovers

\* Each batch is the one step in which its call has its effect.
LEMMA PromiseStep == PromiseInv /\ PromiseInv' /\ [Next]_vars => [Promise!Next]_(Promise!vars)
<1> SUFFICES ASSUME PromiseInv, PromiseInv', [Next]_vars, ~overtaken'
             PROVE  Promise!Kept \/ UNCHANGED Promise!vars
  <2>1. overtaken' \/ ~overtaken'
    OBVIOUS
  <2>2. ~overtaken' /\ PromiseInv /\ PromiseInv' /\ [Next]_vars => overtaken' = overtaken
    BY OvertakenStays DEF PromiseInv, TypeOK
  <2> QED BY <2>1, <2>2 DEF Promise!Next, Promise!Break, PromiseInv, TypeOK
<1> DEFINE h == [k \in Keys |-> Held(k)]
           g == [k \in Keys |-> Held(k)']
           D == {t \in Threads : Acted(t)}
           Dn == {t \in Threads : Acted(t)'}
<1>0. /\ TypeOK /\ TypeOK' /\ Pairing /\ Pairing' /\ Busy /\ ScanFull /\ ScanCovers
      /\ ~overtaken /\ overtaken' = overtaken
  BY OvertakenStays DEF PromiseInv, TypeOK
<1>1. \A k \in Keys : h[k] = Shown(meta[k]) /\ g[k] = Shown(meta'[k])
  BY <1>0, HeldIs, HeldNext
<1>2. meta' = meta => g = h
  BY <1>1
<1>3. \A k \in Keys : meta[k] # NoEntry =>
        meta[k] \in Entry /\ h[k] \in Promise!Copy /\ h[k] = [of |-> meta[k].of, stale |-> meta[k].stale]
  BY <1>0, <1>1, ShownType DEF TypeOK
<1>4. \A k \in Keys : meta[k] = NoEntry => h[k] = NoEntry
  BY <1>1 DEF Shown
<1>5. ASSUME NEW t \in Threads, Advance(t)
      PROVE  /\ Acted(t)' => Dn = D \cup {t}
             /\ ~Acted(t)' => Dn = D \ {t}
  BY <1>0, <1>5, AdvanceGoes, ActedThen
<1>6. ASSUME NEW t \in Threads, Advance(t), step'[t] = "idle" PROVE Promise!Leaves(t) /\ task[t] # NoTask
  <2>1. task' = [task EXCEPT ![t] = NoTask] /\ missed' = missed \ {t} /\ task[t] # NoTask
    BY <1>0, <1>6, AdvanceGoes DEF Goes, Busy
  <2>2. ~Acted(t)'
    BY <1>6 DEF Acted, At
  <2>3. Dn = D \ {t}
    BY <1>5, <1>6, <2>2
  <2> QED BY <2>1, <2>3 DEF Promise!Leaves
<1>7. ASSUME NEW t \in Threads, Advance(t), step'[t] # "idle", Acted(t)', missed' = missed
      PROVE  Promise!Acts(t)
  <2>1. task' = task
    BY <1>0, <1>7, AdvanceGoes DEF Goes
  <2>2. Dn = D \cup {t}
    BY <1>5, <1>7
  <2> QED BY <1>7, <2>1, <2>2 DEF Promise!Acts
<1>8. ASSUME NEW t \in Threads, Advance(t), meta' = meta, step'[t] = "idle" PROVE Promise!Kept
  <2>1. Promise!Return(t)
    BY <1>2, <1>6, <1>8 DEF Promise!Return
  <2> QED BY <2>1 DEF Promise!Kept
<1>9. ASSUME NEW t \in Threads, Advance(t), meta' = meta, step'[t] # "idle", missed' = missed, Acted(t)' = Acted(t)
      PROVE  UNCHANGED Promise!vars
  <2>1. task' = task
    BY <1>0, <1>9, AdvanceGoes DEF Goes
  <2>2. Dn = D
    BY <1>5, <1>9
  <2> QED BY <1>0, <1>2, <1>9, <2>1, <2>2 DEF Promise!vars
<1>10. ASSUME NEW t \in Threads, NEW gone \in SUBSET Keys, meta' = Without(meta, gone)
       PROVE  g = Promise!Dropped(gone)
  <2>1. \A k \in Keys : meta'[k] = IF k \in gone THEN NoEntry ELSE meta[k]
    BY <1>10 DEF Without
  <2> QED BY <1>1, <2>1 DEF Shown, Promise!Dropped
<1>11. ASSUME NEW t \in Threads, Begin(t) PROVE Promise!Kept
  <2>1. PICK job \in Jobs : task' = [task EXCEPT ![t] = job]
    BY <1>11 DEF Begin
  <2>2. step[t] = "idle" /\ step' = [step EXCEPT ![t] = "begun"] /\ UNCHANGED <<meta, missed>>
    BY <1>11 DEF Begin, Goto
  <2>3. task[t] = NoTask
    BY <1>0, <2>2 DEF Busy
  <2>4. Dn = D
    <3>1. ~Acted(t) /\ ~Acted(t)'
      BY <1>0, <2>2 DEF Acted, At, TypeOK
    <3>2. \A u \in Threads \ {t} : step'[u] = step[u] /\ task'[u] = task[u]
      BY <1>0, <2>1, <2>2 DEF TypeOK
    <3> QED BY <3>1, <3>2, ActedThen
  <2>5. Promise!Begin(t)
    BY <1>2, <2>1, <2>2, <2>3, <2>4 DEF Promise!Begin
  <2> QED BY <2>5 DEF Promise!Kept
<1>12. ASSUME NEW t \in Threads, PutWrite(t) PROVE Promise!Kept
  <2> DEFINE k == task[t].key
             c == [of |-> task[t].content, stale |-> task[t].stale]
  <2>1. /\ task[t].op = "put" /\ step[t] = "begun" /\ step' = [step EXCEPT ![t] = "wrote"] /\ task' = task
        /\ meta' = [meta EXCEPT ![k] = NewEntry(task[t])] /\ missed' = missed \cup Readers
    BY <1>12 DEF PutWrite, At, Goto
  <2>2. task[t] \in PutTask /\ k \in Keys /\ NewEntry(task[t]) \in Entry
    BY <1>0, <2>1, TaskKinds, NewEntryType DEF TypeOK, PutTask
  <2>3. Shown(NewEntry(task[t])) = c
    <3>1. NewEntry(task[t]).of = task[t].content /\ NewEntry(task[t]).stale = task[t].stale
      BY DEF NewEntry
    <3> QED BY <2>2, <3>1, ShownType
  <2>4. \A j \in Keys : meta'[j] = IF j = k THEN NewEntry(task[t]) ELSE meta[j]
    BY <1>0, <2>1, <2>2 DEF TypeOK
  <2>5. g = [h EXCEPT ![k] = c]
    <3> HIDE DEF k, c
    <3>1. \A j \in Keys : g[j] = IF j = k THEN c ELSE h[j]
      BY <1>1, <2>3, <2>4
    <3> QED BY <2>2, <3>1
  <2>6. Dn = D \cup {t}
    <3>1. Acted(t)'
      BY <1>0, <2>1 DEF Acted, TypeOK
    <3> QED BY <1>5, <1>12, <3>1 DEF Advance
  <2>7. Readers \in SUBSET {u \in Threads : task[u] # NoTask}
    BY <1>0 DEF Readers, Busy
  <2>8. Promise!Calling(t, "put")
    BY <2>1 DEF Promise!Calling, NoTask, Acted, At
  <2>9. Promise!Put(t)
    BY <2>1, <2>5, <2>6, <2>7, <2>8 DEF Promise!Put
  <2> QED BY <2>9 DEF Promise!Kept
<1>13. ASSUME NEW t \in Threads, WriteBack(t) PROVE Promise!Kept
  <2> DEFINE j == task[t]
             K == Present(scan[t])
  <2>1. /\ At(t, "read", Rewriting) /\ step'[t] = "idle" /\ ~Acted(t) /\ Advance(t)
    BY <1>0, <1>13 DEF WriteBack, Return, Goto, At, Acted, TypeOK, Rewriting, Advance
  <2>2. /\ K \subseteq Keys /\ K \subseteq Selected(j) /\ j.op \in Rewriting
        /\ t \notin missed => \A k \in Selected(j) : meta[k] # NoEntry => k \in K
    <3>1. Reads(t) /\ Selected(j) \subseteq Keys
      BY <1>0, <2>1, TaskKinds
         DEF ScanFull, At, TypeOK, Rewriting, Selected, TouchTask, RefreshTask, ExpireTask
    <3> QED BY <2>1, <3>1 DEF Reads, Present, At
  <2>3. \A k \in K : scan[t][k] = meta[k] /\ meta[k] # NoEntry
    BY <1>0, <1>13 DEF WriteBack, Present
  <2>4. \A k \in Keys : meta'[k] = IF k \in K THEN Rewrite(j, meta[k]) ELSE meta[k]
    BY <1>13, <2>3 DEF WriteBack, Present
  <2>5. Promise!Leaves(t) /\ Promise!Calling(t, j.op)
    <3>1. Promise!Leaves(t) /\ task[t] # NoTask
      BY <1>6, <2>1
    <3> QED BY <2>1, <3>1 DEF Promise!Calling
  <2> HIDE DEF K
  <2>6. \A k \in K : /\ meta[k] \in Entry /\ h[k] \in Promise!Copy
                     /\ h[k].of = meta[k].of /\ h[k] = [of |-> meta[k].of, stale |-> meta[k].stale]
    BY <1>3, <2>2, <2>3
  <2>7. \A k \in K : meta'[k] \in Entry /\ meta'[k] = Rewrite(j, meta[k])
    <3>1. j \in TouchTask \cup RefreshTask \cup ExpireTask
      BY <1>0, <2>2, TaskKinds DEF TypeOK, Rewriting
    <3> HIDE DEF j
    <3> QED BY <2>2, <2>4, <2>6, <3>1, RewriteKeepsBody
  <2>8. \A k \in K : g[k] = [of |-> meta'[k].of, stale |-> meta'[k].stale]
    <3>1. \A k \in K : g[k] = Shown(meta'[k])
      BY <1>1, <2>2
    <3> HIDE DEF g
    <3> QED BY <2>7, <3>1, ShownType
  <2>9. \A k \in Keys : k \notin K => g[k] = h[k]
    BY <1>1, <2>4
  <2>10. CASE j.op = "touch"
    <3>1. ASSUME NEW k \in K PROVE g[k] = h[k]
      <4>1. meta'[k] = [meta[k] EXCEPT !.accessed = j.now] /\ meta[k] \in Entry
        BY <2>6, <2>7, <2>10 DEF Rewrite
      <4> HIDE DEF j
      <4>2. meta'[k].of = meta[k].of /\ meta'[k].stale = meta[k].stale
        BY <4>1 DEF Entry
      <4> HIDE DEF g, h
      <4> QED BY <2>6, <2>8, <4>2
    <3>2. g = h
      BY <2>9, <3>1
    <3>3. Promise!Return(t)
      BY <2>5, <3>2 DEF Promise!Return, Promise!Calling
    <3> QED BY <3>3 DEF Promise!Kept
  <2>11. CASE j.op = "refresh"
    <3>1. ASSUME NEW k \in K PROVE g[k] = [of |-> h[k].of, stale |-> j.stale]
      <4>1. meta'[k] = [meta[k] EXCEPT !.stored = j.now, !.stale = j.stale] /\ meta[k] \in Entry
        <5>1. Rewrite(j, meta[k]) = [meta[k] EXCEPT !.stored = j.now, !.stale = j.stale]
          <6> HIDE DEF j
          <6> QED BY <2>11 DEF Rewrite
        <5> HIDE DEF j
        <5> QED BY <2>6, <2>7, <5>1
      <4> HIDE DEF j
      <4>2. meta'[k].of = meta[k].of /\ meta'[k].stale = j.stale
        BY <4>1 DEF Entry
      <4> HIDE DEF g, h
      <4> QED BY <2>6, <2>8, <4>2
    <3>2. K \subseteq {j.key} /\ j.key \in Keys
      BY <1>0, <2>2, <2>11, TaskKinds DEF Selected, TypeOK, RefreshTask
    <3>3. CASE K = {}
      <4>1. g = h
        BY <2>9, <3>3
      <4>2. Promise!Return(t)
        BY <2>5, <4>1 DEF Promise!Return, Promise!Calling
      <4> QED BY <4>2 DEF Promise!Kept
    <3>4. CASE K # {}
      <4> DEFINE k == j.key
                 c == [of |-> h[k].of, stale |-> j.stale]
      <4>1. K = {k} /\ k \in Keys
        BY <3>2, <3>4
      <4>2. h[k] \in Promise!Copy /\ g[k] = c /\ \A i \in Keys : i # k => g[i] = h[i]
        BY <2>6, <2>9, <3>1, <4>1
      <4> HIDE DEF c, k
      <4>3. g = [h EXCEPT ![k] = c]
        BY <4>1, <4>2
      <4> USE DEF c, k
      <4>4. Promise!Refresh(t)
        BY <2>5, <2>11, <4>2, <4>3 DEF Promise!Refresh
      <4> QED BY <2>5, <4>4 DEF Promise!Kept
    <3> QED BY <3>3, <3>4
  <2>12. CASE j.op = "expire"
    <3>1. ASSUME NEW k \in K PROVE g[k] = [of |-> h[k].of, stale |-> TRUE]
      <4>1. meta'[k] = [meta[k] EXCEPT !.stale = TRUE] /\ meta[k] \in Entry
        BY <2>6, <2>7, <2>12 DEF Rewrite
      <4> HIDE DEF j
      <4>2. meta'[k].of = meta[k].of /\ meta'[k].stale = TRUE
        BY <4>1 DEF Entry
      <4> HIDE DEF g, h
      <4> QED BY <2>6, <2>8, <4>2
    <3>2. Selected(j) = j.match /\ j.match \subseteq Keys /\ K \in SUBSET j.match
      <4>1. Selected(j) = j.match
        BY <2>12 DEF Selected
      <4>2. j \in ExpireTask
        BY <1>0, <2>12, TaskKinds DEF TypeOK
      <4> QED BY <2>2, <4>1, <4>2 DEF ExpireTask
    <3>3. t \notin missed => \A k \in j.match \ K : h[k] = NoEntry
      BY <1>4, <2>2, <3>2
    <3>4. g = [k \in Keys |-> IF k \in K THEN [of |-> h[k].of, stale |-> TRUE] ELSE h[k]]
      BY <2>9, <3>1
    <3>5. Promise!Expire(t)
      BY <2>5, <2>6, <2>12, <3>2, <3>3, <3>4 DEF Promise!Expire
    <3> QED BY <2>5, <3>5 DEF Promise!Kept
  <2> QED BY <2>2, <2>10, <2>11, <2>12 DEF Rewriting
<1>14. ASSUME NEW t \in Threads, ClearWrite(t) PROVE Promise!Kept
  <2> DEFINE gone == Present(scan[t])
  <2>1. /\ At(t, "read", {"clear"}) /\ step'[t] = "wrote" /\ Acted(t)' /\ ~Acted(t) /\ missed' = missed
        /\ meta' = Without(meta, gone) /\ Advance(t)
    BY <1>0, <1>14 DEF ClearWrite, Goto, At, Acted, TypeOK, Advance
  <2>2. gone \in SUBSET Keys /\ (t \notin missed => \A k \in Keys \ gone : h[k] = NoEntry)
    BY <1>0, <1>4, <2>1 DEF ScanCovers, Sees, At, Covers, Present
  <2> HIDE DEF gone
  <2>3. Promise!Acts(t) /\ g = Promise!Dropped(gone)
    BY <1>7, <1>10, <2>1, <2>2
  <2>4. Promise!Calling(t, "clear")
    BY <2>1 DEF Promise!Calling, At, NoTask
  <2>5. Promise!Clear(t)
    BY <2>2, <2>3, <2>4 DEF Promise!Clear
  <2> QED BY <2>3, <2>5 DEF Promise!Kept
<1>15. ASSUME NEW t \in Threads, EnforceEvict(t) PROVE Promise!Kept
  <2>1. /\ At(t, "read", {"enforce"}) /\ step'[t] = "wrote" /\ Acted(t)' /\ ~Acted(t) /\ missed' = missed
        /\ Advance(t)
    BY <1>0, <1>15 DEF EnforceEvict, Goto, At, Acted, TypeOK, Advance
  <2>2. PICK gone \in SUBSET Keys : meta' = Without(meta, gone)
    BY <1>15 DEF EnforceEvict, Victims, Present
  <2>3. Promise!Acts(t) /\ g = Promise!Dropped(gone)
    BY <1>7, <1>10, <2>1, <2>2
  <2>4. Promise!Calling(t, "enforce")
    BY <2>1 DEF Promise!Calling, At, NoTask
  <2>5. Promise!Enforce(t)
    BY <2>3, <2>4 DEF Promise!Enforce
  <2> QED BY <2>3, <2>5 DEF Promise!Kept
<1>16. ASSUME NEW t \in Threads, EnforceScan(t) PROVE Promise!Kept \/ UNCHANGED Promise!vars
  <2>1. /\ At(t, "count", {"enforce"}) /\ ~Acted(t) /\ missed' = missed /\ meta' = meta /\ task' = task
        /\ step'[t] \in {"wrote", "read"} /\ Advance(t)
    BY <1>0, <1>16 DEF EnforceScan, Goto, At, Acted, TypeOK, Advance
  <2>2. CASE step'[t] = "wrote"
    <3>1. Acted(t)'
      BY <2>2 DEF Acted
    <3>2. Promise!Acts(t)
      BY <1>7, <2>1, <2>2, <3>1
    <3>3. meta' = Without(meta, {})
      BY <1>0, <2>1 DEF Without, TypeOK
    <3>4. g = Promise!Dropped({})
      BY <1>10, <3>3
    <3>5. Promise!Calling(t, "enforce")
      BY <2>1 DEF Promise!Calling, At, NoTask
    <3>6. Promise!Enforce(t)
      BY <3>4, <3>5 DEF Promise!Enforce
    <3> QED BY <3>2, <3>6 DEF Promise!Kept
  <2>3. CASE step'[t] = "read"
    <3>1. ~Acted(t)'
      BY <2>3 DEF Acted, At
    <3>2. Acted(t)' = Acted(t)
      BY <2>1, <3>1 DEF Acted, At
    <3> QED BY <1>9, <2>1, <2>3, <3>2
  <2> QED BY <2>1, <2>2, <2>3
<1>17. ASSUME NEW t \in Threads, PutSeeded(t) PROVE Promise!Kept \/ UNCHANGED Promise!vars
  <2>1. /\ At(t, "wrote", {"put"}) /\ meta' = meta /\ Advance(t)
    BY <1>17 DEF PutSeeded, Advance
  <2>2. CASE Seeded
    <3>1. step'[t] = "count" /\ task' = task /\ missed' = missed
      BY <1>0, <1>17, <2>2 DEF PutSeeded, Goto, TypeOK
    <3>2. Acted(t) /\ Acted(t)'
      BY <2>1, <3>1 DEF Acted, At
    <3> QED BY <1>9, <2>1, <3>1, <3>2
  <2>3. CASE ~Seeded
    <3>1. step'[t] = "idle"
      BY <1>0, <1>17, <2>3 DEF PutSeeded, Return, Goto, TypeOK
    <3> QED BY <1>8, <2>1, <3>1
  <2> QED BY <2>2, <2>3
<1>18. ASSUME NEW t \in Threads, LockAndRead(t) PROVE Promise!Kept \/ UNCHANGED Promise!vars
  <2>1. /\ At(t, "begun", Rewriting) /\ meta' = meta /\ Advance(t)
    BY <1>18 DEF LockAndRead, Advance
  <2>2. CASE step'[t] = "idle"
    BY <1>8, <2>1, <2>2
  <2>3. CASE step'[t] # "idle"
    <3>1. step'[t] = "read" /\ missed' = missed
      BY <1>0, <1>18, <2>3 DEF LockAndRead, Return, Goto, TypeOK
    <3>2. ~Acted(t) /\ ~Acted(t)'
      BY <2>1, <3>1 DEF Acted, At
    <3>3. Acted(t)' = Acted(t)
      BY <3>2 DEF Acted, At
    <3> QED BY <1>9, <2>1, <2>3, <3>1, <3>3
  <2> QED BY <2>2, <2>3
<1>19. ASSUME NEW t \in Threads, ClearScan(t) \/ EnforceSlowPath(t) PROVE UNCHANGED Promise!vars
  <2>1. /\ step[t] = "begun" /\ step'[t] \in {"read", "count"} /\ meta' = meta /\ missed' = missed
        /\ task' = task /\ task[t].op # "put" /\ Advance(t)
    BY <1>0, <1>19 DEF ClearScan, EnforceSlowPath, At, Goto, TypeOK, Advance
  <2>2. Acted(t)' = Acted(t)
    BY <2>1 DEF Acted, At
  <2> QED BY <1>9, <2>1, <2>2
<1>20. ASSUME NEW t \in Threads, PutAdd(t) \/ ClearTotal(t) \/ EnforceTotal(t) \/ EnforceFastPath(t) \/ DbError(t)
       PROVE  Promise!Kept
  <2>1. meta' = meta /\ step'[t] = "idle" /\ Advance(t)
    BY <1>0, <1>20 DEF PutAdd, ClearTotal, EnforceTotal, EnforceFastPath, DbError, Return, Goto, TypeOK, Advance
  <2> QED BY <1>8, <2>1
<1>21. ASSUME Restart PROVE Promise!Kept
  <2>1. meta' = meta /\ task' = [t \in Threads |-> NoTask] /\ missed' = {}
    BY <1>21 DEF Restart
  <2>2. Dn = {}
    BY <1>21 DEF Restart, Acted, At
  <2>3. Promise!Crash
    BY <1>2, <2>1, <2>2 DEF Promise!Crash
  <2> QED BY <2>3 DEF Promise!Kept
<1>22. ASSUME UNCHANGED vars PROVE UNCHANGED Promise!vars
  <2>1. meta' = meta /\ task' = task /\ step' = step /\ missed' = missed
    BY <1>22 DEF vars
  <2>2. Dn = D
    BY <2>1 DEF Acted, At
  <2> QED BY <1>0, <1>2, <2>1, <2>2 DEF Promise!vars
<1> QED
  <2>1. ASSUME NEW t \in Threads, Advance(t) PROVE Promise!Kept \/ UNCHANGED Promise!vars
    BY <1>12, <1>13, <1>14, <1>15, <1>16, <1>17, <1>18, <1>19, <1>20, <2>1 DEF Advance
  <2> QED BY <1>11, <1>21, <1>22, <2>1 DEF Next

\* LevelDbStore keeps what cache::Backend promises until an operation that does not
\* take write_mu_ overtakes one that does: what it holds are whole copies, put,
\* clear, expire, update_metadata and enforce_max_size each change them in their
\* one batch or not at all, and clear and expire leave out nothing but what was
\* put meanwhile, whatever the operations, the failures and the restarts.
THEOREM PromiseCorrect == Spec => KeepsPromise
<1>1. Spec => []PromiseInv
  <2>1. Init => PromiseInv /\ MutexInv
    BY TypeInit, PairingInit, MutexInit, BusyInit, FullInit, CoversInit DEF PromiseInv
  <2>2. PromiseInv /\ MutexInv /\ [Next]_vars => (PromiseInv /\ MutexInv)'
    BY TypeStep, PairingStep, MutexStep, BusyStep, FullStep, CoversStep DEF PromiseInv
  <2> QED BY <2>1, <2>2, PTL DEF Spec
<1>2. Init => Promise!Init
  BY PromiseInit
<1>3. PromiseInv /\ PromiseInv' /\ [Next]_vars => [Promise!Next]_(Promise!vars)
  BY PromiseStep
<1> QED BY <1>1, <1>2, <1>3, PTL DEF Spec, KeepsPromise, Promise!Spec

=============================================================================
