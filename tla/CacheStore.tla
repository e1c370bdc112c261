----------------------------- MODULE CacheStore -----------------------------
(***************************************************************************)
(* The LevelDB-backed response store, src/src/cache/leveldb_store.cpp.     *)
(*                                                                         *)
(* A key holds a body (LevelDB key "b/<key>") and its metadata ("m/<key>").*)
(* put, update_metadata/touch, expire, clear and enforce_max_size run on   *)
(* the threads of the blocking pool.  LevelDB makes each Get, each batch   *)
(* Write and the snapshot an iterator reads atomic; everything between two *)
(* such accesses interleaves.  Only the read-modify-write operations take  *)
(* write_mu_: put, clear and enforce_max_size do not.                      *)
(*                                                                         *)
(* An operation runs through the values of step: "begun" (called), "read"  *)
(* (its Get or iteration is done), "wrote" (its Write is done, or none is  *)
(* needed), "count" (the put that will add to total_bytes_, the            *)
(* enforcement that will scan), and back to "idle".                        *)
(***************************************************************************)
EXTENDS Integers, FiniteSets

CONSTANTS Keys,       \* cache keys
          Contents,   \* response bodies
          Size,       \* Size[c]: the bytes of body c
          Times,      \* the clock readings operations are called with
          Limits,     \* the budgets enforce_max_size is called with
          Jobs,       \* the operations, with their arguments, that are called
          Threads,    \* threads of the blocking pool
          HintBound,  \* bound: no put starts above this total_bytes_
          NoEntry, NoBody, NoThread

ASSUME StoreAssumption ==
    /\ IsFiniteSet(Keys) /\ IsFiniteSet(Threads)
    /\ Size \in [Contents -> Nat]
    /\ Times \subseteq Nat \ {0}
    /\ Limits \subseteq Int
    /\ NoBody \notin Contents
    /\ NoThread \notin Threads

\* What the properties tell apart of Metadata: the body whose sha256, size and
\* validators it records, its two clocks (0: never accessed), its expiry.
Entry == [of: Contents, stored: Times, accessed: Times \cup {0}, stale: BOOLEAN]

ASSUME NoEntryAssumption == NoEntry \notin Entry

PutTask == [op: {"put"}, key: Keys, content: Contents, now: Times, stale: BOOLEAN]
TouchTask == [op: {"touch"}, key: Keys, now: Times]
RefreshTask == [op: {"refresh"}, key: Keys, now: Times, stale: BOOLEAN]
ExpireTask == [op: {"expire"}, match: SUBSET Keys]
ClearTask == [op: {"clear"}]
EnforceTask == [op: {"enforce"}, max: Limits]
Task == PutTask \cup TouchTask \cup RefreshTask
            \cup ExpireTask \cup ClearTask \cup EnforceTask
NoTask == [op |-> "none"]

ASSUME JobsAssumption == Jobs \subseteq Task

\* The operations that hold write_mu_ from their read to their write.
Rewriting == {"touch", "refresh", "expire"}

VARIABLES
    meta,        \* "m/": [Keys -> Entry or NoEntry]
    body,        \* "b/": [Keys -> Contents or NoBody]
    writeMu,     \* owner of write_mu_, or NoThread
    totalBytes,  \* total_bytes_, -1 until seeded
    step, task,  \* per thread: progress and the operation it runs
    scan,        \* per thread: the metadata its operation has read
    scanBody,    \* per thread: the "b/" keys clear has seen
    overtaken,   \* history: some read-modify-write wrote over a newer entry
    missed,      \* history: threads a put has passed since what they read
    raced        \* history: total_bytes_ was stored by such a thread

vars == <<meta, body, writeMu, totalBytes, step, task, scan, scanBody,
          overtaken, missed, raced>>
data == <<meta, body>>
flags == <<overtaken, raced>>

Present(e) == {k \in Keys : e[k] # NoEntry}
\* The sum of the sizes: how many bytes there are, counted one by one.
Total(size) == Cardinality(UNION {{x} \X (1 .. size[x]) : x \in DOMAIN size})
Bytes(e) == Total([k \in Present(e) |-> Size[e[k].of]])
EmptyScan == [k \in Keys |-> NoEntry]

Init ==
    /\ meta = EmptyScan
    /\ body = [k \in Keys |-> NoBody]
    /\ writeMu = NoThread
    /\ totalBytes = -1
    /\ step = [t \in Threads |-> "idle"]
    /\ task = [t \in Threads |-> NoTask]
    /\ scan = [t \in Threads |-> EmptyScan]
    /\ scanBody = [t \in Threads |-> {}]
    /\ overtaken = FALSE
    /\ missed = {}
    /\ raced = FALSE

At(t, s, ops) == step[t] = s /\ task[t].op \in ops
Goto(t, s) == step' = [step EXCEPT ![t] = s]
\* The operation returns: its locals are gone.
Return(t) ==
    /\ Goto(t, "idle")
    /\ task' = [task EXCEPT ![t] = NoTask]
    /\ scan' = [scan EXCEPT ![t] = EmptyScan]
    /\ scanBody' = [scanBody EXCEPT ![t] = {}]
    /\ missed' = missed \ {t}

\* lock_guard: write_mu_ is free to take; leaving its scope gives it up.
FreeForAll == TRUE
MutexFree == writeMu = NoThread
Unlocked(t) == IF writeMu = t THEN NoThread ELSE writeMu

Begin(t) ==
    /\ step[t] = "idle"
    /\ \E job \in Jobs :
          /\ job.op = "put" => totalBytes <= HintBound
          /\ task' = [task EXCEPT ![t] = job]
    /\ Goto(t, "begun")
    /\ UNCHANGED <<data, writeMu, totalBytes, scan, scanBody, missed, flags>>

-----------------------------------------------------------------------------
(* put / commit_temp: one batch, then the running total.                    *)

\* Threads that will write back, or store a total from, what they have read.
Readers == {t \in Threads : step[t] \in {"read", "wrote"} /\ task[t].op # "put"}

NewEntry(job) ==
    [of |-> job.content, stored |-> job.now, accessed |-> 0, stale |-> job.stale]

PutWrite(t) ==
    /\ At(t, "begun", {"put"})
    /\ meta' = [meta EXCEPT ![task[t].key] = NewEntry(task[t])]
    /\ body' = [body EXCEPT ![task[t].key] = task[t].content]
    /\ missed' = missed \cup Readers
    /\ Goto(t, "wrote")
    /\ UNCHANGED <<writeMu, totalBytes, task, scan, scanBody, overtaken, raced>>

SeededAboveZero == totalBytes > 0
Seeded == totalBytes >= 0

PutSeeded(t) ==
    /\ At(t, "wrote", {"put"})
    /\ IF Seeded
       THEN Goto(t, "count") /\ UNCHANGED <<task, scan, scanBody, missed>>
       ELSE Return(t)
    /\ UNCHANGED <<data, writeMu, totalBytes, flags>>

PutAdd(t) ==
    /\ At(t, "count", {"put"})
    /\ totalBytes' = totalBytes + Size[task[t].content]
    /\ Return(t)
    /\ UNCHANGED <<data, writeMu, flags>>

-----------------------------------------------------------------------------
(* update_metadata (touch, and the provider's refresh after a 304) and      *)
(* expire: read, compute and write back under write_mu_.                    *)

Selected(job) == IF job.op = "expire" THEN job.match ELSE {job.key}

Rewrite(job, m) ==
    IF job.op = "touch" THEN [m EXCEPT !.accessed = job.now]
    ELSE IF job.op = "refresh" THEN [m EXCEPT !.stored = job.now, !.stale = job.stale]
    ELSE [m EXCEPT !.stale = TRUE]

LockAndRead(t) ==
    LET found == [k \in Keys |-> IF k \in Selected(task[t]) THEN meta[k] ELSE NoEntry]
    IN /\ At(t, "begun", Rewriting)
       /\ MutexFree
       /\ IF Present(found) = {}
          THEN Return(t) /\ UNCHANGED writeMu
          ELSE /\ writeMu' = t
               /\ scan' = [scan EXCEPT ![t] = found]
               /\ Goto(t, "read")
               /\ UNCHANGED <<task, scanBody, missed>>
       /\ UNCHANGED <<data, totalBytes, flags>>

WriteBack(t) ==
    /\ At(t, "read", Rewriting)
    /\ meta' = [k \in Keys |-> IF scan[t][k] # NoEntry
                               THEN Rewrite(task[t], scan[t][k])
                               ELSE meta[k]]
    /\ overtaken' = (overtaken \/ \E k \in Present(scan[t]) : scan[t][k] # meta[k])
    /\ writeMu' = Unlocked(t)
    /\ Return(t)
    /\ UNCHANGED <<body, totalBytes, raced>>

-----------------------------------------------------------------------------
(* clear: iterate over both prefixes, delete what was seen, reset the total.*)

ClearScan(t) ==
    /\ At(t, "begun", {"clear"})
    /\ scan' = [scan EXCEPT ![t] = meta]
    /\ scanBody' = [scanBody EXCEPT ![t] = {k \in Keys : body[k] # NoBody}]
    /\ Goto(t, "read")
    /\ UNCHANGED <<data, writeMu, totalBytes, task, missed, flags>>

Without(e, gone) == [k \in Keys |-> IF k \in gone THEN NoEntry ELSE e[k]]
KeepBodies(gone) == body
DeleteBodies(gone) == [k \in Keys |-> IF k \in gone THEN NoBody ELSE body[k]]

ClearWrite(t) ==
    /\ At(t, "read", {"clear"})
    /\ meta' = Without(meta, Present(scan[t]))
    /\ body' = DeleteBodies(scanBody[t])
    /\ Goto(t, "wrote")
    /\ UNCHANGED <<writeMu, totalBytes, task, scan, scanBody, missed, flags>>

\* The store of a total that a put may have passed meanwhile.
StoreTotal(t, total) ==
    /\ totalBytes' = total
    /\ raced' = (raced \/ t \in missed)

ClearTotal(t) ==
    /\ At(t, "wrote", {"clear"})
    /\ StoreTotal(t, 0)
    /\ Return(t)
    /\ UNCHANGED <<data, writeMu, overtaken>>

-----------------------------------------------------------------------------
(* enforce_max_size: skip under budget, else scan, evict the least recently *)
(* used entries of the scan, and store the total computed from the scan.    *)

EnforceFastPath(t) ==
    /\ At(t, "begun", {"enforce"})
    /\ task[t].max <= 0 \/ (Seeded /\ totalBytes <= task[t].max)
    /\ Return(t)
    /\ UNCHANGED <<data, writeMu, totalBytes, flags>>

EnforceSlowPath(t) ==
    /\ At(t, "begun", {"enforce"})
    /\ task[t].max > 0 /\ (Seeded => totalBytes > task[t].max)
    /\ Goto(t, "count")
    /\ UNCHANGED <<data, writeMu, totalBytes, task, scan, scanBody, missed, flags>>

EnforceScan(t) ==
    /\ At(t, "count", {"enforce"})
    /\ scan' = [scan EXCEPT ![t] = meta]
    /\ Goto(t, IF Bytes(meta) <= task[t].max THEN "wrote" ELSE "read")
    /\ UNCHANGED <<data, writeMu, totalBytes, task, scanBody, missed, flags>>

LastAccessOnly(m) == m.accessed
LastAccess(m) == IF m.accessed = 0 THEN m.stored ELSE m.accessed

\* The sets the eviction loop may delete from scan e: a shortest prefix, in
\* last-access order (ties in any order), that brings the rest within max.
Victims(e, max) ==
    {gone \in SUBSET Present(e) :
        /\ Bytes(Without(e, gone)) <= max
        /\ \A g \in gone, k \in Present(e) \ gone : LastAccess(e[g]) <= LastAccess(e[k])
        /\ \E g \in gone :
              /\ \A h \in gone : LastAccess(e[h]) <= LastAccess(e[g])
              /\ Bytes(Without(e, gone \ {g})) > max}

EnforceEvict(t) ==
    /\ At(t, "read", {"enforce"})
    /\ \E gone \in Victims(scan[t], task[t].max) :
          /\ meta' = Without(meta, gone)
          /\ body' = DeleteBodies(gone)
          /\ scan' = [scan EXCEPT ![t] = Without(scan[t], gone)]
    /\ Goto(t, "wrote")
    /\ UNCHANGED <<writeMu, totalBytes, task, scanBody, missed, flags>>

EnforceTotal(t) ==
    /\ At(t, "wrote", {"enforce"})
    /\ StoreTotal(t, Bytes(scan[t]))
    /\ Return(t)
    /\ UNCHANGED <<data, writeMu, overtaken>>

-----------------------------------------------------------------------------
(* Failures.                                                                *)

\* A LevelDB Get or Write returns an error: the operation throws before any
\* effect, and the lock_guard releases write_mu_.  (Iterators do not throw.)
DbError(t) ==
    /\ \/ At(t, "begun", {"put"})
       \/ At(t, "begun", {"touch", "refresh"}) /\ MutexFree
       \/ step[t] = "read"
    /\ writeMu' = Unlocked(t)
    /\ Return(t)
    /\ UNCHANGED <<data, totalBytes, overtaken, raced>>

\* The process stops anywhere and the store is opened again: LevelDB keeps
\* whole batches, the threads, the mutex and the running total start afresh.
Restart ==
    /\ writeMu' = NoThread
    /\ totalBytes' = -1
    /\ step' = [t \in Threads |-> "idle"]
    /\ task' = [t \in Threads |-> NoTask]
    /\ scan' = [t \in Threads |-> EmptyScan]
    /\ scanBody' = [t \in Threads |-> {}]
    /\ missed' = {}
    /\ raced' = FALSE
    /\ UNCHANGED <<data, overtaken>>

Advance(t) ==
    \/ PutWrite(t) \/ PutSeeded(t) \/ PutAdd(t)
    \/ LockAndRead(t) \/ WriteBack(t)
    \/ ClearScan(t) \/ ClearWrite(t) \/ ClearTotal(t)
    \/ EnforceFastPath(t) \/ EnforceSlowPath(t) \/ EnforceScan(t)
    \/ EnforceEvict(t) \/ EnforceTotal(t)
    \/ DbError(t)

Next ==
    \/ \E t \in Threads : Begin(t) \/ Advance(t)
    \/ Restart

Spec == Init /\ [][Next]_vars

-----------------------------------------------------------------------------
(* Properties.                                                              *)

\* Types of the store's state: LevelDB contents, lock owner, per-thread locals.
TypeOK ==
    /\ meta \in [Keys -> Entry \cup {NoEntry}]
    /\ body \in [Keys -> Contents \cup {NoBody}]
    /\ writeMu \in Threads \cup {NoThread}
    /\ step \in [Threads -> {"idle", "begun", "read", "wrote", "count"}]
    /\ task \in [Threads -> Task \cup {NoTask}]
    /\ scan \in [Threads -> [Keys -> Entry \cup {NoEntry}]]
    /\ scanBody \in [Threads -> SUBSET Keys]
    /\ overtaken \in BOOLEAN
    /\ missed \in SUBSET Threads
    /\ raced \in BOOLEAN

\* Metadata and body come and go together, and the metadata is the one of the
\* stored body (its sha256, size and validators), until a read-modify-write
\* has been overtaken by an operation that does not take write_mu_.
Matches(k) == IF meta[k] = NoEntry THEN body[k] = NoBody ELSE meta[k].of = body[k]
PairedUntilOvertaken == ~overtaken => \A k \in Keys : Matches(k)

\* The copy under k; one whose metadata is not its body's is a copy of no body.
Torn == [of |-> NoBody, stale |-> TRUE]
Held(k) ==
    IF ~Matches(k) THEN Torn
    ELSE IF meta[k] = NoEntry THEN NoEntry
    ELSE [of |-> body[k], stale |-> meta[k].stale]

\* The call has had its effect: its batch is written, or it has none to write.
Acted(t) == step[t] = "wrote" \/ At(t, "count", {"put"})

Promise == INSTANCE ResponseStore WITH
    Callers <- Threads, Calls <- Jobs, Missing <- NoEntry, NoCall <- NoTask,
    held <- [k \in Keys |-> Held(k)], call <- task, done <- {t \in Threads : Acted(t)},
    passed <- missed, broken <- overtaken

\* Until it is overtaken the store holds whole copies, and an operation of several
\* accesses changes them in one step between its call and its return, its batch, as
\* it was called to, however operations, failures and restarts interleave.
KeepsPromise == Promise!Spec

\* What puts have written and not yet added to the running total.
Putting(t) == At(t, "wrote", {"put"}) \/ At(t, "count", {"put"})
PendingBytes == Total([t \in {u \in Threads : Putting(u)} |-> Size[task[t].content]])

\* "Keep the running byte total in sync": once seeded, total_bytes_ with the
\* additions under way never falls short of the bytes stored, so that the fast
\* path of enforce_max_size is taken only under budget.
HintCovers == totalBytes >= 0 => totalBytes + PendingBytes >= Bytes(meta)

\* The running total covers the stored bytes as long as no total was stored by
\* a thread that a put had passed since its scan, and no entry was resurrected.
HintCoversUntilRaced == ~raced /\ ~overtaken => HintCovers

\* Only the put or the 304 refresh of a key makes its expired entry fresh
\* again: a touch that runs beside expire never loses the expiry, since both
\* hold write_mu_ (a put may still pass between the two accesses of a touch).
Freshens(k) ==
    /\ meta[k] # NoEntry /\ meta[k].stale
    /\ meta'[k] # NoEntry /\ ~meta'[k].stale
MayFreshen(k, t) ==
    \/ PutWrite(t) /\ task[t].key = k
    \/ WriteBack(t) /\ (task[t].op = "refresh" \/ t \in missed)
ExpiryStands ==
    [][\A k \in Keys : Freshens(k) => \E t \in Threads : MayFreshen(k, t)]_vars

\* What was fetched last is not what the enforcement after it gives up: an
\* entry just put, stored after every use of the others, survives an eviction
\* whose budget it fits.
Newest(e, k) ==
    /\ e[k] # NoEntry /\ e[k].accessed = 0
    /\ \A j \in Present(e) \ {k} : e[j].stored < e[k].stored /\ e[j].accessed < e[k].stored
NewestSurvives ==
    [][\A t \in Threads, k \in Keys :
          /\ EnforceEvict(t) /\ Newest(scan[t], k) /\ scan[t][k] = meta[k]
          /\ Size[meta[k].of] <= task[t].max
          => meta'[k] = meta[k] /\ body'[k] = body[k]]_vars
=============================================================================
