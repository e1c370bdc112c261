-------------------------- MODULE GameAccountsProofs --------------------------
(* Theorems about GameAccounts, for any connections, accounts, and numbers   *)
(* of logins, creations and updates; and about Relationships, for any        *)
(* members, limit, and numbers of requests, comings and goings.              *)
EXTENDS GameAccounts, Relationships, FiniteSetTheorems, TLAPS

USE AccountsAssumption DEF jobs, logins, online, store, history

-----------------------------------------------------------------------------
(* Types, and what each step has at hand.                                    *)

Known(j) == pc[j] # "idle" /\ number[j] \in Numbers

AtHand ==
    /\ \A j \in Jobs : pc[j] # "idle" => client[j] \in Conns /\ target[j] \in Accounts
    /\ \A n \in 1 .. Len(queue) : pc[queue[n]] # "idle"
    /\ \A i \in Ids : bySocket[i] # NoJob => pc[bySocket[i]] # "idle"
    /\ \A n \in Numbers : byMember[n] # NoJob => pc[byMember[n]] # "idle"
    /\ \A x \in Actors : rm[x] # NoRemoval /\ rm[x].acc # NoJob => Known(rm[x].acc)

Typed == TypeOK /\ AtHand

LEMMA NoJobIsNone == NoJob \notin Jobs
BY DEF NoJob, Jobs

LEMMA NewWriteTyped ==
    ASSUME NEW a \in Accounts, NEW v \in Values, NEW x \in Actors \cup {NoActor}
    PROVE  NewWrite(a, v, x) \in Write
BY DEF NewWrite, Write

LEMMA Zero == 0 \in Values
BY DEF Values

LEMMA TypedInit == Init => Typed
<1> SUFFICES ASSUME Init PROVE Typed
  OBVIOUS
<1> USE NoJobIsNone, Zero DEF Init
<1>1. \A r \in Stored : [number |-> r, app |-> 0] \in Record
  BY DEF Record, Numbers
<1>2. db \in [Accounts -> Record \cup {NoRecord}]
  BY <1>1
<1>3. Types
  <2>1. /\ conn \in [Conns -> {"open", "kicked", "closing", "gone"}]
        /\ handlers \in [Conns -> {"pre", "post"}]
        /\ pc \in [Jobs -> Progress] /\ client \in [Jobs -> Ids]
        /\ target \in [Jobs -> Accounts \cup {NoAccount}]
        /\ number \in [Jobs -> Numbers \cup {NoNumber}]
    BY DEF Progress, Ids
  <2>2. queue \in Seq(Jobs) /\ takers \in Nat
    OBVIOUS
  <2>5. running \in BOOLEAN
    BY Zenon
  <2>3. /\ bySocket \in [Ids -> Jobs \cup {NoJob}]
        /\ byMember \in [Numbers -> Jobs \cup {NoJob}]
        /\ delayed \in [Jobs -> Values]
        /\ rm \in [Actors -> Removal \cup {NoRemoval}]
        /\ writes \in SUBSET Write
    OBVIOUS
  <2>4. /\ stamp \in Values /\ last \in [Accounts -> Values]
        /\ created \in SUBSET Accounts /\ raced \in SUBSET Accounts
    OBVIOUS
  <2> QED
    BY <1>2, <2>1, <2>2, <2>3, <2>4, <2>5 DEF Types
<1>5. TypeOK
  BY <1>3 DEF TypeOK
<1>4. AtHand
  BY DEF AtHand
<1> QED
  BY <1>4, <1>5 DEF Typed

\* What the maps show of an account.
LEMMA SessionTarget ==
    ASSUME Typed, NEW i \in Ids, bySocket[i] # NoJob
    PROVE  bySocket[i] \in Jobs /\ target[bySocket[i]] \in Accounts
BY DEF Typed, TypeOK, Types, AtHand, Known

LEMMA MeetsTyped ==
    ASSUME Typed, NEW W \in SUBSET Write
    PROVE  Meets(W) \subseteq Accounts
BY DEF Meets, Write

LEMMA IdTyped ==
    ASSUME Typed, NEW j \in Jobs, pc[j] # "idle"
    PROVE  SocketId(j) \in Ids
BY DEF Typed, TypeOK, Types, AtHand, SocketId, Ids


\* A step that keeps the maps and removals, and what is known of each job.
LEMMA AtHandKept ==
    ASSUME Typed, UNCHANGED <<bySocket, byMember, rm>>,
           \A k \in Jobs : pc'[k] # "idle" => client'[k] \in Conns /\ target'[k] \in Accounts,
           \A k \in Jobs : pc[k] # "idle" => pc'[k] # "idle",
           \A k \in Jobs : number[k] \in Numbers => number'[k] \in Numbers,
           \A n \in 1 .. Len(queue') : pc'[queue'[n]] # "idle"
    PROVE  AtHand'
<1>1. \A x \in Actors : rm[x] # NoRemoval /\ rm[x].acc # NoJob => rm[x].acc \in Jobs
  BY DEF Typed, TypeOK, Types, Removal
<1> QED
  BY <1>1 DEF Typed, TypeOK, Types, AtHand, Known

LEMMA TypedQueued ==
    ASSUME Typed, NEW j \in Jobs, AccountCreate(j) \/ AccountLogin(j)
    PROVE  Typed'
<1>1. PICK c \in Conns, a \in Accounts : Asks(j, c, a)
  BY DEF AccountCreate, AccountLogin
<1>2. Types'
  <2>1. client' \in [Jobs -> Ids] /\ target' \in [Jobs -> Accounts \cup {NoAccount}]
    BY <1>1 DEF Asks, Typed, TypeOK, Types, Ids
  <2>2. CASE AccountCreate(j)
    BY <2>1, <2>2 DEF AccountCreate, Goto, Typed, TypeOK, Types, Progress
  <2>3. CASE AccountLogin(j)
    <3>1. queue' \in Seq(Jobs) /\ running' \in BOOLEAN /\ takers' \in Nat
      BY <2>3 DEF AccountLogin, Typed, TypeOK, Types
    <3> QED
      BY <2>1, <2>3, <3>1 DEF AccountLogin, Goto, Typed, TypeOK, Types, Progress
  <2> QED
    BY <2>2, <2>3
<1>3. AtHand'
  <2>1. CASE AccountCreate(j)
    BY <1>1, <2>1 DEF AccountCreate, Asks, NextJob, Goto, Typed, TypeOK, Types, AtHand, Known
  <2>2. CASE AccountLogin(j)
    BY <1>1, <2>2 DEF AccountLogin, Asks, NextJob, Goto, Typed, TypeOK, Types, AtHand, Known
  <2> QED
    BY <2>1, <2>2
<1> QED
  BY <1>1, <1>2, <1>3 DEF AccountCreate, AccountLogin, Asks, Goto, Typed, TypeOK, Types

LEMMA TypedExists ==
    ASSUME Typed, NEW j \in Jobs, Exists(j)
    PROVE  Typed'
<1>1. Types'
  BY DEF Exists, Goto, Typed, TypeOK, Types, Progress
<1>2. AtHand'
  BY DEF Exists, Goto, Typed, TypeOK, Types, AtHand, Known
<1> QED
  BY <1>1, <1>2 DEF Exists, Goto, Typed, TypeOK, Types

LEMMA TypedPut ==
    ASSUME Typed, NEW j \in Jobs, PutAccount(j)
    PROVE  Typed'
<1>1. target[j] \in Accounts
  BY DEF PutAccount, Typed, AtHand
<1>2. [number |-> j, app |-> 0] \in Record /\ j \in Numbers
  BY Zero DEF Record, Numbers
<1>3. Types'
  BY <1>1, <1>2 DEF PutAccount, Drawn, Goto, Typed, TypeOK, Types, Progress
<1>4. AtHand'
  <2>1. \A k \in Jobs : /\ pc[k] # "idle" <=> pc'[k] # "idle"
                        /\ number[k] \in Numbers => number'[k] \in Numbers
    BY <1>2 DEF PutAccount, Drawn, Goto, Typed, TypeOK, Types
  <2>2. \A n \in 1 .. Len(queue) : queue[n] \in Jobs
    BY DEF Typed, TypeOK, Types
  <2>3. \A k \in Jobs : pc'[k] # "idle" => client[k] \in Conns /\ target[k] \in Accounts
    BY <2>1 DEF Typed, AtHand
  <2>4. UNCHANGED <<client, target, queue, bySocket, byMember, rm>>
    BY DEF PutAccount
  <2>5. \A n \in 1 .. Len(queue) : pc'[queue[n]] # "idle"
    BY <2>1, <2>2 DEF Typed, AtHand
  <2> QED
    BY <2>1, <2>3, <2>4, <2>5, AtHandKept
<1> QED
  BY <1>2, <1>3, <1>4 DEF PutAccount, Drawn, Goto, Typed, TypeOK, Types

LEMMA TypedSeat ==
    ASSUME Typed, NEW j \in Jobs, pc[j] # "idle", Seat(j), Goto(j, "done"),
           number[j] \in Numbers, queue' = queue, running' \in BOOLEAN, takers' \in Nat,
           UNCHANGED <<conn, client, target, number, delayed, rm, db, writes, stamp, last,
                       created>>
    PROVE  Typed'
<1>1. SocketId(j) \in Ids /\ target[j] \in Accounts
  BY IdTyped DEF Typed, AtHand
<1>2. raced' \in SUBSET Accounts
  BY <1>1, SessionTarget DEF Seat, SessionsOf, Typed, TypeOK, Types
<1>3. Types'
  BY <1>1, <1>2 DEF Seat, Goto, Typed, TypeOK, Types, Progress
<1>4. AtHand'
  BY <1>1 DEF Seat, Goto, Typed, TypeOK, Types, AtHand, Known
<1> QED
  BY <1>1, <1>3, <1>4 DEF Seat, Goto, Typed, TypeOK, Types

LEMMA TypedMore ==
    ASSUME Typed, More(queue)
    PROVE  running' \in BOOLEAN /\ takers' \in Nat
<1>1. CASE queue = <<>>
  BY <1>1 DEF More, Typed, TypeOK, Types
<1>2. CASE queue # <<>>
  BY <1>2 DEF More, Typed, TypeOK, Types
<1> QED
  BY <1>1, <1>2

LEMMA TypedSeats ==
    ASSUME Typed, NEW j \in Jobs, SeatCreated(j) \/ SeatLogin(j)
    PROVE  Typed'
<1>1. pc[j] # "idle" /\ number[j] \in Numbers
  BY DEF SeatCreated, SeatLogin, Typed, TypeOK
<1>2. CASE SeatCreated(j)
  BY <1>1, <1>2, TypedSeat DEF SeatCreated, Typed, TypeOK, Types
<1>3. CASE SeatLogin(j)
  BY <1>1, <1>3, TypedSeat, TypedMore DEF SeatLogin, LoginEnds
<1> QED
  BY <1>2, <1>3

LEMMA TypedTake == ASSUME Typed, Take PROVE Typed'
<1>1. CASE queue = <<>>
  <2>1. takers' \in Nat /\ running' \in BOOLEAN
    <3>1. takers \in Nat /\ takers > 0 /\ takers' = takers - 1 /\ running' = FALSE
      BY <1>1 DEF Take, Typed, TypeOK, Types
    <3>2. takers' \in Nat
      BY <3>1
    <3>3. running' \in BOOLEAN
      BY <3>1, Zenon
    <3> QED
      BY <3>2, <3>3
  <2>2. UNCHANGED <<conn, handlers, jobs, queue, online, delayed, rm, store, history>>
    BY <1>1 DEF Take
  <2> QED
    BY <2>1, <2>2 DEF Typed, TypeOK, Types, AtHand, Known
<1>2. CASE queue # <<>>
  <2>1. Head(queue) \in Jobs /\ Tail(queue) \in Seq(Jobs) /\ pc[Head(queue)] # "idle"
    BY <1>2 DEF Typed, TypeOK, Types, AtHand
  <2>2. \A n \in 1 .. Len(Tail(queue)) : pc[Tail(queue)[n]] # "idle"
    BY <1>2 DEF Typed, TypeOK, Types, AtHand
  <2>3. \E s \in {"load", "done"} : Goto(Head(queue), s)
    BY <1>2 DEF Take
  <2>4. /\ queue' = Tail(queue) /\ running' \in BOOLEAN /\ takers' \in Nat
        /\ UNCHANGED <<conn, handlers, client, target, number, online, delayed, rm, store,
                       history>>
    <3>1. takers \in Nat /\ running \in BOOLEAN /\ takers > 0
      BY DEF Take, Typed, TypeOK, Types
    <3>2. CASE SocketId(Head(queue)) # NoId
      BY <1>2, <3>1, <3>2 DEF Take
    <3>3. CASE SocketId(Head(queue)) = NoId
      <4>1. (Tail(queue) # <<>>) \in BOOLEAN
        OBVIOUS
      <4> QED
        BY <1>2, <3>1, <3>3, <4>1 DEF Take
    <3> QED
      BY <3>2, <3>3
  <2>5. Types'
    BY <2>1, <2>3, <2>4 DEF Goto, Typed, TypeOK, Types, Progress
  <2>6. AtHand'
    BY <2>1, <2>2, <2>3, <2>4 DEF Goto, Typed, TypeOK, Types, AtHand, Known
  <2> QED
    BY <2>1, <2>3, <2>4, <2>5, <2>6 DEF Goto, Typed, TypeOK, Types
<1> QED
  BY <1>1, <1>2

LEMMA TypedLogin ==
    ASSUME Typed, NEW j \in Jobs, Load(j) \/ Kick(j) \/ Persist(j)
    PROVE  Typed'
<1> USE DEF Goto, LoginEnds
<1>1. pc[j] # "idle" /\ client[j] \in Conns /\ target[j] \in Accounts
  BY DEF Load, Kick, Persist, Typed, AtHand
<1>2. \A n \in 1 .. Len(queue) : queue[n] \in Jobs
  BY DEF Typed, TypeOK, Types
<1>3. queue' = queue /\ running' \in BOOLEAN /\ takers' \in Nat
  BY TypedMore DEF Load, Kick, Persist, Typed, TypeOK, Types
<1>4. UNCHANGED <<handlers, client, target, bySocket, byMember, delayed, db, stamp, last, created>>
  BY DEF Load, Kick, Persist
<1>5. \E s \in {"loaded", "kicking", "persisting", "done"} : pc' = [pc EXCEPT ![j] = s]
  BY DEF Load, Kick, Persist
<1>6. /\ number' \in [Jobs -> Numbers \cup {NoNumber}]
      /\ \A k \in Jobs : number[k] \in Numbers => number'[k] \in Numbers
      /\ pc'[j] # "done" => number'[j] \in Numbers
  BY <1>1 DEF Load, Kick, Persist, Typed, TypeOK, Types, Record
<1>7. conn' \in [Conns -> {"open", "kicked", "closing", "gone"}]
  BY DEF Load, Kick, Persist, Typed, TypeOK, Types
<1>8. writes' \in SUBSET Write /\ raced' \in SUBSET Accounts
  <2>1. NewWrite(target[j], 0, j) \in Write
    BY <1>1, NewWriteTyped, Zero DEF Actors
  <2>2. Meets({NewWrite(target[j], 0, j)}) \subseteq Accounts
    BY <2>1, MeetsTyped
  <2> QED
    BY <2>1, <2>2 DEF Load, Kick, Persist, Spawn, Typed, TypeOK, Types
<1>9. /\ rm' \in [Actors -> Removal \cup {NoRemoval}]
      /\ \A x \in Actors : rm'[x] = rm[x] \/ rm'[x].acc = NoJob
  BY DEF Load, Kick, Persist, Typed, TypeOK, Types, Removal, Duplicates, SessionsOf, Actors
<1>10. Types'
  <2>1. Types
    BY DEF Typed, TypeOK
  <2>2. pc' \in [Jobs -> Progress]
    <3>1. PICK s \in {"loaded", "kicking", "persisting", "done"} : pc' = [pc EXCEPT ![j] = s]
      BY <1>5
    <3>2. pc \in [Jobs -> Progress] /\ s \in Progress
      BY <2>1 DEF Types, Progress
    <3> QED
      BY <3>1, <3>2
  <2>3. /\ handlers' \in [Conns -> {"pre", "post"}] /\ client' \in [Jobs -> Ids]
        /\ target' \in [Jobs -> Accounts \cup {NoAccount}]
        /\ bySocket' \in [Ids -> Jobs \cup {NoJob}] /\ byMember' \in [Numbers -> Jobs \cup {NoJob}]
        /\ delayed' \in [Jobs -> Values] /\ db' \in [Accounts -> Record \cup {NoRecord}]
        /\ stamp' \in Values /\ last' \in [Accounts -> Values] /\ created' \in SUBSET Accounts
        /\ queue' \in Seq(Jobs)
    BY <1>3, <1>4, <2>1 DEF Types
  <2> QED
    BY <1>3, <1>6, <1>7, <1>8, <1>9, <2>2, <2>3 DEF Types
<1>11. AtHand'
  <2>1. \A k \in Jobs : pc[k] # "idle" <=> pc'[k] # "idle"
    BY <1>1, <1>5 DEF Typed, TypeOK, Types
  <2>2. \A x \in Actors : rm[x] # NoRemoval /\ rm[x].acc # NoJob => rm[x].acc \in Jobs
    BY DEF Typed, TypeOK, Types, Removal
  <2>3. \A n \in 1 .. Len(queue') : pc'[queue'[n]] # "idle"
    BY <1>2, <1>3, <2>1 DEF Typed, AtHand
  <2>4. (\A x \in Actors : rm[x] # NoRemoval /\ rm[x].acc # NoJob => Known(rm[x].acc))'
    BY <1>6, <1>9, <2>1, <2>2 DEF Typed, AtHand, Known
  <2> QED
    BY <1>4, <2>1, <2>3, <2>4 DEF Typed, TypeOK, Types, AtHand
<1> QED
  BY <1>4, <1>5, <1>6, <1>10, <1>11 DEF Typed, TypeOK, Types

LEMMA TypedRemove == ASSUME Typed, NEW x \in Actors, Remove(x) PROVE Typed'
<1> DEFINE i == rm[x].id
           j == rm[x].acc
<1>1. rm[x] \in Removal /\ i \in Ids /\ j \in Jobs \cup {NoJob}
  BY DEF Remove, Find, Erase, Typed, TypeOK, Types, Removal
<1>2. CASE Find(x)
  <2>1. bySocket[i] \in Jobs \cup {NoJob}
    BY <1>1 DEF Typed, TypeOK, Types
  <2>2. UNCHANGED <<conn, handlers, jobs, logins, online, delayed, store, history>>
    BY <1>2 DEF Remove, Find
  <2>3. /\ rm' \in [Actors -> Removal \cup {NoRemoval}]
        /\ \A y \in Actors : \/ rm'[y] = rm[y] \/ rm'[y] = NoRemoval
                             \/ rm'[y].acc = bySocket[i]
    BY <1>1, <1>2, <2>1 DEF Find, Typed, TypeOK, Types, Removal
  <2>4. Types'
    BY <2>2, <2>3 DEF Typed, TypeOK, Types
  <2>5. AtHand'
    BY <1>1, <2>2, <2>3 DEF Typed, TypeOK, AtHand, Known
  <2> QED
    BY <2>2, <2>4, <2>5 DEF Typed, TypeOK
<1>3. CASE Erase(x)
  <2> DEFINE kept == IF delayed[j] = 0 THEN {} ELSE {NewWrite(target[j], delayed[j], x)}
             hit == {bySocket[i], byMember[number[j]]}
  <2>1. j \in Jobs /\ pc[j] # "idle" /\ number[j] \in Numbers /\ target[j] \in Accounts
    BY <1>1, <1>3 DEF Erase, Typed, AtHand, Known
  <2>2. kept \in SUBSET Write
    BY <2>1, NewWriteTyped DEF Typed, TypeOK, Types
  <2>3. Meets(kept) \subseteq Accounts
    BY <2>2, MeetsTyped
  <2>4. \A k \in (hit \cup {j}) \ {NoJob} : target[k] \in Accounts
    <3>1. \A k \in (hit \cup {j}) \ {NoJob} : k \in Jobs /\ pc[k] # "idle"
      BY <1>1, <2>1 DEF Typed, TypeOK, Types, AtHand
    <3> QED
      BY <3>1 DEF Typed, AtHand
  <2>5. raced' \in SUBSET Accounts
    <3>1. raced' \subseteq raced \cup Meets(kept) \cup {target[k] : k \in (hit \cup {j}) \ {NoJob}}
      BY <1>3 DEF Erase
    <3>2. {target[k] : k \in (hit \cup {j}) \ {NoJob}} \subseteq Accounts
      BY <2>4
    <3>3. raced \subseteq Accounts
      BY DEF Typed, TypeOK, Types
    <3> HIDE DEF kept, hit
    <3> QED
      BY <3>1, <3>2, <3>3, <2>3
  <2>6. writes' \in SUBSET Write
    BY <1>3, <2>2 DEF Erase, Spawn, Typed, TypeOK, Types
  <2>7. /\ bySocket' = [bySocket EXCEPT ![i] = NoJob]
        /\ byMember' = [byMember EXCEPT ![number[j]] = NoJob]
        /\ rm' = [rm EXCEPT ![x] = NoRemoval]
        /\ UNCHANGED <<conn, handlers, jobs, logins, delayed, db, stamp, last, created>>
    BY <1>3 DEF Remove, Erase, Unlisted
  <2>8. Types'
    BY <2>5, <2>6, <2>7 DEF Typed, TypeOK, Types
  <2>9. AtHand'
    BY <2>7 DEF Typed, TypeOK, Types, AtHand, Known
  <2> QED
    BY <2>7, <2>8, <2>9 DEF Typed, TypeOK, Types
<1> QED
  BY <1>2, <1>3 DEF Remove

\* A login in the queue has not been taken; one update is awaited, and by the login
\* that waits.
Places ==
    /\ \A n \in 1 .. Len(queue) : pc[queue[n]] = "queued"
    /\ \A m, n \in 1 .. Len(queue) : queue[m] = queue[n] => m = n
    /\ \A w \in writes : Awaited(w) => pc[w.by] = "persisting"
    /\ \A w, v \in writes : Awaited(w) /\ Awaited(v) /\ w.by = v.by => w = v

LEMMA TypedUpdate ==
    ASSUME Typed, Places, NEW x \in Actors \cup {NoActor}, Update(x)
    PROVE  Typed'
<1>1. PICK w \in writes : w.by = x /\ (Read(w) \/ WriteBack(w) \/ NotFound(w) \/ Throws(w))
  BY DEF Update
<1>2. w \in Write /\ w.account \in Accounts /\ w.app \in Values /\ w.base \in Record \cup {NoRecord}
  BY DEF Typed, TypeOK, Types, Write
<1>3. UNCHANGED <<conn, handlers, client, target, number, logins, online, delayed, rm,
                  stamp, last, created>>
  BY DEF Update
<1>4. pc' = pc \/ (\E s \in {"seat", "thrown"} : /\ pc' = [pc EXCEPT ![w.by] = s]
                                                  /\ w.by \in Jobs /\ pc[w.by] = "persisting")
  BY <1>1 DEF Read, WriteBack, NotFound, Throws, Done, Awaited, Goto, Places
<1>5. raced' \in SUBSET Accounts
  BY <1>1, <1>2 DEF Read, WriteBack, NotFound, Throws, Lost, Typed, TypeOK, Types
<1>6. writes' \in SUBSET Write
  <2>1. [w EXCEPT !.base = db[w.account]] \in Write
    BY <1>2 DEF Write, Typed, TypeOK, Types
  <2> QED
    BY <1>1, <2>1 DEF Read, WriteBack, NotFound, Throws, Done, Typed, TypeOK, Types
<1>7. db' \in [Accounts -> Record \cup {NoRecord}]
  <2>1. w.base # NoRecord => Merged(w) \in Record
    BY <1>2 DEF Merged, Record
  <2> QED
    BY <1>1, <1>2, <2>1 DEF Read, WriteBack, NotFound, Throws, Typed, TypeOK, Types
<1>8. Types'
  BY <1>3, <1>4, <1>5, <1>6, <1>7 DEF Typed, TypeOK, Types, Progress
<1>9. \A k \in Jobs : /\ pc[k] # "idle" <=> pc'[k] # "idle"
                      /\ pc'[k] # pc[k] => pc[k] = "persisting"
  BY <1>4 DEF Typed, TypeOK, Types
<1>10. \A n \in 1 .. Len(queue') : queue[n] \in Jobs /\ pc'[queue'[n]] # "idle"
  BY <1>3, <1>9 DEF Typed, TypeOK, Types, AtHand
<1>11. AtHand'
  BY <1>3, <1>9, <1>10, AtHandKept DEF Typed, AtHand
<1> QED
  BY <1>3, <1>8, <1>9, <1>11 DEF Typed, TypeOK, Types

LEMMA TypedConnection ==
    ASSUME Typed, NEW c \in Conns,
           AccountDisconnect(c) \/ Disconnect(c) \/ Release(c)
    PROVE  Typed'
<1>1. /\ conn' \in [Conns -> {"open", "kicked", "closing", "gone"}]
      /\ UNCHANGED <<handlers, jobs, logins, online, delayed, store, history>>
  BY DEF AccountDisconnect, Disconnect, Release, Typed, TypeOK, Types
<1>2. rm' = rm \/ rm' = [rm EXCEPT ![c] = [id |-> c, acc |-> NoJob]]
  BY DEF AccountDisconnect, Disconnect, Release, StartRemoval
<1>3. [id |-> c, acc |-> NoJob] \in Removal /\ c \in Actors
  BY DEF Removal, Ids, Actors
<1>4. rm' \in [Actors -> Removal \cup {NoRemoval}]
  BY <1>2, <1>3 DEF Typed, TypeOK, Types
<1>5. \A x \in Actors : rm'[x] = rm[x] \/ rm'[x].acc = NoJob
  BY <1>2, <1>3 DEF Typed, TypeOK, Types
<1>6. Types'
  BY <1>1, <1>4 DEF Typed, TypeOK, Types
<1>7. AtHand'
  BY <1>1, <1>5 DEF Typed, AtHand, Known
<1> QED
  BY <1>1, <1>6, <1>7 DEF Typed, TypeOK

LEMMA TypedAccountUpdate ==
    ASSUME Typed, NEW c \in Conns, AccountUpdate(c)
    PROVE  Typed'
<1> DEFINE j == bySocket[c]
<1>1. c \in Ids /\ j # NoJob
  BY DEF AccountUpdate, Ids
<1>2. j \in Jobs /\ target[j] \in Accounts
  BY <1>1, SessionTarget
<1>3. UpdateDelayed(c, j) \/ UpdateMany(c, j) \/ UpdateOther(c, j)
  BY DEF AccountUpdate
<1>4. UNCHANGED <<conn, handlers, jobs, logins, online, rm, db, created>>
  BY DEF AccountUpdate
<1>5. stamp < MaxUpdates => stamp + 1 \in Values
  BY DEF Values, Typed, TypeOK, Types
<1>6. stamp' \in Values /\ last' \in [Accounts -> Values] /\ delayed' \in [Jobs -> Values]
  <2>1. stamp' \in Values
    BY <1>3, <1>5 DEF UpdateDelayed, UpdateMany, UpdateOther, Typed, TypeOK, Types
  <2>2. last' = last \/ last' = [last EXCEPT ![target[j]] = stamp']
    BY <1>3 DEF UpdateDelayed, UpdateMany, UpdateOther
  <2>3. \E v \in {0, stamp'} : delayed' = delayed \/ delayed' = [delayed EXCEPT ![j] = v]
    BY <1>3 DEF UpdateDelayed, UpdateMany, UpdateOther, Superseded
  <2>4. last \in [Accounts -> Values] /\ delayed \in [Jobs -> Values]
    BY DEF Typed, TypeOK, Types
  <2> HIDE DEF j
  <2>5. last' \in [Accounts -> Values]
    BY <1>2, <2>1, <2>2, <2>4
  <2>6. delayed' \in [Jobs -> Values]
    BY <1>2, <2>1, <2>3, <2>4, Zero
  <2> QED
    BY <2>1, <2>5, <2>6
<1>7. \/ UNCHANGED <<writes, raced>>
      \/ \E v \in Values, x \in {NoActor, c} :
            LET w == NewWrite(target[j], v, x)
            IN  Spawn({w}) /\ raced' = raced \cup Meets({w})
  BY <1>3, <1>5, Zero DEF UpdateDelayed, UpdateMany, UpdateOther
<1>8. writes' \in SUBSET Write /\ raced' \in SUBSET Accounts
  <2>1. CASE UNCHANGED <<writes, raced>>
    BY <2>1 DEF Typed, TypeOK, Types
  <2>2. ASSUME NEW v \in Values, NEW x \in {NoActor, c},
               Spawn({NewWrite(target[j], v, x)}),
               raced' = raced \cup Meets({NewWrite(target[j], v, x)})
        PROVE  writes' \in SUBSET Write /\ raced' \in SUBSET Accounts
    <3>1. NewWrite(target[j], v, x) \in Write
      BY <1>2, NewWriteTyped DEF Actors
    <3>2. Meets({NewWrite(target[j], v, x)}) \subseteq Accounts
      BY <3>1, MeetsTyped
    <3> QED
      BY <2>2, <3>1, <3>2 DEF Spawn, Typed, TypeOK, Types
  <2> QED
    BY <1>7, <2>1, <2>2
<1>9. Types'
  BY <1>4, <1>6, <1>8 DEF Typed, TypeOK, Types
<1>10. AtHand'
  BY <1>4 DEF Typed, AtHand, Known
<1> QED
  BY <1>4, <1>9, <1>10 DEF Typed, TypeOK

LEMMA TypedFlush == ASSUME Typed, Flush PROVE Typed'
<1> DEFINE flushed == {bySocket[i] : i \in Ids} \ {NoJob}
           W == {NewWrite(target[j], delayed[j], NoActor) : j \in {k \in flushed : delayed[k] # 0}}
<1>1. \A j \in flushed : j \in Jobs /\ target[j] \in Accounts
  BY SessionTarget
<1>2. \A j \in flushed : NewWrite(target[j], delayed[j], NoActor) \in Write
  BY <1>1, NewWriteTyped DEF Typed, TypeOK, Types
<1>3. W \in SUBSET Write
  BY <1>2
<1>4. Meets(W) \subseteq Accounts
  BY <1>3, MeetsTyped
<1>5. /\ delayed' = [j \in Jobs |-> IF j \in flushed THEN 0 ELSE delayed[j]]
      /\ writes' = writes \cup W
      /\ raced' = raced \cup Meets(W)
      /\ UNCHANGED <<conn, handlers, jobs, logins, online, rm, db, stamp, last, created>>
  BY DEF Flush, Spawn
<1>6. delayed' \in [Jobs -> Values]
  BY <1>5, Zero DEF Typed, TypeOK, Types
<1>7. writes' \in SUBSET Write /\ raced' \in SUBSET Accounts
  <2> HIDE DEF W
  <2> QED
    BY <1>3, <1>4, <1>5 DEF Typed, TypeOK, Types
<1>8. Types'
  BY <1>5, <1>6, <1>7 DEF Typed, TypeOK, Types
<1>9. AtHand'
  BY <1>5 DEF Typed, AtHand, Known
<1> QED
  BY <1>5, <1>8, <1>9 DEF Typed, TypeOK

LEMMA TypedNext == Typed /\ Places /\ [Next]_vars => Typed'
<1> SUFFICES ASSUME Typed, Places, [Next]_vars PROVE Typed'
  OBVIOUS
<1>1. CASE UNCHANGED vars
  BY <1>1 DEF vars, Typed, TypeOK, Types, AtHand, Known
<1>2. CASE Next
  BY <1>2, TypedQueued, TypedExists, TypedPut, TypedSeats, TypedLogin, TypedTake,
     TypedRemove, TypedUpdate, TypedConnection, TypedAccountUpdate, TypedFlush
     DEF Next, CreateStep, LoginStep
<1> QED
  BY <1>1, <1>2

-----------------------------------------------------------------------------
(* Where logins are.                                                         *)

LEMMA PlacesInit == Init => Places
BY DEF Init, Places

\* A step that touches neither a queued login nor one that waits for its update.
LEMMA PlacesKept ==
    ASSUME Typed, Places, queue' = queue,
           \A k \in Jobs : pc[k] \in {"queued", "persisting"} => pc'[k] = pc[k],
           \A w \in writes' : w \in writes \/ ~Awaited(w)
    PROVE  Places'
<1>1. \A n \in 1 .. Len(queue) : queue[n] \in Jobs
  BY DEF Typed, TypeOK, Types
<1>2. \A w \in writes' : Awaited(w) => w \in writes /\ w.by \in Jobs
  BY DEF Awaited
<1>3. \A n \in 1 .. Len(queue') : pc'[queue'[n]] = "queued"
  BY <1>1 DEF Places
<1>4. \A w \in writes' : Awaited(w) => pc'[w.by] = "persisting"
  BY <1>2 DEF Places
<1> QED
  BY <1>2, <1>3, <1>4 DEF Places, Awaited

LEMMA NotAwaited ==
    ASSUME NEW a, NEW v, NEW x, v # 0 \/ x \notin Jobs
    PROVE  ~Awaited(NewWrite(a, v, x))
BY DEF Awaited, NewWrite

LEMMA PlacesLogin ==
    ASSUME Typed, Places, NEW j \in Jobs, AccountLogin(j)
    PROVE  Places'
<1>1. pc[j] = "idle" /\ pc' = [pc EXCEPT ![j] = "queued"] /\ queue' = Append(queue, j) /\ writes' = writes
  BY DEF AccountLogin, Asks, NextJob, Goto
<1>2. queue \in Seq(Jobs) /\ \A n \in 1 .. Len(queue) : queue[n] \in Jobs /\ queue[n] # j
  BY <1>1 DEF Places, Typed, TypeOK, Types
<1>3. /\ Len(queue') = Len(queue) + 1 /\ queue'[Len(queue) + 1] = j
      /\ \A n \in 1 .. Len(queue) : queue'[n] = queue[n]
  BY <1>1, <1>2
<1>4. \A n \in 1 .. Len(queue') : pc'[queue'[n]] = "queued"
  BY <1>1, <1>2, <1>3 DEF Places, Typed, TypeOK, Types
<1>5. \A m, n \in 1 .. Len(queue') : queue'[m] = queue'[n] => m = n
  BY <1>2, <1>3 DEF Places
<1>6. \A w \in writes' : Awaited(w) => pc'[w.by] = "persisting"
  BY <1>1 DEF Places, Awaited, Typed, TypeOK, Types
<1> QED
  BY <1>1, <1>4, <1>5, <1>6 DEF Places, Awaited

LEMMA PlacesTake == ASSUME Typed, Places, Take PROVE Places'
<1>1. CASE queue = <<>>
  BY <1>1, PlacesKept DEF Take
<1>2. CASE queue # <<>>
  <2> DEFINE h == Head(queue)
  <2>1. /\ queue \in Seq(Jobs) /\ h = queue[1] /\ h \in Jobs /\ Len(queue) \in Nat /\ Len(queue) > 0
        /\ Len(Tail(queue)) = Len(queue) - 1
        /\ \A n \in 1 .. Len(queue) - 1 : Tail(queue)[n] = queue[n + 1]
    BY <1>2 DEF Typed, TypeOK, Types
  <2>2. queue' = Tail(queue) /\ writes' = writes /\ \E s \in {"load", "done"} : Goto(h, s)
    BY <1>2 DEF Take
  <2>3. pc[h] = "queued" /\ \A n \in 1 .. Len(queue) - 1 : queue[n + 1] # h
    BY <2>1 DEF Places
  <2>4. \A k \in Jobs \ {h} : pc'[k] = pc[k]
    BY <2>2 DEF Goto, Typed, TypeOK, Types
  <2>5. \A n \in 1 .. Len(queue') : pc'[queue'[n]] = "queued"
    <3>1. \A n \in 1 .. Len(queue) - 1 : queue[n + 1] \in Jobs \ {h} /\ pc[queue[n + 1]] = "queued"
      BY <2>1, <2>3 DEF Places
    <3> QED
      BY <2>1, <2>2, <2>4, <3>1
  <2>6. \A m, n \in 1 .. Len(queue') : queue'[m] = queue'[n] => m = n
    BY <2>1, <2>2 DEF Places
  <2>7. \A w \in writes' : Awaited(w) => pc'[w.by] = "persisting"
    BY <2>2, <2>3, <2>4 DEF Places, Awaited
  <2> QED
    BY <2>2, <2>5, <2>6, <2>7 DEF Places, Awaited
<1> QED
  BY <1>1, <1>2

LEMMA PlacesPersist == ASSUME Typed, Places, NEW j \in Jobs, Persist(j) PROVE Places'
<1> DEFINE w == NewWrite(target[j], 0, j)
<1>1. /\ pc[j] = "kicking" /\ pc' = [pc EXCEPT ![j] = "persisting"] /\ queue' = queue
      /\ writes' = writes \cup {w} /\ w.by = j
  BY DEF Persist, Goto, Spawn, NewWrite
<1>2. \A v \in writes : Awaited(v) => v.by # j /\ v.by \in Jobs
  BY <1>1 DEF Places, Awaited
<1>3. \A n \in 1 .. Len(queue) : queue[n] \in Jobs
  BY DEF Typed, TypeOK, Types
<1>4. \A n \in 1 .. Len(queue') : pc'[queue'[n]] = "queued"
  BY <1>1, <1>3 DEF Places, Typed, TypeOK, Types
<1>5. \A v \in writes' : Awaited(v) => pc'[v.by] = "persisting"
  BY <1>1, <1>2 DEF Places, Typed, TypeOK, Types
<1>6. \A v, u \in writes' : Awaited(v) /\ Awaited(u) /\ v.by = u.by => v = u
  <2> HIDE DEF w
  <2> QED
    BY <1>1, <1>2 DEF Places
<1> QED
  BY <1>1, <1>4, <1>5, <1>6 DEF Places, Awaited

LEMMA PlacesUpdate ==
    ASSUME Typed, Places, NEW x \in Actors \cup {NoActor}, Update(x)
    PROVE  Places'
<1>1. PICK w \in writes : Read(w) \/ WriteBack(w) \/ NotFound(w) \/ Throws(w)
  BY DEF Update
<1>2. queue' = queue
  BY DEF Update
<1>3. CASE Read(w)
  <2> DEFINE u == [w EXCEPT !.base = db[w.account]]
  <2>1. writes' = (writes \ {w}) \cup {u} /\ pc' = pc
    BY <1>3 DEF Read
  <2>2. u.by = w.by /\ u.app = w.app
    BY DEF Typed, TypeOK, Types, Write
  <2>3. Awaited(u) <=> Awaited(w)
    BY <2>2 DEF Awaited
  <2>4. \A v \in writes' : Awaited(v) => pc'[v.by] = "persisting"
    BY <2>1, <2>2, <2>3 DEF Places
  <2>5. \A v, z \in writes' : Awaited(v) /\ Awaited(z) /\ v.by = z.by => v = z
    <3> HIDE DEF u
    <3> QED
      BY <2>1, <2>2, <2>3 DEF Places
  <2> QED
    BY <1>2, <2>1, <2>4, <2>5 DEF Places, Awaited
<1>4. CASE WriteBack(w) \/ NotFound(w) \/ Throws(w)
  <2>1. writes' = writes \ {w}
    BY <1>4 DEF WriteBack, NotFound, Throws, Done
  <2>2. CASE Awaited(w)
    <3>1. w.by \in Jobs /\ pc[w.by] = "persisting" /\ \E s \in {"seat", "thrown"} : Goto(w.by, s)
      BY <1>4, <2>2 DEF WriteBack, NotFound, Throws, Done, Places, Awaited
    <3>2. \A k \in Jobs \ {w.by} : pc'[k] = pc[k]
      BY <3>1 DEF Goto, Typed, TypeOK, Types
    <3>3. \A v \in writes' : Awaited(v) => v.by \in Jobs \ {w.by}
      BY <2>1, <2>2 DEF Places, Awaited
    <3>4. \A n \in 1 .. Len(queue) : queue[n] \in Jobs \ {w.by}
      BY <3>1 DEF Places, Typed, TypeOK, Types
    <3> QED
      BY <1>2, <2>1, <3>2, <3>3, <3>4 DEF Places, Awaited
  <2>3. CASE ~Awaited(w)
    BY <1>2, <1>4, <2>1, <2>3, PlacesKept DEF WriteBack, NotFound, Throws, Done
  <2> QED
    BY <2>2, <2>3
<1> QED
  BY <1>1, <1>3, <1>4

LEMMA PlacesJobs ==
    ASSUME Typed, Places, NEW j \in Jobs,
           AccountCreate(j) \/ CreateStep(j) \/ Load(j) \/ Kick(j) \/ SeatLogin(j)
    PROVE  Places'
<1>1. /\ queue' = queue /\ writes' = writes /\ pc[j] \notin {"queued", "persisting"}
      /\ \E s \in Progress : pc' = [pc EXCEPT ![j] = s]
  BY DEF AccountCreate, Asks, NextJob, CreateStep, Exists, PutAccount, SeatCreated, Load, Kick,
         SeatLogin, LoginEnds, Goto, Progress
<1> QED
  BY <1>1, PlacesKept DEF Typed, TypeOK, Types

LEMMA PlacesRest ==
    ASSUME Typed, Places,
           \/ \E x \in Actors : Remove(x)
           \/ \E c \in Conns : Disconnect(c) \/ Release(c) \/ AccountUpdate(c)
                                 \/ AccountDisconnect(c)
           \/ Flush
           \/ UNCHANGED vars
    PROVE  Places'
<1> DEFINE Unawaited == \A w \in writes' : w \in writes \/ ~Awaited(w)
<1>1. pc' = pc /\ queue' = queue
  BY DEF Remove, Disconnect, Release, AccountUpdate, AccountDisconnect, Flush, vars
<1>2. Unawaited
  <2>1. ASSUME NEW x \in Actors, Remove(x) PROVE Unawaited
    <3>1. CASE Find(x)
      BY <3>1 DEF Find
    <3>2. CASE Erase(x)
      BY <3>2, NotAwaited DEF Erase, Spawn
    <3> QED
      BY <2>1, <3>1, <3>2 DEF Remove
  <2>2. ASSUME NEW c \in Conns, AccountUpdate(c) PROVE Unawaited
    <3>1. stamp < MaxUpdates => stamp + 1 # 0
      BY DEF Values, Typed, TypeOK, Types
    <3>2. c \notin Jobs
      OBVIOUS
    <3> QED
      BY <2>2, <3>1, <3>2, NotAwaited DEF AccountUpdate, UpdateDelayed, UpdateMany, UpdateOther, Spawn
  <2>3. ASSUME Flush PROVE Unawaited
    BY <2>3, NotAwaited DEF Flush, Spawn
  <2>4. ASSUME writes' = writes PROVE Unawaited
    BY <2>4
  <2> QED
    BY <2>1, <2>2, <2>3, <2>4 DEF Disconnect, Release, AccountDisconnect, vars
<1> QED
  BY <1>1, <1>2, PlacesKept

LEMMA PlacesNext == Typed /\ Places /\ [Next]_vars => Places'
BY PlacesJobs, PlacesLogin, PlacesPersist, PlacesTake, PlacesUpdate, PlacesRest
   DEF Next, LoginStep

\* TypeOK: types, and member numbers where they are needed.
THEOREM TypeCorrect == Spec => []TypeOK
<1>1. Init => Typed /\ Places
  BY TypedInit, PlacesInit
<1>2. Typed /\ Places /\ [Next]_vars => (Typed /\ Places)'
  BY TypedNext, PlacesNext
<1>3. Typed => TypeOK
  BY DEF Typed
<1> QED
  BY <1>1, <1>2, <1>3, PTL DEF Spec

-----------------------------------------------------------------------------
(* One login at a time.                                                      *)

LEMMA AttendedKept ==
    ASSUME Typed, Attended, UNCHANGED <<queue, running, takers>>,
           \A k \in Jobs : Busy(k)' <=> Busy(k)
    PROVE  Attended'
BY DEF Attended

LEMMA AttendedJobs ==
    ASSUME Typed, Attended, NEW j \in Jobs, AccountCreate(j) \/ CreateStep(j)
    PROVE  Attended'
<1>1. UNCHANGED <<queue, running, takers>>
  BY DEF AccountCreate, CreateStep, Exists, PutAccount, SeatCreated
<1>2. /\ pc[j] \in {"idle", "exists", "put", "created"}
      /\ \E s \in {"exists", "put", "created", "done"} : pc' = [pc EXCEPT ![j] = s]
  BY DEF AccountCreate, Asks, NextJob, CreateStep, Exists, PutAccount, SeatCreated, Goto
<1>3. \A k \in Jobs : Busy(k)' <=> Busy(k)
  BY <1>2 DEF Busy, Typed, TypeOK, Types
<1> QED
  BY <1>1, <1>3, AttendedKept

LEMMA AttendedAsked ==
    ASSUME Typed, Attended, NEW j \in Jobs, AccountLogin(j)
    PROVE  Attended'
<1>1. /\ pc[j] = "idle" /\ pc' = [pc EXCEPT ![j] = "queued"]
      /\ running' = TRUE /\ takers' = IF ~running THEN takers + 1 ELSE takers
  BY DEF AccountLogin, ShouldRun, Asks, NextJob, Goto
<1>2. \A k \in Jobs : Busy(k)' <=> Busy(k)
  BY <1>1 DEF Busy, Typed, TypeOK, Types
<1>3. takers \in Nat /\ takers <= 1
  BY DEF Attended, Typed, TypeOK, Types
<1>4. CASE running
  BY <1>1, <1>2, <1>3, <1>4 DEF Attended
<1>5. CASE ~running
  <2>1. takers = 0 /\ takers' = 1 /\ \A k \in Jobs : ~Busy(k)
    BY <1>1, <1>3, <1>5 DEF Attended
  <2> QED
    BY <1>1, <1>2, <2>1 DEF Attended
<1> QED
  BY <1>4, <1>5

LEMMA AttendedTake == ASSUME Typed, Attended, Take PROVE Attended'
<1>1. takers = 1 /\ \A k \in Jobs : ~Busy(k)
  BY DEF Take, Attended, Typed, TypeOK, Types
<1>2. CASE queue = <<>>
  BY <1>1, <1>2 DEF Take, Attended, Busy
<1>3. CASE queue # <<>>
  <2>1. PICK h \in Jobs : h = Head(queue)
    BY <1>3 DEF Typed, TypeOK, Types
  <2>5. queue' = Tail(queue)
    BY <1>3 DEF Take
  <2>2. \A k \in Jobs \ {h} : ~Busy(k)'
    BY <1>1, <1>3, <2>1 DEF Take, Goto, Busy, Typed, TypeOK, Types
  <2>3. CASE SocketId(h) # NoId
    <3>1. takers' = 0 /\ running' = running /\ pc'[h] = "load"
      BY <1>1, <1>3, <2>1, <2>3 DEF Take, Goto, Typed, TypeOK, Types
    <3>2. running
      BY <1>1 DEF Attended
    <3>3. Busy(h)'
      BY <3>1 DEF Busy
    <3> QED
      BY <2>5, <2>2, <3>1, <3>2, <3>3 DEF Attended
  <2>4. CASE SocketId(h) = NoId
    <3>1. /\ takers' = IF queue' = <<>> THEN 0 ELSE 1
          /\ running' = (queue' # <<>>) /\ pc'[h] = "done"
      BY <1>1, <1>3, <2>1, <2>4, <2>5 DEF Take, Goto, Typed, TypeOK, Types
    <3>2. ~Busy(h)'
      BY <3>1 DEF Busy
    <3>3. \A k \in Jobs : ~Busy(k)'
      BY <2>2, <3>2
    <3>4. CASE queue' = <<>>
      <4>1. takers' = 0 /\ running' = FALSE
        BY <3>1, <3>4
      <4> QED
        BY <3>3, <3>4, <4>1 DEF Attended
    <3>5. CASE queue' # <<>>
      <4>1. takers' = 1 /\ running' = TRUE
        BY <3>1, <3>5
      <4> QED
        BY <3>3, <3>5, <4>1 DEF Attended
    <3> QED
      BY <3>4, <3>5
  <2> QED
    BY <2>3, <2>4
<1> QED
  BY <1>2, <1>3

LEMMA AttendedLogin ==
    ASSUME Typed, Attended, NEW j \in Jobs, LoginStep(j)
    PROVE  Attended'
<1>1. Busy(j) /\ takers = 0 /\ running /\ \A k \in Jobs \ {j} : ~Busy(k)
  BY DEF LoginStep, Load, Kick, Persist, SeatLogin, Busy, Attended, Typed, TypeOK, Types
<1>2. \A k \in Jobs \ {j} : ~Busy(k)'
  BY <1>1 DEF LoginStep, Load, Kick, Persist, SeatLogin, LoginEnds, Goto, Busy, Typed, TypeOK,
              Types
<1>3. CASE LoginEnds(j)
  <2>1. pc'[j] = "done" /\ queue' = queue
    BY <1>3 DEF LoginEnds, Goto, Typed, TypeOK, Types
  <2>2. ~Busy(j)'
    BY <2>1 DEF Busy
  <2>3. CASE queue = <<>>
    BY <1>1, <1>2, <1>3, <2>1, <2>2, <2>3 DEF LoginEnds, More, Attended
  <2>4. CASE queue # <<>>
    BY <1>1, <1>2, <1>3, <2>1, <2>2, <2>4 DEF LoginEnds, More, Attended
  <2> QED
    BY <2>3, <2>4
<1>4. CASE UNCHANGED logins /\ \E s \in {"loaded", "kicking", "persisting"} : Goto(j, s)
  <2>1. Busy(j)'
    BY <1>4 DEF Busy, Goto, Typed, TypeOK, Types
  <2> QED
    BY <1>1, <1>2, <1>4, <2>1, AttendedKept
<1> QED
  BY <1>3, <1>4 DEF LoginStep, Load, Kick, Persist, SeatLogin

LEMMA AttendedUpdate ==
    ASSUME Typed, Places, Attended, NEW x \in Actors \cup {NoActor}, Update(x)
    PROVE  Attended'
<1>1. PICK w \in writes : Read(w) \/ WriteBack(w) \/ NotFound(w) \/ Throws(w)
  BY DEF Update
<1>2. \/ pc' = pc
      \/ /\ w.by \in Jobs /\ pc[w.by] = "persisting"
         /\ \E s \in {"seat", "thrown"} : Goto(w.by, s)
  BY <1>1 DEF Read, WriteBack, NotFound, Throws, Done, Places, Awaited
<1>3. \A k \in Jobs : Busy(k)' <=> Busy(k)
  BY <1>2 DEF Busy, Goto, Typed, TypeOK, Types
<1> QED
  BY <1>3, AttendedKept DEF Update

LEMMA AttendedRest ==
    ASSUME Typed, Attended,
           \/ \E x \in Actors : Remove(x)
           \/ \E c \in Conns : Disconnect(c) \/ Release(c) \/ AccountUpdate(c)
                                 \/ AccountDisconnect(c)
           \/ Flush
           \/ UNCHANGED vars
    PROVE  Attended'
<1>1. UNCHANGED <<pc, queue, running, takers>>
  BY DEF Remove, Disconnect, Release, AccountUpdate, AccountDisconnect, Flush, vars
<1> QED
  BY <1>1, AttendedKept DEF Busy

LEMMA AttendedNext == Typed /\ Places /\ Attended /\ [Next]_vars => Attended'
BY AttendedJobs, AttendedAsked, AttendedTake, AttendedLogin, AttendedUpdate, AttendedRest
   DEF Next

\* Attended: exactly one run_login_queue as long as a login is queued.
THEOREM AttendedCorrect == Spec => []Attended
<1>1. Init => Typed /\ Places /\ Attended
  BY TypedInit, PlacesInit DEF Init, Attended, Busy
<1>2. Typed /\ Places /\ Attended /\ [Next]_vars => (Typed /\ Places /\ Attended)'
  BY TypedNext, PlacesNext, AttendedNext
<1> QED
  BY <1>1, <1>2, PTL DEF Spec

-----------------------------------------------------------------------------
(* One session per account.                                                  *)

\* The account of a creation that is past its put is one just created.  From its look
\* for a duplicate on, a login's account has no session but the one it removes.
Cleared ==
    /\ \A j \in Jobs : pc[j] = "created" => target[j] \in created
    /\ \A j \in Jobs : target[j] \notin created =>
          /\ pc[j] = "kicking" =>
                \A i \in SessionsOf(target[j]) : rm[j] # NoRemoval /\ rm[j].id = i
          /\ pc[j] \in {"persisting", "seat"} => SessionsOf(target[j]) = {}

Single == OneSession /\ Cleared

LEMMA SingleInit == Init => Single
BY NoJobIsNone DEF Init, Single, OneSession, Cleared, SessionsOf

\* A step that seats nobody, and lets no login past its removal.
LEMMA SingleKept ==
    ASSUME Typed, Single, created \subseteq created',
           \A k \in Jobs : pc[k] # "idle" => target'[k] = target[k],
           \A i \in Ids : bySocket'[i] = bySocket[i] \/ bySocket'[i] = NoJob,
           \A k \in Jobs : pc'[k] = "created" => pc[k] = "created" \/ target'[k] \in created',
           \A k \in Jobs : pc'[k] = "kicking" => /\ pc[k] = "kicking"
                                                  /\ \/ rm'[k] = rm[k]
                                                     \/ rm[k] # NoRemoval /\ rm'[k] # NoRemoval
                                                        /\ rm'[k].id = rm[k].id
                                                     \/ rm[k] # NoRemoval /\ bySocket'[rm[k].id] = NoJob,
           \A k \in Jobs : pc'[k] \in {"persisting", "seat"} =>
                \/ pc[k] \in {"persisting", "seat"}
                \/ pc[k] = "kicking" /\ rm[k] = NoRemoval
    PROVE  Single'
<1>1. \A i \in Ids : bySocket'[i] # NoJob =>
         /\ bySocket'[i] = bySocket[i] /\ bySocket[i] \in Jobs /\ pc[bySocket[i]] # "idle"
         /\ target'[bySocket'[i]] = target[bySocket[i]]
  BY DEF Typed, TypeOK, Types, AtHand
<1>2. OneSession'
  BY <1>1 DEF Single, OneSession
<1>3. \A k \in Jobs : pc[k] # "idle" => SessionsOf(target[k])' \subseteq SessionsOf(target[k])
  BY <1>1 DEF SessionsOf
<1>4. \A j \in Jobs : pc'[j] = "created" => target'[j] \in created'
  BY DEF Single, Cleared
<1>5. ASSUME NEW j \in Jobs, target'[j] \notin created', pc'[j] = "kicking",
             NEW i \in SessionsOf(target[j])'
      PROVE  rm'[j] # NoRemoval /\ rm'[j].id = i
  <2>1. pc[j] = "kicking" /\ target'[j] = target[j] /\ target[j] \notin created
    BY <1>5
  <2>2. i \in SessionsOf(target[j]) /\ bySocket'[i] # NoJob
    BY <1>3, <1>5, <2>1 DEF SessionsOf
  <2>3. rm[j] # NoRemoval /\ rm[j].id = i
    BY <2>1, <2>2 DEF Single, Cleared
  <2> QED
    BY <1>5, <2>2, <2>3
<1>6. ASSUME NEW j \in Jobs, target'[j] \notin created', pc'[j] \in {"persisting", "seat"}
      PROVE  SessionsOf(target[j])' = {}
  <2>1. pc[j] # "idle" /\ target'[j] = target[j] /\ target[j] \notin created
    BY <1>6
  <2>2. SessionsOf(target[j]) = {}
    BY <1>6, <2>1 DEF Single, Cleared
  <2> QED
    BY <1>3, <2>1, <2>2
<1> QED
  BY <1>2, <1>4, <1>5, <1>6 DEF Single, Cleared

\* A creation seats a session of an account just created; whom it displaces goes.
LEMMA SingleCreated ==
    ASSUME Typed, Single, NEW j \in Jobs, SeatCreated(j)
    PROVE  Single'
<1> DEFINE i0 == SocketId(j)
<1>1. /\ pc[j] = "created" /\ target[j] \in created /\ i0 \in Ids
      /\ UNCHANGED <<target, rm, created>>
  BY IdTyped DEF SeatCreated, Single, Cleared
<1>2. \A i \in Ids : bySocket'[i] = bySocket[i] \/ bySocket'[i] = j
  BY <1>1 DEF SeatCreated, Seat, Typed, TypeOK, Types
<1>3. pc' = [pc EXCEPT ![j] = "done"]
  BY DEF SeatCreated, Goto
<1>4. \A a \in Accounts \cup {NoAccount} : a \notin created => SessionsOf(a)' \subseteq SessionsOf(a)
  BY <1>1, <1>2 DEF SessionsOf
<1>5. OneSession'
  BY <1>1, <1>2 DEF Single, OneSession
<1>6. Cleared'
  BY <1>1, <1>3, <1>4 DEF Single, Cleared, Typed, TypeOK, Types
<1> QED
  BY <1>5, <1>6 DEF Single

\* A login seats a session of an account that has none, and no other login is past
\* its look for a duplicate.
LEMMA SingleSeat ==
    ASSUME Typed, Attended, Single, NEW j \in Jobs, SeatLogin(j)
    PROVE  Single'
<1>1. /\ pc[j] = "seat" /\ SocketId(j) \in Ids
      /\ UNCHANGED <<target, rm, created>>
  BY IdTyped DEF SeatLogin
<1>2. \A i \in Ids : bySocket'[i] = IF i = SocketId(j) THEN j ELSE bySocket[i]
  BY <1>1 DEF SeatLogin, Seat, Typed, TypeOK, Types
<1>3. pc' = [pc EXCEPT ![j] = "done"]
  BY DEF SeatLogin, LoginEnds, Goto
<1>4. target[j] \in created \/ SessionsOf(target[j]) = {}
  BY <1>1 DEF Single, Cleared
<1>5. OneSession'
  BY <1>1, <1>2, <1>4 DEF Single, OneSession, SessionsOf
<1>6. \A k \in Jobs : pc'[k] \notin {"kicking", "persisting", "seat"}
  BY <1>1, <1>3 DEF Attended, Busy, Typed, TypeOK, Types
<1>7. \A k \in Jobs : pc'[k] = "created" => pc[k] = "created"
  BY <1>3 DEF Typed, TypeOK, Types
<1> QED
  BY <1>1, <1>5, <1>6, <1>7 DEF Single, Cleared

\* Kick: the one session there is is the one to remove.
LEMMA SingleKick ==
    ASSUME Typed, Single, NEW j \in Jobs, Kick(j)
    PROVE  Single'
<1>1. /\ pc[j] = "loaded" /\ UNCHANGED <<target, bySocket, created>>
      /\ \E s \in {"kicking", "done"} : pc' = [pc EXCEPT ![j] = s]
      /\ \A k \in Jobs \ {j} : rm'[k] = rm[k]
  <2>1. /\ pc[j] = "loaded" /\ UNCHANGED <<target, bySocket, created>>
        /\ \E s \in {"kicking", "done"} : pc' = [pc EXCEPT ![j] = s]
    BY DEF Kick, LoginEnds, Goto, online, history
  <2>2. rm' = rm \/ \E r : rm' = [rm EXCEPT ![j] = r]
    BY DEF Kick
  <2>3. \A k \in Jobs \ {j} : rm'[k] = rm[k]
    BY <2>2 DEF Typed, TypeOK, Types, Actors
  <2> QED
    BY <2>1, <2>3
<1>2. OneSession'
  BY <1>1 DEF Single, OneSession
<1>3. ASSUME pc'[j] = "kicking", target[j] \notin created, NEW i \in SessionsOf(target[j])
      PROVE  rm'[j] # NoRemoval /\ rm'[j].id = i
  <2>1. \A k \in SessionsOf(target[j]) : k = i
    BY <1>3 DEF Single, OneSession, SessionsOf
  <2>2. PICK k \in SessionsOf(target[j]) : rm' = [rm EXCEPT ![j] = [id |-> k, acc |-> NoJob]]
    <3>1. SessionsOf(target[j]) # {}
      BY <1>3
    <3>2. pc'[j] # "done"
      BY <1>3
    <3> QED
      BY <3>1, <3>2 DEF Kick, Duplicates, LoginEnds, Goto, Typed, TypeOK, Types
  <2>3. [id |-> k, acc |-> NoJob] \in Removal /\ j \in Actors
    BY DEF Removal, SessionsOf, Actors
  <2> QED
    BY <2>1, <2>2, <2>3 DEF Typed, TypeOK, Types
<1>4. \A a : SessionsOf(a)' = SessionsOf(a)
  BY <1>1 DEF SessionsOf
<1>5. \A k \in Jobs \ {j} : pc'[k] = pc[k]
  BY <1>1 DEF Typed, TypeOK, Types
<1>6. pc'[j] \in {"kicking", "done"}
  BY <1>1 DEF Typed, TypeOK, Types
<1> QED
  BY <1>1, <1>2, <1>3, <1>4, <1>5, <1>6 DEF Single, Cleared

LEMMA SingleJobs ==
    ASSUME Typed, Attended, Single, NEW j \in Jobs,
           AccountCreate(j) \/ CreateStep(j) \/ AccountLogin(j) \/ LoginStep(j)
    PROVE  Single'
<1> USE DEF Typed, TypeOK, Types
<1>1. CASE AccountCreate(j) \/ AccountLogin(j)
  <2>1. /\ pc[j] = "idle" /\ \E s \in {"exists", "queued"} : pc' = [pc EXCEPT ![j] = s]
        /\ \E t : target' = [target EXCEPT ![j] = t]
        /\ UNCHANGED <<bySocket, rm, created>>
    BY <1>1 DEF AccountCreate, AccountLogin, Asks, NextJob, Goto
  <2> QED
    BY <2>1, SingleKept
<1>2. CASE Exists(j)
  <2>1. /\ \E s \in {"put", "done"} : pc' = [pc EXCEPT ![j] = s]
        /\ UNCHANGED <<target, bySocket, rm, created>>
    BY <1>2 DEF Exists, Goto
  <2> QED
    BY <2>1, SingleKept
<1>3. CASE PutAccount(j)
  <2>1. /\ \/ pc' = [pc EXCEPT ![j] = "created"] /\ target[j] \in created'
           \/ pc' = [pc EXCEPT ![j] = "done"]
        /\ created \subseteq created'
        /\ UNCHANGED <<target, bySocket, rm>>
    BY <1>3 DEF PutAccount, Goto
  <2> QED
    BY <2>1, SingleKept
<1>4. CASE Load(j)
  <2>1. /\ \E s \in {"loaded", "done"} : pc' = [pc EXCEPT ![j] = s]
        /\ UNCHANGED <<target, bySocket, rm, created>>
    BY <1>4 DEF Load, LoginEnds, Goto
  <2> QED
    BY <2>1, SingleKept
<1>5. CASE Persist(j)
  <2>1. /\ pc[j] = "kicking" /\ rm[j] = NoRemoval /\ pc' = [pc EXCEPT ![j] = "persisting"]
        /\ UNCHANGED <<target, bySocket, rm, created>>
    BY <1>5 DEF Persist, Goto
  <2> QED
    BY <2>1, SingleKept
<1> QED
  BY <1>1, <1>2, <1>3, <1>4, <1>5, SingleCreated, SingleSeat, SingleKick
     DEF CreateStep, LoginStep

LEMMA SingleTake == ASSUME Typed, Single, Take PROVE Single'
<1>1. /\ \A k \in Jobs : pc'[k] \in {pc[k], "load", "done"}
      /\ UNCHANGED <<target, bySocket, rm, created>>
  BY DEF Take, Goto, Typed, TypeOK, Types
<1> QED
  BY <1>1, SingleKept

LEMMA SingleUpdate ==
    ASSUME Typed, Places, Single, NEW x \in Actors \cup {NoActor}, Update(x)
    PROVE  Single'
<1>1. PICK w \in writes : Read(w) \/ WriteBack(w) \/ NotFound(w) \/ Throws(w)
  BY DEF Update
<1>2. \/ pc' = pc
      \/ /\ w.by \in Jobs /\ pc[w.by] = "persisting"
         /\ \E s \in {"seat", "thrown"} : pc' = [pc EXCEPT ![w.by] = s]
  BY <1>1 DEF Read, WriteBack, NotFound, Throws, Done, Places, Awaited, Goto
<1>3. UNCHANGED <<target, bySocket, rm, created>>
  BY DEF Update, online
<1> QED
  BY <1>2, <1>3, SingleKept DEF Typed, TypeOK, Types

\* A removal only empties: what it clears is what it was started for.
LEMMA SingleRemove ==
    ASSUME Typed, Single, NEW x \in Actors, Remove(x)
    PROVE  Single'
<1>1. UNCHANGED <<pc, target, created>>
  BY DEF Remove, jobs
<1>2. rm[x] # NoRemoval /\ rm[x] \in Removal /\ rm[x].id \in Ids
  BY DEF Remove, Find, Erase, Removal, Typed, TypeOK, Types
<1>3. \A k \in Jobs : k # x => rm'[k] = rm[k]
  BY DEF Remove, Find, Erase, Actors, Typed, TypeOK, Types
<1>4. CASE Find(x)
  <2>1. bySocket' = bySocket
    BY <1>4 DEF Find, online
  <2>2. CASE bySocket[rm[x].id] = NoJob
    BY <1>1, <1>2, <1>3, <2>1, <2>2, SingleKept
  <2>3. CASE bySocket[rm[x].id] # NoJob
    <3>1. rm' = [rm EXCEPT ![x] = [rm[x] EXCEPT !.acc = bySocket[rm[x].id]]]
      BY <1>4, <2>3 DEF Find
    <3>2. bySocket[rm[x].id] \in Jobs
      BY <1>2, <2>3 DEF Typed, TypeOK, Types
    <3>3. [rm[x] EXCEPT !.acc = bySocket[rm[x].id]] \in Removal
      BY <1>2, <3>2 DEF Removal
    <3>4. rm'[x] \in Removal /\ rm'[x].id = rm[x].id
      BY <1>2, <3>1, <3>3 DEF Removal, Typed, TypeOK, Types
    <3> QED
      BY <1>1, <1>2, <1>3, <2>1, <3>4, SingleKept
  <2> QED
    BY <2>2, <2>3
<1>5. CASE Erase(x)
  <2>1. bySocket' = [bySocket EXCEPT ![rm[x].id] = NoJob]
    BY <1>5 DEF Erase
  <2>2. /\ \A i \in Ids : bySocket'[i] = bySocket[i] \/ bySocket'[i] = NoJob
        /\ bySocket'[rm[x].id] = NoJob
    BY <1>2, <2>1 DEF Typed, TypeOK, Types
  <2> QED
    BY <1>1, <1>2, <1>3, <2>2, SingleKept
<1> QED
  BY <1>4, <1>5 DEF Remove

LEMMA SingleRest ==
    ASSUME Typed, Single,
           \/ \E c \in Conns : Disconnect(c) \/ Release(c) \/ AccountUpdate(c)
                                 \/ AccountDisconnect(c)
           \/ Flush
           \/ UNCHANGED vars
    PROVE  Single'
<1>1. UNCHANGED <<pc, target, bySocket, created>>
  BY DEF Disconnect, Release, AccountUpdate, AccountDisconnect, Flush, vars, jobs, online, history
<1>2. \A k \in Jobs : rm'[k] = rm[k]
  <2>1. rm' = rm \/ \E c \in Conns : \E r : rm' = [rm EXCEPT ![c] = r]
    BY DEF Disconnect, Release, AccountUpdate, AccountDisconnect, StartRemoval, Flush, vars
  <2>2. Jobs \cap Conns = {}
    BY AccountsAssumption
  <2> QED
    BY <2>1, <2>2 DEF Actors, Typed, TypeOK, Types
<1> QED
  BY <1>1, <1>2, SingleKept

LEMMA SingleNext == Typed /\ Places /\ Attended /\ Single /\ [Next]_vars => Single'
BY SingleJobs, SingleTake, SingleUpdate, SingleRemove, SingleRest DEF Next

\* OneSession: an account stored from the start never has two sessions.
THEOREM OneSessionCorrect == Spec => []OneSession
<1>1. Init => Typed /\ Places /\ Attended /\ Single
  BY TypedInit, PlacesInit, SingleInit DEF Init, Attended, Busy
<1>2. Typed /\ Places /\ Attended /\ Single /\ [Next]_vars
        => (Typed /\ Places /\ Attended /\ Single)'
  BY TypedNext, PlacesNext, AttendedNext, SingleNext
<1>3. Single => OneSession
  BY DEF Single
<1> QED
  BY <1>1, <1>2, <1>3, PTL DEF Spec

-----------------------------------------------------------------------------
(* The newest Appearance is kept.                                            *)

Deep == {"created", "loaded", "kicking", "persisting", "seat"}
WritesOf(a) == {w \in writes : w.account = a}
Delays(a) == last[a] # 0 /\ \E i \in SessionsOf(a) : delayed[bySocket[i]] = last[a]

\* Only a job that is done has a session, or has delayed anything.
Rested ==
    /\ \A j \in Jobs : pc[j] # "done" => delayed[j] = 0
    /\ \A i \in Ids : bySocket[i] # NoJob => pc[bySocket[i]] = "done"

\* What is online, about to be, or updated, is in the database.
Rooted ==
    /\ \A j \in Jobs : pc[j] \in Deep => db[target[j]] # NoRecord
    /\ \A i \in Ids : bySocket[i] # NoJob => db[target[bySocket[i]]] # NoRecord
    /\ \A a \in Accounts : last[a] # 0 => db[a] # NoRecord

\* Of an account that is not raced: one session, one update, which has read what is
\* stored; and what is delayed, or on its way, is the newest, or else what is delayed is.
Tidy(a) ==
    /\ \A i, k \in SessionsOf(a) : i = k
    /\ \A v, w \in WritesOf(a) : v = w
    /\ \A w \in WritesOf(a) : w.base \in {NoRecord, db[a]}
    /\ \A i \in SessionsOf(a) : delayed[bySocket[i]] \in {0, last[a]}
    /\ \A w \in WritesOf(a) : w.app \in {0, last[a]} \/ Delays(a)
    /\ last[a] = 0 \/ Kept(a)

Tidied == \A a \in Accounts \ raced : Tidy(a)

LEMMA KeptIs ==
    ASSUME NEW a, last[a] # 0
    PROVE  Kept(a) <=> \/ Delays(a)
                       \/ \E w \in WritesOf(a) : w.app = last[a]
                       \/ db[a] # NoRecord /\ db[a].app = last[a]
BY DEF Kept, Delays, WritesOf

LEMMA NotMet ==
    ASSUME NEW a, NEW W, a \notin Meets(W), NEW w \in W, w.account = a
    PROVE  WritesOf(a) = {}
BY DEF Meets, WritesOf

\* The account's sessions change, and W is written, with nothing lost.
LEMMA Moved ==
    ASSUME NEW a, Tidy(a), NEW W, writes' = writes \cup W, a \notin Meets(W),
           \A w \in W : w.account = a => w.base = NoRecord /\ w.app \in {0, last[a]},
           \A v, w \in W : v.account = a /\ w.account = a => v = w,
           db'[a] = db[a], last'[a] = last[a],
           \A i, k \in SessionsOf(a)' : i = k,
           \A i \in SessionsOf(a)' : delayed'[bySocket'[i]] \in {0, last[a]},
           Delays(a) => Delays(a)' \/ \E w \in W : w.account = a /\ w.app = last[a]
    PROVE  Tidy(a)'
<1>1. CASE \E w \in W : w.account = a
  <2> PICK z \in W : z.account = a
    BY <1>1
  <2>1. WritesOf(a) = {}
    BY NotMet
  <2>2. WritesOf(a)' = {z}
    BY <2>1 DEF WritesOf
  <2>3. z.base = NoRecord /\ z.app \in {0, last[a]}
    OBVIOUS
  <2>4. Delays(a) => Delays(a)' \/ z.app = last[a]
    OBVIOUS
  <2>5. last[a] = 0 \/ Kept(a)'
    <3> SUFFICES ASSUME last[a] # 0 PROVE Kept(a)'
      OBVIOUS
    <3>0. Kept(a)
      BY DEF Tidy
    <3>1. \/ Delays(a)
          \/ db[a] # NoRecord /\ db[a].app = last[a]
      BY <2>1, <3>0, KeptIs
    <3>2. \/ Delays(a)'
          \/ \E w \in WritesOf(a)' : w.app = last'[a]
          \/ db'[a] # NoRecord /\ db'[a].app = last'[a]
      BY <2>2, <2>4, <3>1
    <3> QED
      BY <3>2 DEF Kept, Delays, WritesOf
  <2> QED
    BY <2>2, <2>3, <2>5 DEF Tidy
<1>2. CASE \A w \in W : w.account # a
  <2>1. WritesOf(a)' = WritesOf(a)
    BY <1>2 DEF WritesOf
  <2>2. Delays(a) => Delays(a)'
    BY <1>2
  <2>3. last[a] = 0 \/ Kept(a)'
    <3> SUFFICES ASSUME last[a] # 0 PROVE Kept(a)'
      OBVIOUS
    <3>0. Kept(a)
      BY DEF Tidy
    <3>1. \/ Delays(a)'
          \/ \E w \in WritesOf(a)' : w.app = last'[a]
          \/ db'[a] # NoRecord /\ db'[a].app = last'[a]
      BY <2>1, <2>2, <3>0, KeptIs
    <3> QED
      BY <3>1 DEF Kept, Delays, WritesOf
  <2> QED
    BY <2>1, <2>2, <2>3 DEF Tidy
<1> QED BY <1>1, <1>2

\* Sessions, and what they have delayed, stay as they are.
SameSessions(a) ==
    /\ SessionsOf(a)' = SessionsOf(a)
    /\ \A i \in SessionsOf(a) : delayed'[bySocket'[i]] = delayed[bySocket[i]]

LEMMA SameDelays ==
    ASSUME NEW a, Tidy(a), SameSessions(a), last'[a] = last[a]
    PROVE  /\ Delays(a)' = Delays(a)
           /\ \A i, k \in SessionsOf(a)' : i = k
           /\ \A i \in SessionsOf(a)' : delayed'[bySocket'[i]] \in {0, last[a]}
<1>1. Delays(a)' <=> Delays(a)
  BY DEF SameSessions, Delays
<1> QED
  BY <1>1 DEF SameSessions, Tidy, Delays

LEMMA SessionsSame ==
    ASSUME Typed, Rested, NEW a, UNCHANGED <<bySocket, delayed>>,
           \A j \in Jobs : pc[j] = "done" => target'[j] = target[j]
    PROVE  SameSessions(a)
<1>1. \A i \in Ids : bySocket[i] # NoJob => bySocket[i] \in Jobs /\ pc[bySocket[i]] = "done"
  BY SessionTarget DEF Rested
<1>2. \A i \in Ids : bySocket[i] # NoJob => target'[bySocket[i]] = target[bySocket[i]]
  BY <1>1
<1>3. SessionsOf(a)' = SessionsOf(a)
  BY <1>2 DEF SessionsOf
<1> QED
  BY <1>3 DEF SameSessions

\* A step of no account's Appearance.
LEMMA QuietTidied ==
    ASSUME Typed, Rested, Tidied, UNCHANGED <<bySocket, delayed, writes, db, last>>, raced \subseteq raced',
           \A j \in Jobs : pc[j] = "done" => target'[j] = target[j]
    PROVE  Tidied'
<1> SUFFICES ASSUME NEW a \in Accounts \ raced' PROVE Tidy(a)'
  BY DEF Tidied
<1>1. Tidy(a) /\ SameSessions(a)
  BY SessionsSame DEF Tidied
<1>2. writes' = writes \cup {} /\ a \notin Meets({})
  BY DEF Meets
<1> QED
  BY <1>1, <1>2, SameDelays, Moved

\* A step that adds the update w.
LEMMA SpawnTidied ==
    ASSUME Typed, Rested, Tidied, UNCHANGED <<bySocket, delayed, db, last>>, NEW w,
           w.base = NoRecord, w.app = 0, Spawn({w}), raced' = raced \cup Meets({w}),
           target' = target
    PROVE  Tidied'
<1> SUFFICES ASSUME NEW a \in Accounts \ raced' PROVE Tidy(a)'
  BY DEF Tidied
<1>1. Tidy(a) /\ SameSessions(a)
  BY SessionsSame DEF Tidied
<1>2. writes' = writes \cup {w} /\ a \notin Meets({w})
  BY DEF Spawn
<1> DEFINE W == {w}
<1>3. /\ \A v \in W : v.account = a => v.base = NoRecord /\ v.app \in {0, last[a]}
      /\ \A u, v \in W : u.account = a /\ v.account = a => u = v
      /\ writes' = writes \cup W /\ a \notin Meets(W)
  BY <1>2
<1> HIDE DEF W
<1> QED
  BY <1>1, <1>3, SameDelays, Moved

LEMMA SeatTidied ==
    ASSUME Typed, Rested, Tidied, NEW j \in Jobs, pc[j] \notin {"idle", "done"}, Seat(j),
           UNCHANGED <<target, delayed, writes, db, last>>
    PROVE  Tidied'
<1> SUFFICES ASSUME NEW a \in Accounts \ raced' PROVE Tidy(a)'
  BY DEF Tidied
<1> DEFINE i == SocketId(j)
<1>1. i \in Ids /\ delayed[j] = 0 /\ j # NoJob
  BY IdTyped, NoJobIsNone DEF Rested
<1>2. /\ bySocket' = [bySocket EXCEPT ![i] = j]
      /\ raced' = raced \cup {target[bySocket[k]] : k \in SessionsOf(target[j])}
                    \cup {target[k] : k \in {bySocket[i]} \ {NoJob}}
  BY DEF Seat
<1>3. Tidy(a)
  BY <1>2 DEF Tidied
<1>4. writes' = writes \cup {} /\ a \notin Meets({})
  BY DEF Meets
<1>5. bySocket'[i] = j /\ \A k \in Ids \ {i} : bySocket'[k] = bySocket[k]
  BY <1>1, <1>2 DEF Typed, TypeOK, Types
<1> HIDE DEF i
<1>6. CASE a = target[j]
  <2>1. SessionsOf(a) = {}
    BY <1>2, <1>6 DEF SessionsOf
  <2>2. SessionsOf(a)' \subseteq {i}
    BY <1>5, <2>1 DEF SessionsOf
  <2>3. \A k \in SessionsOf(a)' : delayed'[bySocket'[k]] = 0
    BY <1>1, <1>5, <2>2
  <2>4. ~Delays(a)
    BY <2>1 DEF Delays
  <2> QED
    BY <1>3, <1>4, <2>2, <2>3, <2>4, Moved
<1>7. CASE a # target[j]
  <2>1. i \notin SessionsOf(a)
    BY <1>2 DEF SessionsOf
  <2>2. SessionsOf(a)' = SessionsOf(a)
    BY <1>1, <1>5, <1>7, <2>1 DEF SessionsOf
  <2>3. SameSessions(a)
    BY <1>5, <2>1, <2>2 DEF SameSessions, SessionsOf
  <2> QED
    BY <1>3, <1>4, <2>3, SameDelays, Moved
<1> QED BY <1>6, <1>7
LEMMA PutTidied ==
    ASSUME Typed, Rested, Rooted, Tidied, NEW j \in Jobs, PutAccount(j)
    PROVE  Tidied'
<1>1. /\ UNCHANGED <<bySocket, delayed, writes, last, target>>
      /\ raced \subseteq raced'
  BY DEF PutAccount
<1>2. target[j] \in Accounts
  BY DEF PutAccount, Typed, AtHand
<1>3. CASE UNCHANGED <<db, raced>>
  BY <1>1, <1>3, QuietTidied
<1>4. CASE /\ db' = [db EXCEPT ![target[j]] = [number |-> j, app |-> 0]]
           /\ raced' = IF db[target[j]] = NoRecord THEN raced ELSE raced \cup {target[j]}
  <2> SUFFICES ASSUME NEW a \in Accounts \ raced' PROVE Tidy(a)'
    BY DEF Tidied
  <2>1. Tidy(a) /\ SameSessions(a)
    BY <1>1, SessionsSame DEF Tidied
  <2>2. CASE a # target[j]
    <3>1. db'[a] = db[a]
      BY <1>2, <1>4, <2>2 DEF Typed, TypeOK, Types
    <3>2. writes' = writes \cup {} /\ a \notin Meets({})
      BY <1>1 DEF Meets
    <3> QED
      BY <1>1, <2>1, <3>1, <3>2, SameDelays, Moved
  <2>3. CASE a = target[j]
    <3>1. db[a] = NoRecord
      BY <1>4, <2>3
    <3>2. last[a] = 0
      BY <3>1 DEF Rooted
    <3>3. WritesOf(a)' = WritesOf(a)
      BY <1>1 DEF WritesOf
    <3>4. \A w \in WritesOf(a)' : w.base = NoRecord
      BY <2>1, <3>1, <3>3 DEF Tidy
    <3>5. Delays(a)' = Delays(a) /\ (\A i, k \in SessionsOf(a)' : i = k)
          /\ \A i \in SessionsOf(a)' : delayed'[bySocket'[i]] \in {0, last[a]}
      BY <1>1, <2>1, SameDelays
    <3> QED
      BY <1>1, <2>1, <3>2, <3>3, <3>4, <3>5 DEF Tidy
  <2> QED BY <2>2, <2>3
<1> QED
  BY <1>3, <1>4 DEF PutAccount

LEMMA EraseTidied ==
    ASSUME Typed, Rested, Tidied, NEW x \in Actors, Erase(x),
           UNCHANGED <<target, delayed, db, last>>
    PROVE  Tidied'
<1> SUFFICES ASSUME NEW a \in Accounts \ raced' PROVE Tidy(a)'
  BY DEF Tidied
<1> DEFINE i == rm[x].id
           j == rm[x].acc
           kept == IF delayed[j] = 0 THEN {} ELSE {NewWrite(target[j], delayed[j], x)}
           hit == {bySocket[i], byMember[number[j]]}
<1>1. rm[x] \in Removal /\ i \in Ids /\ j \in Jobs /\ j # NoJob
  BY NoJobIsNone DEF Erase, Typed, TypeOK, Types, Removal
<1>2. /\ bySocket' = [bySocket EXCEPT ![i] = NoJob]
      /\ writes' = writes \cup kept
      /\ raced' = raced \cup Meets(kept)
            \cup (IF hit = {j} THEN {} ELSE {target[k] : k \in (hit \cup {j}) \ {NoJob}})
  BY DEF Erase, Spawn
<1>3. Tidy(a) /\ a \notin Meets(kept)
  BY <1>2 DEF Tidied
<1>4. bySocket'[i] = NoJob /\ \A k \in Ids \ {i} : bySocket'[k] = bySocket[k]
  BY <1>1, <1>2 DEF Typed, TypeOK, Types
<1>5. i \in SessionsOf(a) => bySocket[i] = j
  <2> SUFFICES ASSUME i \in SessionsOf(a), hit # {j} PROVE FALSE
    OBVIOUS
  <2>1. bySocket[i] \in (hit \cup {j}) \ {NoJob} /\ target[bySocket[i]] = a
    BY DEF SessionsOf
  <2> QED
    BY <1>2, <2>1
<1>6. target[j] = a => bySocket[i] = j /\ i \in SessionsOf(a)
  <2> SUFFICES ASSUME target[j] = a PROVE bySocket[i] = j /\ i \in SessionsOf(a)
    OBVIOUS
  <2>1. hit = {j}
    <3> SUFFICES ASSUME hit # {j} PROVE FALSE
      OBVIOUS
    <3>1. j \in (hit \cup {j}) \ {NoJob}
      BY <1>1
    <3> QED
      BY <1>2, <3>1
  <2> QED
    BY <1>1, <2>1 DEF SessionsOf
<1> DEFINE n == NewWrite(target[j], delayed[j], x)
<1>7. n.account = target[j] /\ n.app = delayed[j] /\ n.base = NoRecord
  BY DEF NewWrite
<1>8. \A w \in kept : w.account = a => w.base = NoRecord /\ w.app \in {0, last[a]}
  <2>1. target[j] = a => delayed[j] \in {0, last[a]}
    BY <1>3, <1>6 DEF Tidy
  <2> QED
    BY <1>7, <2>1
<1>9. \A v, w \in kept : v.account = a /\ w.account = a => v = w
  OBVIOUS
<1>10. SessionsOf(a)' = SessionsOf(a) \ {i}
  BY <1>1, <1>4 DEF SessionsOf
<1>11. \A k \in SessionsOf(a)' : k \in SessionsOf(a) /\ bySocket'[k] = bySocket[k]
  BY <1>4, <1>10 DEF SessionsOf
<1>12. Delays(a) => Delays(a)' \/ \E w \in kept : w.account = a /\ w.app = last[a]
  <2> SUFFICES ASSUME Delays(a) PROVE Delays(a)' \/ \E w \in kept : w.account = a /\ w.app = last[a]
    OBVIOUS
  <2> PICK k \in SessionsOf(a) : delayed[bySocket[k]] = last[a]
    BY DEF Delays
  <2>0. last[a] # 0
    BY DEF Delays
  <2>1. CASE k = i
    <3>1. bySocket[i] = j /\ target[j] = a
      BY <2>1, <1>5 DEF SessionsOf
    <3>2. kept = {n}
      BY <2>0, <2>1, <3>1
    <3> QED
      BY <2>1, <3>1, <3>2, <1>7
  <2>2. CASE k # i
    BY <2>0, <2>2, <1>10, <1>11 DEF Delays
  <2> QED BY <2>1, <2>2
<1>13. /\ \A k, l \in SessionsOf(a)' : k = l
       /\ \A k \in SessionsOf(a)' : delayed'[bySocket'[k]] \in {0, last[a]}
  BY <1>3, <1>11 DEF Tidy
<1>14. db'[a] = db[a] /\ last'[a] = last[a]
  OBVIOUS
<1> HIDE DEF kept
<1> QED
  BY <1>2, <1>3, <1>8, <1>9, <1>12, <1>13, <1>14, Moved

LEMMA FlushTidied ==
    ASSUME Typed, Rested, Tidied, Flush
    PROVE  Tidied'
<1> SUFFICES ASSUME NEW a \in Accounts \ raced' PROVE Tidy(a)'
  BY DEF Tidied
<1> DEFINE flushed == {bySocket[i] : i \in Ids} \ {NoJob}
           W == {NewWrite(target[j], delayed[j], NoActor) : j \in {k \in flushed : delayed[k] # 0}}
<1>1. /\ delayed' = [j \in Jobs |-> IF j \in flushed THEN 0 ELSE delayed[j]]
      /\ writes' = writes \cup W
      /\ raced' = raced \cup Meets(W)
      /\ UNCHANGED <<bySocket, target, db, last>>
  BY DEF Flush, Spawn
<1>2. Tidy(a) /\ a \notin Meets(W)
  BY <1>1 DEF Tidied
<1>3. SessionsOf(a)' = SessionsOf(a)
  BY <1>1 DEF SessionsOf
<1>4. \A i \in SessionsOf(a) : bySocket[i] \in flushed /\ bySocket[i] \in Jobs
  BY SessionTarget DEF SessionsOf
<1>5. \A i \in SessionsOf(a)' : delayed'[bySocket'[i]] = 0
  BY <1>1, <1>3, <1>4
<1>6. \A w \in W : w.account = a =>
          \E i \in SessionsOf(a) : /\ w = NewWrite(a, delayed[bySocket[i]], NoActor)
                                   /\ delayed[bySocket[i]] # 0
  <2> TAKE w \in W
  <2> PICK j \in flushed : delayed[j] # 0 /\ w = NewWrite(target[j], delayed[j], NoActor)
    OBVIOUS
  <2> PICK i \in Ids : bySocket[i] = j /\ j # NoJob
    OBVIOUS
  <2>1. w.account = target[j]
    BY DEF NewWrite
  <2>2. w.account = a => i \in SessionsOf(a)
    BY <2>1 DEF SessionsOf
  <2> QED
    BY <2>1, <2>2
<1>7. \A w \in W : w.account = a => w.base = NoRecord /\ w.app \in {0, last[a]}
  BY <1>2, <1>6 DEF Tidy, NewWrite
<1>8. \A v, w \in W : v.account = a /\ w.account = a => v = w
  BY <1>2, <1>6 DEF Tidy
<1>9. Delays(a) => \E w \in W : w.account = a /\ w.app = last[a]
  <2> SUFFICES ASSUME Delays(a) PROVE \E w \in W : w.account = a /\ w.app = last[a]
    OBVIOUS
  <2> PICK i \in SessionsOf(a) : delayed[bySocket[i]] = last[a]
    BY DEF Delays
  <2> DEFINE n == NewWrite(target[bySocket[i]], delayed[bySocket[i]], NoActor)
  <2>1. delayed[bySocket[i]] # 0 /\ bySocket[i] \in flushed /\ target[bySocket[i]] = a
    BY <1>4 DEF Delays, SessionsOf
  <2>2. n \in W
    BY <2>1
  <2>3. n.account = a /\ n.app = last[a]
    BY <2>1 DEF NewWrite
  <2> QED
    BY <2>2, <2>3
<1>10. \A i, k \in SessionsOf(a)' : i = k
  BY <1>2, <1>3 DEF Tidy
<1> HIDE DEF W
<1> QED
  BY <1>1, <1>2, <1>5, <1>7, <1>8, <1>9, <1>10, Moved
\* Of the account whose client updates it, there is a new newest.
LEMMA NewestTidied ==
    ASSUME Typed, Rested, Tidied, NEW c \in Conns, AccountUpdate(c),
           UpdateDelayed(c, bySocket[c]) \/ UpdateMany(c, bySocket[c])
    PROVE  Tidied'
<1> SUFFICES ASSUME NEW a \in Accounts \ raced' PROVE Tidy(a)'
  BY DEF Tidied
<1> DEFINE j == bySocket[c]
           t == target[j]
           n == NewWrite(t, stamp', NoActor)
<1>1. c \in Ids /\ j # NoJob /\ UNCHANGED <<bySocket, target, db>>
  BY DEF AccountUpdate, Ids
<1>2. j \in Jobs /\ t \in Accounts /\ c \in SessionsOf(t)
  BY <1>1, SessionTarget DEF SessionsOf
<1>3. stamp' = stamp + 1 /\ stamp' # 0 /\ last' = [last EXCEPT ![t] = stamp']
  BY DEF UpdateDelayed, UpdateMany, Typed, TypeOK, Types, Values
<1>4. \E d \in {0, stamp'} : delayed' = [delayed EXCEPT ![j] = d]
  BY DEF UpdateDelayed, UpdateMany, Superseded
<1>5. /\ UpdateDelayed(c, j) => writes' = writes /\ raced' = raced /\ delayed' = [delayed EXCEPT ![j] = stamp']
      /\ UpdateMany(c, j) => /\ writes' = writes \cup {n} /\ raced' = raced \cup Meets({n})
                             /\ delayed' = [delayed EXCEPT ![j] = 0]
  BY DEF UpdateDelayed, UpdateMany, Spawn, Superseded
<1>6. raced \subseteq raced' /\ Tidy(a)
  BY <1>5 DEF Tidied
<1>7. n.account = t /\ n.app = stamp' /\ n.base = NoRecord
  BY DEF NewWrite
<1>8. SessionsOf(a)' = SessionsOf(a)
  BY <1>1 DEF SessionsOf
<1> HIDE DEF n
<1>9. CASE a # t
  <2>1. \A i \in SessionsOf(a) : bySocket[i] # j /\ bySocket[i] \in Jobs
    BY <1>9, SessionTarget DEF SessionsOf
  <2>2. \A i \in SessionsOf(a) : delayed'[bySocket'[i]] = delayed[bySocket[i]]
    BY <1>1, <1>4, <2>1 DEF Typed, TypeOK, Types
  <2>3. last'[a] = last[a] /\ db'[a] = db[a]
    BY <1>1, <1>2, <1>3, <1>9 DEF Typed, TypeOK, Types
  <2>4. SameSessions(a)
    BY <1>8, <2>2 DEF SameSessions
  <2>5. \/ writes' = writes \cup {} /\ a \notin Meets({})
        \/ writes' = writes \cup {n} /\ a \notin Meets({n})
    BY <1>5 DEF Meets
  <2>6. \A W : W \in {{}, {n}} => \A w \in W : w.account # a
    BY <1>7, <1>9
  <2>7. /\ Delays(a)' = Delays(a)
        /\ \A i, k \in SessionsOf(a)' : i = k
        /\ \A i \in SessionsOf(a)' : delayed'[bySocket'[i]] \in {0, last[a]}
    BY <1>6, <2>3, <2>4, SameDelays
  <2>8. ASSUME NEW W \in {{}, {n}}, writes' = writes \cup W, a \notin Meets(W)
        PROVE  Tidy(a)'
    <3>1. \A w \in W : w.account # a
      BY <2>6
    <3> HIDE DEF n
    <3> QED
      BY <1>6, <2>3, <2>7, <2>8, <3>1, Moved
  <2> QED
    BY <2>5, <2>8
<1>10. CASE a = t /\ UpdateDelayed(c, j)
  <2>1. \A i \in SessionsOf(a) : i = c
    BY <1>2, <1>6, <1>10 DEF Tidy
  <2>2. last'[a] = stamp' /\ delayed'[j] = stamp'
    BY <1>2, <1>3, <1>5, <1>10 DEF Typed, TypeOK, Types
  <2>3. \A i \in SessionsOf(a)' : delayed'[bySocket'[i]] = last'[a]
    BY <1>1, <1>8, <2>1, <2>2
  <2>4. Delays(a)'
    <3>1. last'[a] # 0
      BY <1>3, <2>2
    <3>2. c \in SessionsOf(a)'
      BY <1>2, <1>8, <1>10
    <3> QED
      BY <2>3, <3>1, <3>2 DEF Delays
  <2>5. WritesOf(a)' = WritesOf(a)
    BY <1>5, <1>10 DEF WritesOf
  <2>6. Kept(a)'
    BY <2>4 DEF Delays, Kept
  <2>7. \A w \in WritesOf(a)' : w.base \in {NoRecord, db'[a]}
    BY <1>1, <1>6, <2>5 DEF Tidy
  <2>8. /\ \A i, k \in SessionsOf(a)' : i = k
        /\ \A v, w \in WritesOf(a)' : v = w
    BY <1>6, <1>8, <2>5 DEF Tidy
  <2> QED
    BY <2>3, <2>4, <2>6, <2>7, <2>8 DEF Tidy
<1>11. CASE a = t /\ UpdateMany(c, j)
  <2>1. \A i \in SessionsOf(a) : i = c
    BY <1>2, <1>6, <1>11 DEF Tidy
  <2>2. last'[a] = stamp' /\ delayed'[j] = 0
    BY <1>2, <1>3, <1>5, <1>11 DEF Typed, TypeOK, Types
  <2>3. \A i \in SessionsOf(a)' : delayed'[bySocket'[i]] = 0
    BY <1>1, <1>8, <2>1, <2>2
  <2>4. WritesOf(a) = {}
    <3> DEFINE W == {n}
    <3>1. a \notin Meets(W) /\ n \in W /\ n.account = a
      BY <1>5, <1>7, <1>11
    <3> HIDE DEF W
    <3> QED
      BY <3>1, NotMet
  <2>5. WritesOf(a)' = {n}
    BY <1>5, <1>7, <1>11, <2>4 DEF WritesOf
  <2>6. \A w \in WritesOf(a)' : w.base = NoRecord /\ w.app = last'[a]
    BY <1>7, <2>2, <2>5
  <2>7. Kept(a)'
    BY <2>5, <2>6 DEF Kept, WritesOf
  <2>8. /\ \A i, k \in SessionsOf(a)' : i = k
        /\ \A v, w \in WritesOf(a)' : v = w
    BY <1>6, <1>8, <2>5 DEF Tidy
  <2> QED
    BY <2>3, <2>6, <2>7, <2>8 DEF Tidy
<1> QED
  BY <1>9, <1>10, <1>11

LEMMA AccountUpdateTidied ==
    ASSUME Typed, Rested, Tidied, NEW c \in Conns, AccountUpdate(c)
    PROVE  Tidied'
<1> DEFINE j == bySocket[c]
           n == NewWrite(target[j], 0, c)
<1>1. CASE UpdateOther(c, j)
  <2>1. /\ Spawn({n}) /\ raced' = raced \cup Meets({n})
        /\ UNCHANGED <<bySocket, delayed, db, last, target>>
    BY <1>1 DEF UpdateOther, AccountUpdate
  <2>2. n.base = NoRecord /\ n.app = 0
    BY DEF NewWrite
  <2> HIDE DEF n
  <2> QED
    BY <2>1, <2>2, SpawnTidied
<1>2. CASE UpdateDelayed(c, j) \/ UpdateMany(c, j)
  BY <1>2, NewestTidied
<1> QED
  BY <1>1, <1>2 DEF AccountUpdate

\* The one update of an account reads, writes or fails.
LEMMA UpdateTidied ==
    ASSUME Typed, Rested, Tidied, NEW x \in Actors \cup {NoActor}, Update(x)
    PROVE  Tidied'
<1> SUFFICES ASSUME NEW a \in Accounts \ raced' PROVE Tidy(a)'
  BY DEF Tidied
<1> PICK w \in writes : Read(w) \/ WriteBack(w) \/ NotFound(w) \/ Throws(w)
  BY DEF Update
<1>1. UNCHANGED <<target, bySocket, delayed, last>>
  BY DEF Update
<1>2. raced \subseteq raced' /\ Tidy(a)
  BY DEF Read, WriteBack, NotFound, Throws, Tidied
<1>3. SameSessions(a)
  BY <1>1, SessionsSame
<1>4. /\ Delays(a)' = Delays(a) /\ last'[a] = last[a]
      /\ \A i, k \in SessionsOf(a)' : i = k
      /\ \A i \in SessionsOf(a)' : delayed'[bySocket'[i]] \in {0, last'[a]}
  BY <1>1, <1>2, <1>3, SameDelays
<1>5. w \in Write /\ w.account \in Accounts /\ w.app \in Values /\ w.base \in Record \cup {NoRecord}
  BY DEF Typed, TypeOK, Types, Write
<1>6. CASE w.account # a
  <2>1. WritesOf(a)' = WritesOf(a)
    <3>1. [w EXCEPT !.base = db[w.account]].account = w.account
      BY <1>5 DEF Write
    <3> QED
      BY <1>6, <3>1 DEF Read, WriteBack, NotFound, Throws, Done, WritesOf
  <2>2. db'[a] = db[a]
    BY <1>5, <1>6 DEF Read, WriteBack, NotFound, Throws, Typed, TypeOK, Types
  <2>3. last[a] = 0 \/ Kept(a)'
    <3> SUFFICES ASSUME last[a] # 0 PROVE Kept(a)'
      OBVIOUS
    <3>1. Kept(a)
      BY <1>2 DEF Tidy
    <3>2. \/ Delays(a)'
          \/ \E v \in WritesOf(a)' : v.app = last'[a]
          \/ db'[a] # NoRecord /\ db'[a].app = last'[a]
      BY <1>4, <2>1, <2>2, <3>1, KeptIs
    <3> QED
      BY <3>2 DEF Kept, Delays, WritesOf
  <2> QED
    BY <1>2, <1>4, <2>1, <2>2, <2>3 DEF Tidy
<1>7. CASE w.account = a /\ Read(w)
  <2> DEFINE u == [w EXCEPT !.base = db[a]]
  <2>1. u.account = a /\ u.app = w.app /\ u.base = db[a]
    BY <1>5, <1>7 DEF Write
  <2>2. writes' = (writes \ {w}) \cup {u} /\ db' = db
    BY <1>7 DEF Read
  <2> HIDE DEF u
  <2>3. WritesOf(a) = {w}
    BY <1>2, <1>7 DEF Tidy, WritesOf
  <2>4. WritesOf(a)' = {u}
    BY <2>1, <2>2, <2>3 DEF WritesOf
  <2>5. last[a] = 0 \/ Kept(a)'
    <3> SUFFICES ASSUME last[a] # 0 PROVE Kept(a)'
      OBVIOUS
    <3>1. Kept(a)
      BY <1>2 DEF Tidy
    <3>2. \/ Delays(a)'
          \/ \E v \in WritesOf(a)' : v.app = last'[a]
          \/ db'[a] # NoRecord /\ db'[a].app = last'[a]
      BY <1>4, <2>1, <2>2, <2>3, <2>4, <3>1, KeptIs
    <3> QED
      BY <3>2 DEF Kept, Delays, WritesOf
  <2>6. u.app \in {0, last'[a]} \/ Delays(a)'
    BY <1>2, <1>4, <2>1, <2>3 DEF Tidy
  <2> QED
    BY <1>4, <2>1, <2>2, <2>4, <2>5, <2>6 DEF Tidy
<1>8. CASE w.account = a /\ ~Read(w)
  <2>1. writes' = writes \ {w}
    BY <1>8 DEF WriteBack, NotFound, Throws, Done
  <2>2. WritesOf(a) = {w}
    BY <1>2, <1>8 DEF Tidy, WritesOf
  <2>3. WritesOf(a)' = {}
    BY <2>1, <2>2 DEF WritesOf
  <2>4. last[a] = 0 \/ Kept(a)'
    <3> SUFFICES ASSUME last[a] # 0 PROVE Kept(a)'
      OBVIOUS
    <3>1. \/ Delays(a)
          \/ w.app = last[a]
          \/ db[a] # NoRecord /\ db[a].app = last[a]
      <4>1. Kept(a)
        BY <1>2 DEF Tidy
      <4> QED
        BY <2>2, <4>1, KeptIs
    <3>2. CASE WriteBack(w)
      <4>1. w.base # NoRecord /\ w.base = db[a]
        BY <1>2, <2>2, <3>2 DEF Tidy, WriteBack
      <4>2. db'[a] = Merged(w)
        BY <1>5, <1>8, <3>2 DEF WriteBack, Typed, TypeOK, Types
      <4>3. /\ Merged(w) # NoRecord
            /\ Merged(w).app = IF w.app = 0 THEN w.base.app ELSE w.app
        BY <1>5, <4>1 DEF Merged, Record
      <4>4. w.app \in {0, last[a]} \/ Delays(a)
        BY <1>2, <2>2 DEF Tidy
      <4>5. Delays(a)' \/ (db'[a] # NoRecord /\ db'[a].app = last'[a])
        BY <1>4, <3>1, <4>1, <4>2, <4>3, <4>4
      <4> QED
        BY <4>5 DEF Kept, Delays
    <3>3. CASE NotFound(w) \/ Throws(w)
      <4>1. w.app = 0 /\ db' = db
        BY <1>8, <3>3 DEF NotFound, Throws, Lost
      <4>2. Delays(a)' \/ (db'[a] # NoRecord /\ db'[a].app = last'[a])
        BY <1>4, <3>1, <4>1
      <4> QED
        BY <4>2 DEF Kept, Delays
    <3> QED
      BY <1>8, <3>2, <3>3
  <2> QED
    BY <1>4, <2>3, <2>4 DEF Tidy
<1> QED
  BY <1>6, <1>7, <1>8
LEMMA RestedKept ==
    ASSUME Typed, Rested,
           pc' = pc \/ \E k \in Jobs : pc[k] # "done" /\ \E s : pc' = [pc EXCEPT ![k] = s],
           \A i \in Ids : \/ bySocket'[i] \in {NoJob, bySocket[i]}
                          \/ pc'[bySocket'[i]] = "done",
           \A j \in Jobs : delayed'[j] \in {0, delayed[j]} \/ pc[j] = "done"
    PROVE  Rested'
<1>1. \A j \in Jobs : pc[j] = "done" => pc'[j] = "done"
  BY DEF Typed, TypeOK, Types
<1>2. \A j \in Jobs : pc'[j] # "done" => delayed'[j] = 0
  BY <1>1 DEF Rested
<1>3. \A i \in Ids : bySocket'[i] # NoJob => pc'[bySocket'[i]] = "done"
  BY <1>1 DEF Rested, Typed, TypeOK, Types
<1> QED
  BY <1>2, <1>3 DEF Rested

\* The database forgets no account.
Remembers == \A a \in Accounts : db[a] # NoRecord => db'[a] # NoRecord

LEMMA RootedKept ==
    ASSUME Typed, Rooted, Remembers,
           \A j \in Jobs : pc'[j] \in Deep =>
               \/ pc[j] \in Deep /\ target'[j] = target[j]
               \/ db'[target'[j]] # NoRecord,
           \A i \in Ids : bySocket'[i] # NoJob =>
               \/ bySocket'[i] = bySocket[i] /\ target'[bySocket[i]] = target[bySocket[i]]
               \/ db'[target'[bySocket'[i]]] # NoRecord,
           \A a \in Accounts : last'[a] = last[a] \/ db'[a] # NoRecord
    PROVE  Rooted'
<1>1. \A j \in Jobs : pc[j] \in Deep => target[j] \in Accounts
  BY DEF Deep, Typed, AtHand
<1>2. \A i \in Ids : bySocket[i] # NoJob => target[bySocket[i]] \in Accounts
  BY SessionTarget
<1>3. \A j \in Jobs : pc'[j] \in Deep => db'[target'[j]] # NoRecord
  BY <1>1 DEF Rooted, Remembers
<1>4. \A i \in Ids : bySocket'[i] # NoJob => db'[target'[bySocket'[i]]] # NoRecord
  BY <1>2 DEF Rooted, Remembers
<1>5. \A a \in Accounts : last'[a] # 0 => db'[a] # NoRecord
  BY DEF Rooted, Remembers
<1> QED
  BY <1>3, <1>4, <1>5 DEF Rooted

KeptInv == Rested /\ Rooted /\ Tidied

\* A job that is asked for, looks into the database, or kicks.
LEMMA JobStored ==
    ASSUME Typed, KeptInv, NEW j \in Jobs,
           AccountCreate(j) \/ AccountLogin(j) \/ Exists(j) \/ Load(j) \/ Kick(j)
    PROVE  KeptInv'
<1>1. /\ UNCHANGED <<bySocket, delayed, writes, db, last, raced>>
      /\ pc[j] # "done" /\ \E s : pc' = [pc EXCEPT ![j] = s]
      /\ \A k \in Jobs \ {j} : target'[k] = target[k]
      /\ pc'[j] \in Deep => target' = target /\ (pc[j] \in Deep \/ db[target[j]] # NoRecord)
  <2>1. CASE AccountCreate(j) \/ AccountLogin(j)
    <3>1. PICK c \in Conns, a \in Accounts : Asks(j, c, a)
      BY <2>1 DEF AccountCreate, AccountLogin
    <3>2. /\ pc[j] = "idle" /\ target' = [target EXCEPT ![j] = a]
          /\ pc' = [pc EXCEPT ![j] = "exists"] \/ pc' = [pc EXCEPT ![j] = "queued"]
          /\ UNCHANGED <<bySocket, delayed, writes, db, last, raced>>
      BY <2>1, <3>1 DEF AccountCreate, AccountLogin, Asks, NextJob, Goto
    <3>3. pc'[j] \notin Deep
      BY <3>2 DEF Deep, Typed, TypeOK, Types
    <3> QED
      BY <3>2, <3>3 DEF Typed, TypeOK, Types
  <2>2. CASE Exists(j)
    <3>1. /\ pc[j] = "exists" /\ UNCHANGED <<bySocket, delayed, writes, db, last, raced, target>>
          /\ pc' = [pc EXCEPT ![j] = "put"] \/ pc' = [pc EXCEPT ![j] = "done"]
      BY <2>2 DEF Exists, Goto
    <3>2. pc'[j] \notin Deep
      BY <3>1 DEF Deep, Typed, TypeOK, Types
    <3> QED
      BY <3>1, <3>2
  <2>3. CASE Load(j)
    <3>1. /\ pc[j] = "load" /\ UNCHANGED <<bySocket, delayed, writes, db, last, raced, target>>
          /\ \/ pc' = [pc EXCEPT ![j] = "loaded"] /\ db[target[j]] # NoRecord
             \/ pc' = [pc EXCEPT ![j] = "done"]
      BY <2>3 DEF Load, LoginEnds, Goto
    <3>2. pc'[j] \in Deep => db[target[j]] # NoRecord
      BY <3>1 DEF Deep, Typed, TypeOK, Types
    <3> QED
      BY <3>1, <3>2
  <2>4. CASE Kick(j)
    <3>1. /\ pc[j] = "loaded" /\ UNCHANGED <<bySocket, delayed, writes, db, last, raced, target>>
          /\ \E s : pc' = [pc EXCEPT ![j] = s]
      BY <2>4 DEF Kick, LoginEnds, Goto
    <3>2. pc[j] \in Deep
      BY <3>1 DEF Deep
    <3> QED
      BY <3>1, <3>2
  <2> QED
    BY <2>1, <2>2, <2>3, <2>4
<1>2. Rested'
  BY <1>1, RestedKept DEF KeptInv
<1>3. \A k \in Jobs : pc[k] = "done" => target'[k] = target[k]
  BY <1>1
<1>4. Tidied'
  BY <1>1, <1>3, QuietTidied DEF KeptInv
<1>5. Rooted'
  <2>1. \A k \in Jobs : pc'[k] \in Deep =>
            \/ pc[k] \in Deep /\ target'[k] = target[k]
            \/ db'[target'[k]] # NoRecord
    <3> TAKE k \in Jobs
    <3>1. CASE k = j
      BY <1>1, <3>1
    <3>2. CASE k # j
      <4>1. pc'[k] = pc[k] /\ target'[k] = target[k]
        BY <1>1, <3>2 DEF Typed, TypeOK, Types
      <4> QED
        BY <4>1
    <3> QED BY <3>1, <3>2
  <2>2. \A i \in Ids : bySocket[i] # NoJob => target'[bySocket[i]] = target[bySocket[i]]
    BY <1>3, SessionTarget DEF KeptInv, Rested
  <2>3. Remembers
    BY <1>1 DEF Remembers
  <2> QED
    BY <1>1, <2>1, <2>2, <2>3, RootedKept DEF KeptInv
<1> QED
  BY <1>2, <1>4, <1>5 DEF KeptInv

LEMMA TakeStored == ASSUME Typed, Places, KeptInv, Take PROVE KeptInv'
<1>1. UNCHANGED <<bySocket, delayed, writes, db, last, raced, target>>
  BY DEF Take
<1>2. \/ pc' = pc
      \/ \E k \in Jobs, s \in {"load", "done"} : pc[k] # "done" /\ pc' = [pc EXCEPT ![k] = s]
  <2>1. CASE queue = <<>>
    BY <2>1 DEF Take
  <2>2. CASE queue # <<>>
    <3>1. Head(queue) \in Jobs /\ Head(queue) = queue[1] /\ 1 \in 1 .. Len(queue)
      BY <2>2 DEF Typed, TypeOK, Types
    <3>2. pc[Head(queue)] = "queued"
      BY <3>1 DEF Places
    <3>3. \E s \in {"load", "done"} : Goto(Head(queue), s)
      BY <2>2 DEF Take
    <3> QED
      BY <3>1, <3>2, <3>3 DEF Goto
  <2> QED BY <2>1, <2>2
<1>3. Rested'
  <2>1. pc' = pc \/ \E k \in Jobs : pc[k] # "done" /\ \E s : pc' = [pc EXCEPT ![k] = s]
    BY <1>2
  <2> QED
    BY <1>1, <2>1, RestedKept DEF KeptInv
<1>4. Tidied'
  BY <1>1, QuietTidied DEF KeptInv
<1>5. Rooted'
  <2>1. \A k \in Jobs : pc'[k] \in Deep => pc[k] \in Deep
    BY <1>2 DEF Deep, Typed, TypeOK, Types
  <2>2. Remembers
    BY <1>1 DEF Remembers
  <2> QED
    BY <1>1, <2>1, <2>2, RootedKept DEF KeptInv
<1> QED
  BY <1>3, <1>4, <1>5 DEF KeptInv

LEMMA PutStored == ASSUME Typed, KeptInv, NEW j \in Jobs, PutAccount(j) PROVE KeptInv'
<1>1. /\ pc[j] = "put" /\ UNCHANGED <<bySocket, delayed, writes, last, target>>
      /\ \/ db' = db /\ pc' = [pc EXCEPT ![j] = "done"]
         \/ db' = [db EXCEPT ![target[j]] = [number |-> j, app |-> 0]] /\ pc' = [pc EXCEPT ![j] = "created"]
  BY DEF PutAccount, Goto
<1>2. target[j] \in Accounts
  BY <1>1 DEF Typed, AtHand
<1>3. [number |-> j, app |-> 0] # NoRecord
  BY Zero DEF Record, Numbers
<1>4. Remembers
  BY <1>1, <1>2, <1>3 DEF Remembers, Typed, TypeOK, Types
<1>5. pc'[j] \in Deep => db'[target[j]] # NoRecord
  BY <1>1, <1>2, <1>3 DEF Deep, Typed, TypeOK, Types
<1>6. \A k \in Jobs \ {j} : pc'[k] = pc[k]
  BY <1>1 DEF Typed, TypeOK, Types
<1>7. Rooted'
  BY <1>1, <1>4, <1>5, <1>6, RootedKept DEF KeptInv
<1>8. Rested'
  <2>1. pc[j] # "done" /\ \E s : pc' = [pc EXCEPT ![j] = s]
    BY <1>1
  <2> QED
    BY <1>1, <2>1, RestedKept DEF KeptInv
<1> QED
  BY <1>7, <1>8, PutTidied DEF KeptInv

LEMMA SeatStored ==
    ASSUME Typed, KeptInv, NEW j \in Jobs, SeatCreated(j) \/ SeatLogin(j)
    PROVE  KeptInv'
<1>1. /\ pc[j] \in {"created", "seat"} /\ Seat(j) /\ pc' = [pc EXCEPT ![j] = "done"]
      /\ UNCHANGED <<target, delayed, writes, db, last>>
  BY DEF SeatCreated, SeatLogin, LoginEnds, Goto
<1>2. /\ pc[j] \notin {"idle", "done"} /\ pc[j] \in Deep
  BY <1>1 DEF Deep
<1>3. bySocket' = [bySocket EXCEPT ![SocketId(j)] = j]
  BY <1>1 DEF Seat
<1>4. \A i \in Ids : bySocket'[i] \in {bySocket[i], j}
  BY <1>3 DEF Typed, TypeOK, Types
<1>5. pc'[j] = "done" /\ \A k \in Jobs \ {j} : pc'[k] = pc[k]
  BY <1>1 DEF Typed, TypeOK, Types
<1>6. Rested'
  <2>1. \A i \in Ids : bySocket'[i] \in {NoJob, bySocket[i]} \/ pc'[bySocket'[i]] = "done"
    BY <1>4, <1>5
  <2>2. \E k \in Jobs : pc[k] # "done" /\ \E s : pc' = [pc EXCEPT ![k] = s]
    BY <1>1, <1>2
  <2> QED
    BY <1>1, <2>1, <2>2, RestedKept DEF KeptInv
<1>7. Rooted'
  <2>1. db[target[j]] # NoRecord
    BY <1>2 DEF KeptInv, Rooted
  <2>2. \A i \in Ids : bySocket'[i] # NoJob =>
            \/ bySocket'[i] = bySocket[i] /\ target'[bySocket[i]] = target[bySocket[i]]
            \/ db'[target'[bySocket'[i]]] # NoRecord
    BY <1>1, <1>4, <2>1
  <2>3. Remembers
    BY <1>1 DEF Remembers
  <2>4. \A k \in Jobs : pc'[k] \in Deep => pc[k] \in Deep
    BY <1>5 DEF Deep
  <2> QED
    BY <1>1, <2>2, <2>3, <2>4, RootedKept DEF KeptInv
<1> QED
  BY <1>1, <1>2, <1>6, <1>7, SeatTidied DEF KeptInv

LEMMA PersistStored == ASSUME Typed, KeptInv, NEW j \in Jobs, Persist(j) PROVE KeptInv'
<1> DEFINE w == NewWrite(target[j], 0, j)
<1>1. /\ pc[j] = "kicking" /\ pc' = [pc EXCEPT ![j] = "persisting"]
      /\ UNCHANGED <<target, bySocket, delayed, db, last>>
      /\ Spawn({w}) /\ raced' = raced \cup Meets({w})
  BY DEF Persist, Goto
<1>2. w.base = NoRecord /\ w.app = 0
  BY DEF NewWrite
<1> HIDE DEF w
<1>3. Tidied'
  BY <1>1, <1>2, SpawnTidied DEF KeptInv
<1>4. Rested'
  <2>1. \E k \in Jobs : pc[k] # "done" /\ \E s : pc' = [pc EXCEPT ![k] = s]
    BY <1>1
  <2> QED
    BY <1>1, <2>1, RestedKept DEF KeptInv
<1>5. Rooted'
  <2>1. \A k \in Jobs : pc'[k] \in Deep => pc[k] \in Deep
    BY <1>1 DEF Deep, Typed, TypeOK, Types
  <2>2. Remembers
    BY <1>1 DEF Remembers
  <2> QED
    BY <1>1, <2>1, <2>2, RootedKept DEF KeptInv
<1> QED
  BY <1>3, <1>4, <1>5 DEF KeptInv

LEMMA UpdateStored ==
    ASSUME Typed, Places, KeptInv, NEW x \in Actors \cup {NoActor}, Update(x)
    PROVE  KeptInv'
<1> PICK w \in writes : Read(w) \/ WriteBack(w) \/ NotFound(w) \/ Throws(w)
  BY DEF Update
<1>1. UNCHANGED <<target, bySocket, delayed, last>>
  BY DEF Update
<1>2. \/ pc' = pc
      \/ \E k \in Jobs, s \in {"seat", "thrown"} : pc[k] = "persisting" /\ pc' = [pc EXCEPT ![k] = s]
  BY DEF Read, WriteBack, NotFound, Throws, Done, Awaited, Goto, Places
<1>3. Rested'
  <2>1. pc' = pc \/ \E k \in Jobs : pc[k] # "done" /\ \E s : pc' = [pc EXCEPT ![k] = s]
    BY <1>2
  <2> QED
    BY <1>1, <2>1, RestedKept DEF KeptInv
<1>4. Remembers
  <2>1. w.base \in Record \cup {NoRecord} /\ w.account \in Accounts /\ w.app \in Values
    BY DEF Typed, TypeOK, Types, Write
  <2>2. w.base # NoRecord => Merged(w) \in Record
    BY <2>1 DEF Merged, Record
  <2>3. \/ db' = db
        \/ w.base # NoRecord /\ db' = [db EXCEPT ![w.account] = Merged(w)]
    BY DEF Read, WriteBack, NotFound, Throws
  <2> HIDE DEF Merged
  <2> QED
    BY <2>1, <2>2, <2>3 DEF Remembers, Typed, TypeOK, Types
<1>5. Rooted'
  <2>1. \A k \in Jobs : pc'[k] \in Deep => pc[k] \in Deep
    BY <1>2 DEF Deep, Typed, TypeOK, Types
  <2> QED
    BY <1>1, <1>4, <2>1, RootedKept DEF KeptInv
<1> QED
  BY <1>3, <1>5, UpdateTidied DEF KeptInv

LEMMA RemoveStored == ASSUME Typed, KeptInv, NEW x \in Actors, Remove(x) PROVE KeptInv'
<1>1. UNCHANGED <<pc, target, delayed, db, last>>
  BY DEF Remove
<1>2. \A i \in Ids : bySocket'[i] \in {NoJob, bySocket[i]}
  BY DEF Remove, Find, Erase, Typed, TypeOK, Types
<1>3. Rested'
  BY <1>1, <1>2, RestedKept DEF KeptInv
<1>4. Rooted'
  <2>1. Remembers
    BY <1>1 DEF Remembers
  <2> QED
    BY <1>1, <1>2, <2>1, RootedKept DEF KeptInv
<1>5. CASE Find(x)
  <2>1. UNCHANGED <<bySocket, writes, raced>>
    BY <1>5 DEF Find
  <2> QED
    BY <1>1, <1>3, <1>4, <2>1, QuietTidied DEF KeptInv
<1>6. CASE Erase(x)
  BY <1>1, <1>3, <1>4, <1>6, EraseTidied DEF KeptInv
<1> QED
  BY <1>5, <1>6 DEF Remove

LEMMA AccountUpdateStored ==
    ASSUME Typed, KeptInv, NEW c \in Conns, AccountUpdate(c)
    PROVE  KeptInv'
<1> DEFINE j == bySocket[c]
<1>1. c \in Ids /\ j # NoJob /\ UNCHANGED <<pc, target, bySocket, db>>
  BY DEF AccountUpdate, Ids
<1>2. j \in Jobs /\ pc[j] = "done" /\ target[j] \in Accounts /\ db[target[j]] # NoRecord
  BY <1>1, SessionTarget DEF KeptInv, Rested, Rooted
<1>3. /\ last' = last \/ last' = [last EXCEPT ![target[j]] = stamp']
      /\ delayed' = delayed \/ \E d \in {0, stamp'} : delayed' = [delayed EXCEPT ![j] = d]
  BY DEF AccountUpdate, UpdateDelayed, UpdateMany, UpdateOther, Superseded
<1>4. \A k \in Jobs : delayed'[k] \in {0, delayed[k]} \/ pc[k] = "done"
  BY <1>2, <1>3 DEF Typed, TypeOK, Types
<1>5. \A a \in Accounts : last'[a] = last[a] \/ db'[a] # NoRecord
  BY <1>1, <1>2, <1>3 DEF Typed, TypeOK, Types
<1> HIDE DEF j
<1>6. Rested'
  BY <1>1, <1>4, RestedKept DEF KeptInv
<1>7. Rooted'
  <2>1. Remembers
    BY <1>1 DEF Remembers
  <2> QED
    BY <1>1, <1>5, <2>1, RootedKept DEF KeptInv
<1> QED
  BY <1>6, <1>7, AccountUpdateTidied DEF KeptInv

LEMMA FlushStored == ASSUME Typed, KeptInv, Flush PROVE KeptInv'
<1>1. UNCHANGED <<pc, target, bySocket, db, last>>
  BY DEF Flush
<1>2. \A k \in Jobs : delayed'[k] \in {0, delayed[k]}
  BY DEF Flush
<1>3. Rested'
  BY <1>1, <1>2, RestedKept DEF KeptInv
<1>4. Rooted'
  <2>1. Remembers
    BY <1>1 DEF Remembers
  <2> QED
    BY <1>1, <2>1, RootedKept DEF KeptInv
<1> QED
  BY <1>3, <1>4, FlushTidied DEF KeptInv

LEMMA RestStored ==
    ASSUME Typed, KeptInv,
           \/ \E c \in Conns : Disconnect(c) \/ Release(c) \/ AccountDisconnect(c)
           \/ UNCHANGED vars
    PROVE  KeptInv'
<1>1. UNCHANGED <<pc, target, bySocket, delayed, writes, db, last, raced>>
  BY DEF Disconnect, Release, AccountDisconnect, vars
<1>2. Rested'
  BY <1>1, RestedKept DEF KeptInv
<1>3. Rooted'
  <2>1. Remembers
    BY <1>1 DEF Remembers
  <2> QED
    BY <1>1, <2>1, RootedKept DEF KeptInv
<1> QED
  BY <1>1, <1>2, <1>3, QuietTidied DEF KeptInv

LEMMA StoredNext == Typed /\ Places /\ KeptInv /\ [Next]_vars => KeptInv'
BY JobStored, TakeStored, PutStored, SeatStored, PersistStored, UpdateStored, RemoveStored,
   AccountUpdateStored, FlushStored, RestStored DEF Next, CreateStep, LoginStep

LEMMA StoredInit == Init => KeptInv
<1> SUFFICES ASSUME Init PROVE KeptInv
  OBVIOUS
<1>1. Rested /\ Rooted
  BY DEF Init, Rested, Rooted, Deep
<1>2. \A a \in Accounts : SessionsOf(a) = {} /\ WritesOf(a) = {} /\ last[a] = 0
  BY DEF Init, SessionsOf, WritesOf
<1>3. Tidied
  BY <1>2 DEF Tidied, Tidy
<1> QED
  BY <1>1, <1>3 DEF KeptInv

\* The newest Appearance is delayed, on its way or stored, of every account no two of
\* whose updates, sessions or removals have met: whatever flushes, logins that throw a
\* session out, removals and updates that supersede others come in between.
THEOREM NewestKeptCorrect == Spec => []NewestKept
<1>1. Init => Typed /\ Places /\ KeptInv
  BY TypedInit, PlacesInit, StoredInit
<1>2. Typed /\ Places /\ KeptInv /\ [Next]_vars => (Typed /\ Places /\ KeptInv)'
  BY TypedNext, PlacesNext, StoredNext
<1>3. KeptInv => NewestKept
  BY DEF KeptInv, Tidied, Tidy, NewestKept
<1> QED
  BY <1>1, <1>2, <1>3, PTL DEF Spec

HIDE AccountsAssumption DEF jobs, logins, online, store, history

-----------------------------------------------------------------------------
(* Relationships: bonds and owners                                          *)

MaybeData == Data \cup {NoData}

\* What may be stored of bonds and of an owner.
Fit(l) == Stripped(l) = l /\ Cardinality(Lovers(l)) <= MaxLovers
Whole(o) == o.owner = Nobody => [o EXCEPT !.offer = Nobody] = Free
Alike(o, p) == [o EXCEPT !.offer = Nobody] = [p EXCEPT !.offer = Nobody]
Proper(d) == Fit(d.lov) /\ Whole(d.own)

LEMMA FreeTyped == Free \in Own /\ Whole(Free) /\ NoBond \in Bond
BY RelationshipsAssumption DEF Free, Own, Whole, NoBond, Bond, Times

LEMMA OfferErased ==
    ASSUME NEW o \in Own, NEW m
    PROVE  [[o EXCEPT !.offer = m] EXCEPT !.offer = Nobody] = [o EXCEPT !.offer = Nobody]
BY DEF Own

LEMMA NullsDiffer ==
    /\ NoData \notin Data /\ NoData \notin Own /\ NoData \notin Bonds /\ Live \notin Data
    /\ Nobody \notin Members
BY RelationshipsAssumption

LEMMA OfferDropped ==
    ASSUME NEW b \in Bond
    PROVE  LET c == [b EXCEPT !.offer = FALSE]
           IN  c \in Bond /\ c.stage = b.stage /\ [c EXCEPT !.offer = FALSE] = c
BY DEF Bond

LEMMA StrippedTyped ==
    ASSUME NEW l \in Bonds
    PROVE  /\ Stripped(l) \in Bonds
           /\ \A x \in Members : Stripped(l)[x].stage = IF l[x].stage <= 1 THEN 0 ELSE l[x].stage
           /\ Stripped(Stripped(l)) = Stripped(l)
           /\ Lovers(Stripped(l)) \subseteq Lovers(l)
<1> DEFINE s == Stripped(l)
<1>1. \A x \in Members : l[x] \in Bond /\ l[x].stage \in 0 .. 4
  BY DEF Bonds, Bond
<1>2. \A x \in Members : s[x] = IF l[x].stage <= 1 THEN NoBond ELSE [l[x] EXCEPT !.offer = FALSE]
  BY DEF Stripped
<1>3. \A x \in Members : s[x] \in Bond
  BY <1>1, <1>2, FreeTyped DEF Bond
<1>4. s \in Bonds
  BY <1>3 DEF Bonds, Stripped
<1> HIDE DEF s
<1>5. ASSUME NEW x \in Members
      PROVE  /\ s[x].stage = IF l[x].stage <= 1 THEN 0 ELSE l[x].stage
             /\ s[x].stage <= 1 => s[x] = NoBond
             /\ s[x].stage > 1 => [s[x] EXCEPT !.offer = FALSE] = s[x]
  <2>1. l[x] \in Bond /\ l[x].stage \in 0 .. 4
    BY <1>1
  <2>2. NoBond.stage = 0
    BY DEF NoBond
  <2>3. CASE l[x].stage <= 1
    <3>1. s[x] = NoBond
      BY <1>2, <2>3
    <3> QED
      BY <2>2, <2>3, <3>1
  <2>4. CASE ~(l[x].stage <= 1)
    <3>1. s[x] = [l[x] EXCEPT !.offer = FALSE]
      BY <1>2, <2>4
    <3>2. s[x].stage = l[x].stage /\ [s[x] EXCEPT !.offer = FALSE] = s[x]
      BY <2>1, <3>1, OfferDropped
    <3> QED
      BY <2>1, <2>4, <3>2
  <2> QED
    BY <2>3, <2>4
<1>8. Stripped(s) = s
  <2>1. s = [x \in Members |-> s[x]]
    BY <1>4 DEF Bonds
  <2>2. \A x \in Members :
            (IF s[x].stage <= 1 THEN NoBond ELSE [s[x] EXCEPT !.offer = FALSE]) = s[x]
    <3> TAKE x \in Members
    <3>1. s[x].stage \in 0 .. 4
      BY <1>4 DEF Bonds, Bond
    <3> QED
      BY <1>5, <3>1
  <2> QED
    BY <2>1, <2>2 DEF Stripped
<1>9. Lovers(s) \subseteq Lovers(l)
  BY <1>1, <1>5 DEF Lovers
<1> QED
  BY <1>4, <1>5, <1>8, <1>9 DEF s

LEMMA LoversFinite ==
    ASSUME NEW l
    PROVE  IsFiniteSet(Lovers(l)) /\ Cardinality(Lovers(l)) \in Nat
<1>1. Lovers(l) \subseteq Members
  BY DEF Lovers
<1> QED
  BY <1>1, RelationshipsAssumption, FS_Subset, FS_CardinalityType

\* No more bonds than those of l, or one more where that is allowed.
LEMMA NoMore ==
    ASSUME NEW l, NEW k, Cardinality(Lovers(l)) <= MaxLovers, Lovers(k) \subseteq Lovers(l)
    PROVE  Cardinality(Lovers(k)) <= MaxLovers
<1>1. Cardinality(Lovers(k)) <= Cardinality(Lovers(l))
  BY LoversFinite, FS_Subset
<1> QED
  BY <1>1, LoversFinite, RelationshipsAssumption

LEMMA OneMore ==
    ASSUME NEW l, NEW k, NEW x, Cardinality(Lovers(l)) < MaxLovers,
           Lovers(k) \subseteq Lovers(l) \cup {x}
    PROVE  Cardinality(Lovers(k)) <= MaxLovers
<1>0. IsFiniteSet(Lovers(l)) /\ Cardinality(Lovers(l)) \in Nat
  BY LoversFinite
<1>1. /\ IsFiniteSet(Lovers(l) \cup {x})
      /\ Cardinality(Lovers(l) \cup {x}) <= Cardinality(Lovers(l)) + 1
      /\ Cardinality(Lovers(l) \cup {x}) \in Nat
  BY <1>0, FS_AddElement
<1>2. Cardinality(Lovers(k)) <= Cardinality(Lovers(l) \cup {x})
  BY <1>1, FS_Subset
<1> QED
  BY <1>1, <1>2, LoversFinite, RelationshipsAssumption

-----------------------------------------------------------------------------
(* The invariant                                                            *)

UpdateSet ==
    [id: Nat, who: Members, own: Own, lov: {NoData}, read: MaybeData]
        \cup [id: Nat, who: Members, own: {NoData}, lov: Bonds, read: MaybeData]
Errand == [id: Nat, kind: {"release", "break"}, by: Members, of: Members,
           seen: MaybeData, acc: Data \cup {Live}]

RelationsTyped ==
    /\ now \in Times /\ acts \in Nat
    /\ mem \in [Members -> MaybeData] /\ loaded \in [Members -> MaybeData]
    /\ stored \in [Members -> Data]
    /\ updates \subseteq UpdateSet /\ errands \subseteq Errand
    /\ crossed \subseteq Members

\* Who is in the room, or waits for an errand, is online; who is logging in is not.
Presence ==
    /\ room \subseteq Online
    /\ \A m \in Members : loaded[m] # NoData => mem[m] = NoData
    /\ \A j \in errands : j.acc = Live => j.by \in Online

\* Nothing exceeds the limit, and nothing stored, or about to be, holds an offer.
Bounded ==
    /\ \A m \in Members : Proper(stored[m]) /\ (loaded[m] # NoData => Proper(loaded[m]))
    /\ \A m \in Online : Count(m) <= MaxLovers /\ Whole(mem[m].own)
    /\ \A w \in updates : /\ w.lov # NoData => Fit(w.lov)
                          /\ w.own # NoData => Whole(w.own)
                          /\ w.read # NoData => Proper(w.read)
    /\ \A j \in errands : /\ j.seen # NoData => Fit(j.seen.lov)
                          /\ j.acc # Live => Cardinality(Lovers(j.acc.lov)) <= MaxLovers

\* What the database will have of m, when the update under way is written.
Applied(d, w) == IF w.lov = NoData THEN [d EXCEPT !.own = w.own] ELSE [d EXCEPT !.lov = w.lov]
Becomes(m) == IF Pending(m) = {} THEN stored[m]
              ELSE Applied(stored[m], CHOOSE w \in Pending(m) : TRUE)

\* A member who is not crossed has one update under way at most, which has read what is
\* stored; the database will have what it has in memory; and lovers will agree.
Lone(m) == \A v, w \in Pending(m) : v = w /\ w.read \in {NoData, stored[m]}
Recorded(m) ==
    m \in Online => /\ Becomes(m).lov = Stripped(mem[m].lov)
                    /\ Alike(Becomes(m).own, mem[m].own)
Matched(m, t) == Becomes(m).lov[t].stage = Becomes(t).lov[m].stage
Agreed ==
    /\ \A m \in Members \ crossed : Lone(m) /\ Recorded(m)
    /\ \A m, t \in Members \ crossed : Matched(m, t)

RelationsInv == RelationsTyped /\ Presence /\ Bounded /\ Agreed

LEMMA RelationsStart == RelationsInit => RelationsInv
<1> SUFFICES ASSUME RelationsInit PROVE RelationsInv
  OBVIOUS
<1>1. stored \in [Members -> Data] /\ mem = stored /\ Sound(stored)
  BY RelationshipsAssumption DEF RelationsInit
<1>2. \A m \in Members : stored[m] \in Data /\ mem[m] # NoData
  BY <1>1, NullsDiffer
<1>3. RelationsTyped
  BY <1>1, RelationshipsAssumption DEF RelationsInit, RelationsTyped, MaybeData, Times
<1>4. Presence
  BY <1>2 DEF RelationsInit, Presence, Online
<1>5. Bounded
  <2>1. \A m \in Members : stored[m].own \in Own
    BY <1>2 DEF Data
  <2>2. \A m \in Members : Whole(stored[m].own)
    BY <1>1, FreeTyped DEF Sound, Whole
  <2>3. \A m \in Members : Fit(stored[m].lov)
    BY <1>1 DEF Sound, Fit
  <2> QED
    BY <1>1, <2>2, <2>3 DEF RelationsInit, Bounded, Proper, Online, Count, Fit
<1>6. \A m \in Members : Pending(m) = {} /\ Becomes(m) = stored[m]
  BY DEF RelationsInit, Pending, Becomes
<1>7. Agreed
  BY <1>1, <1>6 DEF Agreed, Lone, Recorded, Matched, Sound, Alike
<1> QED
  BY <1>3, <1>4, <1>5, <1>7 DEF RelationsInv

-----------------------------------------------------------------------------
(* What clients ask for: each request is of one of five kinds.              *)

\* Only t's data change.
Others(t) == \A x \in Members \ {t} : mem'[x] = mem[x]

OwnIs(t, o) ==
    /\ mem' \in [Members -> MaybeData] /\ mem'[t] \in Data
    /\ mem'[t].own = o /\ mem'[t].lov = mem[t].lov /\ Others(t)
LovIs(t, l) ==
    /\ mem' \in [Members -> MaybeData] /\ mem'[t] \in Data
    /\ mem'[t].lov = l /\ mem'[t].own = mem[t].own /\ Others(t)

LEMMA OwnSet ==
    ASSUME RelationsTyped, NEW t \in Online, NEW o \in Own, mem' = [mem EXCEPT ![t].own = o]
    PROVE  OwnIs(t, o)
<1>1. t \in Members /\ mem[t] \in Data
  BY DEF Online, RelationsTyped, MaybeData
<1>2. [mem[t] EXCEPT !.own = o] \in Data
  BY <1>1 DEF Data
<1>3. mem' = [mem EXCEPT ![t] = [mem[t] EXCEPT !.own = o]]
  BY DEF RelationsTyped
<1>4. mem'[t] = [mem[t] EXCEPT !.own = o] /\ Others(t)
  BY <1>1, <1>3 DEF RelationsTyped, Others
<1>5. mem' \in [Members -> MaybeData]
  BY <1>2, <1>3 DEF RelationsTyped, MaybeData
<1>6. [mem[t] EXCEPT !.own = o].own = o /\ [mem[t] EXCEPT !.own = o].lov = mem[t].lov
  BY <1>1 DEF Data
<1> QED
  BY <1>2, <1>4, <1>5, <1>6 DEF OwnIs

LEMMA LovSet ==
    ASSUME RelationsTyped, NEW t \in Online, NEW l \in Bonds, mem' = [mem EXCEPT ![t].lov = l]
    PROVE  LovIs(t, l)
<1>1. t \in Members /\ mem[t] \in Data
  BY DEF Online, RelationsTyped, MaybeData
<1>2. [mem[t] EXCEPT !.lov = l] \in Data
  BY <1>1 DEF Data
<1>3. mem' = [mem EXCEPT ![t] = [mem[t] EXCEPT !.lov = l]]
  BY DEF RelationsTyped
<1>4. mem'[t] = [mem[t] EXCEPT !.lov = l] /\ Others(t)
  BY <1>1, <1>3 DEF RelationsTyped, Others
<1>5. mem' \in [Members -> MaybeData]
  BY <1>2, <1>3 DEF RelationsTyped, MaybeData
<1>6. [mem[t] EXCEPT !.lov = l].lov = l /\ [mem[t] EXCEPT !.lov = l].own = mem[t].own
  BY <1>1 DEF Data
<1> QED
  BY <1>2, <1>4, <1>5, <1>6 DEF LovIs

\* An ownership is agreed on and persisted; one, or a bond, is offered; an errand begins.
Persists(t, w) ==
    /\ updates' = updates \cup {w}
    /\ crossed \subseteq crossed' /\ crossed' \subseteq crossed \cup {t}
    /\ Pending(t) # {} => t \in crossed'
AgreesOwn(t, o) ==
    /\ OwnIs(t, o) /\ o \in Own /\ Whole(o)
    /\ \E n \in Nat : Persists(t, PersistOwn(n, t, o))
    /\ errands' \subseteq errands
OffersOwn(t, o) ==
    /\ OwnIs(t, o) /\ o \in Own /\ Whole(o) /\ Alike(o, mem[t].own)
    /\ UNCHANGED <<updates, crossed, errands>>
OffersLov(t, l) ==
    /\ LovIs(t, l) /\ l \in Bonds
    /\ Stripped(l) = Stripped(mem[t].lov) /\ Cardinality(Lovers(l)) <= MaxLovers
    /\ UNCHANGED <<updates, crossed, errands>>
Begins(j) ==
    /\ j \in Errand /\ j.seen = NoData /\ j.acc = Live /\ j.by \in Online
    /\ errands' = errands \cup {j}
    /\ UNCHANGED <<mem, updates, crossed>>

LEMMA SetsOne ==
    ASSUME NEW ms, NEW w, Sets(ms, {w})
    PROVE  mem' = ms /\ Persists(w.who, w)
<1>1. Pending(w.who) # {} => w.who \in Meeting({w})
  BY DEF Meeting
<1>2. Meeting({w}) \subseteq {w.who}
  BY DEF Meeting
<1> QED
  BY <1>1, <1>2 DEF Sets, Persists

LEMMA SetsNone ==
    ASSUME NEW ms, Sets(ms, {})
    PROVE  mem' = ms /\ UNCHANGED <<updates, crossed>>
<1>1. Meeting({}) = {}
  BY DEF Meeting
<1> QED
  BY <1>1 DEF Sets

LEMMA OwnAgreed ==
    ASSUME RelationsTyped, NEW t \in Online, NEW o \in Own, Whole(o), acts \in Nat,
           SetOwn(t, o), UNCHANGED errands
    PROVE  AgreesOwn(t, o)
<1>1. mem' = [mem EXCEPT ![t].own = o] /\ Persists(t, PersistOwn(acts + 1, t, o))
  <2>1. PersistOwn(acts + 1, t, o).who = t
    BY DEF PersistOwn
  <2> QED
    BY <2>1, SetsOne DEF SetOwn
<1>2. acts + 1 \in Nat
  OBVIOUS
<1> QED
  BY <1>1, <1>2, OwnSet DEF AgreesOwn

LEMMA MeetOnline ==
    ASSUME Presence, NEW m, NEW t, Meet(m, t)
    PROVE  m \in Online /\ t \in Online
BY DEF Presence, Meet

LEMMA OnlineData ==
    ASSUME RelationsTyped, NEW m \in Online
    PROVE  m \in Members /\ mem[m] \in Data /\ mem[m].own \in Own /\ mem[m].lov \in Bonds
<1>1. m \in Members /\ mem[m] \in Data
  BY DEF Online, RelationsTyped, MaybeData
<1> QED
  BY <1>1 DEF Data

LEMMA BreakOwnerKind ==
    ASSUME RelationsInv, NEW m \in Members, BreakOwner(m)
    PROVE  \E t \in Online : AgreesOwn(t, Free)
<1>1. m \in Online /\ SetOwn(m, Free) /\ UNCHANGED errands
  BY DEF BreakOwner, Wants
<1> QED
  BY <1>1, FreeTyped, OwnAgreed DEF RelationsInv, RelationsTyped

LEMMA UpdateNotesKind ==
    ASSUME RelationsInv, NEW m \in Members, NEW t \in Members, UpdateNotes(m, t)
    PROVE  t \in Online /\ AgreesOwn(t, mem[t].own)
<1>1. t \in Online /\ SetOwn(t, mem[t].own) /\ UNCHANGED errands
  BY MeetOnline DEF UpdateNotes, RelationsInv
<1>2. mem[t].own \in Own /\ Whole(mem[t].own)
  BY <1>1, OnlineData DEF RelationsInv, Bounded
<1> QED
  BY <1>1, <1>2, OwnAgreed DEF RelationsInv, RelationsTyped

LEMMA ReleaseKind ==
    ASSUME RelationsInv, NEW m \in Members, NEW t \in Members, ReleaseMember(m, t)
    PROVE  t \in Online /\ AgreesOwn(t, Free)
<1>1. t \in Online /\ SetOwn(t, Free) /\ UNCHANGED errands
  BY MeetOnline DEF ReleaseMember, Released, RelationsInv
<1> QED
  BY <1>1, FreeTyped, OwnAgreed DEF RelationsInv, RelationsTyped

LEMMA AcceptOwnerKind ==
    ASSUME RelationsInv, NEW m \in Members, NEW t \in Members, AcceptOwner(m, t)
    PROVE  /\ m \in Online
           /\ \E o \in Own : /\ AgreesOwn(m, o)
                             /\ o.owner = t /\ mem[m].own.offer = t
                             /\ mem[m].own.owner \in {Nobody, t}
                             /\ mem[m].own.owner = Nobody => o.stage = 0
<1> DEFINE o == [owner |-> t, stage |-> IF mem[m].own.owner = t THEN 1 ELSE 0, start |-> now,
                 offer |-> Nobody]
<1>1. /\ m \in Online /\ SetOwn(m, o) /\ UNCHANGED errands
      /\ mem[m].own.owner \in {Nobody, t} /\ mem[m].own.offer = t
  BY MeetOnline DEF AcceptOwner, RelationsInv
<1>2. o \in Own /\ Whole(o) /\ o.owner = t
  BY NullsDiffer DEF Own, Whole, RelationsInv, RelationsTyped
<1>3. mem[m].own.owner = Nobody => o.stage = 0
  BY NullsDiffer
<1> HIDE DEF o
<1> QED
  BY <1>1, <1>2, <1>3, OwnAgreed DEF RelationsInv, RelationsTyped

LEMMA ProposeOwnerKind ==
    ASSUME RelationsInv, NEW m \in Members, NEW t \in Members, ProposeOwner(m, t)
    PROVE  /\ t \in Online
           /\ \E o \in Own : OffersOwn(t, o) /\ o.owner = mem[t].own.owner
<1>1. t \in Online /\ UNCHANGED errands /\ mem[t].own \in Own /\ Whole(mem[t].own)
  BY MeetOnline, OnlineData DEF ProposeOwner, RelationsInv, Bounded
<1> DEFINE free == [Free EXCEPT !.offer = m]
           more == [mem[t].own EXCEPT !.offer = m]
<1>2. CASE NoOwner(t, t) /\ Sets([mem EXCEPT ![t].own = free], {})
  <2>1. free \in Own /\ Whole(free) /\ free.owner = Nobody
    BY FreeTyped DEF Free, Own, Whole
  <2>2. mem[t].own.owner = Nobody /\ [mem[t].own EXCEPT !.offer = Nobody] = Free
    BY <1>1, <1>2 DEF NoOwner, Whole
  <2>3. [free EXCEPT !.offer = Nobody] = Free
    <3>1. Free.owner = Nobody
      BY DEF Free
    <3>2. [Free EXCEPT !.offer = Nobody] = Free
      BY <3>1, FreeTyped DEF Whole
    <3> QED
      BY <3>2, FreeTyped, OfferErased
  <2>4. mem' = [mem EXCEPT ![t].own = free] /\ UNCHANGED <<updates, crossed>>
    BY <1>2, SetsNone
  <2> HIDE DEF free
  <2> QED
    BY <1>1, <2>1, <2>2, <2>3, <2>4, OwnSet DEF OffersOwn, Alike, RelationsInv
<1>3. CASE mem[t].own.owner = m /\ Sets([mem EXCEPT ![t].own.offer = m], {})
  <2>1. more \in Own /\ more.owner = mem[t].own.owner
    BY <1>1 DEF Own
  <2>2. Whole(more)
    BY <1>3, <2>1, NullsDiffer DEF Whole
  <2>3. Alike(more, mem[t].own)
    BY <1>1 DEF Alike, Own
  <2>4. mem' = [mem EXCEPT ![t].own.offer = m] /\ UNCHANGED <<updates, crossed>>
    BY <1>3, SetsNone
  <2>5. mem' = [mem EXCEPT ![t].own = more]
    BY <2>4
  <2> HIDE DEF more
  <2> QED
    BY <1>1, <2>1, <2>2, <2>3, <2>4, <2>5, OwnSet DEF OffersOwn, RelationsInv
<1>4. NoOwner(m, t) = NoOwner(t, t)
  BY DEF NoOwner
<1> QED
  BY <1>2, <1>3, <1>4 DEF ProposeOwner

LEMMA ErrandBegins ==
    ASSUME RelationsInv, NEW k \in {"release", "break"}, NEW m \in Online, NEW t \in Members,
           errands' = errands \cup {Job0(k, m, t)}, UNCHANGED <<mem, updates, crossed>>
    PROVE  \E j \in Errand : Begins(j)
<1> DEFINE j == Job0(k, m, t)
<1>1. j \in Errand /\ j.seen = NoData /\ j.acc = Live /\ j.by = m
  BY DEF Job0, Errand, MaybeData, Online, RelationsInv, RelationsTyped
<1> HIDE DEF j
<1>2. errands' = errands \cup {j}
  BY DEF j
<1> QED
  BY <1>1, <1>2 DEF Begins

LEMMA ProposeLoverKind ==
    ASSUME RelationsInv, NEW m \in Members, NEW t \in Members, ProposeLover(m, t)
    PROVE  \E s \in Online, l \in Bonds : OffersLov(s, l)
<1>1. /\ t \in Online /\ UNCHANGED errands /\ mem[t].lov \in Bonds
      /\ Cardinality(Lovers(mem[t].lov)) <= MaxLovers
  BY MeetOnline, OnlineData DEF ProposeLover, RelationsInv, Bounded, Count
<1> DEFINE l == mem[t].lov
           b == mem[t].lov[m]
<1>2. b \in Bond
  BY <1>1 DEF Bonds
<1>3. CASE b.stage = 0 /\ Takes(t) /\ Sets([mem EXCEPT ![t].lov[m].stage = 1], {})
  <2> DEFINE c == [b EXCEPT !.stage = 1]
             k == [l EXCEPT ![m] = c]
  <2>1. c \in Bond /\ c.stage = 1
    BY <1>2 DEF Bond
  <2>2. k \in Bonds /\ k[m] = c /\ \A x \in Members \ {m} : k[x] = l[x]
    BY <1>1, <2>1 DEF Bonds
  <2>3. mem' = [mem EXCEPT ![t].lov[m].stage = 1] /\ UNCHANGED <<updates, crossed>>
    BY <1>3, SetsNone
  <2>4. mem' = [mem EXCEPT ![t].lov = k]
    BY <2>3
  <2> HIDE DEF k
  <2>5. Stripped(k) = Stripped(l)
    <3>1. \A x \in Members :
            (IF k[x].stage <= 1 THEN NoBond ELSE [k[x] EXCEPT !.offer = FALSE])
              = (IF l[x].stage <= 1 THEN NoBond ELSE [l[x] EXCEPT !.offer = FALSE])
      <4> TAKE x \in Members
      <4>1. CASE x = m
        BY <4>1, <1>3, <2>1, <2>2
      <4>2. CASE x # m
        <5>1. k[x] = l[x]
          BY <4>2, <2>2
        <5> QED
          BY <5>1
      <4> QED BY <4>1, <4>2
    <3> QED
      BY <3>1 DEF Stripped
  <2>6. Lovers(k) \subseteq Lovers(l) \cup {m}
    BY <2>2 DEF Lovers
  <2>7. Cardinality(Lovers(l)) < MaxLovers
    BY <1>3 DEF Takes, Count
  <2>8. Cardinality(Lovers(k)) <= MaxLovers
    BY <2>6, <2>7, OneMore
  <2>9. LovIs(t, k)
    BY <1>1, <2>2, <2>4, LovSet DEF RelationsInv
  <2>10. OffersLov(t, k)
    BY <1>1, <2>2, <2>3, <2>5, <2>8, <2>9 DEF OffersLov
  <2> QED
    BY <1>1, <2>2, <2>10
<1>4. CASE b.stage \in {2, 3} /\ Sets([mem EXCEPT ![t].lov[m].offer = TRUE], {})
  <2> DEFINE c == [b EXCEPT !.offer = TRUE]
             k == [l EXCEPT ![m] = c]
  <2>1. c \in Bond /\ c.stage = b.stage /\ [c EXCEPT !.offer = FALSE] = [b EXCEPT !.offer = FALSE]
    BY <1>2 DEF Bond
  <2>2. k \in Bonds /\ k[m] = c /\ \A x \in Members \ {m} : k[x] = l[x]
    BY <1>1, <2>1 DEF Bonds
  <2>3. mem' = [mem EXCEPT ![t].lov[m].offer = TRUE] /\ UNCHANGED <<updates, crossed>>
    BY <1>4, SetsNone
  <2>4. mem' = [mem EXCEPT ![t].lov = k]
    BY <2>3
  <2> HIDE DEF k, c
  <2>5. Stripped(k) = Stripped(l)
    <3>1. \A x \in Members :
            (IF k[x].stage <= 1 THEN NoBond ELSE [k[x] EXCEPT !.offer = FALSE])
              = (IF l[x].stage <= 1 THEN NoBond ELSE [l[x] EXCEPT !.offer = FALSE])
      <4> TAKE x \in Members
      <4>1. CASE x = m
        BY <4>1, <2>1, <2>2
      <4>2. CASE x # m
        <5>1. k[x] = l[x]
          BY <4>2, <2>2
        <5> QED
          BY <5>1
      <4> QED BY <4>1, <4>2
    <3> QED
      BY <3>1 DEF Stripped
  <2>6. Lovers(k) \subseteq Lovers(l)
    BY <1>4, <2>1, <2>2 DEF Lovers
  <2>8. Cardinality(Lovers(k)) <= MaxLovers
    BY <1>1, <2>6, NoMore
  <2>9. LovIs(t, k)
    BY <1>1, <2>2, <2>4, LovSet DEF RelationsInv
  <2>10. OffersLov(t, k)
    BY <1>1, <2>2, <2>3, <2>5, <2>8, <2>9 DEF OffersLov
  <2> QED
    BY <1>1, <2>2, <2>10
<1> QED
  BY <1>3, <1>4 DEF ProposeLover

-----------------------------------------------------------------------------
(* What becomes of a member                                                 *)

LEMMA StillBecomes ==
    ASSUME NEW m, Pending(m)' = Pending(m), stored'[m] = stored[m], Lone(m)
    PROVE  Becomes(m)' = Becomes(m) /\ Lone(m)'
BY DEF Becomes, Lone

LEMMA AddsBecomes ==
    ASSUME NEW m, NEW w, Pending(m)' = {w}, stored'[m] = stored[m], w.read = NoData
    PROVE  Becomes(m)' = Applied(stored[m], w) /\ Lone(m)'
<1>1. (CHOOSE v \in {w} : TRUE) = w
  OBVIOUS
<1>2. Becomes(m)' = IF Pending(m)' = {} THEN stored'[m]
                    ELSE Applied(stored'[m], CHOOSE v \in Pending(m)' : TRUE)
  BY DEF Becomes, Applied
<1>3. Becomes(m)' = Applied(stored[m], w)
  BY <1>1, <1>2
<1> QED
  BY <1>3 DEF Lone

LEMMA PendingAdd ==
    ASSUME NEW w, updates' = updates \cup {w}
    PROVE  /\ Pending(w.who)' = Pending(w.who) \cup {w}
           /\ \A x : x # w.who => Pending(x)' = Pending(x)
BY DEF Pending

LEMMA PersistsBecomes ==
    ASSUME NEW m, NEW w, w.who = m, w.read = NoData, Persists(m, w), stored' = stored,
           m \notin crossed'
    PROVE  /\ Pending(m) = {} /\ Becomes(m) = stored[m]
           /\ Becomes(m)' = Applied(stored[m], w) /\ Lone(m)'
<1>1. Pending(m) = {}
  BY DEF Persists
<1>2. Pending(m)' = {w}
  BY <1>1, PendingAdd DEF Persists
<1> QED
  BY <1>1, <1>2, AddsBecomes DEF Becomes

LEMMA BecomesData ==
    ASSUME RelationsTyped, NEW m \in Members, Pending(m) = {}
    PROVE  /\ Becomes(m) = stored[m] /\ stored[m] \in Data
           /\ stored[m].own \in Own /\ stored[m].lov \in Bonds
<1>1. stored[m] \in Data
  BY DEF RelationsTyped
<1> QED
  BY <1>1 DEF Becomes, Data

LEMMA AppliedOwn ==
    ASSUME NEW d \in Data, NEW n, NEW m, NEW o
    PROVE  /\ Applied(d, PersistOwn(n, m, o)).own = o
           /\ Applied(d, PersistOwn(n, m, o)).lov = d.lov
BY DEF Applied, PersistOwn, Data

LEMMA AppliedLov ==
    ASSUME NEW d \in Data, NEW n, NEW m, NEW l \in Bonds
    PROVE  /\ Applied(d, PersistLov(n, m, l)).lov = l
           /\ Applied(d, PersistLov(n, m, l)).own = d.own
<1>1. PersistLov(n, m, l).lov = l /\ l # NoData
  BY NullsDiffer DEF PersistLov
<1> QED
  BY <1>1 DEF Applied, Data

\* Lovers go on agreeing when nobody's become others.
LEMMA StillMatched ==
    ASSUME Agreed, crossed \subseteq crossed',
           \A m \in Members \ crossed' : Becomes(m)'.lov = Becomes(m).lov,
           \A m \in Members \ crossed' : Lone(m)' /\ Recorded(m)'
    PROVE  Agreed'
<1>1. \A m, t \in Members \ crossed' : Matched(m, t)'
  BY DEF Agreed, Matched
<1> QED
  BY <1>1 DEF Agreed

LEMMA SameRecorded ==
    ASSUME NEW m, Recorded(m), mem'[m] = mem[m], Becomes(m)' = Becomes(m), m \in Members
    PROVE  Recorded(m)'
BY DEF Recorded, Online, Alike

-----------------------------------------------------------------------------
(* The invariant is kept.                                                   *)

Frame == UNCHANGED <<now, room, loaded, stored>> /\ acts' \in Nat

\* Where only t's data have changed, and it is as online as before.
LEMMA SameOnline ==
    ASSUME RelationsTyped, NEW t \in Online, mem' \in [Members -> MaybeData],
           mem'[t] \in Data, Others(t)
    PROVE  Online' = Online
<1>1. \A m \in Members : mem'[m] # NoData <=> mem[m] # NoData
  BY NullsDiffer DEF Others, Online
<1> QED
  BY <1>1 DEF Online

LEMMA SamePresence ==
    ASSUME Presence, Frame, Online' = Online, errands' \subseteq errands, RelationsTyped, RelationsTyped'
    PROVE  Presence'
<1>1. \A m \in Members : mem'[m] # NoData <=> mem[m] # NoData
  BY DEF Online
<1> QED
  BY <1>1 DEF Presence, Frame

LEMMA OwnUpdateTyped ==
    ASSUME NEW n \in Nat, NEW m \in Members, NEW o \in Own
    PROVE  PersistOwn(n, m, o) \in UpdateSet
BY DEF PersistOwn, UpdateSet, MaybeData

LEMMA LovUpdateTyped ==
    ASSUME NEW n \in Nat, NEW m \in Members, NEW l \in Bonds
    PROVE  PersistLov(n, m, l) \in UpdateSet
BY DEF PersistLov, UpdateSet, MaybeData

LEMMA AgreesOwnKept ==
    ASSUME RelationsInv, NEW t \in Online, NEW o, AgreesOwn(t, o), Frame
    PROVE  RelationsInv'
<1> PICK n \in Nat : Persists(t, PersistOwn(n, t, o))
  BY DEF AgreesOwn
<1> DEFINE w == PersistOwn(n, t, o)
<1>1. w \in UpdateSet /\ w.who = t /\ w.read = NoData /\ w.lov = NoData /\ w.own = o
  BY OwnUpdateTyped DEF PersistOwn, AgreesOwn, Online
<1> HIDE DEF w
<1>2. Persists(t, w) /\ OwnIs(t, o) /\ errands' \subseteq errands /\ Whole(o) /\ o \in Own
  BY DEF w, AgreesOwn
<1>3. t \in Members /\ mem[t] \in Data
  BY OnlineData DEF RelationsInv
<1>4. RelationsTyped'
  BY <1>1, <1>2, <1>3 DEF RelationsInv, RelationsTyped, Frame, Persists, OwnIs
<1>5. Online' = Online
  BY <1>2, SameOnline DEF RelationsInv, OwnIs
<1>6. Presence'
  BY <1>2, <1>4, <1>5, SamePresence DEF RelationsInv
<1>7. Bounded'
  <2>1. \A m \in Members : Proper(stored'[m]) /\ (loaded'[m] # NoData => Proper(loaded'[m]))
    BY DEF RelationsInv, Bounded, Frame
  <2>2. \A m \in Online : Count(m)' <= MaxLovers /\ Whole(mem'[m].own)
    <3> TAKE m \in Online
    <3>1. Count(m) <= MaxLovers /\ Whole(mem[m].own) /\ m \in Members
      BY DEF RelationsInv, Bounded, Online
    <3> QED
      BY <1>2, <3>1 DEF Count, OwnIs, Others
  <2>3. \A v \in updates' : /\ v.lov # NoData => Fit(v.lov)
                            /\ v.own # NoData => Whole(v.own)
                            /\ v.read # NoData => Proper(v.read)
    BY <1>1, <1>2 DEF RelationsInv, Bounded, Persists
  <2>4. \A j \in errands' : /\ j.seen # NoData => Fit(j.seen.lov)
                            /\ j.acc # Live => Cardinality(Lovers(j.acc.lov)) <= MaxLovers
    BY <1>2 DEF RelationsInv, Bounded
  <2> QED
    BY <1>5, <2>1, <2>2, <2>3, <2>4 DEF Bounded
<1>8. \A m \in Members \ crossed' :
          Becomes(m)'.lov = Becomes(m).lov /\ Lone(m)' /\ Recorded(m)'
  <2> TAKE m \in Members \ crossed'
  <2>1. m \in Members \ crossed
    BY <1>2 DEF Persists
  <2>2. Lone(m) /\ Recorded(m)
    BY <2>1 DEF RelationsInv, Agreed
  <2>3. CASE m = t
    <3>1. /\ Pending(t) = {} /\ Becomes(t) = stored[t]
          /\ Becomes(t)' = Applied(stored[t], w) /\ Lone(t)'
      BY <1>1, <1>2, <2>3, PersistsBecomes DEF Frame
    <3>2. Becomes(t)'.own = o /\ Becomes(t)'.lov = stored[t].lov
      BY <3>1, <1>3, AppliedOwn DEF w, RelationsInv, RelationsTyped
    <3>3. mem'[t].own = o /\ mem'[t].lov = mem[t].lov
      BY <1>2 DEF OwnIs
    <3>4. stored[t].lov = Stripped(mem[t].lov)
      BY <3>1, <2>2, <2>3 DEF Recorded
    <3>5. Recorded(t)'
      BY <3>2, <3>3, <3>4 DEF Recorded, Alike
    <3> QED
      BY <2>3, <3>1, <3>2, <3>5
  <2>4. CASE m # t
    <3>1. Pending(m)' = Pending(m)
      BY <2>4, <1>1, <1>2, PendingAdd DEF Persists
    <3>2. Becomes(m)' = Becomes(m) /\ Lone(m)'
      BY <2>2, <3>1, StillBecomes DEF Frame
    <3>3. mem'[m] = mem[m]
      BY <2>1, <2>4, <1>2 DEF OwnIs, Others
    <3> QED
      BY <2>1, <2>2, <3>2, <3>3, SameRecorded
  <2> QED BY <2>3, <2>4
<1>9. Agreed'
  BY <1>2, <1>8, StillMatched DEF RelationsInv, Persists
<1> QED
  BY <1>4, <1>6, <1>7, <1>9 DEF RelationsInv

\* Where neither the database nor its updates change.
LEMMA NothingBecomes ==
    ASSUME Agreed, UNCHANGED <<updates, stored>>, crossed \subseteq crossed',
           \A m \in Members \ crossed : Becomes(m)' = Becomes(m) => Recorded(m)'
    PROVE  Agreed'
<1>1. \A m \in Members : Pending(m)' = Pending(m)
  BY DEF Pending
<1>2. \A m \in Members \ crossed : Becomes(m)' = Becomes(m) /\ Lone(m)'
  BY <1>1, StillBecomes DEF Agreed
<1> QED
  BY <1>2, StillMatched

LEMMA OffersOwnKept ==
    ASSUME RelationsInv, NEW t \in Online, NEW o, OffersOwn(t, o), Frame
    PROVE  RelationsInv'
<1>2. OwnIs(t, o) /\ UNCHANGED <<updates, crossed, errands>>
  BY DEF OffersOwn
<1>3. t \in Members /\ mem[t] \in Data
  BY OnlineData DEF RelationsInv
<1>4. RelationsTyped'
  BY <1>2, <1>3 DEF RelationsInv, RelationsTyped, Frame, OwnIs
<1>5. Online' = Online
  BY <1>2, SameOnline DEF RelationsInv, OwnIs
<1>6. Presence'
  BY <1>2, <1>4, <1>5, SamePresence DEF RelationsInv
<1>7. Bounded'
  <2>2. \A m \in Online : Count(m)' <= MaxLovers /\ Whole(mem'[m].own)
    <3> TAKE m \in Online
    <3>1. Count(m) <= MaxLovers /\ Whole(mem[m].own) /\ m \in Members
      BY DEF RelationsInv, Bounded, Online
    <3> QED
      BY <1>2, <3>1 DEF Count, OwnIs, Others, OffersOwn
  <2> QED
    BY <1>2, <1>5, <2>2 DEF RelationsInv, Bounded, Frame
<1>8. ASSUME NEW m \in Members \ crossed, Becomes(m)' = Becomes(m) PROVE Recorded(m)'
  <2>1. Recorded(m)
    BY DEF RelationsInv, Agreed
  <2>2. CASE m = t
    <3>1. mem'[t].own = o /\ mem'[t].lov = mem[t].lov /\ Alike(o, mem[t].own)
      BY DEF OffersOwn, OwnIs
    <3> QED
      BY <2>1, <2>2, <3>1, <1>8 DEF Recorded, Alike
  <2>3. CASE m # t
    BY <2>1, <2>3, <1>2, <1>8, SameRecorded DEF OwnIs, Others
  <2> QED BY <2>2, <2>3
<1>9. Agreed'
  BY <1>2, <1>8, NothingBecomes DEF RelationsInv, Frame
<1> QED
  BY <1>4, <1>6, <1>7, <1>9 DEF RelationsInv

LEMMA OffersLovKept ==
    ASSUME RelationsInv, NEW t \in Online, NEW l, OffersLov(t, l), Frame
    PROVE  RelationsInv'
<1>2. LovIs(t, l) /\ UNCHANGED <<updates, crossed, errands>>
  BY DEF OffersLov
<1>3. t \in Members /\ mem[t] \in Data
  BY OnlineData DEF RelationsInv
<1>4. RelationsTyped'
  BY <1>2, <1>3 DEF RelationsInv, RelationsTyped, Frame, LovIs
<1>5. Online' = Online
  BY <1>2, SameOnline DEF RelationsInv, LovIs
<1>6. Presence'
  BY <1>2, <1>4, <1>5, SamePresence DEF RelationsInv
<1>7. Bounded'
  <2>2. \A m \in Online : Count(m)' <= MaxLovers /\ Whole(mem'[m].own)
    <3> TAKE m \in Online
    <3>1. Count(m) <= MaxLovers /\ Whole(mem[m].own) /\ m \in Members
      BY DEF RelationsInv, Bounded, Online
    <3> QED
      BY <1>2, <3>1 DEF Count, LovIs, Others, OffersLov
  <2> QED
    BY <1>2, <1>5, <2>2 DEF RelationsInv, Bounded, Frame
<1>8. ASSUME NEW m \in Members \ crossed, Becomes(m)' = Becomes(m) PROVE Recorded(m)'
  <2>1. Recorded(m)
    BY DEF RelationsInv, Agreed
  <2>2. CASE m = t
    <3>1. mem'[t].own = mem[t].own /\ Stripped(mem'[t].lov) = Stripped(mem[t].lov)
      BY DEF OffersLov, LovIs
    <3> QED
      BY <2>1, <2>2, <3>1, <1>8 DEF Recorded, Alike
  <2>3. CASE m # t
    BY <2>1, <2>3, <1>2, <1>8, SameRecorded DEF LovIs, Others
  <2> QED BY <2>2, <2>3
<1>9. Agreed'
  BY <1>2, <1>8, NothingBecomes DEF RelationsInv, Frame
<1> QED
  BY <1>4, <1>6, <1>7, <1>9 DEF RelationsInv

LEMMA BeginsKept ==
    ASSUME RelationsInv, NEW j, Begins(j), Frame
    PROVE  RelationsInv'
<1>1. RelationsTyped'
  BY DEF RelationsInv, RelationsTyped, Frame, Begins
<1>2. Presence'
  BY DEF RelationsInv, Presence, Online, Frame, Begins
<1>3. Bounded'
  BY DEF RelationsInv, Bounded, Online, Count, Frame, Begins
<1>4. ASSUME NEW m \in Members \ crossed, Becomes(m)' = Becomes(m) PROVE Recorded(m)'
  BY <1>4, SameRecorded DEF RelationsInv, Agreed, Begins
<1>5. Agreed'
  BY <1>4, NothingBecomes DEF RelationsInv, Frame, Begins
<1> QED
  BY <1>1, <1>2, <1>3, <1>5 DEF RelationsInv

-----------------------------------------------------------------------------
(* A lover is accepted.                                                     *)

\* What is written of both, and that they agree.
LEMMA AcceptedBonds ==
    ASSUME RelationsInv, NEW m \in Online, NEW t \in Online, NEW new \in Bond,
           mem[m].lov[t].stage \in 1 .. 3, new.stage = mem[m].lov[t].stage + 1,
           mem[m].lov[t].stage = 1 => HasRoom(m, t)
    PROVE  LET mine == Stripped([mem[m].lov EXCEPT ![t] = new])
               theirs == Stripped(Shared(m, t, new))
           IN  /\ mine \in Bonds /\ theirs \in Bonds /\ Fit(mine) /\ Fit(theirs)
               /\ mine[t].stage = new.stage
               /\ \A x \in Members \ {t} : mine[x].stage = Stripped(mem[m].lov)[x].stage
               /\ \A x \in Members \ {m} : theirs[x].stage = Stripped(mem[t].lov)[x].stage
               /\ mem[m].lov[t].stage = 1 \/ mem[t].lov[m].stage # 0 => theirs[m].stage = new.stage
               /\ m = t => mine = theirs
<1> DEFINE l == mem[m].lov
           k == mem[t].lov
           ml == [l EXCEPT ![t] = new]
           tl == Shared(m, t, new)
<1>1. /\ m \in Members /\ t \in Members /\ l \in Bonds /\ k \in Bonds
      /\ Cardinality(Lovers(l)) <= MaxLovers /\ Cardinality(Lovers(k)) <= MaxLovers
  BY OnlineData DEF RelationsInv, Bounded, Count
<1>2. ml \in Bonds /\ ml[t] = new /\ \A x \in Members \ {t} : ml[x] = l[x]
  BY <1>1 DEF Bonds
<1>3. /\ tl \in Bonds /\ \A x \in Members \ {m} : tl[x] = k[x]
      /\ tl = k \/ tl[m] = new
      /\ ~(new.stage > 2 /\ k[m].stage = 0) => tl[m] = new
      /\ tl[m] # new => new.stage > 2
  BY <1>1 DEF Bonds, Shared
<1>4. Lovers(ml) \subseteq Lovers(l)
  BY <1>1, <1>2 DEF Lovers
<1>5. Cardinality(Lovers(ml)) <= MaxLovers
  BY <1>1, <1>4, NoMore
<1>6. Cardinality(Lovers(tl)) <= MaxLovers
  <2>1. CASE tl = k
    BY <2>1, <1>1
  <2>2. CASE tl # k /\ k[m].stage # 0
    <3>1. Lovers(tl) \subseteq Lovers(k)
      BY <1>1, <1>3, <2>2 DEF Lovers
    <3> QED
      BY <3>1, <1>1, NoMore
  <2>3. CASE tl # k /\ k[m].stage = 0
    <3>1. new.stage <= 2 /\ l[t].stage = 1
      <4>1. ~(new.stage > 2 /\ k[m].stage = 0)
        BY <2>3 DEF Shared
      <4> QED
        BY <4>1, <2>3
    <3>2. Cardinality(Lovers(k)) < MaxLovers
      BY <2>3, <3>1 DEF HasRoom, Takes, Count
    <3>3. Lovers(tl) \subseteq Lovers(k) \cup {m}
      BY <1>3 DEF Lovers
    <3> QED
      BY <3>2, <3>3, OneMore
  <2> QED BY <2>1, <2>2, <2>3
<1>7. new.stage \in 2 .. 4
  OBVIOUS
<1> HIDE DEF ml, tl
<1>8. /\ Stripped(ml) \in Bonds /\ Fit(Stripped(ml))
      /\ Stripped(tl) \in Bonds /\ Fit(Stripped(tl))
  BY <1>2, <1>3, <1>5, <1>6, StrippedTyped, NoMore DEF Fit
<1>9. /\ Stripped(ml)[t].stage = new.stage
      /\ \A x \in Members \ {t} : Stripped(ml)[x].stage = Stripped(l)[x].stage
  BY <1>1, <1>2, <1>7, StrippedTyped
<1>10. \A x \in Members \ {m} : Stripped(tl)[x].stage = Stripped(k)[x].stage
  BY <1>1, <1>3, StrippedTyped
<1>11. l[t].stage = 1 \/ k[m].stage # 0 => Stripped(tl)[m].stage = new.stage
  <2>1. l[t].stage = 1 \/ k[m].stage # 0 => tl[m] = new
    BY <1>3, <1>7
  <2> QED
    BY <2>1, <1>1, <1>3, <1>7, StrippedTyped
<1>12. m = t => ml = tl
  <2> SUFFICES ASSUME m = t PROVE ml = tl
    OBVIOUS
  <2>1. k[m].stage # 0
    OBVIOUS
  <2> QED
    BY <2>1 DEF ml, tl, Shared
<1> QED
  BY <1>8, <1>9, <1>10, <1>11, <1>12 DEF ml, tl

\* The data of m and t change, their bonds to mine and theirs.
BothIs(m, t, mine, theirs) ==
    /\ mem' \in [Members -> MaybeData] /\ mem'[m] \in Data /\ mem'[t] \in Data
    /\ mem'[m].lov = mine /\ mem'[m].own = mem[m].own
    /\ mem'[t].lov = theirs /\ mem'[t].own = mem[t].own
    /\ \A x \in Members \ {m, t} : mem'[x] = mem[x]

LEMMA BothSet ==
    ASSUME RelationsTyped, NEW m \in Online, NEW t \in Online, NEW mine \in Bonds,
           NEW theirs \in Bonds, m = t => mine = theirs,
           mem' = [mem EXCEPT ![m].lov = mine, ![t].lov = theirs]
    PROVE  BothIs(m, t, mine, theirs)
<1>1. m \in Members /\ t \in Members /\ mem[m] \in Data /\ mem[t] \in Data
  BY OnlineData
<1> DEFINE dm == [mem[m] EXCEPT !.lov = mine]
           dt == [mem[t] EXCEPT !.lov = theirs]
<1>2. /\ dm \in Data /\ dm.lov = mine /\ dm.own = mem[m].own
      /\ dt \in Data /\ dt.lov = theirs /\ dt.own = mem[t].own
  BY <1>1 DEF Data
<1>3. CASE m # t
  <2>1. mem' = [[mem EXCEPT ![m] = dm] EXCEPT ![t] = dt]
    BY <1>1, <1>3 DEF RelationsTyped
  <2> HIDE DEF dm, dt
  <2>2. mem'[m] = dm /\ mem'[t] = dt /\ \A x \in Members \ {m, t} : mem'[x] = mem[x]
    BY <1>1, <1>3, <2>1 DEF RelationsTyped
  <2>3. mem' \in [Members -> MaybeData]
    BY <1>1, <1>2, <2>1 DEF RelationsTyped, MaybeData
  <2> QED
    BY <1>2, <2>2, <2>3 DEF BothIs
<1>4. CASE m = t
  <2> DEFINE d1 == [mem EXCEPT ![m] = dm]
  <2>1. d1[m] = dm /\ \A x \in Members \ {m} : d1[x] = mem[x]
    BY <1>1 DEF RelationsTyped
  <2>2. mem' = [d1 EXCEPT ![m] = [d1[m] EXCEPT !.lov = mine]]
    BY <1>4
  <2>3. [dm EXCEPT !.lov = mine] = dm
    BY <1>1 DEF Data
  <2>4. d1 \in [Members -> MaybeData]
    BY <1>1, <1>2 DEF RelationsTyped, MaybeData
  <2> HIDE DEF dm, d1
  <2>5. mem' \in [Members -> MaybeData] /\ mem'[m] = dm /\ \A x \in Members \ {m} : mem'[x] = mem[x]
    <3>1. mem' = [d1 EXCEPT ![m] = dm]
      BY <2>1, <2>2, <2>3
    <3>2. dm \in MaybeData
      BY <1>2 DEF MaybeData
    <3> QED  BY <1>1, <2>1, <2>4, <3>1, <3>2
  <2> QED
    BY <1>2, <1>4, <2>5 DEF BothIs
<1> QED BY <1>3, <1>4

LEMMA SetsTwo ==
    ASSUME NEW ms, NEW v, NEW w, Sets(ms, {v, w})
    PROVE  /\ mem' = ms /\ updates' = updates \cup {v, w}
           /\ crossed \subseteq crossed'
           /\ Pending(v.who) # {} => v.who \in crossed'
           /\ Pending(w.who) # {} => w.who \in crossed'
           /\ crossed' \subseteq crossed \cup {v.who, w.who}
<1>1. /\ Pending(v.who) # {} => v.who \in Meeting({v, w})
      /\ Pending(w.who) # {} => w.who \in Meeting({v, w})
  BY DEF Meeting
<1>2. Meeting({v, w}) \subseteq {v.who, w.who}
  BY DEF Meeting
<1> QED
  BY <1>1, <1>2 DEF Sets

\* The update v of m's bonds is the only one, and its bonds are in memory.
LEMMA LovBecomes ==
    ASSUME RelationsTyped, NEW m \in Members, NEW n, NEW l \in Bonds, stored' = stored,
           Recorded(m), Fit(l), Pending(m) = {}, Pending(m)' = {PersistLov(n, m, l)},
           m \in Online' => mem'[m].own = mem[m].own /\ Stripped(mem'[m].lov) = l /\ m \in Online
    PROVE  Becomes(m)'.lov = l /\ Lone(m)' /\ Recorded(m)'
<1> DEFINE v == PersistLov(n, m, l)
<1>1. v.read = NoData
  BY DEF PersistLov
<1>2. Becomes(m)' = Applied(stored[m], v) /\ Lone(m)'
  BY <1>1, AddsBecomes
<1>3. Becomes(m) = stored[m] /\ stored[m] \in Data
  BY BecomesData
<1>4. Becomes(m)'.lov = l /\ Becomes(m)'.own = stored[m].own
  BY <1>2, <1>3, AppliedLov
<1>5. Recorded(m)'
  <2> SUFFICES ASSUME m \in Online'
               PROVE  Becomes(m)'.lov = Stripped(mem'[m].lov) /\ Alike(Becomes(m)'.own, mem'[m].own)
    BY DEF Recorded, Alike
  <2>1. Alike(stored[m].own, mem[m].own)
    BY <1>3 DEF Recorded
  <2> QED
    BY <1>4, <2>1
<1> QED
  BY <1>2, <1>4, <1>5

LEMMA AcceptLoverKept ==
    ASSUME RelationsInv, NEW m \in Members, NEW t \in Members, AcceptLover(m, t),
           UNCHANGED <<now, room, loaded, stored>>
    PROVE  RelationsInv'
<1> DEFINE b == mem[m].lov[t]
           new == [stage |-> b.stage + 1, start |-> now, offer |-> FALSE]
           mine == Stripped([mem[m].lov EXCEPT ![t] = new])
           theirs == Stripped(Shared(m, t, new))
           v == PersistLov(acts + 1, m, mine)
           w == PersistLov(acts + 1, t, theirs)
<1>1. m \in Online /\ t \in Online /\ acts' = acts + 1 /\ errands' = errands
  BY MeetOnline DEF AcceptLover, Wants, RelationsInv
<1>2. b \in Bond
  BY <1>1, OnlineData DEF RelationsInv, Bonds
<1>3. b.stage \in 1 .. 3 /\ (b.stage = 1 => HasRoom(m, t))
  BY DEF AcceptLover
<1>4. new \in Bond /\ new.stage = b.stage + 1
  BY <1>2, <1>3 DEF Bond, RelationsInv, RelationsTyped
<1>5. Sets([mem EXCEPT ![m].lov = mine, ![t].lov = theirs], {v, w})
  BY DEF AcceptLover
<1> HIDE DEF new
<1>6. /\ mine \in Bonds /\ theirs \in Bonds /\ Fit(mine) /\ Fit(theirs)
      /\ mine[t].stage = new.stage
      /\ \A x \in Members \ {t} : mine[x].stage = Stripped(mem[m].lov)[x].stage
      /\ \A x \in Members \ {m} : theirs[x].stage = Stripped(mem[t].lov)[x].stage
      /\ b.stage = 1 \/ mem[t].lov[m].stage # 0 => theirs[m].stage = new.stage
      /\ m = t => mine = theirs
  BY <1>1, <1>3, <1>4, AcceptedBonds
<1> HIDE DEF mine, theirs
<1>7. BothIs(m, t, mine, theirs)
  BY <1>1, <1>5, <1>6, SetsTwo, BothSet DEF RelationsInv
<1>8. v.who = m /\ w.who = t
  BY DEF PersistLov
<1>9. /\ updates' = updates \cup {v, w} /\ crossed \subseteq crossed'
      /\ Pending(m) # {} => m \in crossed'
      /\ Pending(t) # {} => t \in crossed'
      /\ crossed' \subseteq crossed \cup {m, t}
  BY <1>5, <1>8, SetsTwo
<1>10. /\ v \in UpdateSet /\ w \in UpdateSet /\ v.read = NoData /\ w.read = NoData
       /\ v.own = NoData /\ w.own = NoData /\ v.lov = mine /\ w.lov = theirs
  <2>1. acts + 1 \in Nat
    BY DEF RelationsInv, RelationsTyped
  <2>2. v \in UpdateSet /\ w \in UpdateSet
    BY <2>1, <1>6, LovUpdateTyped
  <2> QED
    BY <2>2 DEF PersistLov
<1>11. m = t => v = w
  BY <1>6
<1> HIDE DEF v, w
<1>12. RelationsTyped'
  BY <1>1, <1>7, <1>9, <1>10 DEF RelationsInv, RelationsTyped, BothIs
<1>13. Online' = Online
  <2>1. \A x \in Members : mem'[x] # NoData <=> mem[x] # NoData
    BY <1>1, <1>7, NullsDiffer DEF BothIs, Online
  <2> QED
    BY <2>1 DEF Online
<1>14. Presence'
  BY <1>1, <1>12, <1>13, SamePresence DEF RelationsInv, RelationsTyped, Frame
<1>15. Bounded'
  <2>1. \A x \in Members : Proper(stored'[x]) /\ (loaded'[x] # NoData => Proper(loaded'[x]))
    BY DEF RelationsInv, Bounded
  <2>2. \A x \in Online : Count(x)' <= MaxLovers /\ Whole(mem'[x].own)
    <3> TAKE x \in Online
    <3>1. Count(x) <= MaxLovers /\ Whole(mem[x].own) /\ x \in Members
      BY DEF RelationsInv, Bounded, Online
    <3>2. CASE x = m
      BY <3>1, <3>2, <1>6, <1>7 DEF Count, BothIs, Fit
    <3>3. CASE x = t
      BY <3>1, <3>3, <1>6, <1>7 DEF Count, BothIs, Fit
    <3>4. CASE x # m /\ x # t
      BY <3>1, <3>4, <1>7 DEF Count, BothIs
    <3> QED
      BY <3>2, <3>3, <3>4
  <2>3. \A u \in updates' : /\ u.lov # NoData => Fit(u.lov)
                            /\ u.own # NoData => Whole(u.own)
                            /\ u.read # NoData => Proper(u.read)
    BY <1>6, <1>9, <1>10 DEF RelationsInv, Bounded
  <2>4. \A j \in errands' : /\ j.seen # NoData => Fit(j.seen.lov)
                            /\ j.acc # Live => Cardinality(Lovers(j.acc.lov)) <= MaxLovers
    BY <1>1 DEF RelationsInv, Bounded
  <2> QED
    BY <1>13, <2>1, <2>2, <2>3, <2>4 DEF Bounded
<1>16. \A x \in Members \ {m, t} : Pending(x)' = Pending(x)
  BY <1>8, <1>9 DEF Pending
<1>17. /\ Pending(m) = {} => Pending(m)' = {v}
       /\ Pending(t) = {} => Pending(t)' = {w}
  <2>1. m # t => Pending(m)' = Pending(m) \cup {v} /\ Pending(t)' = Pending(t) \cup {w}
    BY <1>8, <1>9 DEF Pending
  <2>2. m = t => Pending(m)' = Pending(m) \cup {v}
    BY <1>8, <1>9, <1>11 DEF Pending
  <2> QED
    BY <2>1, <2>2, <1>11
<1>18. \A x \in Members \ crossed : Lone(x) /\ Recorded(x)
  BY DEF RelationsInv, Agreed
<1>19. m \notin crossed' => /\ Becomes(m)'.lov = mine /\ Lone(m)' /\ Recorded(m)'
                            /\ Becomes(m).lov = Stripped(mem[m].lov)
  <2> SUFFICES ASSUME m \notin crossed'
               PROVE  /\ Becomes(m)'.lov = mine /\ Lone(m)' /\ Recorded(m)'
                      /\ Becomes(m).lov = Stripped(mem[m].lov)
    OBVIOUS
  <2>1. Pending(m) = {} /\ Pending(m)' = {PersistLov(acts + 1, m, mine)} /\ Recorded(m)
    BY <1>9, <1>17, <1>18 DEF v
  <2>2. mem'[m].own = mem[m].own /\ Stripped(mem'[m].lov) = mine
    BY <1>6, <1>7 DEF BothIs, Fit
  <2>3. Becomes(m)'.lov = mine /\ Lone(m)' /\ Recorded(m)'
    BY <2>1, <2>2, <1>1, <1>6, LovBecomes DEF RelationsInv
  <2> QED
    BY <2>1, <2>3, <1>1 DEF Recorded
<1>20. t \notin crossed' => /\ Becomes(t)'.lov = theirs /\ Lone(t)' /\ Recorded(t)'
                            /\ Becomes(t).lov = Stripped(mem[t].lov)
  <2> SUFFICES ASSUME t \notin crossed'
               PROVE  /\ Becomes(t)'.lov = theirs /\ Lone(t)' /\ Recorded(t)'
                      /\ Becomes(t).lov = Stripped(mem[t].lov)
    OBVIOUS
  <2>1. Pending(t) = {} /\ Pending(t)' = {PersistLov(acts + 1, t, theirs)} /\ Recorded(t)
    BY <1>9, <1>17, <1>18 DEF w
  <2>2. mem'[t].own = mem[t].own /\ Stripped(mem'[t].lov) = theirs
    BY <1>6, <1>7 DEF BothIs, Fit
  <2>3. Becomes(t)'.lov = theirs /\ Lone(t)' /\ Recorded(t)'
    BY <2>1, <2>2, <1>1, <1>6, LovBecomes DEF RelationsInv
  <2> QED
    BY <2>1, <2>3, <1>1 DEF Recorded
<1>21. \A x \in Members \ (crossed' \cup {m, t}) :
          Becomes(x)' = Becomes(x) /\ Lone(x)' /\ Recorded(x)'
  <2> TAKE x \in Members \ (crossed' \cup {m, t})
  <2>1. Lone(x) /\ Recorded(x) /\ Pending(x)' = Pending(x) /\ mem'[x] = mem[x]
    BY <1>9, <1>16, <1>18, <1>7 DEF BothIs
  <2>2. Becomes(x)' = Becomes(x) /\ Lone(x)'
    BY <2>1, StillBecomes
  <2> QED
    BY <2>1, <2>2, SameRecorded
<1>22. ASSUME NEW x \in Members \ crossed', NEW y \in Members \ crossed'
       PROVE  Becomes(x)'.lov[y].stage = Becomes(y)'.lov[x].stage
  <2>1. Becomes(x).lov[y].stage = Becomes(y).lov[x].stage
    BY <1>9 DEF RelationsInv, Agreed, Matched
  <2>2. m \notin crossed' /\ t \notin crossed' => theirs[m].stage = new.stage
    <3> SUFFICES ASSUME m \notin crossed', t \notin crossed', b.stage # 1
                 PROVE  mem[t].lov[m].stage # 0
      BY <1>6
    <3>1. Becomes(m).lov[t].stage = Becomes(t).lov[m].stage
      BY <1>9 DEF RelationsInv, Agreed, Matched
    <3>2. Stripped(mem[m].lov)[t].stage = Stripped(mem[t].lov)[m].stage
      BY <3>1, <1>19, <1>20
    <3>3. Stripped(mem[m].lov)[t].stage = b.stage
      BY <1>1, <1>3, OnlineData, StrippedTyped DEF RelationsInv
    <3>4. Stripped(mem[t].lov)[m].stage = IF mem[t].lov[m].stage <= 1 THEN 0 ELSE mem[t].lov[m].stage
      BY <1>1, OnlineData, StrippedTyped DEF RelationsInv
    <3>5. b.stage # 0
      BY <1>3
    <3> HIDE DEF b
    <3> QED
      BY <3>2, <3>3, <3>4, <3>5
  <2>3. CASE x = m /\ y = t
    BY <2>2, <2>3, <1>6, <1>19, <1>20
  <2>4. CASE x = t /\ y = m
    BY <2>2, <2>4, <1>6, <1>19, <1>20
  <2>5. CASE <<x, y>> # <<m, t>> /\ <<x, y>> # <<t, m>>
    <3>1. ASSUME NEW p \in Members \ crossed', NEW q \in Members \ crossed',
                 ~(p = m /\ q = t), ~(p = t /\ q = m)
          PROVE  Becomes(p)'.lov[q].stage = Becomes(p).lov[q].stage
      <4>1. CASE p = m
        BY <3>1, <4>1, <1>6, <1>19
      <4>2. CASE p = t
        BY <3>1, <4>2, <1>6, <1>20
      <4>3. CASE p # m /\ p # t
        BY <4>3, <1>21
      <4> QED BY <4>1, <4>2, <4>3
    <3> QED
      BY <2>1, <2>5, <3>1
  <2> QED BY <2>3, <2>4, <2>5
<1>23. Agreed'
  <2>1. \A x \in Members \ crossed' : Lone(x)' /\ Recorded(x)'
    BY <1>19, <1>20, <1>21
  <2>2. \A x, y \in Members \ crossed' : Matched(x, y)'
    BY <1>22 DEF Matched
  <2> QED
    BY <2>1, <2>2 DEF Agreed
<1> QED
  BY <1>12, <1>14, <1>15, <1>23 DEF RelationsInv
LEMMA ReleaseAbsentKind ==
    ASSUME RelationsInv, NEW m \in Members, NEW t \in Members, ReleaseAbsent(m, t)
    PROVE  \E j \in Errand : Begins(j)
<1>1. m \in Online
  BY DEF ReleaseAbsent, Wants
<1> QED
  BY <1>1, ErrandBegins DEF ReleaseAbsent

LEMMA BreakLoverKind ==
    ASSUME RelationsInv, NEW m \in Members, NEW t \in Members, BreakLover(m, t)
    PROVE  \E j \in Errand : Begins(j)
<1>1. m \in Online
  BY DEF BreakLover, Wants
<1> QED
  BY <1>1, ErrandBegins DEF BreakLover

-----------------------------------------------------------------------------
(* Errands                                                                  *)

LEMMA ErrandTyped ==
    ASSUME RelationsTyped, NEW j \in errands
    PROVE  /\ j \in Errand /\ j.id \in Nat /\ j.by \in Members /\ j.of \in Members
           /\ j.seen \in MaybeData /\ j.acc \in Data \cup {Live}
BY DEF RelationsTyped, Errand

LEMMA ReadsKept ==
    ASSUME RelationsInv, NEW j \in errands, Reads(j),
           UNCHANGED <<now, room, loaded, stored, acts, moves>>
    PROVE  RelationsInv'
<1> DEFINE k == [j EXCEPT !.seen = stored[j.of]]
<1>1. j \in Errand /\ j.of \in Members
  BY ErrandTyped DEF RelationsInv
<1>2. stored[j.of] \in Data /\ Proper(stored[j.of])
  BY <1>1 DEF RelationsInv, RelationsTyped, Bounded
<1>3. k \in Errand /\ k.seen = stored[j.of] /\ k.acc = j.acc /\ k.by = j.by
  BY <1>1, <1>2 DEF Errand, MaybeData
<1>4. errands' = (errands \ {j}) \cup {k} /\ UNCHANGED <<mem, updates, crossed>>
  BY DEF Reads
<1> HIDE DEF k
<1>5. RelationsTyped'
  BY <1>3, <1>4 DEF RelationsInv, RelationsTyped
<1>6. Presence'
  BY <1>3, <1>4 DEF RelationsInv, Presence, Online
<1>7. Bounded'
  <2>1. \A i \in errands' : /\ i.seen # NoData => Fit(i.seen.lov)
                            /\ i.acc # Live => Cardinality(Lovers(i.acc.lov)) <= MaxLovers
    BY <1>2, <1>3, <1>4 DEF RelationsInv, Bounded, Proper
  <2> QED
    BY <2>1, <1>4 DEF RelationsInv, Bounded, Online, Count
<1>8. ASSUME NEW m \in Members \ crossed, Becomes(m)' = Becomes(m) PROVE Recorded(m)'
  BY <1>4, <1>8, SameRecorded DEF RelationsInv, Agreed
<1>9. Agreed'
  BY <1>4, <1>8, NothingBecomes DEF RelationsInv
<1> QED
  BY <1>5, <1>6, <1>7, <1>9 DEF RelationsInv

\* An errand that has nothing to do just ends.
LEMMA EndsKept ==
    ASSUME RelationsInv, errands' \subseteq errands, UNCHANGED <<mem, updates, crossed>>,
           UNCHANGED <<now, room, loaded, stored, acts, moves>>
    PROVE  RelationsInv'
<1>1. RelationsTyped'
  BY DEF RelationsInv, RelationsTyped
<1>2. Presence'
  BY DEF RelationsInv, Presence, Online
<1>3. Bounded'
  BY DEF RelationsInv, Bounded, Online, Count
<1>4. ASSUME NEW m \in Members \ crossed, Becomes(m)' = Becomes(m) PROVE Recorded(m)'
  BY <1>4, SameRecorded DEF RelationsInv, Agreed
<1>5. Agreed'
  BY <1>4, NothingBecomes DEF RelationsInv
<1> QED
  BY <1>1, <1>2, <1>3, <1>5 DEF RelationsInv

\* Who is released while offline: only the database will have it.
LEMMA AbsentReleased ==
    ASSUME RelationsInv, NEW t \in Members \ Online, NEW n \in Nat,
           Persists(t, PersistOwn(n, t, Free)), mem' = mem, errands' \subseteq errands,
           UNCHANGED <<now, room, loaded, stored, acts, moves>>
    PROVE  RelationsInv'
<1> DEFINE w == PersistOwn(n, t, Free)
<1>1. w \in UpdateSet /\ w.who = t /\ w.read = NoData /\ w.lov = NoData /\ w.own = Free
  BY OwnUpdateTyped, FreeTyped DEF PersistOwn
<1> HIDE DEF w
<1>2. Persists(t, w)
  BY DEF w
<1>3. RelationsTyped'
  BY <1>1, <1>2 DEF RelationsInv, RelationsTyped, Persists
<1>4. Presence'
  BY DEF RelationsInv, Presence, Online
<1>5. Bounded'
  <2>1. \A v \in updates' : /\ v.lov # NoData => Fit(v.lov)
                            /\ v.own # NoData => Whole(v.own)
                            /\ v.read # NoData => Proper(v.read)
    BY <1>1, <1>2, FreeTyped DEF RelationsInv, Bounded, Persists
  <2> QED
    BY <2>1 DEF RelationsInv, Bounded, Online, Count
<1>6. \A m \in Members \ crossed' :
          Becomes(m)'.lov = Becomes(m).lov /\ Lone(m)' /\ Recorded(m)'
  <2> TAKE m \in Members \ crossed'
  <2>1. m \in Members \ crossed
    BY <1>2 DEF Persists
  <2>2. Lone(m) /\ Recorded(m)
    BY <2>1 DEF RelationsInv, Agreed
  <2>3. CASE m = t
    <3>1. /\ Pending(t) = {} /\ Becomes(t) = stored[t]
          /\ Becomes(t)' = Applied(stored[t], w) /\ Lone(t)'
      BY <1>1, <1>2, <2>3, PersistsBecomes
    <3>2. Becomes(t)'.lov = stored[t].lov
      BY <3>1, AppliedOwn DEF w, RelationsInv, RelationsTyped
    <3>3. Recorded(t)'
      BY DEF Recorded, Online
    <3> QED
      BY <2>3, <3>1, <3>2, <3>3
  <2>4. CASE m # t
    <3>1. Pending(m)' = Pending(m)
      BY <2>4, <1>1, <1>2, PendingAdd DEF Persists
    <3>2. Becomes(m)' = Becomes(m) /\ Lone(m)'
      BY <2>2, <3>1, StillBecomes
    <3> QED
      BY <2>1, <2>2, <3>2, SameRecorded
  <2> QED BY <2>3, <2>4
<1>7. Agreed'
  BY <1>2, <1>6, StillMatched DEF RelationsInv, Persists
<1> QED
  BY <1>3, <1>4, <1>5, <1>7 DEF RelationsInv

\* A release that finds its owner frees the other in memory, if online, and in the database.
LEMMA FinishReleaseKind ==
    ASSUME RelationsInv, NEW j \in errands, FinishRelease(j), errands' = errands \ {j}
    PROVE  \/ UNCHANGED <<mem, updates, crossed>>
           \/ j.of \in Online /\ AgreesOwn(j.of, Free)
           \/ /\ j.of \notin Online /\ mem' = mem
              /\ Persists(j.of, PersistOwn(j.id, j.of, Free))
<1> DEFINE t == j.of
<1>1. j.id \in Nat /\ t \in Members
  BY ErrandTyped DEF RelationsInv
<1>2. CASE ~(j.acc = Live /\ j.by \in room /\ j.seen.own.owner = j.by)
  BY <1>2 DEF FinishRelease
<1>3. CASE j.acc = Live /\ j.by \in room /\ j.seen.own.owner = j.by
  <2>1. /\ mem' = IF t \in Online THEN [mem EXCEPT ![t].own = Free] ELSE mem
        /\ updates' = updates \cup {PersistOwn(j.id, t, Free)}
        /\ crossed' = crossed \cup Meeting({PersistOwn(j.id, t, Free)}) \cup (IF Stale(j) THEN {t} ELSE {})
    BY <1>3 DEF FinishRelease
  <2>2. Pending(t) # {} => t \in crossed'
    BY <2>1 DEF Stale
  <2>3. Meeting({PersistOwn(j.id, t, Free)}) \subseteq {t}
    BY DEF Meeting, PersistOwn
  <2>6. Persists(t, PersistOwn(j.id, t, Free))
    BY <2>1, <2>2, <2>3 DEF Persists
  <2>4. CASE t \in Online
    BY <1>1, <2>1, <2>4, <2>6, OwnSet, FreeTyped DEF AgreesOwn, RelationsInv
  <2>5. CASE t \notin Online
    BY <2>1, <2>5, <2>6
  <2> QED BY <2>4, <2>5
<1> QED BY <1>2, <1>3

LEMMA FinishReleaseKept ==
    ASSUME RelationsInv, NEW j \in errands, FinishRelease(j), errands' = errands \ {j},
           UNCHANGED <<now, room, loaded, stored, acts, moves>>
    PROVE  RelationsInv'
<1>1. CASE UNCHANGED <<mem, updates, crossed>>
  BY <1>1, EndsKept
<1>2. CASE j.of \in Online /\ AgreesOwn(j.of, Free)
  BY <1>2, AgreesOwnKept DEF Frame, RelationsInv, RelationsTyped
<1>3. CASE /\ j.of \notin Online /\ mem' = mem
           /\ Persists(j.of, PersistOwn(j.id, j.of, Free))
  <2>1. j.id \in Nat /\ j.of \in Members \ Online
    BY <1>3, ErrandTyped DEF RelationsInv
  <2> QED
    BY <1>3, <2>1, AbsentReleased
<1> QED
  BY <1>1, <1>2, <1>3, FinishReleaseKind
-----------------------------------------------------------------------------
(* A break ends.                                                            *)

Cut(j) == [j.seen.lov EXCEPT ![j.by] = NoBond]
Hit(j) == j.seen.lov[j.by].stage >= 2
Left(j) == IF Hit(j) /\ j.of \in Online THEN [mem EXCEPT ![j.of].lov = Cut(j)] ELSE mem
AskedOf(j) == IF j.acc = Live THEN Left(j)[j.by] ELSE j.acc
Mine(j) == Stripped([AskedOf(j).lov EXCEPT ![j.of] = NoBond])

Writes(j) == (IF Hit(j) THEN {PersistLov(j.id, j.of, Stripped(Cut(j)))} ELSE {})
                 \cup (IF j.by # j.of THEN {PersistLov(j.id, j.by, Mine(j))} ELSE {})

LEMMA FinishBreakIs ==
    ASSUME NEW j, FinishBreak(j)
    PROVE  /\ mem' = IF j.acc = Live /\ j.by # j.of THEN [Left(j) EXCEPT ![j.by].lov = Mine(j)] ELSE Left(j)
           /\ updates' = updates \cup Writes(j)
           /\ crossed' = crossed \cup Meeting(Writes(j)) \cup (IF Stale(j) THEN {j.of} ELSE {})
                            \cup (IF j.acc # Live THEN {j.by} ELSE {})
BY Zenon DEF FinishBreak, Cut, Hit, Left, AskedOf, Mine, Writes

LEMMA WithoutBond ==
    ASSUME NEW l \in Bonds, NEW x \in Members
    PROVE  LET k == [l EXCEPT ![x] = NoBond]
           IN  /\ k \in Bonds /\ k[x] = NoBond /\ \A y \in Members \ {x} : k[y] = l[y]
               /\ Lovers(k) \subseteq Lovers(l)
               /\ Stripped(k) = [Stripped(l) EXCEPT ![x] = NoBond]
<1> DEFINE k == [l EXCEPT ![x] = NoBond]
           s == [Stripped(l) EXCEPT ![x] = NoBond]
<1>1. k \in Bonds /\ k[x] = NoBond /\ \A y \in Members \ {x} : k[y] = l[y]
  BY FreeTyped DEF Bonds
<1>2. Lovers(k) \subseteq Lovers(l)
  BY <1>1 DEF Lovers, NoBond
<1>3. /\ Stripped(l) \in Bonds /\ Stripped(k) \in Bonds
      /\ Stripped(l) = [y \in Members |-> IF l[y].stage <= 1 THEN NoBond ELSE [l[y] EXCEPT !.offer = FALSE]]
      /\ Stripped(k) = [y \in Members |-> IF k[y].stage <= 1 THEN NoBond ELSE [k[y] EXCEPT !.offer = FALSE]]
  BY <1>1, StrippedTyped DEF Stripped
<1>4. s \in Bonds /\ s[x] = NoBond /\ \A y \in Members \ {x} : s[y] = Stripped(l)[y]
  BY <1>3, FreeTyped DEF Bonds
<1> HIDE DEF k, s
<1>5. \A y \in Members : Stripped(k)[y] = s[y]
  <2> TAKE y \in Members
  <2>1. CASE y = x
    <3>1. k[y].stage <= 1
      BY <2>1, <1>1 DEF NoBond
    <3> QED
      BY <2>1, <3>1, <1>3, <1>4
  <2>2. CASE y # x
    <3>1. s[y] = Stripped(l)[y] /\ k[y] = l[y]
      BY <2>2, <1>1, <1>4
    <3>2. Stripped(l)[y] = IF l[y].stage <= 1 THEN NoBond ELSE [l[y] EXCEPT !.offer = FALSE]
      BY <1>3
    <3>3. Stripped(k)[y] = IF k[y].stage <= 1 THEN NoBond ELSE [k[y] EXCEPT !.offer = FALSE]
      BY <1>3
    <3>4. Stripped(k)[y] = Stripped(l)[y]
      BY <3>1, <3>2, <3>3, Zenon
    <3> QED
      BY <3>1, <3>4
  <2> QED BY <2>1, <2>2
<1>6. Stripped(k) = s
  BY <1>3, <1>4, <1>5 DEF Bonds
<1> QED
  BY <1>1, <1>2, <1>6 DEF k, s

\* The bonds of one online member are set.
LEMMA Relov ==
    ASSUME NEW f \in [Members -> MaybeData], NEW t \in Members, f[t] \in Data, NEW l \in Bonds,
           NEW g, g = [f EXCEPT ![t].lov = l]
    PROVE  /\ g \in [Members -> MaybeData] /\ g[t] \in Data
           /\ g[t].lov = l /\ g[t].own = f[t].own
           /\ \A x \in Members \ {t} : g[x] = f[x]
<1>1. [f[t] EXCEPT !.lov = l] \in Data
  BY DEF Data
<1>2. g = [f EXCEPT ![t] = [f[t] EXCEPT !.lov = l]]
  OBVIOUS
<1>3. [f[t] EXCEPT !.lov = l].lov = l /\ [f[t] EXCEPT !.lov = l].own = f[t].own
  BY DEF Data
<1>4. g[t] = [f[t] EXCEPT !.lov = l] /\ \A x \in Members \ {t} : g[x] = f[x]
  BY <1>2
<1>5. g \in [Members -> MaybeData]
  BY <1>1, <1>2 DEF MaybeData
<1> QED
  BY <1>1, <1>3, <1>4, <1>5

LEMMA CutFits ==
    ASSUME RelationsInv, NEW j \in errands, j.seen # NoData
    PROVE  /\ j.seen \in Data /\ j.seen.lov \in Bonds /\ Stripped(j.seen.lov) = j.seen.lov
           /\ Cut(j) \in Bonds /\ Stripped(Cut(j)) = Cut(j) /\ Fit(Cut(j))
           /\ Cut(j)[j.by] = NoBond
           /\ \A x \in Members \ {j.by} : Cut(j)[x] = j.seen.lov[x]
           /\ ~Hit(j) => j.seen.lov[j.by].stage = 0
<1>1. j.by \in Members /\ j.seen \in Data
  BY ErrandTyped DEF RelationsInv, MaybeData
<1>2. j.seen.lov \in Bonds /\ Fit(j.seen.lov)
  BY <1>1 DEF Data, RelationsInv, Bounded
<1>3. /\ Cut(j) \in Bonds /\ Cut(j)[j.by] = NoBond
      /\ \A x \in Members \ {j.by} : Cut(j)[x] = j.seen.lov[x]
      /\ Lovers(Cut(j)) \subseteq Lovers(j.seen.lov)
      /\ Stripped(Cut(j)) = Cut(j)
  BY <1>1, <1>2, WithoutBond DEF Cut, Fit
<1>4. Cardinality(Lovers(Cut(j))) <= MaxLovers
  BY <1>2, <1>3, NoMore DEF Fit
<1>5. ~Hit(j) => j.seen.lov[j.by].stage = 0
  <2>1. Stripped(j.seen.lov)[j.by].stage = IF j.seen.lov[j.by].stage <= 1 THEN 0 ELSE j.seen.lov[j.by].stage
    BY <1>1, <1>2, StrippedTyped
  <2>2. j.seen.lov[j.by].stage \in 0 .. 4
    BY <1>1, <1>2 DEF Bonds, Bond
  <2>3. Stripped(j.seen.lov) = j.seen.lov
    BY <1>2 DEF Fit
  <2> QED
    BY <2>1, <2>2, <2>3 DEF Hit
<1> QED
  BY <1>1, <1>2, <1>3, <1>4, <1>5 DEF Fit

LEMMA LeftIs ==
    ASSUME RelationsInv, NEW j \in errands, j.seen # NoData
    PROVE  /\ Left(j) \in [Members -> MaybeData]
           /\ \A x \in Online : /\ Left(j)[x] \in Data /\ Left(j)[x].own = mem[x].own
                                /\ Cardinality(Lovers(Left(j)[x].lov)) <= MaxLovers
           /\ \A x \in Members \ {j.of} : Left(j)[x] = mem[x]
           /\ j.of \in Online => Left(j)[j.of].lov = IF Hit(j) THEN Cut(j) ELSE mem[j.of].lov
           /\ j.of \notin Online => Left(j)[j.of] = mem[j.of]
<1>1. j.of \in Members /\ mem \in [Members -> MaybeData]
  BY ErrandTyped DEF RelationsInv, RelationsTyped
<1>2. \A x \in Online : x \in Members /\ mem[x] \in Data /\ Cardinality(Lovers(mem[x].lov)) <= MaxLovers
  BY OnlineData DEF RelationsInv, Bounded, Count
<1>3. Cut(j) \in Bonds /\ Fit(Cut(j))
  BY CutFits
<1>4. CASE Hit(j) /\ j.of \in Online
  <2>1. Left(j) = [mem EXCEPT ![j.of].lov = Cut(j)]
    BY <1>4 DEF Left
  <2>2. /\ Left(j) \in [Members -> MaybeData] /\ Left(j)[j.of] \in Data
        /\ Left(j)[j.of].lov = Cut(j) /\ Left(j)[j.of].own = mem[j.of].own
        /\ \A x \in Members \ {j.of} : Left(j)[x] = mem[x]
    BY <1>1, <1>2, <1>3, <1>4, <2>1, Relov
  <2>3. \A x \in Online : /\ Left(j)[x] \in Data /\ Left(j)[x].own = mem[x].own
                          /\ Cardinality(Lovers(Left(j)[x].lov)) <= MaxLovers
    <3> TAKE x \in Online
    <3>1. CASE x = j.of
      BY <2>2, <3>1, <1>3 DEF Fit
    <3>2. CASE x # j.of
      BY <2>2, <3>2, <1>2
    <3> QED BY <3>1, <3>2
  <2> QED
    BY <1>4, <2>2, <2>3
<1>5. CASE ~(Hit(j) /\ j.of \in Online)
  <2>1. Left(j) = mem
    BY <1>5 DEF Left
  <2> QED
    BY <1>1, <1>2, <1>5, <2>1
<1> QED BY <1>4, <1>5

LEMMA MineFits ==
    ASSUME RelationsInv, NEW j \in errands, j.seen # NoData
    PROVE  /\ Mine(j) \in Bonds /\ Fit(Mine(j)) /\ Mine(j)[j.of].stage = 0
           /\ j.acc = Live /\ j.by # j.of =>
                 \A x \in Members \ {j.of} : Mine(j)[x].stage = Stripped(mem[j.by].lov)[x].stage
<1>1. j.of \in Members /\ j.by \in Members /\ j.acc \in Data \cup {Live}
  BY ErrandTyped DEF RelationsInv
<1>2. j.acc = Live => j.by \in Online
  BY DEF RelationsInv, Presence
<1>3. AskedOf(j) \in Data /\ Cardinality(Lovers(AskedOf(j).lov)) <= MaxLovers
  <2>1. CASE j.acc = Live
    BY <2>1, <1>2, LeftIs DEF AskedOf
  <2>2. CASE j.acc # Live
    BY <2>2, <1>1 DEF AskedOf, RelationsInv, Bounded
  <2> QED BY <2>1, <2>2
<1> DEFINE l == AskedOf(j).lov
           k == [l EXCEPT ![j.of] = NoBond]
<1>4. l \in Bonds
  BY <1>3 DEF Data
<1>5. k \in Bonds /\ Lovers(k) \subseteq Lovers(l) /\ k[j.of] = NoBond
      /\ \A x \in Members \ {j.of} : k[x] = l[x]
  BY <1>1, <1>4, WithoutBond
<1>6. Cardinality(Lovers(k)) <= MaxLovers
  BY <1>3, <1>5, NoMore
<1>7. Mine(j) = Stripped(k)
  BY DEF Mine
<1> HIDE DEF k
<1>8. Mine(j) \in Bonds /\ Fit(Mine(j))
  BY <1>5, <1>6, <1>7, StrippedTyped, NoMore DEF Fit
<1>9. \A x \in Members : Mine(j)[x].stage = IF k[x].stage <= 1 THEN 0 ELSE k[x].stage
  BY <1>5, <1>7, StrippedTyped
<1>10. Mine(j)[j.of].stage = 0
  BY <1>1, <1>5, <1>9 DEF NoBond
<1>11. ASSUME j.acc = Live, j.by # j.of, NEW x \in Members \ {j.of}
       PROVE  Mine(j)[x].stage = Stripped(mem[j.by].lov)[x].stage
  <2>1. AskedOf(j) = mem[j.by]
    BY <1>1, <1>11, LeftIs DEF AskedOf
  <2>2. Stripped(l)[x].stage = IF l[x].stage <= 1 THEN 0 ELSE l[x].stage
    BY <1>4, StrippedTyped
  <2>3. k[x] = l[x]
    BY <1>5
  <2> QED
    BY <2>1, <2>2, <2>3, <1>9
<1> QED
  BY <1>8, <1>10, <1>11
LEMMA BreakMem ==
    ASSUME RelationsInv, NEW j \in errands, j.seen # NoData, FinishBreak(j)
    PROVE  /\ mem' \in [Members -> MaybeData] /\ Online' = Online
           /\ \A x \in Online : /\ mem'[x] \in Data /\ mem'[x].own = mem[x].own
                                /\ Cardinality(Lovers(mem'[x].lov)) <= MaxLovers
           /\ \A x \in Members \ {j.by, j.of} : mem'[x] = mem[x]
           /\ j.of \in Online => mem'[j.of].lov = IF Hit(j) THEN Cut(j) ELSE mem[j.of].lov
           /\ j.acc = Live /\ j.by # j.of => mem'[j.by].lov = Mine(j)
<1>1. j.of \in Members /\ j.by \in Members /\ (j.acc = Live => j.by \in Online)
  BY ErrandTyped DEF RelationsInv, Presence
<1>2. Mine(j) \in Bonds /\ Fit(Mine(j))
  BY MineFits
<1>3. mem' = IF j.acc = Live /\ j.by # j.of THEN [Left(j) EXCEPT ![j.by].lov = Mine(j)] ELSE Left(j)
  BY FinishBreakIs
<1>4. \A x \in Online : x \in Members
  BY DEF Online
<1>5. /\ mem' \in [Members -> MaybeData]
      /\ \A x \in Online : /\ mem'[x] \in Data /\ mem'[x].own = mem[x].own
                           /\ Cardinality(Lovers(mem'[x].lov)) <= MaxLovers
      /\ \A x \in Members \ {j.by, j.of} : mem'[x] = mem[x]
      /\ j.of \in Online => mem'[j.of].lov = IF Hit(j) THEN Cut(j) ELSE mem[j.of].lov
      /\ j.of \notin Online => mem'[j.of] = mem[j.of]
      /\ j.acc = Live /\ j.by # j.of => mem'[j.by].lov = Mine(j)
      /\ j.by \notin Online => mem'[j.by] = mem[j.by]
  <2>1. CASE j.acc = Live /\ j.by # j.of
    <3>1. mem' = [Left(j) EXCEPT ![j.by].lov = Mine(j)]
      BY <1>3, <2>1
    <3>2. Left(j) \in [Members -> MaybeData] /\ Left(j)[j.by] \in Data
      BY <1>1, <2>1, LeftIs
    <3>3. /\ mem' \in [Members -> MaybeData] /\ mem'[j.by] \in Data
          /\ mem'[j.by].lov = Mine(j) /\ mem'[j.by].own = Left(j)[j.by].own
          /\ \A x \in Members \ {j.by} : mem'[x] = Left(j)[x]
      <4> DEFINE f == Left(j)
                 l == Mine(j)
      <4>1. f \in [Members -> MaybeData] /\ f[j.by] \in Data /\ l \in Bonds /\ j.by \in Members
        BY <1>1, <1>2, <3>2
      <4>2. mem' = [f EXCEPT ![j.by].lov = l]
        BY <3>1
      <4> HIDE DEF f, l
      <4>3. /\ mem' \in [Members -> MaybeData] /\ mem'[j.by] \in Data
            /\ mem'[j.by].lov = l /\ mem'[j.by].own = f[j.by].own
            /\ \A x \in Members \ {j.by} : mem'[x] = f[x]
        BY <4>1, <4>2, Relov
      <4> QED
        BY <4>3 DEF f, l
    <3>4. \A x \in Online : /\ mem'[x] \in Data /\ mem'[x].own = mem[x].own
                            /\ Cardinality(Lovers(mem'[x].lov)) <= MaxLovers
      <4> TAKE x \in Online
      <4>1. CASE x = j.by
        BY <3>3, <4>1, <1>2, LeftIs DEF Fit
      <4>2. CASE x # j.by
        BY <3>3, <4>2, <1>4, LeftIs
      <4> QED BY <4>1, <4>2
    <3>5. \A x \in Members \ {j.by, j.of} : mem'[x] = mem[x]
      BY <3>3, LeftIs
    <3>6. mem'[j.of] = Left(j)[j.of]
      BY <1>1, <2>1, <3>3
    <3> QED
      BY <1>1, <2>1, <3>3, <3>4, <3>5, <3>6, LeftIs
  <2>2. CASE ~(j.acc = Live /\ j.by # j.of)
    <3>1. mem' = Left(j)
      BY <1>3, <2>2
    <3>2. j.by \notin Online => mem'[j.by] = mem[j.by]
      BY <1>1, <3>1, LeftIs
    <3> QED
      BY <2>2, <3>1, <3>2, LeftIs
  <2> QED BY <2>1, <2>2
<1>6. \A x \in Members : mem'[x] # NoData <=> mem[x] # NoData
  <2> TAKE x \in Members
  <2>1. CASE x \in Online
    BY <2>1, <1>5, NullsDiffer DEF Online
  <2>2. CASE x \notin Online
    BY <2>2, <1>5
  <2> QED BY <2>1, <2>2
<1>7. Online' = Online
  BY <1>6 DEF Online
<1> QED
  BY <1>5, <1>7

\* The updates of a break: v of the other, if it was a lover, and w of who asked.
LEMMA BreakUpdates ==
    ASSUME RelationsInv, NEW j \in errands, j.seen # NoData, FinishBreak(j)
    PROVE  LET v == PersistLov(j.id, j.of, Cut(j))
               w == PersistLov(j.id, j.by, Mine(j))
           IN  /\ \A u \in updates' :
                     \/ u \in updates
                     \/ u \in UpdateSet /\ u.own = NoData /\ u.read = NoData /\ Fit(u.lov)
               /\ Pending(j.of)' = Pending(j.of) \cup (IF Hit(j) THEN {v} ELSE {})
               /\ j.by # j.of => Pending(j.by)' = Pending(j.by) \cup {w}
               /\ \A x \in Members \ {j.by, j.of} : Pending(x)' = Pending(x)
<1> DEFINE v == PersistLov(j.id, j.of, Cut(j))
           w == PersistLov(j.id, j.by, Mine(j))
<1>1. j.id \in Nat /\ j.of \in Members /\ j.by \in Members
  BY ErrandTyped DEF RelationsInv
<1>2. /\ Cut(j) \in Bonds /\ Fit(Cut(j)) /\ Stripped(Cut(j)) = Cut(j)
      /\ Mine(j) \in Bonds /\ Fit(Mine(j))
  BY CutFits, MineFits
<1>3. /\ v \in UpdateSet /\ w \in UpdateSet
      /\ v.who = j.of /\ v.own = NoData /\ v.read = NoData /\ v.lov = Cut(j)
      /\ w.who = j.by /\ w.own = NoData /\ w.read = NoData /\ w.lov = Mine(j)
  BY <1>1, <1>2, LovUpdateTyped DEF PersistLov
<1>4. updates' = updates \cup (IF Hit(j) THEN {v} ELSE {}) \cup (IF j.by # j.of THEN {w} ELSE {})
  BY <1>2, FinishBreakIs DEF Writes
<1> HIDE DEF v, w
<1>5. \A u \in updates' : \/ u \in updates
                          \/ u \in UpdateSet /\ u.own = NoData /\ u.read = NoData /\ Fit(u.lov)
  BY <1>2, <1>3, <1>4
<1>6. Pending(j.of)' = Pending(j.of) \cup (IF Hit(j) THEN {v} ELSE {})
  BY <1>3, <1>4 DEF Pending
<1>7. j.by # j.of => Pending(j.by)' = Pending(j.by) \cup {w}
  BY <1>3, <1>4 DEF Pending
<1>8. \A x \in Members \ {j.by, j.of} : Pending(x)' = Pending(x)
  BY <1>3, <1>4 DEF Pending
<1> QED
  BY <1>5, <1>6, <1>7, <1>8 DEF v, w

LEMMA BreakCrosses ==
    ASSUME NEW j, FinishBreak(j)
    PROVE  /\ crossed \subseteq crossed' /\ crossed' \subseteq crossed \cup {j.of, j.by}
           /\ j.of \notin crossed' => ~Stale(j)
           /\ j.by \notin crossed' => j.acc = Live /\ (j.by # j.of => Pending(j.by) = {})
<1>1. Meeting(Writes(j)) \subseteq {j.of, j.by}
  BY DEF Meeting, Writes, PersistLov
<1>2. j.by # j.of /\ Pending(j.by) # {} => j.by \in Meeting(Writes(j))
  <2> SUFFICES ASSUME j.by # j.of, Pending(j.by) # {} PROVE j.by \in Meeting(Writes(j))
    OBVIOUS
  <2> DEFINE w == PersistLov(j.id, j.by, Mine(j))
  <2>1. w \in Writes(j) /\ w.who = j.by
    BY DEF Writes, PersistLov
  <2> QED
    BY <2>1 DEF Meeting
<1> QED
  BY <1>1, <1>2, FinishBreakIs

\* Nothing has happened to the other since it was read: its bonds without this one
\* are what it will have.
LEMMA BreakOther ==
    ASSUME RelationsInv, NEW j \in errands, j.seen # NoData, FinishBreak(j),
           UNCHANGED <<now, room, loaded, stored, acts, moves>>, j.of \notin crossed'
    PROVE  /\ Lone(j.of)' /\ Recorded(j.of)'
           /\ Becomes(j.of)'.lov[j.by].stage = 0
           /\ \A x \in Members \ {j.by} : Becomes(j.of)'.lov[x] = Becomes(j.of).lov[x]
<1> DEFINE t == j.of
<1>1. t \in Members /\ j.by \in Members
  BY ErrandTyped DEF RelationsInv
<1>2. t \notin crossed /\ ~Stale(j)
  BY BreakCrosses
<1>3. Lone(t) /\ Recorded(t)
  BY <1>1, <1>2 DEF RelationsInv, Agreed
<1>4. Pending(t) = {} /\ Becomes(t) = stored[t]
  BY <1>1, <1>2, BecomesData DEF Stale, RelationsInv
<1>5. stored[t].lov = j.seen.lov
  <2>1. CASE t \in Online
    <3>1. Stripped(mem[t].lov) = j.seen.lov
      BY <1>2, <2>1 DEF Stale, Online
    <3> QED
      BY <2>1, <3>1, <1>3, <1>4 DEF Recorded
  <2>2. CASE t \notin Online
    BY <1>1, <1>2, <2>2 DEF Stale, Online
  <2> QED BY <2>1, <2>2
<1>6. /\ t \in Online => mem'[t].lov = IF Hit(j) THEN Cut(j) ELSE mem[t].lov
      /\ t \in Online => mem'[t].own = mem[t].own
      /\ Online' = Online
  BY BreakMem
<1>7. CASE Hit(j)
  <2>1. Pending(t)' = {PersistLov(j.id, t, Cut(j))}
    BY <1>4, <1>7, BreakUpdates
  <2>2. Cut(j) \in Bonds /\ Fit(Cut(j)) /\ Stripped(Cut(j)) = Cut(j)
    BY CutFits
  <2>3. Becomes(t)'.lov = Cut(j) /\ Lone(t)' /\ Recorded(t)'
    BY <1>1, <1>3, <1>4, <1>6, <1>7, <2>1, <2>2, LovBecomes DEF RelationsInv
  <2>4. Cut(j)[j.by].stage = 0 /\ \A x \in Members \ {j.by} : Cut(j)[x] = j.seen.lov[x]
    BY CutFits DEF NoBond
  <2> QED
    BY <1>4, <1>5, <2>3, <2>4
<1>8. CASE ~Hit(j)
  <2>1. Pending(t)' = Pending(t)
    BY <1>8, BreakUpdates
  <2>2. Becomes(t)' = Becomes(t) /\ Lone(t)'
    BY <2>1, <1>3, StillBecomes
  <2>3. Recorded(t)'
    BY <1>3, <1>6, <1>8, <2>2 DEF Recorded, Alike
  <2>4. j.seen.lov[j.by].stage = 0
    BY <1>8, CutFits
  <2> QED
    BY <1>4, <1>5, <2>2, <2>3, <2>4
<1> QED BY <1>7, <1>8

\* Who asked has its bonds without this one, and will.
LEMMA BreakAsker ==
    ASSUME RelationsInv, NEW j \in errands, j.seen # NoData, FinishBreak(j),
           UNCHANGED <<now, room, loaded, stored, acts, moves>>,
           j.by \notin crossed', j.by # j.of
    PROVE  /\ Lone(j.by)' /\ Recorded(j.by)'
           /\ Becomes(j.by)'.lov[j.of].stage = 0
           /\ \A x \in Members \ {j.of} : Becomes(j.by)'.lov[x].stage = Becomes(j.by).lov[x].stage
<1> DEFINE m == j.by
<1>1. m \in Members /\ m \notin crossed /\ j.acc = Live /\ Pending(m) = {}
  BY BreakCrosses, ErrandTyped DEF RelationsInv
<1>2. m \in Online /\ Recorded(m)
  BY <1>1 DEF RelationsInv, Agreed, Presence
<1>3. Becomes(m).lov = Stripped(mem[m].lov)
  BY <1>2 DEF Recorded
<1>4. mem'[m].lov = Mine(j) /\ mem'[m].own = mem[m].own
  BY <1>1, <1>2, BreakMem
<1>5. /\ Mine(j) \in Bonds /\ Fit(Mine(j)) /\ Stripped(Mine(j)) = Mine(j)
      /\ Mine(j)[j.of].stage = 0
      /\ \A x \in Members \ {j.of} : Mine(j)[x].stage = Stripped(mem[m].lov)[x].stage
  BY <1>1, MineFits DEF Fit
<1>6. Pending(m)' = {PersistLov(j.id, m, Mine(j))}
  BY <1>1, BreakUpdates
<1>7. Becomes(m)'.lov = Mine(j) /\ Lone(m)' /\ Recorded(m)'
  BY <1>1, <1>2, <1>4, <1>5, <1>6, LovBecomes DEF RelationsInv
<1> QED
  BY <1>3, <1>5, <1>7

LEMMA FinishBreakKept ==
    ASSUME RelationsInv, NEW j \in errands, j.seen # NoData, FinishBreak(j), errands' = errands \ {j},
           UNCHANGED <<now, room, loaded, stored, acts, moves>>
    PROVE  RelationsInv'
<1> DEFINE m == j.by
           t == j.of
<1>1. /\ mem' \in [Members -> MaybeData] /\ Online' = Online
      /\ \A x \in Online : /\ mem'[x] \in Data /\ mem'[x].own = mem[x].own
                           /\ Cardinality(Lovers(mem'[x].lov)) <= MaxLovers
      /\ \A x \in Members \ {m, t} : mem'[x] = mem[x]
  BY BreakMem
<1>2. /\ \A u \in updates' : \/ u \in updates
                             \/ u \in UpdateSet /\ u.own = NoData /\ u.read = NoData /\ Fit(u.lov)
      /\ \A x \in Members \ {m, t} : Pending(x)' = Pending(x)
  BY BreakUpdates
<1>3. crossed \subseteq crossed' /\ crossed' \subseteq crossed \cup {m, t}
  BY BreakCrosses
<1>4. RelationsTyped'
  <2>1. m \in Members /\ t \in Members
    BY ErrandTyped DEF RelationsInv
  <2> QED
    BY <2>1, <1>1, <1>2, <1>3 DEF RelationsInv, RelationsTyped
<1>5. Presence'
  BY <1>1, <1>4, SamePresence DEF RelationsInv, RelationsTyped, Frame
<1>6. Bounded'
  <2>1. \A x \in Online : Count(x)' <= MaxLovers /\ Whole(mem'[x].own)
    BY <1>1 DEF RelationsInv, Bounded, Count
  <2>2. \A u \in updates' : /\ u.lov # NoData => Fit(u.lov)
                            /\ u.own # NoData => Whole(u.own)
                            /\ u.read # NoData => Proper(u.read)
    BY <1>2 DEF RelationsInv, Bounded
  <2> QED
    BY <1>1, <2>1, <2>2 DEF RelationsInv, Bounded
<1>7. \A x \in Members \ (crossed' \cup {m, t}) :
          Becomes(x)' = Becomes(x) /\ Lone(x)' /\ Recorded(x)'
  <2> TAKE x \in Members \ (crossed' \cup {m, t})
  <2>1. Lone(x) /\ Recorded(x) /\ Pending(x)' = Pending(x) /\ mem'[x] = mem[x]
    BY <1>1, <1>2, <1>3 DEF RelationsInv, Agreed
  <2>2. Becomes(x)' = Becomes(x) /\ Lone(x)'
    BY <2>1, StillBecomes
  <2> QED
    BY <2>1, <2>2, SameRecorded
<1>8. t \notin crossed' => /\ Lone(t)' /\ Recorded(t)' /\ Becomes(t)'.lov[m].stage = 0
                           /\ \A x \in Members \ {m} : Becomes(t)'.lov[x] = Becomes(t).lov[x]
  BY BreakOther
<1>9. m \notin crossed' /\ m # t =>
          /\ Lone(m)' /\ Recorded(m)' /\ Becomes(m)'.lov[t].stage = 0
          /\ \A x \in Members \ {t} : Becomes(m)'.lov[x].stage = Becomes(m).lov[x].stage
  BY BreakAsker
<1>10. ASSUME NEW p \in Members \ crossed', NEW q \in Members \ crossed',
              ~(p = m /\ q = t), ~(p = t /\ q = m)
       PROVE  Becomes(p)'.lov[q].stage = Becomes(p).lov[q].stage
  <2>1. CASE p = t
    BY <2>1, <1>8, <1>10
  <2>2. CASE p = m /\ p # t
    BY <2>2, <1>9, <1>10
  <2>3. CASE p # m /\ p # t
    BY <2>3, <1>7
  <2> QED BY <2>1, <2>2, <2>3
<1>11. ASSUME NEW x \in Members \ crossed', NEW y \in Members \ crossed'
       PROVE  Becomes(x)'.lov[y].stage = Becomes(y)'.lov[x].stage
  <2>1. Becomes(x).lov[y].stage = Becomes(y).lov[x].stage
    BY <1>3 DEF RelationsInv, Agreed, Matched
  <2>2. CASE x = y
    BY <2>2
  <2>3. CASE x # y /\ ((x = m /\ y = t) \/ (x = t /\ y = m))
    BY <2>3, <1>8, <1>9
  <2>4. CASE ~(x = m /\ y = t) /\ ~(x = t /\ y = m)
    BY <2>1, <2>4, <1>10
  <2> QED BY <2>2, <2>3, <2>4
<1>12. Agreed'
  <2>1. \A x \in Members \ crossed' : Lone(x)' /\ Recorded(x)'
    BY <1>7, <1>8, <1>9
  <2>2. \A x, y \in Members \ crossed' : Matched(x, y)'
    BY <1>11 DEF Matched
  <2> QED
    BY <2>1, <2>2 DEF Agreed
<1> QED
  BY <1>4, <1>5, <1>6, <1>12 DEF RelationsInv
-----------------------------------------------------------------------------
(* The database, rooms, logins and time                                     *)

LEMMA UpdateKinds ==
    ASSUME RelationsTyped, NEW w \in updates
    PROVE  /\ w \in UpdateSet /\ w.id \in Nat /\ w.who \in Members /\ w.read \in MaybeData
           /\ \/ w.own \in Own /\ w.lov = NoData
              \/ w.own = NoData /\ w.lov \in Bonds /\ w.lov # NoData
<1>1. w \in UpdateSet
  BY DEF RelationsTyped
<1> QED
  BY <1>1, NullsDiffer DEF UpdateSet

LEMMA GetAccountKept ==
    ASSUME RelationsInv, NEW w \in updates, GetAccount(w)
    PROVE  RelationsInv'
<1> DEFINE v == [w EXCEPT !.read = stored[w.who]]
<1>1. w \in UpdateSet /\ w.who \in Members
  BY UpdateKinds DEF RelationsInv
<1>2. stored[w.who] \in Data /\ Proper(stored[w.who])
  BY <1>1 DEF RelationsInv, RelationsTyped, Bounded
<1>3. /\ v \in UpdateSet /\ v.who = w.who /\ v.own = w.own /\ v.lov = w.lov
      /\ v.read = stored[w.who]
  BY <1>1, <1>2 DEF UpdateSet, MaybeData
<1>4. /\ updates' = (updates \ {w}) \cup {v}
      /\ UNCHANGED <<now, mem, room, loaded, stored, errands, acts, moves, crossed>>
  BY DEF GetAccount
<1> HIDE DEF v
<1>5. RelationsTyped'
  BY <1>3, <1>4 DEF RelationsInv, RelationsTyped
<1>6. Presence'
  BY <1>4 DEF RelationsInv, Presence, Online
<1>7. Bounded'
  <2>1. \A u \in updates' : /\ u.lov # NoData => Fit(u.lov)
                            /\ u.own # NoData => Whole(u.own)
                            /\ u.read # NoData => Proper(u.read)
    <3> TAKE u \in updates'
    <3>1. CASE u \in updates
      BY <3>1 DEF RelationsInv, Bounded
    <3>2. CASE u = v
      BY <3>2, <1>2, <1>3 DEF RelationsInv, Bounded
    <3> QED BY <3>1, <3>2, <1>4
  <2> QED
    BY <2>1, <1>4 DEF RelationsInv, Bounded, Online, Count
<1>8. \A m \in Members \ crossed' : Becomes(m)'.lov = Becomes(m).lov /\ Lone(m)' /\ Recorded(m)'
  <2> TAKE m \in Members \ crossed'
  <2>1. Lone(m) /\ Recorded(m)
    BY <1>4 DEF RelationsInv, Agreed
  <2>2. CASE m = w.who
    <3>1. Pending(m) = {w}
      BY <2>1, <2>2 DEF Lone, Pending
    <3>2. Pending(m)' = {v}
      BY <2>2, <3>1, <1>3, <1>4 DEF Pending
    <3>3. (CHOOSE u \in {w} : TRUE) = w /\ (CHOOSE u \in {v} : TRUE) = v
      OBVIOUS
    <3>4. Becomes(m) = Applied(stored[m], w)
      BY <3>1, <3>3 DEF Becomes
    <3>5. Becomes(m)' = IF Pending(m)' = {} THEN stored'[m]
                        ELSE Applied(stored'[m], CHOOSE u \in Pending(m)' : TRUE)
      BY DEF Becomes, Applied
    <3>6. Becomes(m)' = Applied(stored[m], v)
      BY <1>4, <3>2, <3>3, <3>5
    <3>7. Becomes(m)' = Becomes(m)
      BY <3>4, <3>6, <1>3 DEF Applied
    <3>8. Lone(m)'
      BY <2>2, <3>2, <1>3, <1>4 DEF Lone
    <3> QED
      BY <2>1, <3>7, <3>8, <1>4, SameRecorded
  <2>3. CASE m # w.who
    <3>1. Pending(m)' = Pending(m)
      BY <2>3, <1>3, <1>4 DEF Pending
    <3>2. Becomes(m)' = Becomes(m) /\ Lone(m)'
      BY <2>1, <3>1, <1>4, StillBecomes
    <3> QED
      BY <2>1, <3>2, <1>4, SameRecorded
  <2> QED BY <2>2, <2>3
<1>9. Agreed'
  BY <1>4, <1>8, StillMatched DEF RelationsInv
<1> QED
  BY <1>5, <1>6, <1>7, <1>9 DEF RelationsInv

\* The update is written.
LEMMA PutBackWritten ==
    ASSUME RelationsInv, NEW w \in updates, PutBack(w),
           stored' = [stored EXCEPT ![w.who] = Applied(w.read, w)], UNCHANGED crossed
    PROVE  RelationsInv'
<1> DEFINE d == Applied(w.read, w)
<1>1. w.who \in Members /\ w.read \in Data
  BY UpdateKinds DEF RelationsInv, PutBack, MaybeData
<1>2. Proper(w.read)
  BY DEF PutBack, RelationsInv, Bounded
<1>3. /\ updates' = updates \ {w} /\ stored' = [stored EXCEPT ![w.who] = d]
      /\ UNCHANGED <<now, mem, room, loaded, errands, acts, crossed>>
  BY DEF PutBack
<1>4. d \in Data /\ Proper(d)
  <2>1. CASE w.own \in Own /\ w.lov = NoData
    <3>1. d = [w.read EXCEPT !.own = w.own]
      BY <2>1 DEF Applied
    <3>2. d \in Data /\ d.own = w.own /\ d.lov = w.read.lov
      BY <2>1, <3>1, <1>1 DEF Data
    <3>3. Whole(w.own)
      BY <2>1, NullsDiffer DEF RelationsInv, Bounded
    <3> QED
      BY <3>2, <3>3, <1>2 DEF Proper
  <2>2. CASE w.own = NoData /\ w.lov \in Bonds /\ w.lov # NoData
    <3>1. d = [w.read EXCEPT !.lov = w.lov]
      BY <2>2 DEF Applied
    <3>2. d \in Data /\ d.own = w.read.own /\ d.lov = w.lov
      BY <2>2, <3>1, <1>1 DEF Data
    <3>3. Fit(w.lov)
      BY <2>2 DEF RelationsInv, Bounded
    <3> QED
      BY <3>2, <3>3, <1>2 DEF Proper
  <2> QED
    BY <2>1, <2>2, UpdateKinds DEF RelationsInv
<1> HIDE DEF d
<1>5. stored'[w.who] = d /\ \A x \in Members \ {w.who} : stored'[x] = stored[x]
  BY <1>1, <1>3 DEF RelationsInv, RelationsTyped
<1>6. RelationsTyped'
  BY <1>3, <1>4 DEF RelationsInv, RelationsTyped
<1>7. Presence'
  BY <1>3 DEF RelationsInv, Presence, Online
<1>8. Bounded'
  <2>1. \A m \in Members : Proper(stored'[m])
    BY <1>4, <1>5 DEF RelationsInv, Bounded
  <2> QED
    BY <2>1, <1>3 DEF RelationsInv, Bounded, Online, Count
<1>9. \A m \in Members \ crossed' : Becomes(m)'.lov = Becomes(m).lov /\ Lone(m)' /\ Recorded(m)'
  <2> TAKE m \in Members \ crossed'
  <2>1. Lone(m) /\ Recorded(m)
    BY <1>3 DEF RelationsInv, Agreed
  <2>2. CASE m = w.who
    <3>1. Pending(m) = {w} /\ w.read = stored[m]
      BY <2>1, <2>2 DEF Lone, Pending, PutBack
    <3>2. Pending(m)' = {}
      BY <2>2, <3>1, <1>3 DEF Pending
    <3>3. (CHOOSE u \in {w} : TRUE) = w
      OBVIOUS
    <3>4. Becomes(m) = Applied(stored[m], w)
      BY <3>1, <3>3 DEF Becomes
    <3>5. Becomes(m)' = stored'[m]
      BY <3>2 DEF Becomes
    <3>6. Becomes(m)' = Becomes(m)
      BY <2>2, <3>1, <3>4, <3>5, <1>5 DEF d
    <3>7. Lone(m)'
      BY <3>2 DEF Lone
    <3> QED
      BY <2>1, <3>6, <3>7, <1>3, SameRecorded
  <2>3. CASE m # w.who
    <3>1. Pending(m)' = Pending(m)
      BY <2>3, <1>3 DEF Pending
    <3>2. Becomes(m)' = Becomes(m) /\ Lone(m)'
      BY <2>1, <2>3, <3>1, <1>5, StillBecomes
    <3> QED
      BY <2>1, <3>2, <1>3, SameRecorded
  <2> QED BY <2>2, <2>3
<1>10. Agreed'
  BY <1>3, <1>9, StillMatched DEF RelationsInv
<1> QED
  BY <1>6, <1>7, <1>8, <1>10 DEF RelationsInv

\* It has failed.
LEMMA PutBackFailed ==
    ASSUME RelationsInv, NEW w \in updates, PutBack(w),
           crossed' = crossed \cup {w.who}, UNCHANGED stored
    PROVE  RelationsInv'
<1>1. w.who \in Members
  BY UpdateKinds DEF RelationsInv
<1>2. /\ updates' = updates \ {w}
      /\ UNCHANGED <<now, mem, room, loaded, errands, acts>>
  BY DEF PutBack
<1>3. RelationsTyped'
  BY <1>1, <1>2 DEF RelationsInv, RelationsTyped
<1>4. Presence'
  BY <1>2 DEF RelationsInv, Presence, Online
<1>5. Bounded'
  BY <1>2 DEF RelationsInv, Bounded, Online, Count
<1>6. \A m \in Members \ crossed' : Becomes(m)'.lov = Becomes(m).lov /\ Lone(m)' /\ Recorded(m)'
  <2> TAKE m \in Members \ crossed'
  <2>1. Lone(m) /\ Recorded(m)
    BY DEF RelationsInv, Agreed
  <2>2. Pending(m)' = Pending(m)
    BY <1>2 DEF Pending
  <2>3. Becomes(m)' = Becomes(m) /\ Lone(m)'
    BY <2>1, <2>2, StillBecomes
  <2> QED
    BY <2>1, <2>3, <1>2, SameRecorded
<1>7. Agreed'
  BY <1>6, StillMatched DEF RelationsInv
<1> QED
  BY <1>3, <1>4, <1>5, <1>7 DEF RelationsInv

LEMMA PutBackKept ==
    ASSUME RelationsInv, NEW w \in updates, PutBack(w)
    PROVE  RelationsInv'
<1>1. \/ stored' = [stored EXCEPT ![w.who] = Applied(w.read, w)] /\ UNCHANGED crossed
      \/ crossed' = crossed \cup {w.who} /\ UNCHANGED stored
  BY DEF PutBack, Applied
<1> QED
  BY <1>1, PutBackWritten, PutBackFailed

LEMMA EnterKept ==
    ASSUME RelationsInv, NEW m \in Members, Enter(m)
    PROVE  RelationsInv'
<1>1. /\ m \in Online /\ UNCHANGED <<now, mem, loaded, stored, updates, errands, acts, crossed>>
      /\ room' \subseteq room \cup {m}
  BY DEF Enter
<1>2. RelationsTyped'
  BY <1>1 DEF RelationsInv, RelationsTyped
<1>3. Presence'
  BY <1>1 DEF RelationsInv, Presence, Online
<1>4. Bounded'
  BY <1>1 DEF RelationsInv, Bounded, Online, Count
<1>5. ASSUME NEW x \in Members \ crossed, Becomes(x)' = Becomes(x) PROVE Recorded(x)'
  BY <1>1, <1>5, SameRecorded DEF RelationsInv, Agreed
<1>6. Agreed'
  BY <1>1, <1>5, NothingBecomes DEF RelationsInv
<1> QED
  BY <1>2, <1>3, <1>4, <1>6 DEF RelationsInv

LEMMA LogoutKept ==
    ASSUME RelationsInv, NEW m \in Members, Logout(m)
    PROVE  RelationsInv'
<1>1. /\ m \in Online /\ mem' = [mem EXCEPT ![m] = NoData] /\ room' = room \ {m}
      /\ UNCHANGED <<now, loaded, stored, updates, acts>>
      /\ crossed \subseteq crossed' /\ crossed' \subseteq crossed \cup {m}
  BY DEF Logout, Rewrites, Met
<1>2. mem[m] \in Data /\ Cardinality(Lovers(mem[m].lov)) <= MaxLovers
  BY <1>1, OnlineData DEF RelationsInv, Bounded, Count
<1>3. \A j \in errands' : \/ j \in errands /\ ~(j.by = m /\ j.acc = Live)
                          \/ \E i \in errands : i.by = m /\ j = [i EXCEPT !.acc = mem[m]]
  BY DEF Logout
<1>4. \A j \in errands' :
          /\ j \in Errand
          /\ j.acc = Live => j.by \in Online \ {m}
          /\ j.seen # NoData => Fit(j.seen.lov)
          /\ j.acc # Live => Cardinality(Lovers(j.acc.lov)) <= MaxLovers
  <2> TAKE j \in errands'
  <2>1. CASE j \in errands /\ ~(j.by = m /\ j.acc = Live)
    <3>1. j \in Errand
      BY <2>1 DEF RelationsInv, RelationsTyped
    <3>2. j.acc = Live => j.by \in Online \ {m}
      BY <2>1 DEF RelationsInv, Presence
    <3> QED
      BY <2>1, <3>1, <3>2 DEF RelationsInv, Bounded
  <2>2. CASE \E i \in errands : i.by = m /\ j = [i EXCEPT !.acc = mem[m]]
    <3> PICK i \in errands : i.by = m /\ j = [i EXCEPT !.acc = mem[m]]
      BY <2>2
    <3>1. i \in Errand /\ (i.seen # NoData => Fit(i.seen.lov))
      BY DEF RelationsInv, RelationsTyped, Bounded
    <3>2. j \in Errand /\ j.acc = mem[m] /\ j.seen = i.seen
      BY <3>1, <1>2 DEF Errand
    <3>3. j.acc # Live
      BY <3>2, <1>2, NullsDiffer
    <3> QED
      BY <3>1, <3>2, <3>3, <1>2
  <2> QED BY <2>1, <2>2, <1>3
<1>5. mem'[m] = NoData /\ \A x \in Members \ {m} : mem'[x] = mem[x]
  BY <1>1 DEF RelationsInv, RelationsTyped, Online
<1>6. Online' = Online \ {m}
  BY <1>5 DEF Online
<1>7. RelationsTyped'
  BY <1>1, <1>4 DEF RelationsInv, RelationsTyped, MaybeData
<1>8. Presence'
  <2>1. room' \subseteq Online'
    BY <1>1, <1>6 DEF RelationsInv, Presence
  <2>2. \A x \in Members : loaded'[x] # NoData => mem'[x] = NoData
    BY <1>1, <1>5 DEF RelationsInv, Presence
  <2>3. \A j \in errands' : j.acc = Live => j.by \in Online'
    BY <1>4, <1>6
  <2> QED
    BY <2>1, <2>2, <2>3 DEF Presence
<1>9. Bounded'
  <2>1. \A x \in Online' : Count(x)' <= MaxLovers /\ Whole(mem'[x].own)
    <3> TAKE x \in Online'
    <3>1. x \in Online /\ mem'[x] = mem[x]
      BY <1>5, <1>6 DEF Online
    <3> QED
      BY <3>1 DEF RelationsInv, Bounded, Count
  <2>2. \A j \in errands' : /\ j.seen # NoData => Fit(j.seen.lov)
                            /\ j.acc # Live => Cardinality(Lovers(j.acc.lov)) <= MaxLovers
    BY <1>4
  <2> QED
    BY <2>1, <2>2, <1>1 DEF RelationsInv, Bounded
<1>10. ASSUME NEW x \in Members \ crossed, Becomes(x)' = Becomes(x) PROVE Recorded(x)'
  <2>1. CASE x = m
    BY <2>1, <1>5 DEF Recorded, Online
  <2>2. CASE x # m
    BY <2>2, <1>5, <1>10, SameRecorded DEF RelationsInv, Agreed
  <2> QED BY <2>1, <2>2
<1>11. Agreed'
  BY <1>1, <1>10, NothingBecomes DEF RelationsInv
<1> QED
  BY <1>7, <1>8, <1>9, <1>11 DEF RelationsInv

LEMMA LogInKept ==
    ASSUME RelationsInv, NEW m \in Members, LogIn(m)
    PROVE  RelationsInv'
<1>1. /\ m \notin Online /\ loaded' = [loaded EXCEPT ![m] = stored[m]]
      /\ UNCHANGED <<now, mem, room, stored, updates, errands, acts>>
      /\ crossed \subseteq crossed' /\ crossed' \subseteq crossed \cup {m}
  BY DEF LogIn, Rewrites, Met
<1>2. loaded'[m] = stored[m] /\ \A x \in Members \ {m} : loaded'[x] = loaded[x]
  BY <1>1 DEF RelationsInv, RelationsTyped
<1>3. RelationsTyped'
  BY <1>1 DEF RelationsInv, RelationsTyped, MaybeData
<1>4. Presence'
  BY <1>1, <1>2 DEF RelationsInv, Presence, Online
<1>5. Bounded'
  <2>1. \A x \in Members : loaded'[x] # NoData => Proper(loaded'[x])
    BY <1>2 DEF RelationsInv, Bounded
  <2> QED
    BY <2>1, <1>1 DEF RelationsInv, Bounded, Online, Count
<1>6. ASSUME NEW x \in Members \ crossed, Becomes(x)' = Becomes(x) PROVE Recorded(x)'
  BY <1>1, <1>6, SameRecorded DEF RelationsInv, Agreed
<1>7. Agreed'
  BY <1>1, <1>6, NothingBecomes DEF RelationsInv
<1> QED
  BY <1>3, <1>4, <1>5, <1>7 DEF RelationsInv

LEMMA SeatedKept ==
    ASSUME RelationsInv, NEW m \in Members, Seated(m)
    PROVE  RelationsInv'
<1>1. /\ loaded[m] # NoData /\ mem' = [mem EXCEPT ![m] = loaded[m]]
      /\ loaded' = [loaded EXCEPT ![m] = NoData]
      /\ crossed' = IF Pending(m) # {} \/ stored[m] # loaded[m] THEN crossed \cup {m} ELSE crossed
      /\ UNCHANGED <<now, room, stored, updates, errands, acts, moves>>
  BY DEF Seated
<1>2. loaded[m] \in Data /\ Proper(loaded[m]) /\ mem[m] = NoData
  BY <1>1 DEF RelationsInv, RelationsTyped, MaybeData, Bounded, Presence
<1>3. /\ mem'[m] = loaded[m] /\ \A x \in Members \ {m} : mem'[x] = mem[x]
      /\ loaded'[m] = NoData /\ \A x \in Members \ {m} : loaded'[x] = loaded[x]
  BY <1>1 DEF RelationsInv, RelationsTyped
<1>4. Online' = Online \cup {m}
  BY <1>1, <1>3 DEF Online
<1>5. RelationsTyped'
  BY <1>1, <1>2 DEF RelationsInv, RelationsTyped, MaybeData
<1>6. Presence'
  <2>1. \A x \in Members : loaded'[x] # NoData => mem'[x] = NoData
    BY <1>3 DEF RelationsInv, Presence
  <2> QED
    BY <2>1, <1>1, <1>4 DEF RelationsInv, Presence
<1>7. Bounded'
  <2>1. \A x \in Members : loaded'[x] # NoData => Proper(loaded'[x])
    BY <1>3 DEF RelationsInv, Bounded
  <2>2. \A x \in Online' : Count(x)' <= MaxLovers /\ Whole(mem'[x].own)
    <3> TAKE x \in Online'
    <3>1. CASE x = m
      BY <3>1, <1>2, <1>3 DEF Count, Proper, Fit
    <3>2. CASE x # m
      <4>1. x \in Online /\ mem'[x] = mem[x]
        BY <3>2, <1>3, <1>4 DEF Online
      <4> QED
        BY <4>1 DEF RelationsInv, Bounded, Count
    <3> QED BY <3>1, <3>2
  <2> QED
    BY <2>1, <2>2, <1>1 DEF RelationsInv, Bounded
<1>8. \A x \in Members \ crossed' : Becomes(x)' = Becomes(x) /\ Lone(x)' /\ Recorded(x)'
  <2> TAKE x \in Members \ crossed'
  <2>1. x \in Members \ crossed /\ Lone(x) /\ Recorded(x)
    BY <1>1 DEF RelationsInv, Agreed
  <2>2. Pending(x)' = Pending(x)
    BY <1>1 DEF Pending
  <2>3. Becomes(x)' = Becomes(x) /\ Lone(x)'
    BY <2>1, <2>2, <1>1, StillBecomes
  <2>4. CASE x = m
    <3>1. Pending(m) = {} /\ stored[m] = loaded[m]
      BY <2>4, <1>1
    <3>2. Becomes(m)' = loaded[m]
      BY <2>3, <2>4, <3>1 DEF Becomes
    <3>3. Recorded(m)'
      BY <3>2, <1>2, <1>3 DEF Recorded, Proper, Fit, Alike
    <3> QED
      BY <2>3, <2>4, <3>3
  <2>5. CASE x # m
    BY <2>1, <2>3, <2>5, <1>3, SameRecorded
  <2> QED BY <2>4, <2>5
<1>9. Agreed'
  <2>1. crossed \subseteq crossed'
    BY <1>1
  <2>2. /\ \A x \in Members \ crossed' : Becomes(x)'.lov = Becomes(x).lov
        /\ \A x \in Members \ crossed' : Lone(x)' /\ Recorded(x)'
    BY <1>8
  <2> QED
    BY <2>1, <2>2, StillMatched DEF RelationsInv
<1> QED
  BY <1>5, <1>6, <1>7, <1>9 DEF RelationsInv

LEMMA TickKept ==
    ASSUME RelationsInv, Tick
    PROVE  RelationsInv'
<1>1. UNCHANGED <<mem, room, loaded, stored, updates, errands, acts, moves, crossed>>
  BY DEF Tick
<1>2. RelationsTyped'
  BY <1>1, RelationshipsAssumption DEF RelationsInv, RelationsTyped, Tick, Times
<1>3. Presence'
  BY <1>1 DEF RelationsInv, Presence, Online
<1>4. Bounded'
  BY <1>1 DEF RelationsInv, Bounded, Online, Count
<1>5. ASSUME NEW x \in Members \ crossed, Becomes(x)' = Becomes(x) PROVE Recorded(x)'
  BY <1>1, <1>5, SameRecorded DEF RelationsInv, Agreed
<1>6. Agreed'
  BY <1>1, <1>5, NothingBecomes DEF RelationsInv
<1> QED
  BY <1>2, <1>3, <1>4, <1>6 DEF RelationsInv
-----------------------------------------------------------------------------
(* Updates of other fields                                                   *)

RewriteSet == [kind: {"update", "login", "logout"}, n: Nat, who: Members, read: MaybeData]

\* Of who is not crossed, such an update meets none of a relation, and writes what is stored.
Harmless(m) ==
    /\ Pending(m) # {} => Rewriting(m) = {}
    /\ \A w \in Rewriting(m) : w.read \in {NoData, stored[m]}
RewritesInv ==
    /\ moves \in Nat /\ rewrites \subseteq RewriteSet
    /\ \A w \in rewrites : w.read # NoData => Proper(w.read)
    /\ \A m \in Members \ crossed : Harmless(m)

Held == RelationsInv /\ RewritesInv

LEMMA RewriteTyped ==
    ASSUME RewritesInv, NEW w \in rewrites
    PROVE  /\ w \in RewriteSet /\ w.who \in Members /\ w.read \in MaybeData
           /\ w.read # NoData => Proper(w.read)
BY DEF RewritesInv, RewriteSet

\* None begins or goes on, and W are the updates of relations that begin.
Begun(W) == updates' = updates \cup W /\ crossed \cup Meeting(W) \subseteq crossed'

LEMMA BegunHarmless ==
    ASSUME RewritesInv, NEW W, Begun(W), UNCHANGED <<stored, rewrites>>,
           moves' \in Nat
    PROVE  RewritesInv'
<1>1. \A m \in Members \ crossed' : Harmless(m)'
  <2> TAKE m \in Members \ crossed'
  <2>1. Harmless(m) /\ m \notin Meeting(W)
    BY DEF RewritesInv, Begun
  <2>2. Rewriting(m)' = Rewriting(m)
    BY DEF Rewriting
  <2>3. CASE \E w \in W : w.who = m
    <3>1. Rewriting(m) = {}
      BY <2>1, <2>3 DEF Meeting
    <3> QED
      BY <2>2, <3>1 DEF Harmless
  <2>4. CASE ~ \E w \in W : w.who = m
    <3>1. Pending(m)' = Pending(m)
      BY <2>4 DEF Pending, Begun
    <3> QED
      BY <2>1, <2>2, <3>1 DEF Harmless
  <2> QED BY <2>3, <2>4
<1> QED
  BY <1>1 DEF RewritesInv

LEMMA NoneBegun ==
    ASSUME UNCHANGED updates, crossed \subseteq crossed'
    PROVE  Begun({})
<1>1. Meeting({}) = {}
  BY DEF Meeting
<1> QED
  BY <1>1 DEF Begun

LEMMA SetsBegun ==
    ASSUME NEW ms, NEW W, Sets(ms, W)
    PROVE  \E V : Begun(V)
BY DEF Sets, Begun

LEMMA FinishBegun ==
    ASSUME NEW j, Finish(j)
    PROVE  \E V : Begun(V)
<1>1. CASE FinishBreak(j)
  BY <1>1, FinishBreakIs DEF Begun
<1>2. CASE FinishRelease(j)
  <2>1. CASE UNCHANGED <<mem, updates, crossed>>
    BY <2>1, NoneBegun
  <2>2. CASE j.acc = Live /\ j.by \in room /\ j.seen.own.owner = j.by
    BY <1>2, <2>2 DEF FinishRelease, Begun
  <2> QED
    BY <1>2, <2>1, <2>2 DEF FinishRelease
<1> QED
  BY <1>1, <1>2 DEF Finish

\* One begins, of a member who is crossed if one of its relations is under way.
LEMMA RewritesHarmless ==
    ASSUME RewritesInv, crossed \subseteq Members, NEW k \in {"update", "login", "logout"}, NEW m \in Members,
           Moves, Rewrites(k, moves + 1, m), UNCHANGED <<stored, updates>>
    PROVE  RewritesInv' /\ crossed \subseteq crossed'
<1> DEFINE w == [kind |-> k, n |-> moves + 1, who |-> m, read |-> NoData]
<1>1. w \in RewriteSet /\ w.who = m /\ w.read = NoData /\ moves' \in Nat
  BY DEF RewriteSet, MaybeData, RewritesInv, Moves
<1>2. rewrites' = rewrites \cup {w} /\ crossed \subseteq crossed'
  BY DEF Rewrites, Met
<1> HIDE DEF w
<1>3. \A x \in Members \ crossed' : Harmless(x)'
  <2> TAKE x \in Members \ crossed'
  <2>1. Harmless(x) /\ Pending(x)' = Pending(x)
    BY <1>2 DEF RewritesInv, Pending
  <2>2. CASE x = m
    <3>1. Pending(x) = {}
      BY <2>2 DEF Rewrites, Met
    <3>2. Rewriting(x)' = Rewriting(x) \cup {w}
      BY <2>2, <1>1, <1>2 DEF Rewriting
    <3> QED
      BY <2>1, <3>1, <3>2, <1>1 DEF Harmless
  <2>3. CASE x # m
    <3>1. Rewriting(x)' = Rewriting(x)
      BY <2>3, <1>1, <1>2 DEF Rewriting
    <3> QED
      BY <2>1, <3>1 DEF Harmless
  <2> QED BY <2>2, <2>3
<1> QED
  BY <1>1, <1>2, <1>3 DEF RewritesInv

\* What is neither read nor written of anybody changes nothing.
LEMMA StillKept ==
    ASSUME RelationsInv, crossed \subseteq crossed', crossed' \subseteq Members,
           UNCHANGED <<now, mem, room, loaded, stored, updates, errands, acts>>
    PROVE  RelationsInv'
<1>1. RelationsTyped'
  BY DEF RelationsInv, RelationsTyped
<1>2. Presence'
  BY DEF RelationsInv, Presence, Online
<1>3. Bounded'
  BY DEF RelationsInv, Bounded, Online, Count
<1>4. ASSUME NEW x \in Members \ crossed, Becomes(x)' = Becomes(x) PROVE Recorded(x)'
  BY <1>4, SameRecorded DEF RelationsInv, Agreed
<1>5. Agreed'
  BY <1>4, NothingBecomes DEF RelationsInv
<1> QED
  BY <1>1, <1>2, <1>3, <1>5 DEF RelationsInv

LEMMA UpdateFieldKept ==
    ASSUME Held, NEW m \in Members, UpdateField(m)
    PROVE  Held'
<1>1. RewritesInv' /\ crossed \subseteq crossed'
  BY RewritesHarmless DEF Held, UpdateField, RelationsInv, RelationsTyped
<1>2. crossed' \subseteq Members
  BY DEF UpdateField, Rewrites, Met, Held, RelationsInv, RelationsTyped
<1>3. RelationsInv'
  BY <1>1, <1>2, StillKept DEF UpdateField, Held
<1> QED
  BY <1>1, <1>3 DEF Held

LEMMA RewriteGetsKept ==
    ASSUME Held, NEW w \in rewrites, RewriteGets(w)
    PROVE  Held'
<1> DEFINE v == [w EXCEPT !.read = stored[w.who]]
<1>1. w \in RewriteSet /\ w.who \in Members
  BY RewriteTyped DEF Held
<1>2. stored[w.who] \in Data /\ Proper(stored[w.who])
  BY <1>1 DEF Held, RelationsInv, RelationsTyped, Bounded
<1>3. v \in RewriteSet /\ v.who = w.who /\ v.read = stored[w.who]
  BY <1>1, <1>2 DEF RewriteSet, MaybeData
<1>4. /\ rewrites' = (rewrites \ {w}) \cup {v}
      /\ UNCHANGED <<now, mem, room, loaded, stored, updates, errands, acts, moves, crossed>>
  BY DEF RewriteGets
<1> HIDE DEF v
<1>5. RelationsInv'
  BY <1>4, StillKept DEF Held, RelationsInv, RelationsTyped
<1>6. \A m \in Members \ crossed' : Harmless(m)'
  <2> TAKE m \in Members \ crossed'
  <2>1. Harmless(m) /\ Pending(m)' = Pending(m)
    BY <1>4 DEF Held, RewritesInv, Pending
  <2>2. \A u \in Rewriting(m)' : u \in Rewriting(m) \/ u.read = stored[m]
    BY <1>3, <1>4 DEF Rewriting
  <2>3. Rewriting(m) = {} => Rewriting(m)' = {}
    BY <1>3, <1>4 DEF Rewriting
  <2> QED
    BY <2>1, <2>2, <2>3, <1>4 DEF Harmless
<1>7. RewritesInv'
  BY <1>2, <1>3, <1>4, <1>6 DEF Held, RewritesInv
<1> QED
  BY <1>5, <1>7 DEF Held

\* What is written of who is not crossed is what is stored.
LEMMA RewritePutsKept ==
    ASSUME Held, NEW w \in rewrites, RewritePuts(w)
    PROVE  Held'
<1>1. w.who \in Members /\ w.read \in Data /\ Proper(w.read)
  BY RewriteTyped DEF Held, RewritePuts, MaybeData
<1>2. /\ rewrites' = rewrites \ {w}
      /\ UNCHANGED <<now, mem, room, updates, errands, acts, crossed>> /\ moves' \in Nat
  BY DEF RewritePuts, Held, RewritesInv, Moves
<1>3. /\ stored' \in [Members -> Data]
      /\ \A m \in Members : stored'[m] = stored[m] \/ (m = w.who /\ stored'[m] = w.read)
  BY <1>1 DEF RewritePuts, Held, RelationsInv, RelationsTyped
<1>4. /\ loaded' \in [Members -> MaybeData]
      /\ \A m \in Members : loaded'[m] \in {NoData, loaded[m]}
  <2>1. loaded' = loaded \/ loaded' = [loaded EXCEPT ![w.who] = NoData]
    BY Zenon DEF RewritePuts
  <2>2. loaded \in [Members -> MaybeData]
    BY DEF Held, RelationsInv, RelationsTyped
  <2> QED
    BY <2>1, <2>2 DEF MaybeData
<1>5. ASSUME NEW m \in Members \ crossed PROVE stored'[m] = stored[m]
  <2>1. CASE m = w.who
    <3>1. w \in Rewriting(m)
      BY <2>1 DEF Rewriting
    <3>2. w.read = stored[m]
      BY <3>1 DEF Held, RewritesInv, Harmless, RewritePuts
    <3> QED
      BY <3>2, <1>3
  <2>2. CASE m # w.who
    BY <2>2, <1>3
  <2> QED BY <2>1, <2>2
<1>6. RelationsTyped'
  BY <1>2, <1>3, <1>4 DEF Held, RelationsInv, RelationsTyped
<1>7. Presence'
  BY <1>2, <1>4 DEF Held, RelationsInv, Presence, Online
<1>8. Bounded'
  <2>1. \A m \in Members : Proper(stored'[m]) /\ (loaded'[m] # NoData => Proper(loaded'[m]))
    BY <1>1, <1>3, <1>4 DEF Held, RelationsInv, Bounded
  <2> QED
    BY <2>1, <1>2 DEF Held, RelationsInv, Bounded, Online, Count
<1>9. \A m \in Members \ crossed' : Becomes(m)'.lov = Becomes(m).lov /\ Lone(m)' /\ Recorded(m)'
  <2> TAKE m \in Members \ crossed'
  <2>1. Lone(m) /\ Recorded(m) /\ stored'[m] = stored[m]
    BY <1>2, <1>5 DEF Held, RelationsInv, Agreed
  <2>2. Pending(m)' = Pending(m)
    BY <1>2 DEF Pending
  <2>3. Becomes(m)' = Becomes(m) /\ Lone(m)'
    BY <2>1, <2>2, StillBecomes
  <2> QED
    BY <2>1, <2>3, <1>2, SameRecorded
<1>10. Agreed'
  BY <1>2, <1>9, StillMatched DEF Held, RelationsInv
<1>11. \A m \in Members \ crossed' : Harmless(m)'
  <2> TAKE m \in Members \ crossed'
  <2>1. Harmless(m) /\ Pending(m)' = Pending(m) /\ stored'[m] = stored[m]
    BY <1>2, <1>5 DEF Held, RewritesInv, Pending
  <2>2. Rewriting(m)' \subseteq Rewriting(m)
    BY <1>2 DEF Rewriting
  <2> QED
    BY <2>1, <2>2 DEF Harmless
<1>12. RewritesInv'
  BY <1>2, <1>11 DEF Held, RewritesInv
<1> QED
  BY <1>6, <1>7, <1>8, <1>10, <1>12 DEF Held, RelationsInv

\* An update of a relation that has read what is stored, or failed, leaves the others be.
LEMMA UpdatesHarmless ==
    ASSUME Held, NEW w \in updates, GetAccount(w) \/ PutBack(w)
    PROVE  RewritesInv'
<1>1. w \in UpdateSet /\ w.who \in Members
  BY UpdateKinds DEF Held, RelationsInv
<1>2. /\ rewrites' = rewrites /\ moves' \in Nat /\ crossed \subseteq crossed'
      /\ \A u \in updates' : \E x \in updates : x.who = u.who
      /\ \A m \in Members \ {w.who} : stored'[m] = stored[m]
  <2>1. CASE GetAccount(w)
    <3> DEFINE v == [w EXCEPT !.read = stored[w.who]]
    <3>1. v.who = w.who
      BY <1>1 DEF UpdateSet
    <3> HIDE DEF v
    <3>2. updates' = (updates \ {w}) \cup {v}
      BY <2>1 DEF GetAccount, v
    <3> QED
      BY <2>1, <3>1, <3>2 DEF GetAccount, Held, RewritesInv
  <2>2. CASE PutBack(w)
    BY <2>2 DEF PutBack, Held, RewritesInv, RelationsInv, RelationsTyped, Moves
  <2> QED BY <2>1, <2>2
<1>3. \A m \in Members \ crossed' : Harmless(m)'
  <2> TAKE m \in Members \ crossed'
  <2>1. Harmless(m) /\ Rewriting(m)' = Rewriting(m)
    BY <1>2 DEF Held, RewritesInv, Rewriting
  <2>2. CASE Rewriting(m) = {}
    BY <2>1, <2>2 DEF Harmless
  <2>3. CASE Rewriting(m) # {}
    <3>1. Pending(m) = {}
      BY <2>1, <2>3 DEF Harmless
    <3>2. Pending(m)' = {} /\ m # w.who
      BY <3>1, <1>2 DEF Pending
    <3> QED
      BY <2>1, <3>2, <1>2 DEF Harmless
  <2> QED BY <2>2, <2>3
<1> QED
  BY <1>2, <1>3 DEF Held, RewritesInv

-----------------------------------------------------------------------------
(* What clients ask for keeps the invariant, and changes owners as it may.   *)

MayPass(o, p) ==
    o.owner # p.owner => \/ p = Free
                         \/ o.owner = Nobody /\ p.owner = o.offer /\ p.stage = 0
OwnersPass ==
    \A m \in Members : mem[m] # NoData /\ mem'[m] # NoData => MayPass(mem[m].own, mem'[m].own)

LEMMA AgreesOwnPasses ==
    ASSUME RelationsInv, NEW t \in Online, NEW o, OwnIs(t, o), MayPass(mem[t].own, o)
    PROVE  OwnersPass
BY DEF OwnIs, Others, OwnersPass, MayPass

LEMMA FreePasses == \A o : MayPass(o, Free)
BY DEF MayPass

LEMMA SameOwnPasses ==
    ASSUME \A m \in Members : mem[m] # NoData /\ mem'[m] # NoData => mem'[m].own = mem[m].own
    PROVE  OwnersPass
BY DEF OwnersPass, MayPass

LEMMA BeginsPasses ==
    ASSUME \E j \in Errand : Begins(j)
    PROVE  OwnersPass
BY SameOwnPasses DEF Begins

LEMMA AcceptLoverPasses ==
    ASSUME RelationsInv, NEW m \in Members, NEW t \in Members, AcceptLover(m, t)
    PROVE  OwnersPass
<1> DEFINE b == mem[m].lov[t]
           new == [stage |-> b.stage + 1, start |-> now, offer |-> FALSE]
           mine == Stripped([mem[m].lov EXCEPT ![t] = new])
           theirs == Stripped(Shared(m, t, new))
<1>1. m \in Online /\ t \in Online
  BY MeetOnline DEF AcceptLover, RelationsInv
<1>2. b \in Bond
  BY <1>1, OnlineData DEF RelationsInv, Bonds
<1>3. b.stage \in 1 .. 3 /\ (b.stage = 1 => HasRoom(m, t))
  BY DEF AcceptLover
<1>4. new \in Bond /\ new.stage = b.stage + 1
  BY <1>2, <1>3 DEF Bond, RelationsInv, RelationsTyped
<1>5. mem' = [mem EXCEPT ![m].lov = mine, ![t].lov = theirs]
  BY DEF AcceptLover, Sets
<1> HIDE DEF new
<1>6. mine \in Bonds /\ theirs \in Bonds /\ (m = t => mine = theirs)
  BY <1>1, <1>3, <1>4, AcceptedBonds
<1> HIDE DEF mine, theirs
<1>7. BothIs(m, t, mine, theirs)
  BY <1>1, <1>5, <1>6, BothSet DEF RelationsInv
<1> QED
  BY <1>7, SameOwnPasses DEF BothIs

\* Some member's request.
Request(m, t) == BreakOwner(m) \/ Ownership(m, t) \/ Lovership(m, t)

LEMMA RequestKept ==
    ASSUME RelationsInv, NEW m \in Members, NEW t \in Members, Request(m, t),
           UNCHANGED <<now, room, loaded, stored, moves>>
    PROVE  RelationsInv' /\ OwnersPass
<1>1. acts' \in Nat
  <2>1. Wants(m)
    BY Zenon DEF Request, Ownership, Lovership, BreakOwner, ReleaseAbsent, UpdateNotes, ReleaseMember,
           ProposeOwner, AcceptOwner, BreakLover, ProposeLover, AcceptLover
  <2>2. acts' = acts + 1
    BY <2>1 DEF Wants
  <2> QED
    BY <2>2 DEF RelationsInv, RelationsTyped
<1>2. Frame
  BY <1>1 DEF Frame
<1>3. CASE BreakOwner(m)
  <2> PICK s \in Online : AgreesOwn(s, Free)
    BY <1>3, BreakOwnerKind
  <2> QED
    BY <1>2, AgreesOwnKept, AgreesOwnPasses, FreePasses DEF AgreesOwn
<1>4. CASE ReleaseMember(m, t)
  <2>1. t \in Online /\ AgreesOwn(t, Free)
    BY <1>4, ReleaseKind
  <2> QED
    BY <2>1, <1>2, AgreesOwnKept, AgreesOwnPasses, FreePasses DEF AgreesOwn
<1>5. CASE UpdateNotes(m, t)
  <2>1. t \in Online /\ AgreesOwn(t, mem[t].own)
    BY <1>5, UpdateNotesKind
  <2>2. MayPass(mem[t].own, mem[t].own)
    BY DEF MayPass
  <2> QED
    BY <2>1, <2>2, <1>2, AgreesOwnKept, AgreesOwnPasses DEF AgreesOwn
<1>6. CASE ProposeOwner(m, t)
  <2>1. t \in Online
    BY <1>6, ProposeOwnerKind
  <2> PICK o \in Own : OffersOwn(t, o) /\ o.owner = mem[t].own.owner
    BY <1>6, ProposeOwnerKind
  <2>2. MayPass(mem[t].own, o)
    BY DEF MayPass
  <2> QED
    BY <2>1, <2>2, <1>2, OffersOwnKept, AgreesOwnPasses DEF OffersOwn
<1>7. CASE AcceptOwner(m, t)
  <2>1. m \in Online
    BY <1>7, AcceptOwnerKind
  <2> PICK o \in Own : /\ AgreesOwn(m, o)
                       /\ o.owner = t /\ mem[m].own.offer = t
                       /\ mem[m].own.owner \in {Nobody, t}
                       /\ mem[m].own.owner = Nobody => o.stage = 0
    BY <1>7, AcceptOwnerKind
  <2>2. MayPass(mem[m].own, o)
    BY DEF MayPass
  <2> QED
    BY <2>1, <2>2, <1>2, AgreesOwnKept, AgreesOwnPasses DEF AgreesOwn
<1>8. CASE ReleaseAbsent(m, t) \/ BreakLover(m, t)
  <2> PICK j \in Errand : Begins(j)
    BY <1>8, ReleaseAbsentKind, BreakLoverKind
  <2> QED
    BY <1>2, BeginsKept, BeginsPasses
<1>9. CASE ProposeLover(m, t)
  <2> PICK s \in Online, l \in Bonds : OffersLov(s, l)
    BY <1>9, ProposeLoverKind
  <2>1. OwnersPass
    <3>1. \A x \in Members : mem[x] # NoData /\ mem'[x] # NoData => mem'[x].own = mem[x].own
      BY DEF OffersLov, LovIs, Others
    <3> QED
      BY <3>1, SameOwnPasses
  <2> QED
    BY <2>1, <1>2, OffersLovKept
<1>10. CASE AcceptLover(m, t)
  BY <1>10, <1>2, AcceptLoverKept, AcceptLoverPasses
<1> QED
  BY <1>3, <1>4, <1>5, <1>6, <1>7, <1>8, <1>9, <1>10 DEF Request, Ownership, Lovership

LEMMA RequestBegun ==
    ASSUME NEW m, NEW t, Request(m, t)
    PROVE  \E W : Begun(W)
<1>1. CASE BreakOwner(m) \/ UpdateNotes(m, t) \/ ReleaseMember(m, t) \/ AcceptOwner(m, t)
  <2>1. \E ms, W : Sets(ms, W)
    BY <1>1 DEF BreakOwner, UpdateNotes, ReleaseMember, Released, AcceptOwner, SetOwn
  <2> QED
    BY <2>1, SetsBegun
<1>2. CASE ProposeOwner(m, t) \/ ProposeLover(m, t)
  <2>1. \E ms, W : Sets(ms, W)
    BY <1>2 DEF ProposeOwner, ProposeLover
  <2> QED
    BY <2>1, SetsBegun
<1>3. CASE AcceptLover(m, t)
  <2>1. \E ms, W : Sets(ms, W)
    BY <1>3 DEF AcceptLover
  <2> QED
    BY <2>1, SetsBegun
<1>4. CASE ReleaseAbsent(m, t) \/ BreakLover(m, t)
  <2>1. UNCHANGED <<updates, crossed>>
    BY <1>4 DEF ReleaseAbsent, BreakLover
  <2> QED
    BY <2>1, NoneBegun
<1> QED
  BY <1>1, <1>2, <1>3, <1>4 DEF Request, Ownership, Lovership

LEMMA FinishKept ==
    ASSUME RelationsInv, NEW j \in errands, Finish(j),
           UNCHANGED <<now, room, loaded, stored, acts, moves>>
    PROVE  RelationsInv' /\ OwnersPass
<1>1. j.seen # NoData /\ errands' = errands \ {j}
  BY DEF Finish
<1>2. CASE FinishRelease(j)
  <2>1. RelationsInv'
    BY <1>1, <1>2, FinishReleaseKept
  <2>2. mem' = mem => OwnersPass
    BY SameOwnPasses
  <2>3. j.of \in Online /\ AgreesOwn(j.of, Free) => OwnersPass
    BY AgreesOwnPasses, FreePasses DEF AgreesOwn
  <2> QED
    BY <1>1, <1>2, <2>1, <2>2, <2>3, FinishReleaseKind
<1>3. CASE FinishBreak(j)
  <2>1. RelationsInv'
    BY <1>1, <1>3, FinishBreakKept
  <2>2. \A x \in Members : mem[x] # NoData /\ mem'[x] # NoData => mem'[x].own = mem[x].own
    BY <1>1, <1>3, BreakMem DEF Online
  <2> QED
    BY <2>1, <2>2, SameOwnPasses
<1> QED
  BY <1>2, <1>3 DEF Finish

LEMMA RelationsStep ==
    ASSUME Held, [RelationsNext]_relations
    PROVE  Held' /\ OwnersPass
<1>0. RelationsInv /\ RewritesInv
  BY DEF Held
<1>1. CASE /\ \/ \E m \in Members : BreakOwner(m)
              \/ \E m, t \in Members : Ownership(m, t) \/ Lovership(m, t)
           /\ UNCHANGED <<now, room, loaded, stored, rewrites, moves>>
  <2> PICK m \in Members, t \in Members : Request(m, t)
    BY <1>1 DEF Request
  <2>1. RelationsInv' /\ OwnersPass
    BY <1>0, <1>1, RequestKept
  <2>2. RewritesInv'
    BY <1>0, <1>1, RequestBegun, BegunHarmless DEF RewritesInv
  <2> QED
    BY <2>1, <2>2 DEF Held
<1>2. ASSUME NEW j \in errands, Reads(j) \/ Finish(j),
             UNCHANGED <<now, room, loaded, stored, rewrites, acts, moves>>
      PROVE  Held' /\ OwnersPass
  <2>1. RelationsInv' /\ OwnersPass
    BY <1>0, <1>2, ReadsKept, FinishKept, SameOwnPasses DEF Reads
  <2>2. Reads(j) => Begun({})
    BY NoneBegun DEF Reads
  <2>3. RewritesInv'
    BY <1>0, <1>2, <2>2, FinishBegun, BegunHarmless DEF RewritesInv
  <2> QED
    BY <2>1, <2>3 DEF Held
<1>4. ASSUME NEW w \in updates, GetAccount(w) \/ PutBack(w)
      PROVE  Held' /\ OwnersPass
  <2>1. RelationsInv' /\ OwnersPass
    BY <1>0, <1>4, GetAccountKept, PutBackKept, SameOwnPasses DEF GetAccount, PutBack
  <2> QED
    BY <2>1, <1>4, UpdatesHarmless DEF Held
<1>5. ASSUME NEW w \in rewrites, RewriteGets(w) \/ RewritePuts(w)
      PROVE  Held' /\ OwnersPass
  BY <1>5, RewriteGetsKept, RewritePutsKept, SameOwnPasses DEF RewriteGets, RewritePuts
<1>6. ASSUME NEW m \in Members, UpdateField(m)
      PROVE  Held' /\ OwnersPass
  BY <1>6, UpdateFieldKept, SameOwnPasses DEF UpdateField
<1>7. ASSUME NEW m \in Members, Enter(m)
      PROVE  Held' /\ OwnersPass
  <2>1. RelationsInv' /\ OwnersPass
    BY <1>0, <1>7, EnterKept, SameOwnPasses DEF Enter
  <2>2. Begun({}) /\ UNCHANGED <<stored, rewrites>> /\ moves' \in Nat
    BY <1>0, <1>7, NoneBegun DEF Enter, Moves, RewritesInv
  <2>3. RewritesInv'
    BY <1>0, <2>2, BegunHarmless
  <2> QED
    BY <2>1, <2>3 DEF Held
<1>8. ASSUME NEW m \in Members, Logout(m)
      PROVE  Held' /\ OwnersPass
  <2>1. mem' = [mem EXCEPT ![m] = NoData] /\ mem \in [Members -> MaybeData]
    BY <1>0, <1>8 DEF Logout, RelationsInv, RelationsTyped
  <2>2. \A x \in Members : mem'[x] \in {NoData, mem[x]}
    BY <2>1
  <2>3. OwnersPass
    BY <2>2, SameOwnPasses
  <2>4. ASSUME Rewrites("logout", moves + 1, m) PROVE RewritesInv'
    BY <1>0, <1>8, <2>4, RewritesHarmless DEF Logout, RelationsInv, RelationsTyped
  <2>5. ASSUME UNCHANGED <<rewrites, crossed>> PROVE RewritesInv'
    <3>1. Begun({}) /\ UNCHANGED stored /\ moves' \in Nat
      BY <1>0, <1>8, <2>5, NoneBegun DEF Logout, Moves, RewritesInv
    <3> QED
      BY <1>0, <2>5, <3>1, BegunHarmless
  <2>6. RewritesInv'
    BY <1>8, <2>4, <2>5 DEF Logout
  <2> QED
    BY <1>0, <1>8, <2>3, <2>6, LogoutKept DEF Held
<1>9. ASSUME NEW m \in Members, LogIn(m)
      PROVE  Held' /\ OwnersPass
  <2>1. RelationsInv' /\ OwnersPass
    BY <1>0, <1>9, LogInKept, SameOwnPasses DEF LogIn
  <2>2. RewritesInv'
    BY <1>0, <1>9, RewritesHarmless DEF LogIn, RelationsInv, RelationsTyped
  <2> QED
    BY <2>1, <2>2 DEF Held
<1>10. ASSUME NEW m \in Members, Seated(m)
      PROVE  Held' /\ OwnersPass
  <2>1. mem' = [mem EXCEPT ![m] = loaded[m]] /\ mem \in [Members -> MaybeData] /\ mem[m] = NoData
    BY <1>0, <1>10 DEF Seated, RelationsInv, RelationsTyped, Presence
  <2>2. \A x \in Members : x = m \/ mem'[x] = mem[x]
    BY <2>1
  <2>3. OwnersPass
    BY <2>1, <2>2, SameOwnPasses
  <2>4. UNCHANGED <<updates, stored, rewrites, moves>> /\ crossed \subseteq crossed'
    BY <1>10 DEF Seated
  <2>5. RewritesInv'
    BY <1>0, <2>4, NoneBegun, BegunHarmless DEF RewritesInv
  <2> QED
    BY <1>0, <1>10, <2>3, <2>5, SeatedKept DEF Held
<1>11. CASE Tick
  <2>1. RelationsInv' /\ OwnersPass
    BY <1>0, <1>11, TickKept, SameOwnPasses DEF Tick
  <2>2. Begun({}) /\ UNCHANGED <<stored, rewrites, moves>>
    BY <1>11, NoneBegun DEF Tick
  <2> QED
    BY <1>0, <2>1, <2>2, BegunHarmless DEF Held, RewritesInv
<1>12. CASE UNCHANGED relations
  <2>1. UNCHANGED <<now, mem, room, loaded, stored, updates, rewrites, errands, acts, moves, crossed>>
    BY <1>12 DEF relations
  <2>2. RelationsInv' /\ OwnersPass
    BY <1>0, <2>1, EndsKept, SameOwnPasses
  <2>3. Begun({})
    BY <2>1, NoneBegun
  <2> QED
    BY <1>0, <2>1, <2>2, <2>3, BegunHarmless DEF Held, RewritesInv
<1> QED
  BY <1>1, <1>2, <1>4, <1>5, <1>6, <1>7, <1>8, <1>9, <1>10, <1>11, <1>12 DEF RelationsNext

-----------------------------------------------------------------------------
(* The properties                                                           *)

LEMMA InvSettled == RelationsInv => Settled
<1> SUFFICES ASSUME RelationsInv, NEW m \in Online \ crossed, Pending(m) = {}
             PROVE  /\ stored[m].lov = Stripped(mem[m].lov)
                    /\ [stored[m].own EXCEPT !.offer = Nobody] = [mem[m].own EXCEPT !.offer = Nobody]
  BY Zenon DEF Settled
<1>1. Recorded(m) /\ Becomes(m) = stored[m]
  BY DEF RelationsInv, Agreed, Online, Becomes
<1> QED
  BY <1>1 DEF Recorded, Alike

LEMMA StageBecomes ==
    ASSUME RelationsInv, NEW m \in Members \ crossed, NEW t \in Members, Pending(m) = {}
    PROVE  Stage(m, t) = Becomes(m).lov[t].stage
<1>1. Becomes(m) = stored[m] /\ stored[m].lov \in Bonds /\ Stripped(stored[m].lov) = stored[m].lov
  BY BecomesData DEF RelationsInv, Bounded, Proper, Fit
<1>2. CASE m \in Online
  <2>1. stored[m].lov = Stripped(mem[m].lov) /\ mem[m].lov \in Bonds
    BY <1>1, <1>2, OnlineData DEF RelationsInv, Agreed, Recorded
  <2>2. Stripped(mem[m].lov)[t].stage = IF mem[m].lov[t].stage <= 1 THEN 0 ELSE mem[m].lov[t].stage
    BY <2>1, StrippedTyped
  <2>3. mem[m].lov[t].stage \in 0 .. 4
    BY <2>1 DEF Bonds, Bond
  <2>4. Stage(m, t) = IF mem[m].lov[t].stage = 1 THEN 0 ELSE mem[m].lov[t].stage
    BY <1>2 DEF Stage
  <2> QED
    BY <1>1, <2>1, <2>2, <2>3, <2>4
<1>3. CASE m \notin Online
  <2>1. stored[m].lov[t].stage = IF stored[m].lov[t].stage <= 1 THEN 0 ELSE stored[m].lov[t].stage
    BY <1>1, StrippedTyped
  <2>2. stored[m].lov[t].stage \in 0 .. 4
    BY <1>1 DEF Bonds, Bond
  <2>3. Stage(m, t) = IF stored[m].lov[t].stage = 1 THEN 0 ELSE stored[m].lov[t].stage
    BY <1>3 DEF Stage
  <2> QED
    BY <1>1, <2>1, <2>2, <2>3
<1> QED BY <1>2, <1>3

LEMMA InvLoversAgree == RelationsInv => LoversAgree
<1> SUFFICES ASSUME RelationsInv, NEW m \in Members \ crossed, NEW t \in Members \ crossed,
                    Pending(m) = {}, Pending(t) = {}
             PROVE  Stage(m, t) = Stage(t, m)
  BY DEF LoversAgree
<1>1. Matched(m, t)
  BY DEF RelationsInv, Agreed
<1> QED
  BY <1>1, StageBecomes DEF Matched

LEMMA InvWithinLimit == RelationsInv => WithinLimit
BY DEF RelationsInv, Bounded, WithinLimit

LEMMA RelationsAlways == RelationsSpec => []Held
<1>1. RelationsInit => Held
  BY RelationsStart DEF RelationsInit, RewritesInv, Harmless, Rewriting, Pending, Held
<1>2. Held /\ [RelationsNext]_relations => Held'
  BY RelationsStep
<1> QED
  BY <1>1, <1>2, PTL DEF RelationsSpec

\* Nothing agreed on is forgotten, and nothing ended comes back: however the updates of
\* relations and of other fields, which all rewrite the whole account, are interleaved
\* with errands, logouts and logins, once none of a member's relations is being written
\* the database has of its lovers and its owner what memory has, unless two updates of
\* the member met, one at least of a relation, or one failed, or what was used of it was
\* stale (crossed).
THEOREM SettledCorrect == RelationsSpec => []Settled
<1>1. Held => Settled
  BY InvSettled DEF Held
<1> QED
  BY <1>1, RelationsAlways, PTL

\* Two members hold one another at the same stage, in memory or, who is offline, in the
\* database, through offers that cross, breaks that read the other from the database,
\* logins, and updates of other fields that write back what they read; unless an update
\* of either's relations is under way, or either is crossed.
THEOREM LoversAgreeCorrect == RelationsSpec => []LoversAgree
<1>1. Held => LoversAgree
  BY InvLoversAgree DEF Held
<1> QED
  BY <1>1, RelationsAlways, PTL

\* Nobody exceeds MaxLovers lovers and offers, though each acceptance adds a bond to
\* both and only some look at the limit.
THEOREM WithinLimitCorrect == RelationsSpec => []WithinLimit
<1>1. Held => WithinLimit
  BY InvWithinLimit DEF Held
<1> QED
  BY <1>1, RelationsAlways, PTL

\* An owner changes only to nobody, or from nobody to who had offered.
THEOREM OwnersChangeCorrect == RelationsSpec => OwnersChange
<1>1. Held /\ [RelationsNext]_relations
         => [\A m \in Members : mem[m] # NoData /\ mem'[m] # NoData =>
               LET o == mem[m].own
                   p == mem'[m].own
               IN  o.owner # p.owner => \/ p = Free
                                        \/ o.owner = Nobody /\ p.owner = o.offer /\ p.stage = 0
            ]_relations
  BY RelationsStep DEF OwnersPass, MayPass
<1> QED
  BY <1>1, RelationsAlways, PTL DEF RelationsSpec, OwnersChange
=============================================================================
