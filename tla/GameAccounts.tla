----------------------------- MODULE GameAccounts -----------------------------
(***************************************************************************)
(* The game server's accounts: game/account_manager.cpp over game_db.cpp,  *)
(* and of socketio/connection.cpp what makes a connection come and go.     *)
(*                                                                         *)
(* A connection's events and its disconnect handler run on its strand, one *)
(* at a time.  An account creation is a coroutine on the shared executor;  *)
(* logins are taken from a queue, one at a time, by another.  Both await   *)
(* the database, and find the connection as it then is: its id is the      *)
(* empty string once it is gone.  gs_.mu makes each look into or change of *)
(* the maps one step.  update_account_fields reads an account and writes   *)
(* it back in two steps, on a pool of threads, under no lock.              *)
(*                                                                         *)
(* Of an account's fields one is told apart from the rest, Appearance,     *)
(* whose updates are delayed; its values are the stamps 1, 2, ... of the   *)
(* updates, 0 being the one before.  Member numbers are distinct: one is   *)
(* named by the account stored before, or by the creation that drew it.    *)
(***************************************************************************)
EXTENDS Naturals, Sequences

CONSTANTS Conns,      \* connections, and their ids
          NoId,       \* the id of a connection that is gone, ""
          Accounts,   \* account names
          Stored,     \* the accounts in the database at the start
          MaxJobs,    \* bound: creations and logins asked for
          MaxUpdates, \* bound: updates of Appearance
          MayFail,    \* whether the database can fail
          NoActor, NoRecord, NoRemoval, NoNumber, NoAccount

Jobs == 1 .. MaxJobs      \* a creation or login, and the OnlineAccount it makes
NoJob == 0
Ids == Conns \cup {NoId}
Numbers == Accounts \cup Jobs
Actors == Jobs \cup Conns \* who calls remove_account: a login, or a strand
Values == 0 .. MaxUpdates

Record == [number: Numbers, app: Values]
Removal == [id: Ids, acc: Jobs \cup {NoJob}]
\* An update_account_fields under way: app is 0 if it leaves Appearance alone;
\* base is what it has read.
Write == [account: Accounts, app: Values, by: Actors \cup {NoActor},
          base: Record \cup {NoRecord}]

ASSUME AccountsAssumption ==
    /\ MaxJobs \in Nat /\ MaxUpdates \in Nat /\ MayFail \in BOOLEAN /\ Stored \subseteq Accounts
    /\ Jobs \cap (Conns \cup Accounts) = {}
    /\ NoId \notin Conns /\ NoActor \notin Actors /\ NoAccount \notin Accounts
    /\ NoRecord \notin Record /\ NoRemoval \notin Removal /\ NoNumber \notin Numbers

VARIABLES
    conn,      \* per connection: "open", "kicked" (its disconnect is posted),
               \* "closing" (the handler runs, or has run) or "gone"
    handlers,  \* per connection: "pre" or "post" login
    pc,        \* per job: its progress
    client, target, number,   \* per job: its connection, account, member number
    queue, running,   \* login_queue_, login_running_
    takers,    \* the run_login_queue coroutines about to take a login
    bySocket, byMember,       \* GameState's maps to OnlineAccounts
    delayed,   \* per OnlineAccount: delayed_appearance, 0 if none
    rm,        \* per actor: its remove_account under way
    db,        \* the database
    writes,    \* updates of the database under way
    \* history
    stamp,     \* updates of Appearance so far
    last,      \* per account: the last one
    created,   \* the accounts created
    raced      \* accounts two of whose updates, sessions or removals met, or an
               \* update of whose Appearance failed

jobs == <<pc, client, target, number>>
logins == <<queue, running, takers>>
online == <<bySocket, byMember>>
store == <<db, writes>>
history == <<stamp, last, created, raced>>
vars == <<conn, handlers, jobs, logins, online, delayed, rm, store, history>>

Init ==
    /\ conn = [c \in Conns |-> "open"]
    /\ handlers = [c \in Conns |-> "pre"]
    /\ pc = [j \in Jobs |-> "idle"]
    /\ client = [j \in Jobs |-> NoId]
    /\ target = [j \in Jobs |-> NoAccount]
    /\ number = [j \in Jobs |-> NoNumber]
    /\ queue = <<>> /\ running = FALSE /\ takers = 0
    /\ bySocket = [i \in Ids |-> NoJob]
    /\ byMember = [n \in Numbers |-> NoJob]
    /\ delayed = [j \in Jobs |-> 0]
    /\ rm = [x \in Actors |-> NoRemoval]
    /\ db = [a \in Accounts |->
                IF a \in Stored THEN [number |-> a, app |-> 0] ELSE NoRecord]
    /\ writes = {}
    /\ stamp = 0 /\ last = [a \in Accounts |-> 0]
    /\ created = {} /\ raced = {}

Goto(j, s) == pc' = [pc EXCEPT ![j] = s]
Listens(c) == conn[c] \in {"open", "kicked"} /\ rm[c] = NoRemoval
SocketId(j) == IF conn[client[j]] = "gone" THEN NoId ELSE client[j]
SessionsOf(a) == {i \in Ids : bySocket[i] # NoJob /\ target[bySocket[i]] = a}

-----------------------------------------------------------------------------
(* Updates of the database                                                  *)

NewWrite(a, v, x) == [account |-> a, app |-> v, by |-> x, base |-> NoRecord]

\* Accounts of which one of the updates W meets another.
Meets(W) == {w.account : w \in {u \in W : \E v \in writes : v.account = u.account}}

Spawn(W) == writes' = writes \cup W

\* A login waits for its update of LastLogin.
Awaited(w) == w.by \in Jobs /\ w.app = 0

Read(w) ==
    /\ w.base = NoRecord
    /\ writes' = (writes \ {w}) \cup {[w EXCEPT !.base = db[w.account]]}
    /\ UNCHANGED <<pc, db, raced>>

Merged(w) == [w.base EXCEPT !.app = IF w.app = 0 THEN @ ELSE w.app]

Done(w) ==
    /\ writes' = writes \ {w}
    /\ IF Awaited(w) THEN Goto(w.by, "seat") ELSE UNCHANGED pc

WriteBack(w) ==
    /\ w.base # NoRecord
    /\ db' = [db EXCEPT ![w.account] = Merged(w)]
    /\ Done(w)
    /\ UNCHANGED raced

Lost(w) == IF w.app = 0 THEN {} ELSE {w.account}

\* The read fails: nothing is written, and nobody told.
NotFound(w) ==
    /\ MayFail /\ w.base = NoRecord
    /\ Done(w)
    /\ raced' = raced \cup Lost(w)
    /\ UNCHANGED db

\* The write throws.  A login's exception ends run_login_queue, whose flag stays.
Throws(w) ==
    /\ MayFail /\ w.base # NoRecord
    /\ writes' = writes \ {w}
    /\ IF Awaited(w) THEN Goto(w.by, "thrown") ELSE UNCHANGED pc
    /\ raced' = raced \cup Lost(w)
    /\ UNCHANGED db

Update(x) ==
    /\ \E w \in writes : w.by = x /\ (Read(w) \/ WriteBack(w) \/ NotFound(w) \/ Throws(w))
    /\ UNCHANGED <<conn, handlers, client, target, number, logins, online, delayed, rm,
                   stamp, last, created>>

-----------------------------------------------------------------------------
(* remove_account                                                           *)

Find(x) ==
    /\ rm[x] # NoRemoval /\ rm[x].acc = NoJob
    /\ LET j == bySocket[rm[x].id]
       IN  rm' = [rm EXCEPT ![x] = IF j = NoJob THEN NoRemoval ELSE [@ EXCEPT !.acc = j]]
    /\ UNCHANGED <<online, writes, raced>>

Unlisted(j) == [byMember EXCEPT ![number[j]] = NoJob]

\* After disconnect_hook_: the maps' entries go, whatever they now hold.
Erase(x) ==
    /\ rm[x] # NoRemoval /\ rm[x].acc # NoJob
    /\ LET i == rm[x].id
           j == rm[x].acc
           kept == IF delayed[j] = 0 THEN {} ELSE {NewWrite(target[j], delayed[j], x)}
           hit == {bySocket[i], byMember[number[j]]}
       IN  /\ bySocket' = [bySocket EXCEPT ![i] = NoJob]
           /\ byMember' = Unlisted(j)
           /\ Spawn(kept)
           /\ raced' = raced \cup Meets(kept)
                         \cup (IF hit = {j} THEN {} ELSE {target[k] : k \in (hit \cup {j}) \ {NoJob}})
    /\ rm' = [rm EXCEPT ![x] = NoRemoval]

Remove(x) ==
    /\ Find(x) \/ Erase(x)
    /\ UNCHANGED <<conn, handlers, jobs, logins, delayed, db, stamp, last, created>>

-----------------------------------------------------------------------------
(* The OnlineAccount j takes its place in the maps, and on_login.           *)

Seat(j) ==
    LET i == SocketId(j)
        others == {target[bySocket[k]] : k \in SessionsOf(target[j])}
        displaced == {target[k] : k \in {bySocket[i]} \ {NoJob}}
    IN  /\ bySocket' = [bySocket EXCEPT ![i] = j]
        /\ byMember' = [byMember EXCEPT ![number[j]] = j]
        /\ handlers' = [c \in Conns |-> IF c = i THEN "post" ELSE handlers[c]]
        /\ raced' = raced \cup others \cup displaced

-----------------------------------------------------------------------------
(* account_create, once its input and the address's quota are checked       *)

NextJob(j) == pc[j] = "idle" /\ \A k \in Jobs : k < j => pc[k] # "idle"

Asks(j, c, a) ==
    /\ NextJob(j)
    /\ Listens(c) /\ handlers[c] = "pre"
    /\ client' = [client EXCEPT ![j] = c]
    /\ target' = [target EXCEPT ![j] = a]

AccountCreate(j) ==
    /\ \E c \in Conns, a \in Accounts : Asks(j, c, a)
    /\ Goto(j, "exists")
    /\ UNCHANGED <<conn, handlers, number, logins, online, delayed, rm, store, history>>

Exists(j) ==
    /\ pc[j] = "exists"
    /\ Goto(j, IF db[target[j]] = NoRecord THEN "put" ELSE "done")
    /\ UNCHANGED <<conn, handlers, client, target, number, logins, online, delayed, rm, store,
                   history>>

\* next_member_number.
Drawn(j) == [number EXCEPT ![j] = j]

\* The password is hashed, a number drawn, and the account written, unless the
\* database throws.
PutAccount(j) ==
    /\ pc[j] = "put"
    /\ LET a == target[j]
       IN  \/ /\ db' = [db EXCEPT ![a] = [number |-> j, app |-> 0]]
              /\ number' = Drawn(j)
              /\ created' = created \cup {a}
              /\ raced' = IF db[a] = NoRecord THEN raced ELSE raced \cup {a}
              /\ Goto(j, "created")
           \/ /\ Goto(j, "done")
              /\ UNCHANGED <<db, number, created, raced>>
    /\ UNCHANGED <<conn, handlers, client, target, logins, online, delayed, rm, writes, stamp,
                   last>>

SeatCreated(j) ==
    /\ pc[j] = "created"
    /\ Seat(j)
    /\ Goto(j, "done")
    /\ UNCHANGED <<conn, client, target, number, logins, delayed, rm, store, stamp, last,
                   created>>

-----------------------------------------------------------------------------
(* The login queue                                                          *)

QueueWasEmpty == queue = <<>>
ShouldRun == ~running

AccountLogin(j) ==
    /\ \E c \in Conns, a \in Accounts : Asks(j, c, a)
    /\ Goto(j, "queued")
    /\ queue' = Append(queue, j)
    /\ takers' = IF ShouldRun THEN takers + 1 ELSE takers
    /\ running' = TRUE
    /\ UNCHANGED <<conn, handlers, number, online, delayed, rm, store, history>>

\* A run_login_queue coroutine goes on if anything is in the queue q.
More(q) == IF q = <<>> THEN running' = FALSE /\ UNCHANGED takers
                       ELSE takers' = takers + 1 /\ UNCHANGED running

Take ==
    /\ takers > 0
    /\ IF queue = <<>>
       THEN takers' = takers - 1 /\ running' = FALSE /\ UNCHANGED <<pc, queue>>
       ELSE /\ queue' = Tail(queue)
            /\ IF SocketId(Head(queue)) # NoId
               THEN Goto(Head(queue), "load") /\ takers' = takers - 1 /\ UNCHANGED running
               ELSE /\ Goto(Head(queue), "done")
                    /\ takers' = IF Tail(queue) = <<>> THEN takers - 1 ELSE takers
                    /\ running' = (Tail(queue) # <<>>)
    /\ UNCHANGED <<conn, handlers, client, target, number, online, delayed, rm, store, history>>

\* account_login_process returns.
LoginEnds(j) == Goto(j, "done") /\ More(queue) /\ UNCHANGED queue

Load(j) ==
    /\ pc[j] = "load"
    /\ \/ /\ db[target[j]] # NoRecord
          /\ number' = [number EXCEPT ![j] = db[target[j]].number]
          /\ Goto(j, "loaded")
          /\ UNCHANGED logins
       \/ LoginEnds(j) /\ UNCHANGED number  \* no such account, or not its password
    /\ UNCHANGED <<conn, handlers, client, target, online, delayed, rm, store, history>>

\* Whom a login of j throws out: one session of the account, if there is any.
LiveDuplicates(j) == SessionsOf(target[j]) \ {NoId}
Duplicates(j) == SessionsOf(target[j])

Kick(j) ==
    /\ pc[j] = "loaded"
    /\ \/ /\ SocketId(j) = NoId
          /\ LoginEnds(j)
          /\ UNCHANGED <<conn, rm>>
       \/ /\ SocketId(j) # NoId
          /\ IF Duplicates(j) = {} THEN UNCHANGED <<conn, rm>>
             ELSE \E i \in Duplicates(j) :
                     LET c == client[bySocket[i]]
                     IN  /\ rm' = [rm EXCEPT ![j] = [id |-> i, acc |-> NoJob]]
                         /\ conn' = IF conn[c] = "open" THEN [conn EXCEPT ![c] = "kicked"] ELSE conn
          /\ Goto(j, "kicking")
          /\ UNCHANGED logins
    /\ UNCHANGED <<handlers, client, target, number, online, delayed, store, history>>

Persist(j) ==
    /\ pc[j] = "kicking" /\ rm[j] = NoRemoval
    /\ LET w == NewWrite(target[j], 0, j)
       IN  Spawn({w}) /\ raced' = raced \cup Meets({w})
    /\ Goto(j, "persisting")
    /\ UNCHANGED <<conn, handlers, client, target, number, logins, online, delayed, rm, db,
                   stamp, last, created>>

SeatLogin(j) ==
    /\ pc[j] = "seat"
    /\ Seat(j)
    /\ LoginEnds(j)
    /\ UNCHANGED <<conn, client, target, number, delayed, rm, store, stamp, last, created>>

-----------------------------------------------------------------------------
(* What a session's client does: account_update, AccountDisconnect          *)

\* Appearance alone is delayed.
UpdateDelayed(c, j) ==
    /\ stamp < MaxUpdates
    /\ stamp' = stamp + 1
    /\ last' = [last EXCEPT ![target[j]] = stamp']
    /\ delayed' = [delayed EXCEPT ![j] = stamp']
    /\ UNCHANGED <<writes, raced>>

\* With other fields it is written at once, in place of what was delayed.
StillDelayed(j) == delayed
Superseded(j) == [delayed EXCEPT ![j] = 0]
UpdateMany(c, j) ==
    /\ stamp < MaxUpdates
    /\ stamp' = stamp + 1
    /\ last' = [last EXCEPT ![target[j]] = stamp']
    /\ delayed' = Superseded(j)
    /\ LET w == NewWrite(target[j], stamp', NoActor)
       IN  Spawn({w}) /\ raced' = raced \cup Meets({w})

\* Another field; bound: one such update at a time.
UpdateOther(c, j) ==
    /\ ~\E w \in writes : w.by \in Conns /\ w.app = 0
    /\ LET w == NewWrite(target[j], 0, c)
       IN  Spawn({w}) /\ raced' = raced \cup Meets({w})
    /\ UNCHANGED <<stamp, last, delayed>>

AccountUpdate(c) ==
    /\ Listens(c) /\ handlers[c] = "post" /\ bySocket[c] # NoJob
    /\ LET j == bySocket[c]
       IN  UpdateDelayed(c, j) \/ UpdateMany(c, j) \/ UpdateOther(c, j)
    /\ UNCHANGED <<conn, handlers, jobs, logins, online, rm, db, created>>

StartRemoval(c) == rm' = [rm EXCEPT ![c] = [id |-> c, acc |-> NoJob]]

AccountDisconnect(c) ==
    /\ Listens(c) /\ handlers[c] = "post"
    /\ StartRemoval(c)
    /\ UNCHANGED <<conn, handlers, jobs, logins, online, delayed, store, history>>

-----------------------------------------------------------------------------
(* flush_delayed_updates                                                    *)

Flush ==
    LET flushed == {bySocket[i] : i \in Ids} \ {NoJob}
        W == {NewWrite(target[j], delayed[j], NoActor) : j \in {k \in flushed : delayed[k] # 0}}
    IN  /\ delayed' = [j \in Jobs |-> IF j \in flushed THEN 0 ELSE delayed[j]]
        /\ Spawn(W)
        /\ raced' = raced \cup Meets(W)
        /\ UNCHANGED <<conn, handlers, jobs, logins, online, rm, db, stamp, last, created>>

-----------------------------------------------------------------------------
(* Connections                                                              *)

\* do_disconnect, which a close by the client, a timeout or the server calls.
Disconnect(c) ==
    /\ Listens(c)
    /\ conn' = [conn EXCEPT ![c] = "closing"]
    /\ StartRemoval(c)
    /\ UNCHANGED <<handlers, jobs, logins, online, delayed, store, history>>

\* The last reference to the connection goes.
Release(c) ==
    /\ conn[c] = "closing" /\ rm[c] = NoRemoval
    /\ conn' = [conn EXCEPT ![c] = "gone"]
    /\ UNCHANGED <<handlers, jobs, logins, online, delayed, rm, store, history>>

-----------------------------------------------------------------------------

LoginStep(j) == Load(j) \/ Kick(j) \/ Persist(j) \/ SeatLogin(j)
CreateStep(j) == Exists(j) \/ PutAccount(j) \/ SeatCreated(j)

Next ==
    \/ \E j \in Jobs : AccountCreate(j) \/ CreateStep(j) \/ AccountLogin(j) \/ LoginStep(j)
    \/ Take
    \/ \E x \in Actors : Remove(x)
    \/ \E x \in Actors \cup {NoActor} : Update(x)
    \/ \E c \in Conns : Disconnect(c) \/ Release(c) \/ AccountUpdate(c) \/ AccountDisconnect(c)
    \/ Flush

Spec == Init /\ [][Next]_vars

-----------------------------------------------------------------------------
(* Properties                                                               *)

Progress == {"idle", "exists", "put", "created", "queued", "load", "loaded", "kicking",
             "persisting", "seat", "thrown", "done"}

Types ==
    /\ conn \in [Conns -> {"open", "kicked", "closing", "gone"}]
    /\ handlers \in [Conns -> {"pre", "post"}]
    /\ pc \in [Jobs -> Progress]
    /\ client \in [Jobs -> Ids]
    /\ target \in [Jobs -> Accounts \cup {NoAccount}]
    /\ number \in [Jobs -> Numbers \cup {NoNumber}]
    /\ queue \in Seq(Jobs) /\ running \in BOOLEAN /\ takers \in Nat
    /\ bySocket \in [Ids -> Jobs \cup {NoJob}]
    /\ byMember \in [Numbers -> Jobs \cup {NoJob}]
    /\ delayed \in [Jobs -> Values]
    /\ rm \in [Actors -> Removal \cup {NoRemoval}]
    /\ db \in [Accounts -> Record \cup {NoRecord}]
    /\ writes \in SUBSET Write
    /\ stamp \in Values /\ last \in [Accounts -> Values]
    /\ created \in SUBSET Accounts /\ raced \in SUBSET Accounts

\* Every variable keeps its type, and an account about to be online, or online, has
\* its member number.
TypeOK ==
    /\ Types
    /\ \A j \in Jobs :
          pc[j] \in {"created", "loaded", "kicking", "persisting", "seat"}
              => number[j] \in Numbers
    /\ \A i \in Ids : bySocket[i] # NoJob => number[bySocket[i]] \in Numbers

\* An account that was in the database from the start has at most one session:
\* logins are one at a time, and each throws out the session it finds, even one
\* whose connection is gone.  (One just created may have two: its creation is
\* no part of the queue.)
OneSession ==
    \A i, k \in Ids :
        /\ bySocket[i] # NoJob /\ bySocket[k] # NoJob
        /\ target[bySocket[i]] = target[bySocket[k]]
        /\ target[bySocket[i]] \notin created
        => i = k

\* Where the value last given to a's Appearance is: delayed, on its way, or stored.
Kept(a) ==
    \/ \E i \in SessionsOf(a) : delayed[bySocket[i]] = last[a]
    \/ \E w \in writes : w.account = a /\ w.app = last[a]
    \/ db[a] # NoRecord /\ db[a].app = last[a]

\* The newest Appearance is never lost, nor put back to an older one, by delays,
\* flushes, updates that supersede each other, and departures, except of an account
\* two of whose updates, sessions or removals have met, or whose update failed.
NewestKept == \A a \in Accounts \ raced : last[a] = 0 \/ Kept(a)

Busy(j) == pc[j] \in {"load", "loaded", "kicking", "persisting", "seat", "thrown"}

\* Whatever logins are queued while others end, exactly one run_login_queue goes on
\* as long as any is left: none is forgotten and no two run at once.  (After a login
\* has thrown, its coroutine is the one, and does nothing more.)
Attended ==
    /\ takers <= 1
    /\ \A j, k \in Jobs : Busy(j) /\ Busy(k) => j = k
    /\ takers = 1 => \A j \in Jobs : ~Busy(j)
    /\ running <=> takers = 1 \/ \E j \in Jobs : Busy(j)
    /\ queue # <<>> => running
=============================================================================
