# Studio Bondage Club in TLA+

A verification development for the C++ core of this repository: TLA+ modules
translated from `src/src/`, TLC configurations that check them on small
instances, and theorems that TLAPS proves for all instances. Paths below are
relative to the repository root with its `src/` prefix, so that the core is
under `src/src/`.

`PROJECT.json` holds the same facts in tabular form: the components, the runs,
which lines every definition stands for, a plausible bug (mutant) for every
property, the hazards, and the theorems.

## 1. The system

One process proxies a web game: it serves the game's files from a disk cache or
from upstream, can itself be the game's server, and is configured through a web
panel. Everything runs as Boost.Asio coroutines on `IoRuntime` (at least two
threads), with blocking work on `BlockingPool` (at least four). Every `co_await`
and every lock released is a point where others go on.

| Component | State | Operations | What is hard | What makes it correct | Modules |
|---|---|---|---|---|---|
| Cache store, `cache/leveldb_store.cpp` | `"m/"` and `"b/"` records, `write_mu_`, `total_bytes_` | get, put, touch, update_metadata, expire, clear, enforce_max_size, open | `write_mu_` covers only some operations; totals are stored from scans; failures and restarts | metadata goes with its body; expiry is not undone; the total covers the bytes; eviction keeps what is newest | ResponseStore, CacheStore |
| Request coalescing, `cache/flight.hpp` | `calls_`, the Call objects and their timers | do_call | a caller between finding the Call and waiting on its timer | one run at a time; all get its outcome | Coalescer, Flight |
| Reverse proxy, `host/reverseproxy/provider.cpp` | `flights_`, `stores_`, snapshots | serve, proxy_pass, live_update, close | stale reads over awaits, shared results, failure after the response has begun | coherent entries, one response, an end for every request | ReverseProxy, LiveConfig, Sessions |
| Network client, `net/http_client.cpp` | pool of idle connections | fetch | stale pooled connections, a retry that must not repeat what was handed on | a fetch hands on its own answer | HttpClient |
| HTTP sessions, `server/session.cpp`, `remote_proxy.cpp` | connections, response writers | read, handle, relay, finish | upstream and browser break off anywhere | answers whole, in order, each of its request | Sessions |
| Life cycle and configuration, `server/app.cpp`, `config/` | `state_`, provider, config file | apply_config, swap_provider, save, start | one step of several failing, stops in between | what runs is what is stored, or the change was refused | LiveConfig |
| Panel RPC, `server/rpc/` | sessions, subscriptions, queues | call, subscribe, publish | snapshot and frames from two coroutines | the panel shows what is live | LiveConfig |
| User scripts, `server/userscript_store.cpp`, `userscript_updater.cpp` | scripts, pending updates, values | save, remove, reorder, confirm, passes of the updater | reads and writes apart, partly under a mutex | no change is lost; an update is newer than what it replaces | UserScripts |
| Transport, `server/gameserver/engineio, socketio` | connections, packet queues, timers, limits | poll, upgrade, push, heartbeat, disconnect | polling beside WebSocket, timeouts, live limits | packets once and in order; one disconnect; limits that hold | Transport, Limits |
| Accounts, `game/account_manager.cpp` | accounts online, login queue, delayed updates | create, login, update, remove, ownership, lovership | awaits between check and insertion, duplicate logins, writes that land in any order | one session per account, no lost update, relations agreed by both | GameAccounts, Relationships, Limits |
| Chat rooms, `game/chatroom_manager.cpp` | rooms, members, admins, bans | search, create, join, leave, administrate, message | removal beside joins and kicks | accounts, rooms, socket rooms and clients agree | ChatRooms |
| Game database, `game/game_db.cpp` | accounts, the member counter | load, update fields, next number, reopen | unlocked read-modify-write; moves | no lost field, found where it was put | GameAccounts, Relationships, LiveConfig |
| Policy, routing, keys, versions, `cache/*.cpp` | rules | match, cache_key, freshness | globs, precedence | agreement with their definitions | - |
| Traffic statistics, package host, helpers, panel, desktop, Android | - | - | I/O, parsing, UI | - | - |

How they interact. `App` owns the current `Provider`. An HTTP session
(Sessions) calls `Provider::serve_target` (ReverseProxy), which looks into a
`LevelDbStore` (CacheStore) through the blocking pool, joins the key's flight
(Flight), and as its leader asks upstream (HttpClient), puts what comes, and
enforces the budget. The panel clears and expires the stores, changes the
configuration and with it the provider, the game's settings and the place of its
database (LiveConfig), and keeps the user scripts (UserScripts). The game server
is a second, independent stack: connections (Transport), counted and limited
(Limits), deliver packets to the account manager (GameAccounts, Relationships),
which keeps accounts in the database and in memory and tells the room manager
who has gone (ChatRooms).

The hazards of each part, with the line where each bites and the property that
watches it, are the list `hazards` of `PROJECT.json`; those that no property
watches are in section 5.

## 2. The modules

Every module is translated from the code: an action is what runs between two
points at which others may go on. Null values are model values. A definition
that no specification uses is a variant of the one after it, with a plausible
bug: the mutants of `PROJECT.json` name these.

### ResponseStore, CacheStore (`cache::Backend`, `LevelDbStore`)

`ResponseStore` is what backend.hpp promises the provider: under a key there is
nothing or a whole copy (`held`), and a call changes what is held in one step at
most between its beginning and its return (`call`, `done`). A put stores a copy;
update_metadata, expire, clear and enforce_max_size change or drop copies, and
clear and expire leave out only what was put meanwhile (`passed`). A call may return
without any effect, as it does when LevelDB fails.
`CacheStore` is the code, and implements it (`KeepsPromise`) until a
read-modify-write is overtaken (`broken <- overtaken`): what it holds under a key is
what metadata and body say together (`Held`), and a call has its effect with its one batch
(`Acted`). A touch has none that is told apart here.


`meta` and `body` are the `"m/"` and `"b/"` records, `writeMu` is `write_mu_`'s
owner, `totalBytes` is `total_bytes_` with -1 for unseeded. A thread of the pool
has a `task` (an operation with its arguments), a `step` in it, and what it has
read (`scan`, `scanBody`). A LevelDB batch is atomic, as is one access to the
atomic total; everything between two of them is a point of interleaving:

| Operation | Actions |
|---|---|
| put, commit_temp | `PutWrite` (the batch), `PutSeeded` (the test for -1), `PutAdd` |
| touch, update_metadata, expire | `LockAndRead`, `WriteBack`, under `write_mu_` |
| clear | `ClearScan`, `ClearWrite`, `ClearTotal` |
| enforce_max_size | `EnforceFastPath` or `EnforceSlowPath`, `EnforceScan`, `EnforceEvict`, `EnforceTotal` |
| any LevelDB call failing | `DbError`: the exception unwinds, and with it the lock |
| the process dying and reopening | `Restart` |

`Entry` keeps of the metadata which body it describes (sha256, size and
validators), when it was stored and accessed, and whether it has expired. Three
history variables say what the code does not promise to survive: `overtaken` (a
read-modify-write has written over an entry changed meanwhile by an operation
that takes no lock), `missed` (the threads a put has passed since they read)
and `raced` (a total was stored by such a thread). `Total` adds the sizes of what
is stored by counting: it is the number of pairs of a key and one of its bytes, which
needs no recursion.

### Coalescer, Flight (`FlightGroup::do_call`)

`Coalescer` is the promise of flight.hpp's comments: a flight per key, open
until its outcome is decided, and everybody who joined returns that outcome.
`Flight` is the code: the lookup under `mutex_` (`Lead`, `Follow`), the wait on
the Call's timer (`Wait`), the publication, the erase, and `expires_at` in its
two halves (`Cancel`, then the new expiry in `ExpireAndReturn`), with the timer
queue of Boost.Asio (`queue`, `due`, `Fire`), the only external definition.
`Flight` implements `Coalescer` with `open <- calls`, `flight <- call` and
`outcome <- decided`: a flight is over when its Call leaves `calls_`.

### ReverseProxy (`serve_target`, `fetch`, `proxy_pass`, `serve_entry`)

Composes `Coalescer` (`flights_`, by INSTANCE) with an atomic store of one key
and with upstream. `step` is a request's progress:

    idle -Arrive-> asked -Look-> serving | passing | missed
    missed -Join-> leading | waiting
    leading -LookAgain-> fetching | waiting
    fetching -Fetch-> refreshing | storing | waiting
    refreshing -Refresh-> waiting;  storing -Put-> enforcing -Enforce-> waiting
    waiting -Conclude-> serving | idle;  serving -OpenBody-> idle;  passing -Pass-> idle
    waiting -(the flight's end misses it)-> stranded

`cached` is what the request found before the flight, `known` what its leader
finds within, `body` what it collects, `sent` is `header_sent()`. `End` is the end of the
lambda, by value or exception, and closes the flight. Every store and upstream
call may fail. `Deploy`, `Lose` and `Expire` are upstream and the store's other
users. Entries always carry an ETag, upstream's errors are not cacheable, the
rule is one with `version_revalidate`; a range or a HEAD answered from the
store counts as the whole of its body. `Conclude` takes a flight's outcome and
uses it in one step; this is `Coalescer`'s Return, with `got` not kept. The end of a
flight wakes its followers (`Wakes`) but for any that come between the two halves of
`expires_at`, as in `Flight`: those are stranded for good.

### GameAccounts (`AccountManager`, `GameDb`)

`bySocket` and `byMember` are `GameState`'s maps from a socket's id and a member
number to an `OnlineAccount`; `conn` and `handlers` are what a `Connection` has
left of its life and which events it listens to. A job is one call of
`account_create` or one element of `login_queue_`, and names the
`OnlineAccount` it makes. `pc` is its progress, from one `co_await` to the next:

    idle -AccountCreate-> exists -Exists-> put -PutAccount-> created -SeatCreated-> done
    idle -AccountLogin-> queued -Take-> load -Load-> loaded -Kick-> kicking -Persist-> persisting
         -(its update is written)-> seat -SeatLogin-> done

`queue`, `running` and `takers` are `login_queue_`, `login_running_` and the
`run_login_queue` coroutines between two logins. `SocketId` is `Socket::id`,
the empty string once the connection is gone, with which an account can still be
seated. `rm` is who executes `remove_account`: a connection's strand
(disconnect, `AccountDisconnect`) or a login that throws out a duplicate; `Find`
and `Erase` are its two critical sections, before and after the hook. `writes`
are the calls of `update_account_fields` under way, each a `Read` and a
`WriteBack`; only a login waits for its own. A failing `Read` is silent
(`NotFound`), a failing write throws (`Throws`), and when it is a login's,
`login_running_` stays set.

Of the fields only Appearance is told apart: one that is delayed, whose value is
the number of the update that set it. `raced` is a history variable: the
accounts two of whose updates, sessions or removals met, or one of whose
Appearance updates failed, for which the code keeps no promise.

### Relationships (ownership and lovership)

The part of `AccountManager` in which two accounts agree on something. `mem` is
the data of the accounts online, `stored` the database, `updates` the updates of it
under way, each a `GetAccount` and a `PutBack` of the whole account, started
by a coroutine of its own and therefore in any order; the write may fail. `rewrites` are
the other calls of `update_account_fields` on the same account, for fields that are
of no relation: of a login (LastLogin), of `account_update`, of delayed looks that
are flushed or left at removal. Each reads (`RewriteGets`) and writes back
(`RewritePuts`) the whole account, relations included, and so can undo an update
that it meets. What needs no more than
the accounts online is one step under the accounts' mutex (`Ownership`,
`Lovership`, `BreakOwner`); a release or break of somebody who may be absent
is an errand: it reads the database first (`Reads`), and acts on it in another step
(`Finish`). `Enter`, `Logout`, `LogIn` (the read) and `Seated` are the players'
comings and goings. A bond is its stage plus an offer for the next. `crossed` is a
history variable: members of whom an update of a relation met another update, of
whatever field, or failed, or of whom a login or an errand used what was no longer so. The database may start with any accounts
that are `Sound`: without offers, within the limit, lovers of one another.

### ChatRooms (`ChatRoomManager`)

`gs` is what `gs_.mu` protects, with `hub`, the socket rooms by which messages
go out, and `view`, what each client knows of its room once it has every
message sent to it. A client's event is one step under the mutex: `RoomStep` is
creation, joining and leaving (with their refusals), `ChatRoomAdmin` the room's
update, moves, swaps and shuffles (`Reorder`), kick, ban, and the lists of administrators
and the admitted (`Enlist`), `Dress` a look that a roommate gives. Leaving is `Left`, which every way out of a room uses.
`RemoveAccount` is `remove_account` in its three parts, find, hook (the room),
and erase, executed by a connection's strand (`AccountDisconnect`) or by a login
that replaces the session; `Flush` and `Erase` hand delayed looks to a coroutine
that writes them, detached and without a lock (`handed`). What comes of that write, which
can fail, land late or be undone, is modelled in `GameAccounts` and `Relationships`. Rooms are found by
name without case (`Upper`). `gs.mixed` and `replaced` are history: rooms that held two sessions of a
connection or of a member, and sessions that a login removed.

### Transport (`Connection`)

One connection: `conn` its flags, `outbox`, `timer` the expiry of `park_timer_`,
`poll` a `drain_for_poll` on its way, `ws` with `writer` and `reader` the
WebSocket, `hb` the heartbeat. A poll runs on the strand until it waits, and
beside it after that, so that `PollWakes` and `PollClears` are steps of their
own. `Serves` is `push_locked` and, with a reason, `do_disconnect`.

| In the code | Actions |
|---|---|
| drain_for_poll | `PollArrives`, `PollWakes`, `PollClears`, `PollReturns` |
| POST bodies, frames | `ClientSends`, `ClientPongs` |
| emit, disconnect | `Emit`, `Disconnect` |
| heartbeat_loop | `HeartbeatPings`, `HeartbeatChecks` |
| run_websocket, ws_writer, ws_reader | `Upgraded`, `WriterTurns`, `WriteEnds`, `ReaderFails`, `WebSocketEnds` |

The client is engine.io's, one poll at a time, and before the upgrade waits for
its poll (`patient`) or not; it may `Vanish`. Since it has one poll and what
wakes a poll stays until the poll has seen it, a poll never waits twice.
`UnderWay` stands for time: a ping does not time out while something is on its
way to or from a client that is there. `raced` tells the runs in which the
outbox changed while a poll copied it. Data races there can do more than reorder
calls, and the answers to a client's own pings are left out.

### Limits

What the game server counts against the clock: connections of an address (count
and rate), events of a connection, accounts made from an address, while the
settings change. `kept`, `bucket` and `creations` are the code's tables;
`accepted`, `openedAt` and `events` are the history they are checked against.
`Without` of the module Subsequences is what `remove_if` leaves of a vector; it is
a recursive function, not an operator, so that it can be proved about.

### LiveConfig (`App::apply_config`)

Composes the configuration file, the live state, the provider (open, closed or
updated in place), the directories, the game database, the requests that hold a
provider's store, and a panel with the event stream.

    submitted -PreSwap-> swap -SwapBegins-> open -OpensNew-> set -SetsState-> post
              -PostSwap-> save -Saves-> notify -Notifies-> idle
    open -(fails)-> restore -Restores-> reattach -Reattaches-> idle

`SwapBegins` goes straight to `set` when the provider is kept. `change` is the
`ConfigChange` of the call, `only` the scope it is for (`UpdateScope`), or none
(`Replace`, which is reset, too). `Fault` is a file system call that throws, or
a stop of the process (`Restart`, which starts from the file); a LevelDB whose
directory is still open in a provider or a request (`Locked`) refuses to open.
`trouble` says what an apply is not made for: an apply that ran into another
(`overlap`), one that failed half way without a way back (`failed`), one after a stop
(`cut`) or a refusal (`refused`); and that a database was moved over another
(`merged`). `Migrate` is `migrate_dir`: a rename where the target is missing or empty, else
a copy over what is there, after which LevelDB may replay logs of the older database; any of
its accounts may then be back (`Merged`). `mine` is the accounts the players should find.
A panel's `posted` are the frames on their way; `late` a panel that took its
snapshot before a change whose frame comes first.

Left out: the mode of the package host, normalisation of values, and how
`live_update` replaces policy and client one after the other. What overlapping
applies lead to is modelled, but no property holds of it: nothing in the code keeps them
apart, and they can leave a closed provider in place. A save that failed is not
repaired by sending the same again, which finds no difference.

### UserScripts

The store's `"s/"`, `"p/"` and `"v/"` records, the panel's calls and the
updater's passes. `remove`, `reorder` and `apply_pending` read and write in two
steps under `mu_`; a save, an update recorded and a value set take no mutex. A
window acts on what it has listed (`view`), which may be old. `Record` is
`set_pending` after a fetch that took any time. Which scripts have their switches
on is open, records of settings are single writes and left out; that a script
is built in cannot be set from the panel. A confirmation applies whatever update
waits by then, and a pass that records late can put an older update over a newer
one: both are modelled. `missed`, `changed`, `lagging` and
`late` are history: they name the scripts for which the code has no chance to
tell that what it read is no longer so.

### HttpClient, Sessions

`HttpClient` is `fetch` for one host: `Take` and `TakeNone` (`pool_take`),
`Dial`, `Write`, `ReadHead`, `ReadBody` with `pool_put`, and `Fails`, which
retries once on a new connection if the one used came from the pool and no head
has been handed on. A connection's `wire` is what upstream owes and has sent;
upstream may close at any time (`Closes`). `Lone` fetches have a client of
their own. A piece of an answer names its request and the attempt, so a request
that upstream processed twice can be told.

`Sessions` EXTENDS it with the browsers' connections: `Reads`, the handler
(`Answers`, or `Fetching`, `PassesHead`, `PassesBody`, `Passed`, `PassFails`),
`EndsResponse`, which writes what the handler left unfinished, and `Leaves`, a
browser that is gone. `Answer` is what lies in the stream from the first to the last
part of a request's answer, so that a part of another's between them would show. `SSpec` is shown to implement `HttpClient`'s `Spec`.
Browsers do not pipeline, all connections are kept alive, interim 1xx answers,
upgrades and the WebSocket relay are left out. `Dial` takes an unused name by
CHOOSE: names mean nothing. A dial comes before the
deadline of its request (http_client.cpp:209, 212), and a name's resolution, a connect and
the SOCKS greeting (socks5.cpp:53, 66, 83) have none of their own: it may end or not
(`Dialling`).

### How they relate

`Flight` is shown to implement the `Coalescer` that `ReverseProxy` uses, and
`Sessions` to use `HttpClient` as it is specified. The atomic store of
`ReverseProxy` is that of `ResponseStore`, where a call is one step, by its operations'
results: `CacheStore` implements `ResponseStore` until it is overtaken, and what it
can then produce, an entry whose body cannot be opened, is what `OpenBody` allows
for. A body that is another's is not: `Coherent` says nothing of a store that was overtaken. `ChatRooms` takes from `GameAccounts`
how sessions are seated and removed, at the grain of the room's part in it.
`Relationships` and `GameAccounts` share `update_account_fields`, each with the
values of the fields it is about, and with updates of other fields beside them.

## 3. What is checked

`MC*` modules give the values a configuration cannot write down. Flight needs none.

| Run | Instance | Shows |
|---|---|---|
| store_ops | one key, two bodies, two threads, every operation with every argument | `KeepsPromise`: until it is overtaken the store implements `ResponseStore`, whole copies that each call changes in one step; `ExpiryStands`: only a put or a 304 makes an expired entry fresh |
| store_eviction | two keys, two clock readings, budgets 0 and one body | `HintCoversUntilRaced`: the running total never falls short unless a put raced a scan; `NewestSurvives` |
| flight | three callers, one key, three Calls, a value and an error | `Coalesces`: the refinement; `QueuedReturn` (liveness) |
| proxy | two requests, one version, two bodies, GET, HEAD, bypassed, and conditional no-cache range | `Coherent`: the entry's ETag is its body's; `OneResponse`: nothing but its end follows a streamed response; `EveryRequestEnds` (liveness): while no request to upstream hangs, and but for stranded followers |
| game_accounts | two connections, one stored account and one to be created, two creations or logins, two updates of Appearance, a failing database | `OneSession`: a stored account has one session, ghosts included; `NewestKept`: no Appearance is lost or put back; `Attended`: a queued login is neither forgotten nor served by two |
| relationships | three members, one lover each, three requests and two comings, goings, updates of other fields or failures, four together; alone, two engaged, or a third on trial with one of them; empty black lists | `Settled`: the database has what is agreed; `LoversAgree`; `WithinLimit`; `OwnersChange`: nobody changes owner without being free |
| chat_rooms | two connections, two sessions of two members, two rooms, three names of which two differ in case, two edits | `MembershipAgrees`, `HeardInside`, `ViewsAgree`: room, accounts, socket room and clients agree; `NoGhosts`; `SearchTellsTruth`; `LooksHandedOn`: no look stays behind in memory |
| transport | one connection, two messages, every client | `InOrder`: once and in order through polls and upgrade; `EndsOnce`; `LiveStays`: no live client times out; `PollAnswered`, `GoneNoticed`, `FarewellTold` (liveness) |
| limits | three connections of an address, three events or accounts, four clock readings, two changes | `KeptAreLatest`; `WithinLimits`; `DroppedExactly`: an event drops the client exactly over the limit |
| live_config | one caller with two applies, one request, two accounts, a panel, two faults | `Settled`: file, state, provider, database and rules are of one configuration; `AccountsFollow`: saved accounts are where the game looks, also after a move over an older database; `AnsweredIsSaved`; `PanelFollows` |
| user_scripts | one script, two versions, two windows, two passes, one value | `KeepsTheRest`; `PendingNewer`; `NothingLeft` |
| sessions | two browsers with two requests each, passed on, by a client of their own, or answered by the program; three connections, one kept idle | `AnswersInOrder`; `AnsweredOrClosed` (liveness): unless its own dial hangs |

`TypeOK` is in no run: where it is stated, a theorem has it. In no run either are
`RegisteredIsLed` (`LedCorrect`), `OwnAnswer`, `PoolIdle`, `PoolBounded`, `OneRewriter`,
`OvertakesUnlocked` and `PairedUntilOvertaken` (`PairedCorrect`), which `KeepsPromise` implies:
a copy whose metadata is not its body's (`Torn`) is never held before the promise is off.

**Bounds.** `HintBound` caps `totalBytes` by letting no put start above it: the
total counts a body twice when it replaces one (leveldb_store.cpp:223), and
would grow without end. Two threads are enough for the store because each race
found or excluded is between two operations, one of which is between its read
and its write; two keys, because eviction is about one entry against another. In `flight`, three callers
are a leader, a follower, and one who comes when the first is gone; keys share
nothing but `mutex_`. Two requests suffice for the proxy for the same reason as
two threads do for the store: only one leader can act on an entry, and all
followers are alike; the deepest counterexample to a mutated `Coherent` takes
three flights by the two in turn. In `game_accounts`, `MaxJobs` = 2 sessions suffice
because what the properties relate is a session and the one it replaces or
collides with; `MaxUpdates` = 2 gives an older and a newer Appearance;
`UpdateOther` bounds updates of other fields to one at a time, one being enough
to carry an old Appearance back. In `relationships` a third member is needed for
an owner or lover who comes in between, and three requests (`MaxActs`) for an offer, its
acceptance and what crosses them; two `MaxMoves` are a coming or going, an update of
another field or a failure, and `MaxBoth` keeps acts and moves to four together, for the number of
states: two requests beside two moves, or three beside one; one lover at most makes the limit bite. In
`chat_rooms` a session and the one that replaces it, on one connection or two,
are the two sessions; the second room is the one that is left for the first.
In `transport`, `MaxMsgs` = 2 gives an order. In `limits`, a second is one tick and an hour two;
the clock starts past both and runs to `MaxTime`, so that windows open and close. In `live_config`, `MaxMishaps` = 2
lets a step fail and the one that takes it back fail as well, or the process stop;
two applies leave a database behind and come back over it;
one caller, as no property speaks of applies that overlap. In
`user_scripts`, one id, because two are too many states; what the scripts share is
`mu_`, and the proofs cover any number. In `sessions`, the two passed
on share the one connection kept idle, which upstream may have closed, and the
third dials anew. The theorems remove the bounds for the properties they name.

**Symmetry** is used in `store_eviction` (keys, threads), `game_accounts` and `limits`
(connections), `relationships` (members m1 and m2), `chat_rooms` (connections, rooms,
sessions) and `user_scripts`
(windows, passes), which have no liveness property.

**Fairness.** Of flights: a coroutine that can go
on is resumed and due timers fire; callers need not call and `fn` need not end.
Of the proxy: `Proceed`, each step of a request that does not wait for upstream.
`AsksUpstream` has no fairness, since the deadlines of `http_client.cpp` (212, 249) do
not cover the dial; instead `EveryRequestEnds` has the premise that no request stays
at upstream for good. Nor is a follower that the flight's end misses ever woken.
That a leader's write to its client ends `session.cpp` (56-98) bounds with
`kWriteTimeout`. Of sessions: each goes on (`WF` of `Goes` for each browser, but
while it is dialling), because sockets report what arrives and their deadlines report what
does not, 120 seconds for the next request; `Idles` is part of it for that
reason. `AnsweredOrClosed` is of the browsers whose own dials end; others' may hang. Of the transport: the strand's work, the heartbeat's timer and writes go
on, and a client that is there answers pings, takes frames and has its polls
returned, but need not send anything else. Of the store, accounts, relations, rooms, limits,
configuration and scripts nothing: their properties are safety. No fairness is assumed of
upstream's content or of the panel. Nowhere is strong fairness needed.

**Deadlock** is checked in seven runs. It is not in five in which the system may stop:
in `relationships`, `limits` and `chat_rooms` when the bounds on what
clients do are used up or everybody is gone, in `transport` when the connection has
ended, and in `sessions` when all connections are closed.

## 4. What is proved

Each `*Proofs` module holds for all values of the constants, under the named
assumptions of the module it extends (bodies have natural sizes, clocks are
positive, the null values lie outside the sets they extend). Every safety
property that a run checks, invariant or action property, is a theorem.
Each proof goes the same way: an inductive invariant, which implies the property; a
lemma for each action, or for a group of actions that leave the same things alone; and
lemmas about the operators, each of them stated once.

- `CacheStoreProofs`. `TypeCorrect`. `PairedCorrect`: PairedUntilOvertaken is
  inductive only with `Pairing`, which adds that what `clear` is about to delete is
  paired too (`ClearPaired`): its batch deletes the `"m/"` it has seen and the
  `"b/"` it has seen. `ExpiryCorrect` needs that `write_mu_` is owned exactly by
  a thread between its read and its write (`MutexInv`), and that what that
  thread has read is still what is stored, or absent, or a put has passed
  (`ScanCurrent`).
  `HintCorrect` (the running total) rests on `ScanCovers`: what `clear` or an enforcement
  has read covers the bodies stored since, unless a put has passed; and on `HintInv`:
  the total is -1 until it is seeded, and a put on its way to adding has
  found it seeded. That a sum grows or shrinks with what is stored is proved
  by counting (`Total`): storing a body adds a block of pairs disjoint from the
  others. `NewestCorrect` is a step's own: the victims are the oldest until the rest
  fits, so that if the newest is one of them, nothing else would be left, and
  it alone exceeds the budget.
  `PromiseCorrect` is the refinement of `ResponseStore`. Every batch is one step of
  it, and everything else a beginning, a return or a stutter. It needs
  `Pairing`, so that what is held can be told from the metadata alone (`Shown`);
  `ScanCovers` for clear, and for expire that what it has read is all there is
  of its keys unless a put has passed (`ScanFull`); and that a thread has an operation exactly while
  it is not idle (`Busy`). `OneRewriterCorrect` and `OvertakesUnlockedCorrect` say what
  write_mu_ is worth: no operation that takes it is overtaken by another that does,
  so that the promise ends only by a put, a clear or an eviction.
- `FlightProofs`. `Inv` says who holds which Call: a leader's Call is
  registered and its own until it erases it (`LeaderRegistered`), a registered
  Call has a leader (`RegisteredLed`), two leaders never share one
  (`OneLeader`), and every event that lets a caller return, among them a timer's
  firing, comes after the result and the erase (`Ended`, `Timers`). `LedCorrect`
  is part of it; `CoalescesCorrect` maps every step: `Lead` to Lead, `Follow` to
  Follow, `Erase` to Finish, `ExpireAndReturn` and `Resume` to Return, the others to stuttering.
- `ReverseProxyProofs`. `Inv` adds to the types that a step has what it needs
  (`AtHand`), that a leader leads the open flight and is the only one
  (`OneLeader`), that what the flight knows is the stored body's unless the
  entry is gone (`KnownIsStored`), and that a stream is under way only until
  `do_call` returns (`Streaming`). `CoherentCorrect` rests on the first three,
  `OneResponseCorrect` on the last. A stranded follower has nothing at hand and is
nobody's leader.

- `GameAccountsProofs`. `TypeCorrect` needs, beside the types, that who is in the
  queue, a map or a removal has asked to be there (`AtHand`), and that a write a
  login waits for is its own, alone, and it waits (`Places`). `AttendedCorrect`
  is inductive given these. `OneSessionCorrect` rests on `Cleared`: while a login
  removes a duplicate, the account has no session but that one, and none from
  then until it is seated, because by `Attended` no other login is past its
  look for duplicates; only a creation can seat another, of an account just
  created. `NewestKeptCorrect` rests on `KeptInv`: only a seated session has delayed
  anything (`Rested`); who is online, is about to be, or has been updated is
  in the database, which forgets nobody (`Rooted`); and an account that is not raced
  is `Tidy`: it has one session and one update under way at most, that update
  has read what is stored, and what is delayed or on its way is the newest, or else
  the newest is delayed. `Kept` alone would not do: an update under way with an
  older value, or one that read before another was stored, would undo it.

  Of `Relationships`, in the same module: `SettledCorrect`, `LoversAgreeCorrect`,
  `WithinLimitCorrect` and `OwnersChangeCorrect`, from `RelationsInv`. `Bounded` is
  about every list of lovers there is: in memory, stored, read, or carried by an
  update or errand; it is what the limit needs, since each of these can become
  what is in memory. `RewritesInv` is of the updates of other fields: what one
  has read of a member not crossed is still stored, so that writing it back
  changes nothing of a relation (`UpdatesHarmless`); with `RelationsInv` it is `Held`. `Agreed` says of members who are not crossed that one
  update is under way at most, and has read what is stored (`Lone`); that with
  it, the database will have (`Becomes`) what is in memory (`Recorded`); and that
  any two will agree (`Matched`). The members are assumed to be finitely many,
  and the database to start `Sound`. `Settled` and `LoversAgree` are not inductive without
  `Becomes`: a step changes memory first and the database two steps later, and
  another may come between. What is asked comes down to five kinds
  (an owner agreed, an owner or a lover offered, a lover accepted, an errand begun),
  each with its lemma.

- `GameServerProofs`. *Transport*: `EndsOnceCorrect`: what ends a connection passes
  through `closing`, which is set with the one reason that is recorded (`EndsInv`).
  `InOrderCorrect` and `LiveStaysCorrect` rest on `TransportInv`. `ControlInv` is
  how poll, upgrade and writer exclude each other; `FlowInv` says that what the client
  has, what answers its poll, what is on the wire, what is being written
  and what is queued are together what was pushed, in that order for a patient
  client, and as sets of that many for another; `PingInv` that a ping not
  answered is on its way to the client, or owed by it (`due`), or its WebSocket is broken.
  *ChatRooms*: `RoomsInv` holds of every room that its members say they are in it
  (`Seats`) and that the socket room has their connections (`Hubs`); of a room that is not
  mixed, also the converse (`Whole`), that connections and numbers differ (`Distinct`)
  and are heard in no other room (`Apart`), and that clients know the members
  (`Seen`). Sessions come into it as what may be removed, at any point between
  find, hook and erase, without taking another's connection out of a room (`Clear`,
  `SessionsInv`). `LooksInv` is about delayed looks and what was handed on of them, `NamesDiffer` about names
  without case. The six properties of the rooms follow.
  *Limits*: `LimitsInv` relates the tables to the history: `kept` is a suffix of the times
  accepted (`SuffixInv`), one for every connection with a place (`PlacesInv`); of those that
  came since any moment no more have a place than were accepted since (`SinceInv`), from which
  the rate follows for any second (`OpenInv`), although `kept` forgets times out of
  order of their connections. A bucket agrees with the events from the
  newest on, or both are too old to count (`BucketInv`), which a resizing keeps.
- `UserScriptsProofs`. `TypeCorrect`. `KeepsCorrect` needs that `mu_` is owned
  exactly by a window between its read and its write (`Holder`), and that what
  this window has read is what is stored, but for a save since (`SawCurrent`).
  `NewerCorrect` needs that what a pass has listed of a script, or found for it, is right
  unless the script has changed since (`ListedStands`), and that a pass has found
  an update only for a script it is done with (`FoundIsDone`). `LeftCorrect` is
  inductive given the types.
- `LiveConfigProofs`. `TypeCorrect`. `SettledCorrect` and `AnsweredCorrect` follow
  from `Inv`: without overlap one call is under way at most (`OneCall`), and at each of its steps the
  provider, the database, the rules and the file are as far from the old to the new
  configuration as `Phase` says (`Orderly`), through the way back and through a stop. `PanelCorrect`
  rests on `PanelInv`: but while the live configuration is ahead of what was
  published, the last frame posted, or else what is shown, is the live configuration.
  `FollowCorrect` rests on `FollowInv`: at each step the accounts are at
  the `Seat` that the step says, given that a call that migrates changes one
  scope, so that the database is moved by PreSwap or along with the cache tree,
  never by both; and until a database was moved over another they are exactly those of the
  players (`Holds`). A move leaves the other places alone (`MigrateLeaves`).
- `SessionsProofs`. `SessionsUseClient`: every step of a session is a step of
  `HttpClient` or leaves it alone, so that `SSpec => Spec`. So `OwnAnswerCorrect`,
  `PoolIdleCorrect`, `PoolBoundedCorrect` and `TypeCorrect`, proved of `Spec`, whoever
  calls fetch, hold of the sessions: a connection is one fetch's
  or idle, and idle ones have nothing left over (`Holding`, of which `PoolIdle` tells); what is under way to a
  fetch is what its attempt has not read (`Coming`); what it has handed on is as
  far as its step (`Given`); a head handed on excludes a retry (`CommittedOnHead`).
  `AnswersInOrderCorrect` adds what a session has written (`SessionInv`): parts only of
  requests read (`OfTurns`), in their order (`InTurn`), with the current one's last
  (`AtTail`), each answer of a shape allowed (`Shapes`), and the current one's as far as
  its fetch (`Handled`), which nobody has begun before it is read (`Fresh`). It assumes that
  a request occurs once in all the browsers' turns: requests have identities.

Only model-checked: liveness (`QueuedReturn`, `EveryRequestEnds`, `PollAnswered`,
`GoneNoticed`, `FarewellTold`, `AnsweredOrClosed`), which is beyond the prover. The
library's induction theorems are too, as they take an operator: instead, sums are cardinalities,
and what is shown of a recursive function (`Without`) or of every sequence is shown of the set
of lengths for which it holds (`Induction`, `SeqInduction`), whose complement has no least element.

## 5. What the properties do not promise

Where a history variable or a precondition limits a property, the code breaks the
stronger one. The first six below were found by TLC as counterexamples to the
property without its limit, and the others while the code was modelled:

- A touch or refresh beside a deletion leaves metadata without body, although
  leveldb_store.cpp:183 says that an `"m/"` implies a `"b/"`; `overtaken` limits
  `KeepsPromise` and `PairedUntilOvertaken`.
- The running total loses puts that pass a scan, although leveldb_store.cpp:220
  speaks of keeping it in sync; `raced` limits `HintCoversUntilRaced`.
- A follower that waits on its timer between the two halves of `expires_at` may
  wait forever, although flight.hpp:71 says the join race is closed;
  `QueuedReturn` speaks of those that were on the timer.
  Its request hangs: `EveryRequestEnds` leaves it `stranded`.
- A follower gets what its leader fetched for another version (provider.cpp:567,
  608), and a client's own condition leaks into a shared flight, so that a follower
  can be answered with a bare 304 it did not ask for (provider.cpp:672, 689). No
  property speaks of the version or status a follower gets.
- A delayed update is not always flushed on disconnect (account.hpp:29):
  not when the disconnect comes before the account is seated.
- A panel's snapshot, taken before a change and sent after its frame, leaves the panel
  behind until the next change (rpc/session.cpp:118); `late` limits `PanelFollows`.
- A dial has no deadline: a SOCKS proxy that accepts and stays silent holds the browser
  (`AnsweredOrClosed`), or the leader and all followers of its flight
  (`EveryRequestEnds`), for as long as it likes.
- An update of another field that reads before an update of a relation is stored and
  writes after it undoes it: LastLogin at a login, `account_update`, looks flushed or left at
  removal (account_manager.cpp:385, 497, 1412, 1467). So one side's owner or lover can
  come back or go although nobody asked; `crossed` limits `Settled` and `LoversAgree`.
- A look handed to its write may still be lost: the write is detached, reads and writes
  the whole account without a lock, and fails silently. `LooksHandedOn` ends at the
  hand-over; `raced` says where `NewestKept` does not follow it.
- A database moved over an older one (`migrate_dir`, app.cpp:263) keeps the older logs,
  which LevelDB may replay: accounts come back, or an older version of one. `AccountsFollow`
  then says that none is missing, and not which version.
- After a provider was refused in a migrating change, the accounts are at the new place
  and the file names the old: a restart opens an empty database. `AccountsFollow` speaks of
  no restart after a refusal.
- The user scripts' LevelDB lies under cache.dir and is moved while it is open when that
  directory migrates; neither `LiveConfig` nor `UserScripts` has this.
- Toggling a switch saves the script as it was listed, with the `pendingUpdate` that the
  list adds (app.cpp:553, 588; web/src/components/tabs/UserscriptsTab.tsx:89):
  the badge becomes part of the record, and stays after the update is gone.
- When upstream breaks off after its head went out, `serve_direct_remote` and
  `proxy_pass` return normally, and `finish()` writes the last chunk: a chunked
  answer that was cut looks whole. With a length, the browser waits
  for the rest until the connection has been idle for 120 seconds. `AnswersInOrder`
  allows for both; `AnsweredOrClosed` for the second, as the connection is closed.

Hazards without a property, beside these:

- The body is read long after the metadata (provider.cpp:909): an answer may put
  an old ETag before a new body. `Coherent` is about what is stored.
- A leader writes to its client between reads from upstream, under upstream's
  deadline (provider.cpp:190): a slow client can fail the flight for all. `ReverseProxy`
  allows any fetch to fail.
- `next_member_number` (game_db.cpp:127) reads and writes its counter without a
  lock; `GameAccounts` takes the numbers to be distinct.
- A login registers handlers off the connection's strand (account_manager.cpp:416):
  a data race on the map, of which `handlers` has only the order.
- A request in flight holds the LevelDB lock of a store whose provider was closed
  (app.cpp:926): the same directory cannot be opened again until it ends.
  `Locked` models it, `Settled` says what is left when it happens.
- Two applies may overlap (app.cpp:949): modelled, and excluded from every property.
- `accept_loop` tries again at once when accept fails (http_server.cpp): while the
  process is out of descriptors it spins. Nothing is wrong but the time it takes.

## 6. Not modelled, and the plan

Not modelled at all: user interfaces (desktop, Android, and of the panel all but
the calls for user scripts), parsing and socket I/O, the protocols of TLS and SOCKS,
content decoding, the WebSocket relay, pure helpers and the matching of the cache
policy, traffic statistics, and the package host (a stub); of the accounts, beeps and
queries, which change nothing, difficulty and e-mail, which set one field, and
password reset.

What is left, in this order:

1. That `ChatRooms` removes sessions as `GameAccounts` does, as a refinement; that
   `ReverseProxy`'s steps on the store are `ResponseStore`'s calls.
2. `CachePolicy`, `TrafficStats`: pure operators against reference definitions;
   the full table of hosts.
3. Password reset, with the codes it keeps by address; the relay of a WebSocket.
4. Two versions in `ReverseProxy`, with a property that says what a follower of another version may get.
