----------------------------- MODULE LiveConfig -----------------------------
(***************************************************************************)
(* How the running server takes a new configuration: App::apply_config and *)
(* what it calls (server/app.cpp), the file behind it (config/store.cpp),  *)
(* the provider it replaces or updates (host/reverseproxy/provider.cpp),   *)
(* the game database it moves (game_app.cpp, game_db.cpp), the requests    *)
(* that are served meanwhile, and a panel that follows along through       *)
(* config.subscribe (server/rpc).                                          *)
(*                                                                         *)
(* An apply runs on one thread from start to end, but nothing keeps        *)
(* another connection's thread out: its steps are actions.                 *)
(***************************************************************************)
EXTENDS Naturals, Sequences, FiniteSets, SequencesExt

CONSTANTS
    Callers,        \* RPC connections that change the configuration
    Requests,       \* HTTP requests
    Accounts,       \* game accounts
    Caches,         \* values of cache.dir
    Paths,          \* values of gameServerStoragePath, besides none
    Ups, Games,     \* values of the connection scope, and of the gamesettings scope
    Bad,            \* a value of a slice that validate refuses
    None, Absent,
    Documents,      \* whole documents that config.replace and reset submit
    DefaultDir, DefaultUp, DefaultGame, \* what default_config sets
    MaxApplies,     \* bound: calls that change the configuration
    MaxMishaps      \* bound: failures of a file system operation, and stops of the process at any point

Configs == [cache: Caches, gameserver: Paths \cup {None}, connection: Ups, gamesettings: Games]
\* default_config leaves gameServerStoragePath empty.
Default == [cache |-> DefaultDir, gameserver |-> None, connection |-> DefaultUp,
            gamesettings |-> DefaultGame]
Scopes == {"cache", "gameserver", "connection", "gamesettings"}
Values == [cache |-> Caches \cup {Bad}, gameserver |-> Paths \cup {None},
           connection |-> Ups \cup {Bad}, gamesettings |-> Games \cup {Bad}]

ASSUME LiveConfigAssumption ==
    /\ Default \in Configs /\ Documents \subseteq Configs
    /\ {MaxApplies, MaxMishaps} \subseteq Nat
    /\ Bad \notin Caches \cup Ups \cup Games /\ None \notin Paths \cup Configs

VARIABLES
    live,       \* state_: the configuration, and which provider
    providers,  \* every provider made: the directory of its stores, its upstream, whether it has stores
    file,       \* config.json
    gamedb,     \* where the game database is open, or Absent
    rules,      \* the settings the game server plays by
    disk,       \* the accounts in each place a game database was, or Absent
    pc, change, \* by caller: where it is in apply_config, and its ConfigChange
    request,    \* by request: the provider of the state it took, and the stores it holds
    panel,      \* a subscriber: how far it is, the snapshot on its way, the frames posted, the last frame
    applies, mishaps,
    \* history
    mine,       \* the accounts the players should find
    answered,   \* the configuration of the last call answered with success
    trouble     \* what happened that an apply is not made for, or that tells on the accounts

runtime == <<live, providers, gamedb, rules>>
game == <<gamedb, disk, mine>>
bounds == <<applies, mishaps>>
vars == <<runtime, file, disk, pc, change, request, panel, bounds, mine, answered, trouble>>

-----------------------------------------------------------------------------
(* The configuration, its scopes and its directories                        *)

\* A place for a game database is the path that is set, or inside a cache directory.
Inside(d) == <<d, "gameserver">>
Places == {Inside(d) : d \in Caches} \cup {<<p>> : p \in Paths}

\* Absent is neither a place nor a set of accounts.
ASSUME AbsentAssumption == Absent \notin Places /\ \A s \in SUBSET Accounts : s # Absent

GameDir(c) == IF c.gameserver = None THEN Inside(c.cache) ELSE <<c.gameserver>>

\* What the parsers refuse, validate refuses.
Parses(v) == v # Bad
Valid(c) == \A s \in Scopes : Parses(c[s])

\* ConfigScope::changed compares the slices; only names the scope asked for, or none.
Changed(old, new, only) == {s \in Scopes : only \in {None, s} /\ old[s] # new[s]}

\* The changes that need another provider; the scopes' tiers.
Recreates(ch) == "cache" \in ch.scopes
UpdatesLiveAlone(ch) == ch.scopes = {"connection"}

\* The changes that the provider takes where it is.
UpdatesLive(ch) == "connection" \in ch.scopes /\ ~Recreates(ch)
GameMoves(ch) == GameDir(ch.old) # GameDir(ch.new)
CoveredByCache(ch) ==
    ch.old.gameserver = None /\ ch.new.gameserver = None /\ ch.old.cache # ch.new.cache

\* The files of a database copied over those of another: all that it has is there,
\* and of the other what its logs still hold may come back.
Merged(new, old) == IF old = Absent THEN {new} ELSE {s \in SUBSET (new \cup old) : new \subseteq s}

\* What migrate_dir may leave: it renames where it can, and merges where there is
\* something already; nothing happens when there is no old database.
Moved(d, from, to) ==
    IF from = to \/ d[from] = Absent THEN {d}
    ELSE {[d EXCEPT ![to] = s, ![from] = Absent] : s \in Merged(d[from], d[to])}
Merges(d, from, to) == from # to /\ d[from] # Absent /\ d[to] \notin {Absent, {}}

Migrate(from, to) ==
    /\ disk' \in Moved(disk, from, to)
    /\ trouble' = IF Merges(disk, from, to) THEN trouble \cup {"merged"} ELSE trouble
\* A cache tree takes the database inside it along.
MigrateTree(from, to) == Migrate(Inside(from), Inside(to))
\* GameDb::reopen makes the directory.
Created(d, place) == [d EXCEPT ![place] = IF @ = Absent THEN {} ELSE @]

Idle == \A c \in Callers : pc[c] = "idle"
\* No call ran into another, and none failed half way.
Calm == {"overlap", "failed"} \cap trouble = {}

\* A directory whose LevelDB is open: in a provider, or in a request that got its store.
Locked(d) ==
    \/ \E i \in DOMAIN providers : providers[i].open /\ providers[i].dir = d
    \/ \E r \in Requests : request[r].store = d

Made(c) == [dir |-> c.cache, up |-> c.connection, open |-> TRUE]
\* live_update leaves everything of a provider but its settings; close lets the stores go.
LiveUpdated(i, up) == [providers EXCEPT ![i].up = up]
Closed(i) == [providers EXCEPT ![i].open = FALSE]
NoRequest == [prov |-> 0, store |-> None]
NoPanel == [at |-> "off", snapshot |-> None, posted |-> <<>>, shows |-> None, late |-> FALSE]

\* A file system operation throws, or the process stops.
Fault == mishaps < MaxMishaps /\ mishaps' = mishaps + 1
NoFault == UNCHANGED mishaps

-----------------------------------------------------------------------------
(* Starting and stopping                                                    *)

\* Store::load; where there is no file, the default is written.
Loaded(f) == IF f = None THEN Default ELSE f

\* The first start.
Init ==
    /\ file = Loaded(None)
    /\ live = [cfg |-> Default, prov |-> 1] /\ providers = <<Made(Default)>>
    /\ gamedb = GameDir(Default) /\ rules = Default.gamesettings
    /\ disk = [p \in Places |-> IF p = GameDir(Default) THEN {} ELSE Absent]
    /\ pc = [c \in Callers |-> "idle"] /\ change = [c \in Callers |-> None]
    /\ request = [r \in Requests |-> NoRequest]
    /\ panel = NoPanel
    /\ applies = 0 /\ mishaps = 0
    /\ mine = {} /\ answered = Default /\ trouble = {}

\* The process ends where it is, and App::App starts from the file.
Restart ==
    /\ Fault
    /\ LET cfg == Loaded(file) IN
       /\ live' = [cfg |-> cfg, prov |-> 1] /\ providers' = <<Made(cfg)>>
       /\ gamedb' = GameDir(cfg) /\ disk' = Created(disk, GameDir(cfg)) /\ rules' = cfg.gamesettings
    /\ pc' = [c \in Callers |-> "idle"] /\ change' = [c \in Callers |-> None]
    /\ request' = [r \in Requests |-> NoRequest]
    /\ panel' = NoPanel
    /\ answered' = IF Calm /\ \A c \in Callers : pc[c] # "notify"
                   THEN answered ELSE file
    /\ trouble' = IF Idle /\ trouble \subseteq {"merged"} THEN trouble ELSE {"cut"}
    /\ UNCHANGED <<file, applies, mine>>

-----------------------------------------------------------------------------
(* Calls of the panel                                                       *)

\* A ConfigChange before the diff: only is the scope asked for, or none.
Call(new, only, migrate) ==
    [old |-> new, new |-> new, only |-> only, scopes |-> {}, migrate |-> migrate, prov |-> 0]

\* A configuration that validate takes, on its way to apply_config.
Submit(c, new, only, migrate) ==
    /\ pc[c] = "idle" /\ applies < MaxApplies
    /\ Valid(new)
    /\ pc' = [pc EXCEPT ![c] = "submitted"]
    /\ change' = [change EXCEPT ![c] = Call(new, only, migrate)]
    /\ applies' = applies + 1
    /\ trouble' = trouble \cup (IF Idle THEN {} ELSE {"overlap"})
                          \cup (IF "refused" \in trouble THEN {"failed"} ELSE {})
    /\ UNCHANGED <<runtime, file, disk, request, panel, mishaps, mine, answered>>

\* rpc_config_replace, rpc_config_reset: a whole document; nothing is migrated.
Replace(c) == \E new \in Documents : Submit(c, new, None, FALSE)

\* rpc_config_update_scope: the slice goes into a copy of the live configuration.
UpdateScope(c) ==
    \E s \in Scopes, migrate \in BOOLEAN : \E v \in Values[s] :
        Submit(c, [live.cfg EXCEPT ![s] = v], s, migrate)

-----------------------------------------------------------------------------
(* apply_config                                                             *)

\* The caller goes on, or is done: with success, or with an exception, and then
\* what is done is not undone.
Goto(c, label, ch) ==
    /\ pc' = [pc EXCEPT ![c] = label]
    /\ change' = [change EXCEPT ![c] = ch]
Throw(c, what) == Goto(c, "idle", None) /\ trouble' = trouble \cup {what}

\* The snapshot and the diff of the scopes.
Diffed(c) ==
    [change[c] EXCEPT !.old = live.cfg, !.prov = live.prov,
                      !.scopes = Changed(live.cfg, change[c].new, change[c].only)]

NothingChanged(c) ==
    /\ pc[c] = "submitted" /\ Diffed(c).scopes = {}
    /\ Goto(c, "idle", None)
    /\ answered' = change[c].new
    /\ UNCHANGED <<runtime, file, disk, request, panel, bounds, mine, trouble>>

\* PreSwap closes the game database when its place changes, and moves it unless
\* the cache tree will take it along.
PreSwap(c) ==
    LET ch == Diffed(c)
        moves == GameMoves(ch) /\ ch.migrate /\ ~CoveredByCache(ch)
    IN
    /\ pc[c] = "submitted" /\ ch.scopes # {}
    /\ gamedb' = IF GameMoves(ch) THEN Absent ELSE gamedb
    /\ \/ /\ IF moves THEN Migrate(GameDir(ch.old), GameDir(ch.new)) ELSE UNCHANGED <<disk, trouble>>
          /\ Goto(c, "swap", ch)
          /\ NoFault
       \/ moves /\ Fault /\ Throw(c, "failed") /\ UNCHANGED disk
    /\ UNCHANGED <<live, providers, rules, file, request, panel, applies, mine, answered>>

\* swap_provider, first part: the cache tree moves and the provider is closed; or
\* the provider takes the new settings where it is.
SwapBegins(c) ==
    LET ch == change[c] IN
    /\ pc[c] = "swap"
    /\ \/ /\ Recreates(ch)
          /\ IF ch.migrate THEN MigrateTree(ch.old.cache, ch.new.cache) ELSE UNCHANGED <<disk, trouble>>
          /\ providers' = Closed(live.prov)
          /\ Goto(c, "open", ch)
          /\ NoFault
       \/ /\ Recreates(ch) /\ ch.migrate
          /\ Fault /\ Throw(c, "failed")
          /\ UNCHANGED <<providers, disk>>
       \/ /\ ~Recreates(ch)
          /\ providers' = IF UpdatesLive(ch)
                          THEN LiveUpdated(ch.prov, ch.new.connection) ELSE providers
          /\ Goto(c, "set", ch)
          /\ NoFault /\ UNCHANGED <<disk, trouble>>
    /\ UNCHANGED <<live, gamedb, rules, file, request, panel, applies, mine, answered>>

\* provider_for the new configuration opens the stores, which throws when their
\* directory is still open.
OpensNew(c) ==
    LET ch == change[c] IN
    /\ pc[c] = "open"
    /\ \/ /\ ~Locked(ch.new.cache)
          /\ providers' = Append(providers, Made(ch.new))
          /\ Goto(c, "set", [ch EXCEPT !.prov = Len(providers')])
          /\ NoFault
       \/ /\ (Locked(ch.new.cache) /\ NoFault) \/ Fault
          /\ Goto(c, "restore", ch)
          /\ UNCHANGED providers
    /\ UNCHANGED <<live, game, rules, file, request, panel, applies, answered, trouble>>

\* The catch: the old provider is made anew if it can be; what it throws is swallowed.
Restores(c) ==
    LET ch == change[c] IN
    /\ pc[c] = "restore"
    /\ \/ /\ ~Locked(ch.old.cache)
          /\ providers' = Append(providers, Made(ch.old))
          /\ live' = [cfg |-> ch.old, prov |-> Len(providers')]
          /\ NoFault
       \/ /\ (Locked(ch.old.cache) /\ NoFault) \/ Fault
          /\ UNCHANGED <<live, providers>>
    /\ Goto(c, "reattach", ch)
    /\ UNCHANGED <<game, rules, file, request, panel, applies, answered, trouble>>

ReopenedOld(ch) == GameDir(ch.old)

\* Where the game's accounts are when the provider was refused.
Reopened(ch) == GameDir(IF ch.migrate THEN ch.new ELSE ch.old)

\* Still the catch: the game database is opened there, and the exception goes on.
Reattaches(c) ==
    LET ch == change[c] IN
    /\ pc[c] = "reattach"
    /\ \/ /\ gamedb' = IF GameMoves(ch) THEN Reopened(ch) ELSE gamedb
          /\ disk' = IF GameMoves(ch) THEN Created(disk, Reopened(ch)) ELSE disk
          /\ NoFault /\ Throw(c, "refused")
       \/ /\ GameMoves(ch) /\ gamedb' = Absent
          /\ Fault /\ Throw(c, "failed")
          /\ UNCHANGED disk
    /\ UNCHANGED <<live, providers, rules, file, request, panel, applies, mine, answered>>

\* swap_provider, last part.
SetsState(c) ==
    /\ pc[c] = "set"
    /\ live' = [cfg |-> change[c].new, prov |-> change[c].prov]
    /\ Goto(c, "post", change[c])
    /\ UNCHANGED <<providers, game, rules, file, request, panel, bounds, answered, trouble>>

\* GameSettings, which each use reads anew.
Rules(ch) == IF "gamesettings" \in ch.scopes THEN ch.new.gamesettings ELSE rules

\* PostSwap opens the game database in its new place, and hands the settings over.
PostSwap(c) ==
    LET ch == change[c]
        place == GameDir(ch.new)
    IN
    /\ pc[c] = "post"
    /\ \/ /\ IF GameMoves(ch)
             THEN /\ gamedb' = place /\ disk' = Created(disk, place)
                  /\ mine' = IF ch.migrate THEN mine ELSE disk'[place]
             ELSE UNCHANGED game
          /\ rules' = Rules(ch)
          /\ Goto(c, "save", ch)
          /\ NoFault /\ UNCHANGED trouble
       \/ /\ GameMoves(ch) /\ gamedb' = Absent
          /\ Fault /\ Throw(c, "failed")
          /\ UNCHANGED <<rules, disk, mine>>
    /\ UNCHANGED <<live, providers, file, request, panel, applies, answered>>

WrittenIfRecreated(ch) == IF Recreates(ch) THEN ch.new ELSE file

\* What save is given.
Written(ch) == ch.new

\* Store::save writes another file and renames it.
Saves(c) ==
    /\ pc[c] = "save"
    /\ \/ /\ file' = Written(change[c])
          /\ Goto(c, "notify", change[c])
          /\ NoFault /\ UNCHANGED trouble
       \/ Fault /\ Throw(c, "failed") /\ UNCHANGED file
    /\ UNCHANGED <<runtime, disk, request, panel, applies, mine, answered>>

EventBefore(ch) == ch.old

\* build_config_event: the configuration of the moment.
Event(ch) == live.cfg

\* The event is published, and the call is answered.
Notifies(c) ==
    /\ pc[c] = "notify"
    /\ panel' = IF panel.at \in {"off", "accepted", "open"} THEN panel
                ELSE [panel EXCEPT !.posted = Append(@, Event(change[c])), !.late = @ \/ panel.at = "taken"]
    /\ Goto(c, "idle", None)
    /\ answered' = change[c].new
    /\ UNCHANGED <<runtime, file, disk, request, bounds, mine, trouble>>

-----------------------------------------------------------------------------
(* What goes on meanwhile                                                   *)

others == <<file, pc, change, bounds, answered, trouble>>

\* App::serve takes the state; its provider then looks for its store, which a
\* closed one has not; the store stays open as long as a request has it.
Arrives(r) ==
    /\ request[r] = NoRequest
    /\ request' = [request EXCEPT ![r].prov = live.prov]
    /\ UNCHANGED <<others, runtime, disk, panel, mine>>
Resolves(r) ==
    LET p == request[r].prov IN
    /\ p # 0 /\ request[r].store = None
    /\ request' = [request EXCEPT ![r] =
            IF providers[p].open THEN [@ EXCEPT !.store = providers[p].dir] ELSE NoRequest]
    /\ UNCHANGED <<others, runtime, disk, panel, mine>>
Ends(r) ==
    /\ request[r].store # None
    /\ request' = [request EXCEPT ![r] = NoRequest]
    /\ UNCHANGED <<others, runtime, disk, panel, mine>>

\* GameDb::put_account, which throws while the database is closed. Where another
\* call has moved the files of the open database, nothing more is said of it.
PutAccount(a) ==
    /\ gamedb # Absent
    /\ disk[gamedb] # Absent /\ a \notin disk[gamedb] \cap mine
    /\ disk' = [disk EXCEPT ![gamedb] = @ \cup {a}]
    /\ mine' = mine \cup {a}
    /\ UNCHANGED <<others, runtime, request, panel>>

\* A connection says hello first, with the token of the page; what it subscribed ends with it.
Shows(p) == panel' = p /\ UNCHANGED <<others, runtime, disk, request, mine>>
Accepted == panel.at = "off" /\ Shows([panel EXCEPT !.at = "accepted"])
Connects == panel.at = "accepted" /\ Shows([panel EXCEPT !.at = "open"])
Leaves == panel.at # "off" /\ Shows(NoPanel)

\* start_event_subscription: the sink first, and a coroutine for the snapshot, which
\* takes the state, waits for the statistics of the cache, and sends.
Subscribes == panel.at = "open" /\ Shows([panel EXCEPT !.at = "subscribed"])
TakesSnapshot == panel.at = "subscribed" /\ Shows([panel EXCEPT !.at = "taken", !.snapshot = live.cfg])
SendsSnapshot ==
    panel.at = "taken" /\ Shows([panel EXCEPT !.at = "sent", !.shows = panel.snapshot, !.snapshot = None])
\* What publish posted runs on the session's strand, in order.
Pushes ==
    /\ panel.posted # <<>>
    /\ Shows([panel EXCEPT !.posted = Tail(@), !.shows = Head(panel.posted)])

-----------------------------------------------------------------------------
Apply(c) ==
    \/ Replace(c) \/ UpdateScope(c) \/ NothingChanged(c) \/ PreSwap(c) \/ SwapBegins(c) \/ OpensNew(c)
    \/ Restores(c) \/ Reattaches(c) \/ SetsState(c) \/ PostSwap(c) \/ Saves(c) \/ Notifies(c)

Next ==
    \/ \E c \in Callers : Apply(c)
    \/ \E r \in Requests : Arrives(r) \/ Resolves(r) \/ Ends(r)
    \/ \E a \in Accounts : PutAccount(a)
    \/ Accepted \/ Connects \/ Leaves \/ Subscribes \/ TakesSnapshot \/ SendsSnapshot \/ Pushes
    \/ Restart

Spec == Init /\ [][Next]_vars

-----------------------------------------------------------------------------
(* Properties                                                               *)

Provider == [dir: Caches, up: Ups, open: BOOLEAN]
ConfigChange == [old: Configs, new: Configs, only: Scopes \cup {None}, scopes: SUBSET Scopes,
                 migrate: BOOLEAN, prov: Nat]
Steps == {"idle", "submitted", "swap", "open", "restore", "reattach", "set", "post", "save", "notify"}
Panel == [at: {"off", "accepted", "open", "subscribed", "taken", "sent"},
          snapshot: Configs \cup {None}, posted: Seq(Configs), shows: Configs \cup {None},
          late: BOOLEAN]

Troubles == {"refused", "cut", "overlap", "failed", "merged"}

\* Every variable keeps its type, and whoever names a provider names one that was made.
TypeOK ==
    /\ live \in [cfg: Configs, prov: Nat] /\ live.prov \in DOMAIN providers
    /\ providers \in Seq(Provider)
    /\ file \in Configs /\ answered \in Configs
    /\ gamedb \in Places \cup {Absent} /\ rules \in Games
    /\ disk \in [Places -> (SUBSET Accounts) \cup {Absent}]
    /\ pc \in [Callers -> Steps]
    /\ change \in [Callers -> ConfigChange \cup {None}]
    /\ \A c \in Callers : pc[c] # "idle" =>
          /\ change[c] \in ConfigChange
          /\ pc[c] # "submitted" => change[c].prov \in DOMAIN providers
    /\ request \in [Requests -> [prov: Nat, store: Caches \cup {None}]]
    /\ \A r \in Requests : request[r].prov \in {0} \cup DOMAIN providers
    /\ panel \in Panel
    /\ applies \in 0 .. MaxApplies /\ mishaps \in 0 .. MaxMishaps
    /\ trouble \subseteq Troubles

\* When no call is under way, none ran into another and none failed half way, then
\* the file, the live configuration, the provider's directory and upstream, the place
\* of the game database and the rules it plays by are one configuration's: also after
\* a stop at any point, and but for the provider also after a new one was refused.
Settled ==
    Idle /\ Calm =>
        LET p == providers[live.prov] IN
        /\ live.cfg = file /\ rules = live.cfg.gamesettings
        /\ p.open => (p.dir = live.cfg.cache /\ p.up = live.cfg.connection)
        /\ "refused" \notin trouble => (p.open /\ gamedb = GameDir(live.cfg))

\* The players' accounts are in a place, and no others unless a directory was moved
\* over one that had a database.
Found(place) ==
    /\ disk[place] # Absent /\ mine \subseteq disk[place]
    /\ "merged" \notin trouble => disk[place] = mine

\* An account that was saved is where the game server looks, unless the players were
\* given another database on purpose: whichever way the directories moved, one inside
\* the other or over an older one, and also when the new provider was refused after
\* the move. Nothing is said of which version of an account is found after a move over
\* an older database; nor after a restart that follows a refusal, because the file
\* still names the place that the accounts have left.
AccountsFollow ==
    Idle /\ trouble \subseteq {"refused", "merged"} => gamedb # Absent /\ Found(gamedb)

\* A configuration is in the file before the panel is told so or the call answered,
\* and stays there, through a stop at any point, until another is saved.
AnsweredIsSaved ==
    Calm =>
        \/ file = answered
        \/ \E c \in Callers : pc[c] = "notify" /\ file = change[c].new

\* A panel that was there before the last change shows it once it has all frames.
PanelFollows ==
    Idle /\ trouble \subseteq {"merged"} /\ panel.at = "sent" /\ panel.posted = <<>> /\ ~panel.late => panel.shows = live.cfg
=============================================================================
