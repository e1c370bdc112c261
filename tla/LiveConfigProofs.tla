--------------------------- MODULE LiveConfigProofs ---------------------------
(***************************************************************************)
(* What holds of configuration changes for any number of callers, requests *)
(* and directories, and any number of faults.                              *)
(***************************************************************************)
EXTENDS LiveConfig, TLAPS, SequenceTheorems

OneCall == "overlap" \notin trouble => \A c, d \in Callers : pc[c] # "idle" /\ pc[d] # "idle" => c = d

\* A provider as the configuration asks for it.
Serves(p, cfg) == p.open /\ p.dir = cfg.cache /\ p.up = cfg.connection

\* The game database while a change is under way: closed if it moves.
Detached(ch) == gamedb = IF GameMoves(ch) THEN Absent ELSE GameDir(ch.old)

\* What a change is, once diffed.
Applied(ch) ==
    /\ ch.old = live.cfg /\ ch.scopes = {s \in Scopes : ch.old[s] # ch.new[s]}

\* How far the system is from one configuration to the other, with a call at a step.
Phase(c) ==
    LET ch == change[c]
        p == providers[live.prov]
    IN
    /\ pc[c] = "submitted" =>
          /\ Serves(p, live.cfg) /\ gamedb = GameDir(live.cfg) /\ rules = live.cfg.gamesettings
          /\ \A s \in Scopes : ch.only \notin {None, s} => ch.new[s] = live.cfg[s]
    /\ pc[c] \in {"swap", "open", "restore", "reattach", "set"} =>
          /\ Applied(ch) /\ Detached(ch) /\ rules = ch.old.gamesettings
    /\ pc[c] = "swap" => ch.prov = live.prov /\ Serves(p, ch.old)
    /\ pc[c] \in {"open", "restore"} => Recreates(ch) /\ ~p.open
    /\ pc[c] = "reattach" => (p.open => Serves(p, ch.old))
    /\ pc[c] = "set" => Serves(providers[ch.prov], ch.new)
    /\ pc[c] \in {"post", "save", "notify"} =>
          live.cfg = ch.new /\ Serves(p, ch.new)
    /\ pc[c] = "post" =>
          /\ Detached(ch) /\ rules = ch.old.gamesettings
          /\ ch.scopes = {s \in Scopes : ch.old[s] # ch.new[s]}
    /\ pc[c] \in {"save", "notify"} => gamedb = GameDir(ch.new) /\ rules = ch.new.gamesettings
    /\ pc[c] = "notify" => file = ch.new

\* When calm: at rest, all is of one configuration; a call is at a step, from an
\* orderly start; and the file holds what was answered, or what is about to be.
Orderly ==
    Calm =>
      /\ Idle => Settled
      /\ ~Idle => "refused" \notin trouble
      /\ \A c \in Callers : Phase(c)
      /\ \A c \in Callers : pc[c] \in {"submitted", "swap", "open", "restore", "reattach", "set"} =>
            live.cfg = file
      /\ (\A c \in Callers : pc[c] # "notify") => file = answered

Inv == TypeOK /\ OneCall /\ Orderly

-----------------------------------------------------------------------------
(* Types                                                                    *)

Disks == [Places -> (SUBSET Accounts) \cup {Absent}]

LEMMA GameDirType ==
    ASSUME NEW cfg \in Configs
    PROVE  GameDir(cfg) \in Places
BY DEF GameDir, Configs, Places, Inside

LEMMA MovedType ==
    ASSUME NEW d \in Disks, NEW from \in Places, NEW to \in Places
    PROVE  Moved(d, from, to) \subseteq Disks
<1>1. CASE from = to \/ d[from] = Absent
  BY <1>1 DEF Moved
<1>2. CASE ~(from = to \/ d[from] = Absent)
  <2>1. d[from] \in SUBSET Accounts /\ d[to] \in (SUBSET Accounts) \cup {Absent}
    BY <1>2 DEF Disks
  <2>2. Merged(d[from], d[to]) \subseteq SUBSET Accounts
    BY <2>1 DEF Merged
  <2>3. ASSUME NEW s \in SUBSET Accounts
        PROVE  [d EXCEPT ![to] = s, ![from] = Absent] \in Disks
    BY DEF Disks
  <2> QED  BY <1>2, <2>2, <2>3 DEF Moved
<1> QED  BY <1>1, <1>2

LEMMA MigrateType ==
    ASSUME TypeOK, NEW from \in Places, NEW to \in Places, Migrate(from, to)
    PROVE  disk' \in Disks /\ trouble' \subseteq Troubles /\ trouble \subseteq trouble'
<1>1. disk \in Disks /\ trouble \subseteq Troubles
  BY DEF TypeOK, Disks
<1> QED  BY <1>1, MovedType DEF Migrate, Troubles

LEMMA InsideType ==
    ASSUME NEW d \in Caches
    PROVE  Inside(d) \in Places
BY DEF Places

LEMMA CreatedType ==
    ASSUME NEW d \in Disks, NEW place \in Places
    PROVE  Created(d, place) \in Disks
BY DEF Created, Disks

LEMMA MadeType ==
    ASSUME NEW cfg \in Configs
    PROVE  Made(cfg) \in Provider
BY DEF Made, Configs, Provider

LEMMA InitType == Init => TypeOK
<1> SUFFICES ASSUME Init PROVE TypeOK
  OBVIOUS
<1>1. Default \in Configs
  BY LiveConfigAssumption
<1>2. GameDir(Default) \in Places /\ Made(Default) \in Provider
  BY <1>1, GameDirType, MadeType
<1>3. Default.gamesettings \in Games
  BY <1>1 DEF Configs
<1>4. panel \in Panel
  BY DEF Init, NoPanel, Panel
<1>5. file = Default
  BY DEF Init, Loaded
<1>6. disk \in Disks
  BY DEF Init, Disks
<1>7. MaxApplies \in Nat /\ MaxMishaps \in Nat
  BY LiveConfigAssumption
<1> HIDE DEF Default
<1>8. providers \in Seq(Provider) /\ live.prov \in DOMAIN providers /\ live \in [cfg: Configs, prov: Nat]
  BY <1>1, <1>2 DEF Init
<1>9. /\ pc \in [Callers -> Steps] /\ change \in [Callers -> ConfigChange \cup {None}]
      /\ \A c \in Callers : pc[c] = "idle"
  BY DEF Init, Steps
<1>10. /\ request \in [Requests -> [prov: Nat, store: Caches \cup {None}]]
       /\ \A r \in Requests : request[r].prov \in {0} \cup DOMAIN providers
  BY DEF Init, NoRequest
<1> QED
  BY <1>1, <1>2, <1>3, <1>4, <1>5, <1>6, <1>7, <1>8, <1>9, <1>10 DEF Init, TypeOK, Disks

LEMMA SubmitType ==
    ASSUME TypeOK, NEW c \in Callers, NEW new \in Configs, NEW only \in Scopes \cup {None},
           NEW migrate \in BOOLEAN, Submit(c, new, only, migrate)
    PROVE  TypeOK'
<1>1. Call(new, only, migrate) \in ConfigChange
  BY DEF Call, ConfigChange
<1>2. applies' \in 0..MaxApplies
  BY LiveConfigAssumption DEF Submit, TypeOK
<1>3. trouble' \subseteq Troubles
  BY DEF Submit, TypeOK, Troubles
<1> QED  BY <1>1, <1>2, <1>3 DEF Submit, TypeOK, runtime, Steps

\* A slice that the parsers take makes a configuration.
LEMMA SliceType ==
    ASSUME TypeOK, NEW s \in Scopes, NEW v \in Values[s], Valid([live.cfg EXCEPT ![s] = v])
    PROVE  [live.cfg EXCEPT ![s] = v] \in Configs
<1>1. live.cfg \in Configs
  BY DEF TypeOK
<1>2. v # Bad
  BY <1>1 DEF Valid, Parses, Configs, Scopes
<1> QED  BY <1>1, <1>2 DEF Scopes, Values, Configs

LEMMA CallsType ==
    ASSUME TypeOK, NEW c \in Callers, Replace(c) \/ UpdateScope(c)
    PROVE  TypeOK'
<1>1. CASE Replace(c)
  BY <1>1, SubmitType, LiveConfigAssumption DEF Replace
<1>2. CASE UpdateScope(c)
  <2>1. PICK s \in Scopes, migrate \in BOOLEAN : \E v \in Values[s] :
            Submit(c, [live.cfg EXCEPT ![s] = v], s, migrate)
    BY <1>2 DEF UpdateScope
  <2>. PICK v \in Values[s] : Submit(c, [live.cfg EXCEPT ![s] = v], s, migrate)
    BY <2>1
  <2>2. [live.cfg EXCEPT ![s] = v] \in Configs
    BY SliceType DEF Submit
  <2> QED  BY <2>2, SubmitType
<1> QED  BY <1>1, <1>2

\* What an apply knows of its change.
LEMMA DiffedType ==
    ASSUME TypeOK, NEW c \in Callers, pc[c] = "submitted"
    PROVE  /\ Diffed(c) \in ConfigChange /\ Diffed(c).prov \in DOMAIN providers
           /\ Diffed(c) = [change[c] EXCEPT !.old = live.cfg, !.prov = live.prov,
                              !.scopes = Changed(live.cfg, change[c].new, change[c].only)]
           /\ Diffed(c).old = live.cfg /\ Diffed(c).new = change[c].new
           /\ Diffed(c).prov = live.prov
           /\ Diffed(c).scopes = Changed(live.cfg, change[c].new, change[c].only)
<1>1. change[c] \in ConfigChange /\ live.cfg \in Configs /\ live.prov \in DOMAIN providers
  BY DEF TypeOK
<1>2. Changed(live.cfg, change[c].new, change[c].only) \in SUBSET Scopes
  BY DEF Changed
<1>3. live.prov \in Nat
  BY DEF TypeOK
<1> QED  BY <1>1, <1>2, <1>3 DEF Diffed, ConfigChange

LEMMA ChangeType ==
    ASSUME NEW ch \in ConfigChange
    PROVE  /\ GameDir(ch.old) \in Places /\ GameDir(ch.new) \in Places
           /\ Reopened(ch) \in Places
           /\ Made(ch.old) \in Provider /\ Made(ch.new) \in Provider
           /\ ch.old \in Configs /\ ch.new \in Configs
           /\ ch.old.cache \in Caches /\ ch.new.cache \in Caches
           /\ ch.new.connection \in Ups /\ ch.old.gamesettings \in Games /\ ch.new.gamesettings \in Games
<1>1. ch.old \in Configs /\ ch.new \in Configs
  BY DEF ConfigChange
<1> QED  BY <1>1, GameDirType, MadeType DEF Reopened, Configs

LEMMA NothingChangedType ==
    ASSUME TypeOK, NEW c \in Callers, NothingChanged(c)
    PROVE  TypeOK'
<1>1. change[c] \in ConfigChange
  BY DEF NothingChanged, TypeOK
<1> QED  BY <1>1 DEF NothingChanged, Goto, TypeOK, runtime, bounds, ConfigChange, Steps

LEMMA PreSwapType ==
    ASSUME TypeOK, NEW c \in Callers, PreSwap(c)
    PROVE  TypeOK'
<1> DEFINE ch == Diffed(c)
<1>1. ch \in ConfigChange /\ ch.prov \in DOMAIN providers
  BY DiffedType DEF PreSwap
<1>2. disk' \in Disks
  <2>1. disk \in Disks
    BY DEF TypeOK, Disks
  <2> QED  BY <1>1, <2>1, ChangeType, MigrateType DEF PreSwap
<1>3. mishaps' \in 0..MaxMishaps
  BY LiveConfigAssumption DEF PreSwap, Fault, NoFault, TypeOK
<1>4. /\ pc' \in [Callers -> Steps]
      /\ change' \in [Callers -> ConfigChange \cup {None}]
      /\ \A d \in Callers : pc'[d] # "idle" =>
            /\ change'[d] \in ConfigChange
            /\ pc'[d] # "submitted" => change'[d].prov \in DOMAIN providers
  <2>1. Goto(c, "swap", ch) \/ Throw(c, "failed")
    BY DEF PreSwap
  <2> HIDE DEF ch
  <2>2. pc' \in [Callers -> Steps]
    BY <2>1 DEF Goto, Throw, TypeOK, Steps
  <2>3. change' \in [Callers -> ConfigChange \cup {None}]
    BY <1>1, <2>1 DEF Goto, Throw, TypeOK
  <2> QED  BY <1>1, <2>1, <2>2, <2>3 DEF Goto, Throw, TypeOK
<1>5. trouble' \subseteq Troubles
  <2>1. trouble \subseteq Troubles
    BY DEF TypeOK
  <2> QED  BY <1>1, <2>1, ChangeType, MigrateType DEF PreSwap, Throw, Troubles
<1> QED  BY <1>2, <1>3, <1>4, <1>5 DEF PreSwap, TypeOK, Disks

\* Where a call goes keeps the calls' types.
LEMMA GotoType ==
    ASSUME TypeOK, NEW c \in Callers, NEW label \in Steps, NEW ch \in ConfigChange \cup {None},
           Goto(c, label, ch), DOMAIN providers \subseteq DOMAIN providers',
           label # "idle" => ch \in ConfigChange /\ ch.prov \in DOMAIN providers'
    PROVE  /\ pc' \in [Callers -> Steps]
           /\ change' \in [Callers -> ConfigChange \cup {None}]
           /\ \A d \in Callers : pc'[d] # "idle" =>
                 /\ change'[d] \in ConfigChange
                 /\ pc'[d] # "submitted" => change'[d].prov \in DOMAIN providers'
BY DEF Goto, TypeOK

LEMMA ProvidersGrow ==
    ASSUME TypeOK, NEW p \in Provider, providers' = Append(providers, p)
    PROVE  /\ providers' \in Seq(Provider) /\ DOMAIN providers \subseteq DOMAIN providers'
           /\ Len(providers') \in DOMAIN providers' /\ Len(providers') \in Nat
           /\ providers'[Len(providers')] = p
           /\ \A i \in DOMAIN providers : providers'[i] = providers[i]
BY DEF TypeOK

LEMMA ProvidersChange ==
    ASSUME TypeOK, NEW i \in DOMAIN providers, NEW up \in Ups
    PROVE  /\ LiveUpdated(i, up) \in Seq(Provider) /\ DOMAIN LiveUpdated(i, up) = DOMAIN providers
           /\ LiveUpdated(i, up)[i] = [providers[i] EXCEPT !.up = up]
           /\ Closed(i) \in Seq(Provider) /\ DOMAIN Closed(i) = DOMAIN providers
           /\ Closed(i)[i] = [providers[i] EXCEPT !.open = FALSE]
<1>1. providers \in [1..Len(providers) -> Provider] /\ Len(providers) \in Nat
  BY DEF TypeOK
<1>2. /\ [providers[i] EXCEPT !.up = up] \in Provider
      /\ [providers[i] EXCEPT !.open = FALSE] \in Provider
  BY <1>1 DEF Provider
<1>3. /\ LiveUpdated(i, up) \in [1..Len(providers) -> Provider]
      /\ Closed(i) \in [1..Len(providers) -> Provider]
  BY <1>1, <1>2 DEF LiveUpdated, Closed
<1> QED  BY <1>1, <1>3 DEF LiveUpdated, Closed

LEMMA MishapsType ==
    ASSUME TypeOK, Fault \/ NoFault
    PROVE  mishaps' \in 0..MaxMishaps
BY LiveConfigAssumption DEF Fault, NoFault, TypeOK

LEMMA SwapBeginsType ==
    ASSUME TypeOK, NEW c \in Callers, SwapBegins(c)
    PROVE  TypeOK'
<1> DEFINE ch == change[c]
<1>1. ch \in ConfigChange /\ ch.prov \in DOMAIN providers
  BY DEF SwapBegins, TypeOK
<1>2. disk' \in Disks
  <2>1. disk \in Disks
    BY DEF TypeOK, Disks
  <2> QED  BY <1>1, <2>1, ChangeType, MigrateType, InsideType DEF SwapBegins, MigrateTree
<1>3. mishaps' \in 0..MaxMishaps
  BY MishapsType DEF SwapBegins
<1>4. providers' \in Seq(Provider) /\ DOMAIN providers' = DOMAIN providers
  <2>1. ch.new.connection \in Ups /\ live.prov \in DOMAIN providers /\ providers \in Seq(Provider)
    BY <1>1, ChangeType DEF TypeOK
  <2>2. \/ providers' = Closed(live.prov) \/ providers' = LiveUpdated(ch.prov, ch.new.connection)
        \/ providers' = providers
    BY DEF SwapBegins
  <2>3. Closed(live.prov) \in Seq(Provider) /\ DOMAIN Closed(live.prov) = DOMAIN providers
    BY <2>1, ProvidersChange
  <2>4. /\ LiveUpdated(ch.prov, ch.new.connection) \in Seq(Provider)
        /\ DOMAIN LiveUpdated(ch.prov, ch.new.connection) = DOMAIN providers
    BY <1>1, <2>1, ProvidersChange
  <2> QED  BY <2>1, <2>2, <2>3, <2>4
<1>5. /\ pc' \in [Callers -> Steps]
      /\ change' \in [Callers -> ConfigChange \cup {None}]
      /\ \A d \in Callers : pc'[d] # "idle" =>
            /\ change'[d] \in ConfigChange
            /\ pc'[d] # "submitted" => change'[d].prov \in DOMAIN providers'
  <2>1. Goto(c, "open", ch) \/ Goto(c, "set", ch) \/ Goto(c, "idle", None)
    BY DEF SwapBegins, Throw
  <2> QED  BY <1>1, <1>4, <2>1, GotoType DEF Steps
<1>6. trouble' \subseteq Troubles
  <2>1. trouble \subseteq Troubles
    BY DEF TypeOK
  <2> QED  BY <1>1, <2>1, ChangeType, MigrateType, InsideType DEF SwapBegins, MigrateTree, Throw, Troubles
<1> QED  BY <1>2, <1>3, <1>4, <1>5, <1>6 DEF SwapBegins, TypeOK, Disks

LEMMA OpensNewType ==
    ASSUME TypeOK, NEW c \in Callers, OpensNew(c)
    PROVE  TypeOK'
<1> DEFINE ch == change[c]
<1>1. ch \in ConfigChange /\ ch.prov \in DOMAIN providers
  BY DEF OpensNew, TypeOK
<1>2. mishaps' \in 0..MaxMishaps
  BY MishapsType DEF OpensNew
<1>3. Made(ch.new) \in Provider
  BY <1>1, ChangeType
<1>4. /\ providers' \in Seq(Provider) /\ DOMAIN providers \subseteq DOMAIN providers'
      /\ Len(providers') \in Nat
  BY <1>3, ProvidersGrow DEF OpensNew, TypeOK
<1>5. /\ pc' \in [Callers -> Steps]
      /\ change' \in [Callers -> ConfigChange \cup {None}]
      /\ \A d \in Callers : pc'[d] # "idle" =>
            /\ change'[d] \in ConfigChange
            /\ pc'[d] # "submitted" => change'[d].prov \in DOMAIN providers'
  <2>1. CASE Goto(c, "restore", ch)
    BY <1>1, <1>4, <2>1, GotoType DEF Steps
  <2>2. CASE /\ providers' = Append(providers, Made(ch.new))
             /\ Goto(c, "set", [ch EXCEPT !.prov = Len(providers')])
    <3>1. [ch EXCEPT !.prov = Len(providers')] \in ConfigChange
      BY <1>1, <1>4 DEF ConfigChange
    <3>2. Len(providers') \in DOMAIN providers'
      BY <1>3, <2>2, ProvidersGrow
    <3>3. [ch EXCEPT !.prov = Len(providers')].prov = Len(providers')
      BY <1>1 DEF ConfigChange
    <3> QED  BY <1>4, <2>2, <3>1, <3>2, <3>3, GotoType DEF Steps
  <2> QED  BY <2>1, <2>2 DEF OpensNew
<1> QED  BY <1>2, <1>4, <1>5 DEF OpensNew, TypeOK, game

LEMMA RestoresType ==
    ASSUME TypeOK, NEW c \in Callers, Restores(c)
    PROVE  TypeOK'
<1> DEFINE ch == change[c]
<1>1. ch \in ConfigChange /\ ch.prov \in DOMAIN providers
  BY DEF Restores, TypeOK
<1>2. mishaps' \in 0..MaxMishaps
  BY MishapsType DEF Restores
<1>3. Made(ch.old) \in Provider /\ ch.old \in Configs
  BY <1>1, ChangeType
<1>4. /\ providers' \in Seq(Provider) /\ DOMAIN providers \subseteq DOMAIN providers'
      /\ live' \in [cfg: Configs, prov: Nat] /\ live'.prov \in DOMAIN providers'
  <2>1. CASE UNCHANGED <<live, providers>>
    BY <2>1 DEF TypeOK
  <2>2. CASE /\ providers' = Append(providers, Made(ch.old))
             /\ live' = [cfg |-> ch.old, prov |-> Len(providers')]
    BY <1>3, <2>2, ProvidersGrow
  <2> QED  BY <2>1, <2>2 DEF Restores
<1>5. /\ pc' \in [Callers -> Steps]
      /\ change' \in [Callers -> ConfigChange \cup {None}]
      /\ \A d \in Callers : pc'[d] # "idle" =>
            /\ change'[d] \in ConfigChange
            /\ pc'[d] # "submitted" => change'[d].prov \in DOMAIN providers'
  BY <1>1, <1>4, GotoType DEF Restores, Steps
<1> QED  BY <1>2, <1>4, <1>5 DEF Restores, TypeOK, game

LEMMA ReattachesType ==
    ASSUME TypeOK, NEW c \in Callers, Reattaches(c)
    PROVE  TypeOK'
<1> DEFINE ch == change[c]
<1>1. ch \in ConfigChange
  BY DEF Reattaches, TypeOK
<1>2. mishaps' \in 0..MaxMishaps
  BY MishapsType DEF Reattaches
<1>3. disk' \in Disks /\ gamedb' \in Places \cup {Absent}
  <2>1. disk \in Disks
    BY DEF TypeOK, Disks
  <2> QED  BY <1>1, <2>1, ChangeType, CreatedType DEF Reattaches, TypeOK
<1>4. /\ pc' \in [Callers -> Steps]
      /\ change' \in [Callers -> ConfigChange \cup {None}]
      /\ \A d \in Callers : pc'[d] # "idle" =>
            /\ change'[d] \in ConfigChange
            /\ pc'[d] # "submitted" => change'[d].prov \in DOMAIN providers'
  BY GotoType DEF Reattaches, Throw, Steps
<1>5. trouble' \subseteq Troubles
  BY DEF Reattaches, Throw, TypeOK, Troubles
<1> QED  BY <1>2, <1>3, <1>4, <1>5 DEF Reattaches, TypeOK, Disks

LEMMA SetsStateType ==
    ASSUME TypeOK, NEW c \in Callers, SetsState(c)
    PROVE  TypeOK'
<1>1. change[c] \in ConfigChange /\ change[c].prov \in DOMAIN providers
  BY DEF SetsState, TypeOK
<1>2. live' \in [cfg: Configs, prov: Nat] /\ live'.prov \in DOMAIN providers
  BY <1>1, ChangeType DEF SetsState, ConfigChange
<1>3. /\ pc' \in [Callers -> Steps]
      /\ change' \in [Callers -> ConfigChange \cup {None}]
      /\ \A d \in Callers : pc'[d] # "idle" =>
            /\ change'[d] \in ConfigChange
            /\ pc'[d] # "submitted" => change'[d].prov \in DOMAIN providers'
  BY <1>1, GotoType DEF SetsState, Steps
<1> QED  BY <1>2, <1>3 DEF SetsState, TypeOK, game, bounds

LEMMA PostSwapType ==
    ASSUME TypeOK, NEW c \in Callers, PostSwap(c)
    PROVE  TypeOK'
<1> DEFINE ch == change[c]
<1>1. ch \in ConfigChange /\ ch.prov \in DOMAIN providers
  BY DEF PostSwap, TypeOK
<1>2. mishaps' \in 0..MaxMishaps
  BY MishapsType DEF PostSwap
<1>3. disk' \in Disks /\ gamedb' \in Places \cup {Absent}
  <2>1. disk \in Disks
    BY DEF TypeOK, Disks
  <2> QED  BY <1>1, <2>1, ChangeType, CreatedType DEF PostSwap, TypeOK, game
<1>4. /\ pc' \in [Callers -> Steps]
      /\ change' \in [Callers -> ConfigChange \cup {None}]
      /\ \A d \in Callers : pc'[d] # "idle" =>
            /\ change'[d] \in ConfigChange
            /\ pc'[d] # "submitted" => change'[d].prov \in DOMAIN providers'
  BY <1>1, GotoType DEF PostSwap, Throw, Steps
<1>5. trouble' \subseteq Troubles
  BY DEF PostSwap, Throw, TypeOK, Troubles
<1>6. rules' \in Games
  BY <1>1, ChangeType DEF PostSwap, Rules, TypeOK
<1> QED  BY <1>2, <1>3, <1>4, <1>5, <1>6 DEF PostSwap, TypeOK, Disks

LEMMA SavesType ==
    ASSUME TypeOK, NEW c \in Callers, Saves(c)
    PROVE  TypeOK'
<1>1. change[c] \in ConfigChange /\ change[c].prov \in DOMAIN providers
  BY DEF Saves, TypeOK
<1>2. mishaps' \in 0..MaxMishaps
  BY MishapsType DEF Saves
<1>3. file' \in Configs
  BY <1>1, ChangeType DEF Saves, Written, TypeOK
<1>4. /\ pc' \in [Callers -> Steps]
      /\ change' \in [Callers -> ConfigChange \cup {None}]
      /\ \A d \in Callers : pc'[d] # "idle" =>
            /\ change'[d] \in ConfigChange
            /\ pc'[d] # "submitted" => change'[d].prov \in DOMAIN providers'
  BY <1>1, GotoType DEF Saves, Throw, Steps, runtime
<1>5. trouble' \subseteq Troubles
  BY DEF Saves, Throw, TypeOK, Troubles
<1> QED  BY <1>2, <1>3, <1>4, <1>5 DEF Saves, TypeOK, runtime

LEMMA NotifiesType ==
    ASSUME TypeOK, NEW c \in Callers, Notifies(c)
    PROVE  TypeOK'
<1>1. change[c] \in ConfigChange
  BY DEF Notifies, TypeOK
<1>2. answered' \in Configs
  BY <1>1, ChangeType DEF Notifies
<1>3. /\ pc' \in [Callers -> Steps]
      /\ change' \in [Callers -> ConfigChange \cup {None}]
      /\ \A d \in Callers : pc'[d] # "idle" =>
            /\ change'[d] \in ConfigChange
            /\ pc'[d] # "submitted" => change'[d].prov \in DOMAIN providers'
  BY GotoType DEF Notifies, Steps, runtime
<1>4. panel' \in Panel
  <2>1. panel \in Panel /\ live.cfg \in Configs
    BY DEF TypeOK
  <2>2. Append(panel.posted, live.cfg) \in Seq(Configs)
    BY <2>1 DEF Panel
  <2>3. \/ panel' = panel
        \/ panel' = [panel EXCEPT !.posted = Append(@, live.cfg), !.late = @ \/ panel.at = "taken"]
    BY DEF Notifies, Event
  <2> QED  BY <2>1, <2>2, <2>3 DEF Panel
<1> QED  BY <1>2, <1>3, <1>4 DEF Notifies, TypeOK, runtime, bounds

LEMMA RestartType ==
    ASSUME TypeOK, Restart
    PROVE  TypeOK'
<1> DEFINE cfg == Loaded(file)
<1>1. cfg \in Configs
  BY LiveConfigAssumption DEF Loaded, TypeOK
<1>2. GameDir(cfg) \in Places /\ Made(cfg) \in Provider /\ cfg.gamesettings \in Games
  BY <1>1, GameDirType, MadeType DEF Configs
<1> HIDE DEF cfg
<1>3. /\ live' = [cfg |-> cfg, prov |-> 1] /\ providers' = <<Made(cfg)>>
      /\ gamedb' = GameDir(cfg) /\ disk' = Created(disk, GameDir(cfg)) /\ rules' = cfg.gamesettings
  BY DEF Restart, cfg
<1>4. disk' \in Disks
  BY <1>2, <1>3, CreatedType DEF TypeOK, Disks
<1>5. live' \in [cfg: Configs, prov: Nat] /\ providers' \in Seq(Provider) /\ live'.prov \in DOMAIN providers'
  BY <1>1, <1>2, <1>3
<1>6. mishaps' \in 0..MaxMishaps
  BY MishapsType DEF Restart
<1>7. panel' \in Panel
  BY DEF Restart, NoPanel, Panel
<1>8. /\ pc' \in [Callers -> Steps] /\ change' \in [Callers -> ConfigChange \cup {None}]
      /\ \A d \in Callers : pc'[d] = "idle"
  BY DEF Restart, Steps
<1>9. /\ request' \in [Requests -> [prov: Nat, store: Caches \cup {None}]]
      /\ \A r \in Requests : request'[r].prov \in {0} \cup DOMAIN providers'
  BY DEF Restart, NoRequest
<1>10. answered' \in Configs /\ trouble' \subseteq Troubles
  BY DEF Restart, TypeOK, Troubles
<1> QED
  BY <1>2, <1>3, <1>4, <1>5, <1>6, <1>7, <1>8, <1>9, <1>10 DEF Restart, TypeOK, Disks

\* The steps of requests, accounts and panels.
Meanwhile ==
    \/ \E r \in Requests : Arrives(r) \/ Resolves(r) \/ Ends(r)
    \/ \E a \in Accounts : PutAccount(a)
    \/ Accepted \/ Connects \/ Leaves \/ Subscribes \/ TakesSnapshot \/ SendsSnapshot \/ Pushes

LEMMA MeanwhileLeaves == Meanwhile => UNCHANGED <<runtime, others>>
BY DEF Meanwhile, Arrives, Resolves, Ends, PutAccount, Shows, Accepted, Connects, Leaves,
       Subscribes, TakesSnapshot, SendsSnapshot, Pushes, runtime, others

LEMMA MeanwhileType ==
    ASSUME TypeOK, Meanwhile
    PROVE  TypeOK'
<1>1. UNCHANGED <<runtime, others>>
  BY MeanwhileLeaves
<1>2. /\ request' \in [Requests -> [prov: Nat, store: Caches \cup {None}]]
      /\ \A r \in Requests : request'[r].prov \in {0} \cup DOMAIN providers
  <2>1. CASE UNCHANGED request
    BY <2>1 DEF TypeOK
  <2>2. ASSUME NEW r \in Requests, Arrives(r)
        PROVE  <1>2!:
    <3>1. live.prov \in Nat /\ live.prov \in DOMAIN providers
      BY DEF TypeOK
    <3>2. request \in [Requests -> [prov: Nat, store: Caches \cup {None}]]
      BY DEF TypeOK
    <3>3. request' = [request EXCEPT ![r].prov = live.prov]
      BY <2>2 DEF Arrives
    <3>4. \A q \in Requests : request[q].prov \in {0} \cup DOMAIN providers
      BY DEF TypeOK
    <3> QED  BY <3>1, <3>2, <3>3, <3>4
  <2>3. ASSUME NEW r \in Requests, Resolves(r)
        PROVE  <1>2!:
    <3>1. request[r].prov \in DOMAIN providers
      BY <2>3 DEF Resolves, TypeOK
    <3>3. providers \in [1..Len(providers) -> Provider] /\ DOMAIN providers = 1..Len(providers)
      BY DEF TypeOK
    <3>2. providers[request[r].prov].dir \in Caches
      BY <3>1, <3>3 DEF Provider
    <3> QED  BY <2>3, <3>2 DEF Resolves, NoRequest, TypeOK
  <2>4. ASSUME NEW r \in Requests, Ends(r)
        PROVE  <1>2!:
    BY <2>4 DEF Ends, NoRequest, TypeOK
  <2> QED
    BY <2>1, <2>2, <2>3, <2>4
       DEF Meanwhile, PutAccount, Shows, Accepted, Connects, Leaves, Subscribes, TakesSnapshot,
           SendsSnapshot, Pushes
<1>3. disk' \in Disks
  <2>1. CASE UNCHANGED disk
    BY <2>1 DEF TypeOK, Disks
  <2>2. ASSUME NEW a \in Accounts, PutAccount(a)
        PROVE  disk' \in Disks
    BY <2>2 DEF PutAccount, TypeOK, Disks
  <2> QED
    BY <2>1, <2>2
       DEF Meanwhile, Arrives, Resolves, Ends, Shows, Accepted, Connects, Leaves, Subscribes,
           TakesSnapshot, SendsSnapshot, Pushes
<1>4. panel' \in Panel
  <2>1. live.cfg \in Configs /\ panel \in Panel
    BY DEF TypeOK
  <2>2. CASE UNCHANGED panel
    BY <2>1, <2>2
  <2>3. CASE Accepted \/ Connects \/ Subscribes
    BY <2>1, <2>3 DEF Shows, Accepted, Connects, Subscribes, Panel
  <2>5. CASE Leaves
    BY <2>5 DEF Shows, Leaves, NoPanel, Panel
  <2>6. CASE TakesSnapshot
    BY <2>1, <2>6 DEF Shows, TakesSnapshot, Panel
  <2>7. CASE SendsSnapshot
    BY <2>1, <2>7 DEF Shows, SendsSnapshot, Panel
  <2>4. CASE Pushes
    <3>1. panel.posted \in Seq(Configs) /\ panel.posted # <<>>
      BY <2>1, <2>4 DEF Pushes, Panel
    <3>2. Tail(panel.posted) \in Seq(Configs) /\ Head(panel.posted) \in Configs
      BY <3>1
    <3> QED  BY <2>1, <2>4, <3>2 DEF Pushes, Shows, Panel
  <2> QED  BY <2>2, <2>3, <2>4, <2>5, <2>6, <2>7 DEF Meanwhile, Arrives, Resolves, Ends, PutAccount
<1> QED  BY <1>1, <1>2, <1>3, <1>4 DEF TypeOK, Disks, runtime, others, bounds

\* A move tells on the accounts alone.
LEMMA MigrateTroubles ==
    ASSUME NEW from, NEW to, Migrate(from, to)
    PROVE  \A t : t \in trouble' => t = "merged" \/ t \in trouble
BY DEF Migrate

\* A call takes no trouble away.
LEMMA TroublesGrow ==
    ASSUME NEW c \in Callers, Apply(c)
    PROVE  trouble \subseteq trouble'
BY DEF Apply, Replace, UpdateScope, Submit, NothingChanged, PreSwap, SwapBegins, OpensNew, Restores,
       Reattaches, SetsState, PostSwap, Saves, Notifies, Throw, Migrate, MigrateTree

LEMMA StutterType ==
    ASSUME TypeOK, UNCHANGED vars
    PROVE  TypeOK'
BY DEF TypeOK, vars, runtime, bounds

LEMMA NextSplits == Next <=> Meanwhile \/ Restart \/ \E c \in Callers : Apply(c)
BY DEF Next, Meanwhile

LEMMA TypeStep == TypeOK /\ [Next]_vars => TypeOK'
<1> SUFFICES ASSUME TypeOK, [Next]_vars PROVE TypeOK'
  OBVIOUS
<1>1. CASE UNCHANGED vars
  BY <1>1, StutterType
<1>2. CASE Meanwhile
  BY <1>2, MeanwhileType
<1>3. CASE Restart
  BY <1>3, RestartType
<1>4. ASSUME NEW c \in Callers, Apply(c)
      PROVE  TypeOK'
  BY <1>4, CallsType, NothingChangedType, PreSwapType, SwapBeginsType, OpensNewType, RestoresType,
     ReattachesType, SetsStateType, PostSwapType, SavesType, NotifiesType DEF Apply
<1> QED  BY <1>1, <1>2, <1>3, <1>4, NextSplits

\* Types are kept, for any configuration change: apply_config and what it calls.
THEOREM TypeCorrect == Spec => []TypeOK
BY InitType, TypeStep, PTL DEF Spec

-----------------------------------------------------------------------------
(* One call at a time, and what it leaves                                   *)

LEMMA OneCallStep ==
    ASSUME TypeOK, OneCall, [Next]_vars
    PROVE  OneCall'
<1>1. CASE UNCHANGED vars
  BY <1>1 DEF OneCall, vars
<1>2. CASE Meanwhile
  BY <1>2, MeanwhileLeaves DEF OneCall, others
<1>3. CASE Restart
  BY <1>3 DEF Restart, OneCall
<1>4. ASSUME NEW c \in Callers, Apply(c)
      PROVE  OneCall'
  <2>1. CASE Replace(c) \/ UpdateScope(c)
    <3>1. /\ pc[c] = "idle" /\ pc' = [pc EXCEPT ![c] = "submitted"]
          /\ trouble \subseteq trouble' /\ ("overlap" \notin trouble' => Idle)
      BY <2>1 DEF Replace, UpdateScope, Submit
    <3> QED  BY <3>1 DEF OneCall, Idle, TypeOK
  <2>2. CASE ~(Replace(c) \/ UpdateScope(c))
    <3>0. trouble \subseteq trouble'
      BY <1>4, TroublesGrow
    <3>1. /\ pc[c] # "idle"
          /\ \E label \in Steps : pc' = [pc EXCEPT ![c] = label]
      BY <1>4, <2>2
         DEF Apply, NothingChanged, PreSwap, SwapBegins, OpensNew, Restores, Reattaches, SetsState,
             PostSwap, Saves, Notifies, Goto, Throw, Steps
    <3> QED  BY <3>0, <3>1 DEF OneCall, TypeOK
  <2> QED  BY <2>1, <2>2
<1> QED  BY <1>1, <1>2, <1>3, <1>4, NextSplits

\* What a call must leave for the state to be orderly when it is the only one.
Left(c) ==
    /\ Idle => Settled
    /\ pc[c] # "idle" => "refused" \notin trouble
    /\ Phase(c)
    /\ pc[c] \in {"submitted", "swap", "open", "restore", "reattach", "set"} => live.cfg = file
    /\ pc[c] # "notify" => file = answered

LEMMA LeftOrderly ==
    ASSUME NEW c \in Callers, \A d \in Callers : d # c => pc'[d] = "idle", Left(c)'
    PROVE  Orderly'
BY DEF Left, Orderly, Idle, Phase

\* A step of the call that is under way.
LEMMA OneLeft ==
    ASSUME TypeOK, OneCall, Orderly, NEW c \in Callers, NEW label, NEW ch,
           pc[c] # "idle", Goto(c, label, ch), trouble \subseteq trouble',
           Calm' => Left(c)'
    PROVE  Orderly'
<1>1. CASE ~Calm'
  BY <1>1 DEF Orderly
<1>2. CASE Calm'
  <2>1. "overlap" \notin trouble
    BY <1>2 DEF Calm
  <2>2. \A d \in Callers : d # c => pc'[d] = "idle"
    BY <2>1 DEF OneCall, Goto, TypeOK
  <2> QED  BY <1>2, <2>2, LeftOrderly
<1> QED  BY <1>1, <1>2

\* Another configuration may be submitted when all is at rest and nothing was refused.
LEMMA SubmitOrderly ==
    ASSUME TypeOK, Orderly, NEW c \in Callers, NEW new \in Configs, NEW only \in Scopes \cup {None},
           NEW migrate \in BOOLEAN, Submit(c, new, only, migrate),
           \A s \in Scopes : only \notin {None, s} => new[s] = live.cfg[s]
    PROVE  Orderly'
<1> SUFFICES ASSUME Calm' PROVE Orderly'
  BY DEF Orderly
<1>1. Idle /\ Calm /\ "refused" \notin trouble /\ trouble' = trouble
  BY DEF Submit, Calm, TypeOK
<1>2. Settled /\ file = answered
  BY <1>1 DEF Orderly, Idle
<1>3. /\ pc' = [pc EXCEPT ![c] = "submitted"] /\ change'[c] = Call(new, only, migrate)
      /\ UNCHANGED <<live, providers, gamedb, rules, file, answered>>
  BY DEF Submit, runtime, TypeOK
<1>4. /\ live.cfg = file /\ rules = live.cfg.gamesettings /\ gamedb = GameDir(live.cfg)
      /\ Serves(providers[live.prov], live.cfg)
  BY <1>1, <1>2 DEF Settled, Serves, Calm
<1>5. Phase(c)'
  BY <1>3, <1>4 DEF Phase, Call, Serves, TypeOK
<1>6. Left(c)' /\ \A d \in Callers : d # c => pc'[d] = "idle"
  BY <1>1, <1>2, <1>3, <1>4, <1>5 DEF Left, Idle, TypeOK
<1> QED  BY <1>6, LeftOrderly

LEMMA CallsOrderly ==
    ASSUME TypeOK, Orderly, NEW c \in Callers, Replace(c) \/ UpdateScope(c)
    PROVE  Orderly'
<1>1. CASE Replace(c)
  BY <1>1, SubmitOrderly, LiveConfigAssumption DEF Replace
<1>2. CASE UpdateScope(c)
  <2>1. PICK s \in Scopes, migrate \in BOOLEAN : \E v \in Values[s] :
            Submit(c, [live.cfg EXCEPT ![s] = v], s, migrate)
    BY <1>2 DEF UpdateScope
  <2>. PICK v \in Values[s] : Submit(c, [live.cfg EXCEPT ![s] = v], s, migrate)
    BY <2>1
  <2> DEFINE new == [live.cfg EXCEPT ![s] = v]
  <2>2. [live.cfg EXCEPT ![s] = v] \in Configs
    BY SliceType DEF Submit
  <2>3. live.cfg \in Configs
    BY DEF TypeOK
  <2>4. \A t \in Scopes : s \notin {None, t} => [live.cfg EXCEPT ![s] = v][t] = live.cfg[t]
    BY <2>3 DEF Configs, Scopes
  <2>5. new \in Configs /\ Submit(c, new, s, migrate)
    BY <2>2
  <2>6. \A t \in Scopes : s \notin {None, t} => new[t] = live.cfg[t]
    BY <2>4
  <2> HIDE DEF new
  <2> QED  BY <2>5, <2>6, SubmitOrderly
<1> QED  BY <1>1, <1>2

\* The call that is under way, when all is calm.
LEMMA UnderWay ==
    ASSUME TypeOK, Orderly, Calm, NEW c \in Callers, pc[c] # "idle"
    PROVE  /\ "refused" \notin trouble /\ Phase(c) /\ change[c] \in ConfigChange
           /\ pc[c] \in {"submitted", "swap", "open", "restore", "reattach", "set"} => live.cfg = file
           /\ OneCall => ((\A d \in Callers : pc[d] # "notify") \/ pc[c] = "notify")
           /\ OneCall /\ pc[c] # "notify" => file = answered
BY DEF Orderly, Idle, Calm, OneCall, TypeOK

LEMMA NothingChangedOrderly ==
    ASSUME TypeOK, OneCall, Orderly, NEW c \in Callers, NothingChanged(c)
    PROVE  Orderly'
<1> SUFFICES ASSUME Calm' PROVE Left(c)'
  BY OneLeft DEF NothingChanged
<1>1. Calm /\ pc[c] = "submitted" /\ Diffed(c).scopes = {} /\ pc'[c] = "idle"
  BY DEF Calm, NothingChanged, Goto, TypeOK
<1>2. /\ "refused" \notin trouble /\ Phase(c) /\ change[c] \in ConfigChange
      /\ live.cfg = file /\ file = answered
  BY <1>1, UnderWay
<1>3. /\ Serves(providers[live.prov], live.cfg) /\ gamedb = GameDir(live.cfg)
      /\ rules = live.cfg.gamesettings
      /\ \A s \in Scopes : change[c].only \notin {None, s} => change[c].new[s] = live.cfg[s]
  BY <1>1, <1>2 DEF Phase
<1>4. \A s \in Scopes : change[c].new[s] = live.cfg[s]
  BY <1>1, <1>3, DiffedType DEF Changed
<1>5. change[c].new = live.cfg
  <2>1. change[c].new \in Configs /\ live.cfg \in Configs
    BY <1>2 DEF ConfigChange, TypeOK
  <2>2. /\ change[c].new.cache = live.cfg.cache /\ change[c].new.gameserver = live.cfg.gameserver
        /\ change[c].new.connection = live.cfg.connection
        /\ change[c].new.gamesettings = live.cfg.gamesettings
    BY <1>4 DEF Scopes
  <2> QED
    BY <2>1, <2>2 DEF Configs
<1>6. Settled'
  BY <1>2, <1>3 DEF NothingChanged, runtime, Settled, Serves
<1>7. Phase(c)'
  BY <1>1 DEF Phase
<1> QED  BY <1>1, <1>2, <1>5, <1>6, <1>7 DEF Left, NothingChanged, runtime

LEMMA PreSwapOrderly ==
    ASSUME TypeOK, OneCall, Orderly, NEW c \in Callers, PreSwap(c)
    PROVE  Orderly'
<1>0. trouble \subseteq trouble'
  BY TroublesGrow DEF Apply
<1> SUFFICES ASSUME Calm' PROVE Left(c)'
  BY <1>0, OneLeft DEF PreSwap, Throw
<1> DEFINE ch == Diffed(c)
<1>8. "failed" \notin trouble' /\ Calm
  BY <1>0 DEF Calm
<1>9. "refused" \in trouble' => "refused" \in trouble
  BY <1>8, MigrateTroubles DEF PreSwap, Throw
<1>1. /\ Calm /\ pc[c] = "submitted" /\ ("refused" \in trouble' => "refused" \in trouble)
      /\ pc'[c] = "swap" /\ change'[c] = ch
      /\ gamedb' = IF GameMoves(ch) THEN Absent ELSE gamedb
      /\ UNCHANGED <<live, providers, rules, file, answered>>
  BY <1>8, <1>9 DEF PreSwap, Goto, Throw, TypeOK
<1>2. /\ "refused" \notin trouble /\ Phase(c) /\ change[c] \in ConfigChange
      /\ live.cfg = file /\ file = answered
  BY <1>1, UnderWay
<1>3. /\ Serves(providers[live.prov], live.cfg) /\ gamedb = GameDir(live.cfg)
      /\ rules = live.cfg.gamesettings
      /\ \A s \in Scopes : change[c].only \notin {None, s} => change[c].new[s] = live.cfg[s]
  BY <1>1, <1>2 DEF Phase
<1>4. ch.old = live.cfg /\ ch.prov = live.prov /\ ch.new = change[c].new
      /\ ch.scopes = Changed(live.cfg, change[c].new, change[c].only)
  BY <1>1, DiffedType
<1> HIDE DEF ch
<1>5. ch.scopes = {s \in Scopes : ch.old[s] # ch.new[s]}
  BY <1>3, <1>4 DEF Changed
<1>6. Phase(c)'
  BY <1>1, <1>3, <1>4, <1>5 DEF Phase, Applied, Detached
<1> QED  BY <1>1, <1>2, <1>6 DEF Left, Idle

LEMMA SwapBeginsOrderly ==
    ASSUME TypeOK, OneCall, Orderly, NEW c \in Callers, SwapBegins(c)
    PROVE  Orderly'
<1>0. trouble \subseteq trouble'
  BY TroublesGrow DEF Apply
<1> SUFFICES ASSUME Calm' PROVE Left(c)'
  BY <1>0, OneLeft DEF SwapBegins, Throw
<1> DEFINE ch == change[c]
<1>8. "failed" \notin trouble' /\ Calm
  BY <1>0 DEF Calm
<1>9. "refused" \in trouble' => "refused" \in trouble
  BY <1>8, MigrateTroubles DEF SwapBegins, Throw, MigrateTree
<1>1. /\ Calm /\ pc[c] = "swap" /\ ("refused" \in trouble' => "refused" \in trouble) /\ change'[c] = ch
      /\ UNCHANGED <<live, gamedb, rules, file, answered>>
      /\ \/ Recreates(ch) /\ providers' = Closed(live.prov) /\ pc'[c] = "open"
         \/ /\ ~Recreates(ch) /\ pc'[c] = "set"
            /\ providers' = IF UpdatesLive(ch) THEN LiveUpdated(ch.prov, ch.new.connection) ELSE providers
  BY <1>8, <1>9 DEF SwapBegins, Goto, Throw, TypeOK
<1>2. /\ "refused" \notin trouble /\ Phase(c) /\ ch \in ConfigChange
      /\ live.cfg = file /\ file = answered
  BY <1>1, UnderWay
<1> HIDE DEF ch
<1>3. /\ Applied(ch) /\ Detached(ch) /\ rules = ch.old.gamesettings
      /\ ch.prov = live.prov /\ Serves(providers[live.prov], ch.old)
  BY <1>1, <1>2 DEF Phase, ch
<1>4. live.prov \in DOMAIN providers /\ providers[live.prov] \in Provider
  BY DEF TypeOK
<1>5. CASE Recreates(ch) /\ providers' = Closed(live.prov) /\ pc'[c] = "open"
  <2>1. ~providers'[live.prov].open
    BY <1>4, <1>5 DEF Closed, Provider, TypeOK
  <2>2. Phase(c)'
    BY <1>1, <1>3, <1>5, <2>1 DEF Phase, Applied, Detached
  <2> QED  BY <1>1, <1>2, <1>5, <2>2 DEF Left, Idle
<1>6. CASE /\ ~Recreates(ch) /\ pc'[c] = "set"
           /\ providers' = IF UpdatesLive(ch) THEN LiveUpdated(ch.prov, ch.new.connection) ELSE providers
  <2>1. ch.old.cache = ch.new.cache
    BY <1>3, <1>6 DEF Applied, Recreates, Scopes
  <2>2. Serves(providers'[ch.prov], ch.new)
    <3>1. CASE UpdatesLive(ch)
      BY <1>3, <1>4, <1>6, <2>1, <3>1 DEF LiveUpdated, Serves, Provider, TypeOK
    <3>2. CASE ~UpdatesLive(ch)
      <4>1. ch.old.connection = ch.new.connection
        BY <1>3, <1>6, <3>2 DEF UpdatesLive, Applied, Scopes
      <4> QED  BY <1>3, <1>6, <2>1, <3>2, <4>1 DEF Serves
    <3> QED  BY <3>1, <3>2
  <2>3. Phase(c)'
    BY <1>1, <1>3, <1>6, <2>2 DEF Phase, Applied, Detached
  <2> QED  BY <1>1, <1>2, <1>6, <2>3 DEF Left, Idle
<1> QED  BY <1>1, <1>5, <1>6

LEMMA OpensNewOrderly ==
    ASSUME TypeOK, OneCall, Orderly, NEW c \in Callers, OpensNew(c)
    PROVE  Orderly'
<1> SUFFICES ASSUME Calm' PROVE Left(c)'
  <2>1. \E label, ch : Goto(c, label, ch)
    BY DEF OpensNew
  <2> QED  BY <2>1, OneLeft DEF OpensNew
<1> DEFINE ch == change[c]
<1>1. /\ Calm /\ pc[c] = "open" /\ trouble' = trouble
      /\ UNCHANGED <<live, gamedb, rules, file, answered>>
      /\ \/ /\ providers' = Append(providers, Made(ch.new)) /\ pc'[c] = "set"
            /\ change'[c] = [ch EXCEPT !.prov = Len(providers')]
         \/ providers' = providers /\ pc'[c] = "restore" /\ change'[c] = ch
  BY DEF Calm, OpensNew, Goto, game, TypeOK
<1>2. /\ "refused" \notin trouble /\ Phase(c) /\ ch \in ConfigChange
      /\ live.cfg = file /\ file = answered
  BY <1>1, UnderWay
<1> HIDE DEF ch
<1>3. /\ Applied(ch) /\ Detached(ch) /\ rules = ch.old.gamesettings
      /\ Recreates(ch) /\ ~providers[live.prov].open
  BY <1>1, <1>2 DEF Phase, ch
<1>4. CASE /\ providers' = Append(providers, Made(ch.new)) /\ pc'[c] = "set"
           /\ change'[c] = [ch EXCEPT !.prov = Len(providers')]
  <2>1. Made(ch.new) \in Provider
    BY <1>2, ChangeType
  <2>2. providers'[Len(providers')] = Made(ch.new)
    BY <1>4, <2>1, ProvidersGrow
  <2>3. /\ change'[c].prov = Len(providers') /\ change'[c].old = ch.old /\ change'[c].new = ch.new
        /\ change'[c].scopes = ch.scopes
    BY <1>2, <1>4 DEF ConfigChange
  <2>4. Serves(providers'[change'[c].prov], change'[c].new)
    BY <2>2, <2>3 DEF Made, Serves
  <2>5. Applied(change[c])' /\ Detached(change[c])'
    BY <1>1, <1>3, <2>3 DEF Applied, Detached, GameMoves
  <2>6. Phase(c)'
    BY <1>1, <1>3, <1>4, <2>3, <2>4, <2>5 DEF Phase
  <2> QED  BY <1>1, <1>2, <1>4, <2>6 DEF Left, Idle
<1>5. CASE providers' = providers /\ pc'[c] = "restore" /\ change'[c] = ch
  <2>1. Phase(c)'
    BY <1>1, <1>3, <1>5 DEF Phase, Applied, Detached
  <2> QED  BY <1>1, <1>2, <1>5, <2>1 DEF Left, Idle
<1> QED  BY <1>1, <1>4, <1>5

LEMMA RestoresOrderly ==
    ASSUME TypeOK, OneCall, Orderly, NEW c \in Callers, Restores(c)
    PROVE  Orderly'
<1> SUFFICES ASSUME Calm' PROVE Left(c)'
  BY OneLeft DEF Restores
<1> DEFINE ch == change[c]
<1>1. /\ Calm /\ pc[c] = "restore" /\ trouble' = trouble /\ pc'[c] = "reattach" /\ change'[c] = ch
      /\ UNCHANGED <<gamedb, rules, file, answered>>
      /\ \/ /\ providers' = Append(providers, Made(ch.old))
            /\ live' = [cfg |-> ch.old, prov |-> Len(providers')]
         \/ UNCHANGED <<live, providers>>
  BY DEF Calm, Restores, Goto, game, TypeOK
<1>2. /\ "refused" \notin trouble /\ Phase(c) /\ ch \in ConfigChange
      /\ live.cfg = file /\ file = answered
  BY <1>1, UnderWay
<1> HIDE DEF ch
<1>3. /\ Applied(ch) /\ Detached(ch) /\ rules = ch.old.gamesettings
      /\ Recreates(ch) /\ ~providers[live.prov].open
  BY <1>1, <1>2 DEF Phase, ch
<1>4. live'.cfg = live.cfg /\ (providers'[live'.prov].open => Serves(providers'[live'.prov], ch.old))
  <2>1. CASE UNCHANGED <<live, providers>>
    BY <1>3, <2>1
  <2>2. CASE /\ providers' = Append(providers, Made(ch.old))
             /\ live' = [cfg |-> ch.old, prov |-> Len(providers')]
    <3>1. Made(ch.old) \in Provider
      BY <1>2, ChangeType
    <3>2. providers'[Len(providers')] = Made(ch.old)
      BY <2>2, <3>1, ProvidersGrow
    <3> QED  BY <1>3, <2>2, <3>2 DEF Applied, Made, Serves
  <2> QED  BY <1>1, <2>1, <2>2
<1>5. Phase(c)'
  BY <1>1, <1>3, <1>4 DEF Phase, Applied, Detached
<1> QED  BY <1>1, <1>2, <1>4, <1>5 DEF Left, Idle

LEMMA ReattachesOrderly ==
    ASSUME TypeOK, OneCall, Orderly, NEW c \in Callers, Reattaches(c)
    PROVE  Orderly'
<1> SUFFICES ASSUME Calm' PROVE Left(c)'
  BY OneLeft DEF Reattaches, Throw
<1> DEFINE ch == change[c]
<1>1. /\ Calm /\ pc[c] = "reattach" /\ pc'[c] = "idle" /\ "refused" \in trouble'
      /\ UNCHANGED <<live, providers, rules, file, answered>>
  BY DEF Calm, Reattaches, Goto, Throw, TypeOK
<1>2. /\ Phase(c) /\ live.cfg = file /\ file = answered
  BY <1>1, UnderWay
<1>3. /\ Applied(ch) /\ rules = ch.old.gamesettings
      /\ (providers[live.prov].open => Serves(providers[live.prov], ch.old))
  BY <1>1, <1>2 DEF Phase
<1>4. Settled'
  BY <1>1, <1>2, <1>3 DEF Settled, Applied, Serves
<1>5. Phase(c)'
  BY <1>1 DEF Phase
<1> QED  BY <1>1, <1>2, <1>4, <1>5 DEF Left

LEMMA SetsStateOrderly ==
    ASSUME TypeOK, OneCall, Orderly, NEW c \in Callers, SetsState(c)
    PROVE  Orderly'
<1> SUFFICES ASSUME Calm' PROVE Left(c)'
  BY OneLeft DEF SetsState
<1> DEFINE ch == change[c]
<1>1. /\ Calm /\ pc[c] = "set" /\ trouble' = trouble /\ pc'[c] = "post" /\ change'[c] = ch
      /\ live' = [cfg |-> ch.new, prov |-> ch.prov]
      /\ UNCHANGED <<providers, gamedb, rules, file, answered>>
  BY DEF Calm, SetsState, Goto, game, bounds, TypeOK
<1>2. "refused" \notin trouble /\ Phase(c) /\ file = answered
  BY <1>1, UnderWay
<1>3. /\ Applied(ch) /\ Detached(ch) /\ rules = ch.old.gamesettings
      /\ Serves(providers[ch.prov], ch.new)
  BY <1>1, <1>2 DEF Phase
<1> HIDE DEF ch
<1>4. Phase(c)'
  BY <1>1, <1>3 DEF Phase, Applied, Detached
<1> QED  BY <1>1, <1>2, <1>4 DEF Left, Idle

LEMMA PostSwapOrderly ==
    ASSUME TypeOK, OneCall, Orderly, NEW c \in Callers, PostSwap(c)
    PROVE  Orderly'
<1> SUFFICES ASSUME Calm' PROVE Left(c)'
  BY OneLeft DEF PostSwap, Throw
<1> DEFINE ch == change[c]
<1>1. /\ Calm /\ pc[c] = "post" /\ trouble' = trouble /\ pc'[c] = "save" /\ change'[c] = ch
      /\ gamedb' = IF GameMoves(ch) THEN GameDir(ch.new) ELSE gamedb
      /\ rules' = Rules(ch)
      /\ UNCHANGED <<live, providers, file, answered>>
  BY DEF Calm, PostSwap, Goto, Throw, game, TypeOK
<1>2. "refused" \notin trouble /\ Phase(c) /\ file = answered
  BY <1>1, UnderWay
<1>3. /\ live.cfg = ch.new /\ Serves(providers[live.prov], ch.new)
      /\ Detached(ch) /\ rules = ch.old.gamesettings
      /\ ch.scopes = {s \in Scopes : ch.old[s] # ch.new[s]}
  BY <1>1, <1>2 DEF Phase
<1> HIDE DEF ch
<1>4. gamedb' = GameDir(ch.new)
  BY <1>1, <1>3 DEF Detached, GameMoves
<1>5. rules' = ch.new.gamesettings
  BY <1>1, <1>3 DEF Rules, Scopes
<1>6. Phase(c)'
  BY <1>1, <1>3, <1>4, <1>5 DEF Phase
<1> QED  BY <1>1, <1>2, <1>6 DEF Left, Idle

LEMMA SavesOrderly ==
    ASSUME TypeOK, OneCall, Orderly, NEW c \in Callers, Saves(c)
    PROVE  Orderly'
<1> SUFFICES ASSUME Calm' PROVE Left(c)'
  BY OneLeft DEF Saves, Throw
<1> DEFINE ch == change[c]
<1>1. /\ Calm /\ pc[c] = "save" /\ trouble' = trouble /\ pc'[c] = "notify" /\ change'[c] = ch
      /\ file' = ch.new
      /\ UNCHANGED <<live, providers, gamedb, rules>>
  BY DEF Calm, Saves, Goto, Throw, runtime, Written, TypeOK
<1>2. "refused" \notin trouble /\ Phase(c)
  BY <1>1, UnderWay
<1>3. /\ live.cfg = ch.new /\ Serves(providers[live.prov], ch.new)
      /\ gamedb = GameDir(ch.new) /\ rules = ch.new.gamesettings
  BY <1>1, <1>2 DEF Phase
<1> HIDE DEF ch
<1>4. Phase(c)'
  BY <1>1, <1>3 DEF Phase
<1> QED  BY <1>1, <1>2, <1>4 DEF Left, Idle

LEMMA NotifiesOrderly ==
    ASSUME TypeOK, OneCall, Orderly, NEW c \in Callers, Notifies(c)
    PROVE  Orderly'
<1> SUFFICES ASSUME Calm' PROVE Left(c)'
  <2>1. trouble' = trouble /\ pc[c] # "idle" /\ Goto(c, "idle", None)
    BY DEF Notifies
  <2> QED  BY <2>1, OneLeft
<1> DEFINE ch == change[c]
<1>1. /\ Calm /\ pc[c] = "notify" /\ trouble' = trouble /\ pc'[c] = "idle" /\ answered' = ch.new
      /\ UNCHANGED <<live, providers, gamedb, rules, file>>
  BY DEF Calm, Notifies, Goto, runtime, TypeOK
<1>2. "refused" \notin trouble /\ Phase(c)
  BY <1>1, UnderWay
<1>3. /\ live.cfg = ch.new /\ Serves(providers[live.prov], ch.new)
      /\ gamedb = GameDir(ch.new) /\ rules = ch.new.gamesettings /\ file = ch.new
  BY <1>1, <1>2 DEF Phase
<1> HIDE DEF ch
<1>4. Settled' /\ Phase(c)'
  BY <1>1, <1>3 DEF Phase, Settled, Serves
<1> QED  BY <1>1, <1>2, <1>3, <1>4 DEF Left

LEMMA RestartOrderly ==
    ASSUME TypeOK, OneCall, Orderly, Restart
    PROVE  Orderly'
<1>1. Loaded(file) = file /\ file \in Configs
  BY LiveConfigAssumption DEF Loaded, TypeOK
<1>2. /\ live' = [cfg |-> file, prov |-> 1] /\ providers' = <<Made(file)>>
      /\ gamedb' = GameDir(file) /\ rules' = file.gamesettings /\ file' = file
      /\ \A c \in Callers : pc'[c] = "idle"
      /\ "refused" \notin trouble'
  BY <1>1 DEF Restart
<1>3. Settled'
  BY <1>2 DEF Settled, Made
<1>4. answered' = file'
  BY DEF Restart, Orderly, Calm
<1> QED  BY <1>2, <1>3, <1>4 DEF Orderly, Idle, Phase

LEMMA MeanwhileOrderly ==
    ASSUME Orderly, UNCHANGED <<runtime, file, pc, change, answered, trouble>>
    PROVE  Orderly'
<1>1. Settled' <=> Settled
  BY DEF Settled, Idle, Calm, runtime
<1>2. \A c \in Callers : Phase(c)' <=> Phase(c)
  BY DEF Phase, runtime, Serves, Applied, Detached
<1> QED  BY <1>1, <1>2 DEF Orderly, Idle, runtime, Calm

LEMMA OrderlyStep ==
    ASSUME TypeOK, OneCall, Orderly, [Next]_vars
    PROVE  Orderly'
<1>1. CASE UNCHANGED vars
  BY <1>1, MeanwhileOrderly DEF vars
<1>2. CASE Meanwhile
  BY <1>2, MeanwhileLeaves, MeanwhileOrderly DEF others
<1>3. CASE Restart
  BY <1>3, RestartOrderly
<1>4. ASSUME NEW c \in Callers, Apply(c)
      PROVE  Orderly'
  BY <1>4, CallsOrderly, NothingChangedOrderly, PreSwapOrderly, SwapBeginsOrderly, OpensNewOrderly,
     RestoresOrderly, ReattachesOrderly, SetsStateOrderly, PostSwapOrderly, SavesOrderly,
     NotifiesOrderly DEF Apply
<1> QED  BY <1>1, <1>2, <1>3, <1>4, NextSplits

LEMMA InitOrderly == Init => OneCall /\ Orderly
BY DEF Init, OneCall, Orderly, Idle, Settled, Phase, Made, Loaded

LEMMA InvHolds == Spec => []Inv
<1>1. Init => Inv
  BY InitType, InitOrderly DEF Inv
<1>2. Inv /\ [Next]_vars => Inv'
  BY TypeStep, OneCallStep, OrderlyStep DEF Inv
<1> QED  BY <1>1, <1>2, PTL DEF Spec

\* After any calls, faults and stops that are not a half-done apply, what runs is what
\* the file says: apply_config, provider_for and GameDb::reopen agree.
THEOREM SettledCorrect == Spec => []Settled
<1>1. Inv => Settled
  BY DEF Inv, Orderly, Calm, Settled
<1> QED  BY <1>1, InvHolds, PTL

\* What a caller was told is in the file, also after a stop at any point: apply_config
\* saves before it publishes and answers.
THEOREM AnsweredCorrect == Spec => []AnsweredIsSaved
<1>1. Inv => AnsweredIsSaved
  BY DEF Inv, Orderly, Calm, AnsweredIsSaved, Phase
<1> QED  BY <1>1, InvHolds, PTL

-----------------------------------------------------------------------------
(* The panel that follows along                                             *)

\* The live configuration is ahead of what was published.
Ahead == \E c \in Callers : pc[c] \in {"post", "save", "notify"}

PanelInv ==
    /\ panel.at \in {"off", "accepted", "open"} => panel.posted = <<>>
    /\ trouble \subseteq {"merged"} /\ ~Ahead =>
        /\ panel.posted # <<>> => panel.posted[Len(panel.posted)] = live.cfg
        /\ panel.at = "taken" /\ ~panel.late => panel.snapshot = live.cfg
        /\ panel.at = "sent" /\ ~panel.late /\ panel.posted = <<>> => panel.shows = live.cfg

LEMMA PanelKept ==
    ASSUME PanelInv, panel' = panel,
           trouble' \subseteq {"merged"} /\ ~Ahead' =>
               trouble \subseteq {"merged"} /\ ~Ahead /\ live'.cfg = live.cfg
    PROVE  PanelInv'
BY DEF PanelInv

\* What a step of apply_config does to the panel.
LEMMA ApplyPanel ==
    ASSUME Inv, PanelInv, NEW c \in Callers, Apply(c)
    PROVE  PanelInv'
<1>1. TypeOK /\ OneCall /\ Orderly
  BY DEF Inv
<1>2. CASE Replace(c) \/ UpdateScope(c)
  <2>1. /\ pc[c] = "idle" /\ pc' = [pc EXCEPT ![c] = "submitted"]
        /\ trouble \subseteq trouble' /\ UNCHANGED <<panel, live>>
    BY <1>2 DEF Replace, UpdateScope, Submit, runtime
  <2> QED  BY <1>1, <2>1, PanelKept DEF Ahead, TypeOK
<1>3. CASE NothingChanged(c) \/ PreSwap(c) \/ SwapBegins(c) \/ OpensNew(c) \/ Reattaches(c)
  <2>1. /\ pc[c] \notin {"post", "save", "notify"}
        /\ \E label \in Steps : pc' = [pc EXCEPT ![c] = label]
        /\ trouble \subseteq trouble' /\ UNCHANGED <<panel, live>>
    BY <1>3, TroublesGrow DEF Apply, NothingChanged, PreSwap, SwapBegins, OpensNew, Reattaches, Goto, Throw, runtime, Steps
  <2> QED  BY <1>1, <2>1, PanelKept DEF Ahead, TypeOK
<1>4. CASE Restores(c)
  <2>1. /\ pc[c] = "restore" /\ pc' = [pc EXCEPT ![c] = "reattach"]
        /\ trouble' = trouble /\ panel' = panel
        /\ live'.cfg = change[c].old \/ live' = live
    BY <1>4 DEF Restores, Goto
  <2>2. trouble \subseteq {"merged"} => change[c].old = live.cfg
    BY <1>1, <2>1, UnderWay DEF Calm, Phase, Applied
  <2> QED  BY <1>1, <2>1, <2>2, PanelKept DEF Ahead, TypeOK
<1>5. CASE SetsState(c) \/ PostSwap(c) \/ Saves(c)
  <2>1. /\ panel' = panel
        /\ trouble' \subseteq {"merged"} =>
               trouble \subseteq {"merged"} /\ \E label \in {"post", "save", "notify"} : pc' = [pc EXCEPT ![c] = label]
    BY <1>5 DEF SetsState, PostSwap, Saves, Goto, Throw
  <2> QED  BY <1>1, <2>1, PanelKept DEF Ahead, TypeOK
<1>6. CASE Notifies(c)
  <2>1. /\ live' = live /\ trouble' = trouble
        /\ panel' = IF panel.at \in {"off", "accepted", "open"} THEN panel
                    ELSE [panel EXCEPT !.posted = Append(@, live.cfg), !.late = @ \/ panel.at = "taken"]
    BY <1>6 DEF Notifies, Event, runtime
  <2>2. panel \in Panel /\ live.cfg \in Configs
    BY <1>1 DEF TypeOK
  <2>3. CASE panel.at \in {"off", "accepted", "open"}
    BY <2>1, <2>3 DEF PanelInv
  <2>4. CASE panel.at \notin {"off", "accepted", "open"}
    <3>1. /\ panel'.posted = Append(panel.posted, live.cfg) /\ panel'.at = panel.at
          /\ panel'.at = "taken" => panel'.late
      BY <2>1, <2>2, <2>4 DEF Panel
    <3>2. panel.posted \in Seq(Configs)
      BY <2>2 DEF Panel
    <3>3. panel'.posted # <<>> /\ panel'.posted[Len(panel'.posted)] = live.cfg
      BY <2>2, <3>1, <3>2
    <3> QED  BY <2>1, <2>4, <3>1, <3>3 DEF PanelInv
  <2> QED  BY <2>3, <2>4
<1> QED  BY <1>2, <1>3, <1>4, <1>5, <1>6 DEF Apply

LEMMA MeanwhilePanel ==
    ASSUME TypeOK, PanelInv, Meanwhile
    PROVE  PanelInv'
<1>1. live' = live /\ trouble' = trouble /\ (Ahead' <=> Ahead)
  BY MeanwhileLeaves DEF runtime, others, Ahead
<1>2. panel \in Panel
  BY DEF TypeOK
<1>3. CASE UNCHANGED panel
  BY <1>1, <1>3 DEF PanelInv
<1>4. CASE Accepted \/ Connects \/ Subscribes
  BY <1>1, <1>2, <1>4 DEF Accepted, Connects, Subscribes, Shows, PanelInv, Panel
<1>5. CASE Leaves
  BY <1>5 DEF Leaves, Shows, NoPanel, PanelInv
<1>6. CASE TakesSnapshot
  BY <1>1, <1>2, <1>6 DEF TakesSnapshot, Shows, PanelInv, Panel
<1>7. CASE SendsSnapshot
  BY <1>1, <1>2, <1>7 DEF SendsSnapshot, Shows, PanelInv, Panel
<1>8. CASE Pushes
  <2>1. panel.posted \in Seq(Configs) /\ panel.posted # <<>>
    BY <1>2, <1>8 DEF Pushes, Panel
  <2>2. /\ panel'.posted = Tail(panel.posted) /\ panel'.shows = Head(panel.posted)
        /\ panel'.at = panel.at /\ panel'.late = panel.late /\ panel'.snapshot = panel.snapshot
    BY <1>2, <1>8 DEF Pushes, Shows, Panel
  <2>3. Tail(panel.posted) # <<>> =>
            Tail(panel.posted)[Len(Tail(panel.posted))] = panel.posted[Len(panel.posted)]
    BY <2>1
  <2>4. Tail(panel.posted) = <<>> => Head(panel.posted) = panel.posted[Len(panel.posted)]
    <3>1. Len(Tail(panel.posted)) = Len(panel.posted) - 1 /\ Len(panel.posted) \in Nat
      BY <2>1
    <3>2. ASSUME Tail(panel.posted) = <<>> PROVE Len(panel.posted) = 1
      <4>1. Len(Tail(panel.posted)) = 0
        BY <3>2, EmptySeq
      <4> QED  BY <3>1, <4>1
    <3> QED  BY <2>1, <3>2
  <2> QED  BY <1>1, <2>1, <2>2, <2>3, <2>4 DEF PanelInv
<1> QED  BY <1>3, <1>4, <1>5, <1>6, <1>7, <1>8 DEF Meanwhile, Arrives, Resolves, Ends, PutAccount

LEMMA PanelStep == Inv /\ PanelInv /\ [Next]_vars => PanelInv'
<1> SUFFICES ASSUME Inv, PanelInv, [Next]_vars PROVE PanelInv'
  OBVIOUS
<1>1. CASE UNCHANGED vars
  BY <1>1 DEF vars, runtime, PanelInv, Ahead
<1>2. CASE Meanwhile
  BY <1>2, MeanwhilePanel DEF Inv
<1>3. CASE Restart
  BY <1>3 DEF Restart, NoPanel, PanelInv
<1>4. ASSUME NEW c \in Callers, Apply(c)
      PROVE  PanelInv'
  BY <1>4, ApplyPanel
<1> QED  BY <1>1, <1>2, <1>3, <1>4, NextSplits

\* A panel that was subscribed before the last change shows it: the frames that publish
\* posts come after the snapshot's, in the order of the calls.
THEOREM PanelCorrect == Spec => []PanelFollows
<1>1. Init => PanelInv
  BY DEF Init, NoPanel, PanelInv
<1>2. PanelInv => PanelFollows
  BY DEF PanelInv, PanelFollows, Idle, Ahead
<1> QED  BY <1>1, <1>2, PanelStep, InvHolds, PTL DEF Spec

-----------------------------------------------------------------------------
(* Where the accounts are                                                   *)

\* A call that migrates changes one scope.
OneScope(old, new) == \E s \in Scopes : \A t \in Scopes : t # s => old[t] = new[t]

\* The place of the accounts while a change is under way; of a cache tree that
\* moves, the database goes along after PreSwap.
Seat(ch, step) ==
    IF GameMoves(ch) /\ ch.migrate /\ (step = "swap" => ~CoveredByCache(ch))
    THEN GameDir(ch.new) ELSE GameDir(ch.old)

Followed(c) ==
    LET ch == change[c] IN
    /\ pc[c] = "submitted" =>
          Found(GameDir(live.cfg)) /\ (ch.migrate => OneScope(live.cfg, ch.new))
    /\ pc[c] = "swap" => (ch.migrate => OneScope(ch.old, ch.new))
    /\ pc[c] \in {"swap", "open", "restore", "reattach", "set", "post"} => Found(Seat(ch, pc[c]))
    /\ pc[c] \in {"save", "notify"} => Found(gamedb)

\* Nothing happened to the accounts but that a directory was moved over another.
Mild == trouble \subseteq {"refused", "merged"}

\* Found, of any disk, accounts and troubles.
Holds(d, m, t, place) ==
    /\ d[place] # Absent /\ m \subseteq d[place]
    /\ "merged" \notin t => d[place] = m

FollowInv ==
    /\ mine \in SUBSET Accounts
    /\ Mild =>
          /\ Idle => gamedb # Absent /\ Found(gamedb)
          /\ \A c \in Callers : Followed(c)

LEMMA MovedAccounts ==
    ASSUME NEW d \in Disks, NEW from \in Places, NEW to \in Places, from # to, d[from] # Absent,
           NEW e \in Moved(d, from, to)
    PROVE  /\ e[to] \in SUBSET Accounts /\ d[from] \subseteq e[to]
           /\ ~Merges(d, from, to) => e[to] = d[from]
           /\ \A p \in Places \ {from, to} : e[p] = d[p]
<1>1. d[from] \in SUBSET Accounts /\ d[to] \in (SUBSET Accounts) \cup {Absent}
  BY DEF Disks
<1>2. PICK s \in Merged(d[from], d[to]) : e = [d EXCEPT ![to] = s, ![from] = Absent]
  BY DEF Moved
<1>3. s \in SUBSET Accounts /\ d[from] \subseteq s
  BY <1>1, <1>2 DEF Merged
<1>4. ~Merges(d, from, to) => s = d[from]
  BY <1>1, <1>2 DEF Merged, Merges
<1>5. e[to] = s /\ \A p \in Places \ {from, to} : e[p] = d[p]
  BY <1>2 DEF Disks
<1> QED  BY <1>3, <1>4, <1>5

\* A directory that is moved has the players' accounts where it comes to be.
LEMMA MigrateFinds ==
    ASSUME NEW from \in Places, NEW to \in Places, from # to, disk \in Disks, mine' = mine,
           Holds(disk, mine, trouble, from), Migrate(from, to)
    PROVE  Holds(disk', mine', trouble', to)
<1>1. disk' \in Moved(disk, from, to) /\ disk[from] # Absent
  BY DEF Migrate, Holds
<1>2. /\ disk'[to] \in SUBSET Accounts /\ disk[from] \subseteq disk'[to]
      /\ ~Merges(disk, from, to) => disk'[to] = disk[from]
  BY <1>1, MovedAccounts
<1>3. disk'[to] # Absent
  BY <1>2, AbsentAssumption
<1>4. "merged" \notin trouble' => "merged" \notin trouble /\ ~Merges(disk, from, to)
  BY DEF Migrate
<1> QED  BY <1>2, <1>3, <1>4 DEF Holds

\* Places besides keep theirs.
LEMMA MigrateLeaves ==
    ASSUME NEW from \in Places, NEW to \in Places, NEW place \in Places \ {from, to},
           disk \in Disks, mine' = mine, Holds(disk, mine, trouble, place), Migrate(from, to)
    PROVE  Holds(disk', mine', trouble', place)
<1>1. disk'[place] = disk[place]
  <2>1. disk' \in Moved(disk, from, to)
    BY DEF Migrate
  <2>2. CASE from = to \/ disk[from] = Absent
    BY <2>1, <2>2 DEF Moved
  <2>3. CASE ~(from = to \/ disk[from] = Absent)
    BY <2>1, <2>3, MovedAccounts
  <2> QED  BY <2>2, <2>3
<1>2. trouble \subseteq trouble'
  BY DEF Migrate
<1> QED  BY <1>1, <1>2 DEF Holds

LEMMA CreatedAccounts ==
    ASSUME NEW d \in Disks, NEW place \in Places
    PROVE  /\ d[place] # Absent => Created(d, place) = d
           /\ Created(d, place)[place] \in SUBSET Accounts
BY DEF Created, Disks

\* A place that is set is not inside a cache directory.
LEMMA PlacesApart ==
    ASSUME NEW p \in Paths, NEW d \in Caches
    PROVE  <<p>> # Inside(d)
BY DEF Inside

LEMMA FollowLeft ==
    ASSUME TypeOK, OneCall, NEW c \in Callers, pc[c] # "idle",
           NEW label, NEW ch, Goto(c, label, ch), trouble \subseteq trouble',
           mine' \in SUBSET Accounts,
           Mild' =>
               /\ Followed(c)'
               /\ label = "idle" => gamedb' # Absent /\ Found(gamedb)'
    PROVE  FollowInv'
<1>1. CASE ~Mild'
  BY <1>1 DEF FollowInv
<1>2. CASE Mild'
  <2>1. \A d \in Callers : d # c => pc[d] = "idle"
    BY <1>2 DEF OneCall, Mild
  <2>2. pc'[c] = label /\ \A d \in Callers : d # c => pc'[d] = "idle"
    BY <2>1 DEF Goto, TypeOK
  <2>3. \A d \in Callers : Followed(d)'
    BY <1>2, <2>2 DEF Followed
  <2> QED  BY <1>2, <2>2, <2>3 DEF FollowInv, Idle
<1> QED  BY <1>1, <1>2

\* The call that is under way, and where the accounts are.
LEMMA FollowUnderWay ==
    ASSUME Inv, FollowInv, Mild, NEW c \in Callers, pc[c] # "idle"
    PROVE  /\ "refused" \notin trouble /\ Phase(c) /\ Followed(c)
           /\ change[c] \in ConfigChange /\ disk \in Disks /\ mine \in SUBSET Accounts
           /\ GameDir(live.cfg) \in Places
<1>1. TypeOK /\ Orderly /\ Calm
  BY DEF Inv, Calm, Mild
<1>2. GameDir(live.cfg) \in Places
  BY <1>1, GameDirType DEF TypeOK
<1> QED  BY <1>1, <1>2, UnderWay DEF FollowInv, TypeOK, Disks

LEMMA CallsFollow ==
    ASSUME Inv, FollowInv, NEW c \in Callers, Replace(c) \/ UpdateScope(c)
    PROVE  FollowInv'
<1> SUFFICES ASSUME Mild' PROVE FollowInv'
  BY DEF FollowInv, Replace, UpdateScope, Submit
<1>0. trouble' = trouble /\ Idle /\ "refused" \notin trouble /\ Mild
  <2>1. \E new, only, migrate : Submit(c, new, only, migrate)
    BY DEF Replace, UpdateScope
  <2>2. trouble' = trouble \cup (IF Idle THEN {} ELSE {"overlap"})
                           \cup (IF "refused" \in trouble THEN {"failed"} ELSE {})
    BY <2>1 DEF Submit
  <2> QED  BY <2>2 DEF Mild
<1>1. TypeOK /\ Orderly
  BY DEF Inv
<1>2. /\ pc[c] = "idle" /\ pc' = [pc EXCEPT ![c] = "submitted"]
      /\ trouble' = trouble /\ Idle /\ "refused" \notin trouble
      /\ UNCHANGED <<live, gamedb, disk, mine>>
      /\ \E new, only, migrate :
            /\ change' = [change EXCEPT ![c] = Call(new, only, migrate)]
            /\ migrate => OneScope(live.cfg, new)
  <2>1. \E new, only, migrate : Submit(c, new, only, migrate) /\ (migrate => OneScope(live.cfg, new))
    <3>1. CASE Replace(c)
      BY <3>1 DEF Replace
    <3>2. CASE UpdateScope(c)
      <4>1. PICK s \in Scopes, migrate \in BOOLEAN : \E v \in Values[s] :
                Submit(c, [live.cfg EXCEPT ![s] = v], s, migrate)
        BY <3>2 DEF UpdateScope
      <4>2. PICK v \in Values[s] : Submit(c, [live.cfg EXCEPT ![s] = v], s, migrate)
        BY <4>1
      <4> DEFINE new == [live.cfg EXCEPT ![s] = v]
      <4>3. live.cfg \in Configs
        BY <1>1 DEF TypeOK
      <4>4. \A t \in Scopes : t # s => live.cfg[t] = new[t]
        BY <4>3 DEF Configs, Scopes
      <4>5. Submit(c, new, s, migrate)
        BY <4>2
      <4> HIDE DEF new
      <4> QED  BY <4>4, <4>5 DEF OneScope
    <3> QED  BY <3>1, <3>2
  <2>2. PICK new, only, migrate : Submit(c, new, only, migrate) /\ (migrate => OneScope(live.cfg, new))
    BY <2>1
  <2> QED  BY <1>0, <2>2 DEF Submit, runtime
<1>3. /\ gamedb = GameDir(live.cfg) /\ Found(gamedb)
  BY <1>0, <1>1, <1>2 DEF Orderly, Calm, Mild, Settled, FollowInv
<1>4. PICK new, only, migrate :
          /\ change'[c] = Call(new, only, migrate)
          /\ migrate => OneScope(live.cfg, new)
  BY <1>1, <1>2 DEF TypeOK
<1>5. Followed(c)'
  BY <1>1, <1>2, <1>3, <1>4 DEF Followed, Found, Call, TypeOK
<1>6. \A d \in Callers : Followed(d)'
  <2>1. \A d \in Callers : d # c => pc'[d] = "idle"
    BY <1>1, <1>2 DEF Idle, TypeOK
  <2> QED  BY <1>5, <2>1 DEF Followed
<1> QED  BY <1>1, <1>2, <1>6 DEF FollowInv, Idle, TypeOK

LEMMA NothingChangedFollow ==
    ASSUME Inv, FollowInv, NEW c \in Callers, NothingChanged(c)
    PROVE  FollowInv'
<1>1. /\ pc[c] = "submitted" /\ trouble' = trouble /\ Goto(c, "idle", None) /\ TypeOK /\ OneCall
      /\ UNCHANGED <<live, gamedb, disk, mine>>
  BY DEF NothingChanged, runtime, Inv
<1> SUFFICES ASSUME Mild'
             PROVE  Followed(c)' /\ gamedb' # Absent /\ Found(gamedb)'
  BY <1>1, FollowLeft DEF FollowInv
<1>2. /\ Phase(c) /\ Followed(c) /\ GameDir(live.cfg) \in Places
  BY <1>1, FollowUnderWay DEF Mild
<1>3. gamedb = GameDir(live.cfg) /\ Found(gamedb)
  BY <1>1, <1>2 DEF Phase, Followed
<1>4. pc'[c] = "idle"
  BY <1>1 DEF Goto, TypeOK
<1> QED  BY <1>1, <1>2, <1>3, <1>4, AbsentAssumption DEF Followed, Found

LEMMA PreSwapFollow ==
    ASSUME Inv, FollowInv, NEW c \in Callers, PreSwap(c)
    PROVE  FollowInv'
<1> DEFINE ch == Diffed(c)
           moves == GameMoves(ch) /\ ch.migrate /\ ~CoveredByCache(ch)
<1>0. trouble \subseteq trouble'
  BY TroublesGrow DEF Apply
<1>1. /\ pc[c] = "submitted" /\ trouble \subseteq trouble' /\ TypeOK /\ OneCall /\ mine' = mine
      /\ Goto(c, "swap", ch) \/ (Goto(c, "idle", None) /\ "failed" \in trouble')
  BY <1>0 DEF PreSwap, Throw, Inv
<1> SUFFICES ASSUME Mild', Goto(c, "swap", ch)
             PROVE  Followed(c)'
  BY <1>1, FollowLeft DEF FollowInv, Mild
<1>2. /\ Phase(c) /\ Followed(c) /\ change[c] \in ConfigChange /\ disk \in Disks
      /\ GameDir(live.cfg) \in Places
  BY <1>1, FollowUnderWay DEF Mild
<1>3. /\ ch.old = live.cfg /\ ch.new = change[c].new /\ ch.migrate = change[c].migrate
      /\ ch \in ConfigChange
  <2>1. /\ ch \in ConfigChange /\ ch.old = live.cfg /\ ch.new = change[c].new
        /\ ch = [change[c] EXCEPT !.old = live.cfg, !.prov = live.prov,
                   !.scopes = Changed(live.cfg, change[c].new, change[c].only)]
    BY <1>1, DiffedType
  <2>2. ch.migrate = change[c].migrate
    BY <1>2, <2>1 DEF ConfigChange
  <2> QED  BY <2>1, <2>2
<1>4. /\ pc'[c] = "swap" /\ change'[c] = ch
      /\ IF moves THEN Migrate(GameDir(ch.old), GameDir(ch.new)) ELSE UNCHANGED <<disk, trouble>>
  <2>1. pc'[c] = "swap" /\ change'[c] = ch
    BY <1>1 DEF Goto, TypeOK
  <2> QED  BY <1>1, <2>1 DEF PreSwap, Throw, Goto, TypeOK
<1> HIDE DEF ch
<1>5. /\ Holds(disk, mine, trouble, GameDir(ch.old)) /\ (ch.migrate => OneScope(ch.old, ch.new))
  BY <1>1, <1>2, <1>3 DEF Followed, Found, Holds
<1>6. Holds(disk', mine', trouble', Seat(ch, "swap"))
  <2>1. CASE moves
    <3>1. GameDir(ch.old) \in Places /\ GameDir(ch.new) \in Places /\ GameDir(ch.old) # GameDir(ch.new)
      BY <1>3, <2>1, ChangeType DEF GameMoves
    <3>2. Holds(disk', mine', trouble', GameDir(ch.new))
      BY <1>1, <1>2, <1>4, <1>5, <2>1, <3>1, MigrateFinds
    <3> QED  BY <2>1, <3>2 DEF Seat
  <2>2. CASE ~moves
    BY <1>1, <1>4, <1>5, <2>2 DEF Seat
  <2> QED  BY <2>1, <2>2
<1> QED  BY <1>1, <1>4, <1>5, <1>6 DEF Followed, Found, Holds

\* A call that migrates one scope moves the database either by itself or with the cache.
LEMMA MovedByOne ==
    ASSUME NEW ch \in ConfigChange, OneScope(ch.old, ch.new), ch.old.cache # ch.new.cache
    PROVE  /\ ch.old.gameserver = ch.new.gameserver
           /\ ch.old.gameserver = None =>
                 /\ CoveredByCache(ch)
                 /\ GameDir(ch.old) = Inside(ch.old.cache) /\ GameDir(ch.new) = Inside(ch.new.cache)
           /\ ch.old.gameserver # None =>
                 /\ ch.old.gameserver \in Paths /\ ~GameMoves(ch)
                 /\ GameDir(ch.old) = <<ch.old.gameserver>>
<1>1. ch.old \in Configs /\ ch.new \in Configs
  BY DEF ConfigChange
<1>2. ch.old.gameserver = ch.new.gameserver
  BY <1>1 DEF OneScope, Scopes
<1> QED  BY <1>1, <1>2 DEF CoveredByCache, GameDir, GameMoves, Configs

LEMMA SwapBeginsFollow ==
    ASSUME Inv, FollowInv, NEW c \in Callers, SwapBegins(c)
    PROVE  FollowInv'
<1> DEFINE ch == change[c]
<1>0. trouble \subseteq trouble'
  BY TroublesGrow DEF Apply
<1>1. /\ pc[c] = "swap" /\ trouble \subseteq trouble' /\ TypeOK /\ OneCall /\ mine' = mine
      /\ \/ /\ Recreates(ch) /\ Goto(c, "open", ch)
            /\ IF ch.migrate THEN MigrateTree(ch.old.cache, ch.new.cache) ELSE UNCHANGED <<disk, trouble>>
         \/ ~Recreates(ch) /\ Goto(c, "set", ch) /\ UNCHANGED <<disk, trouble>>
         \/ Goto(c, "idle", None) /\ "failed" \in trouble'
  BY <1>0 DEF SwapBegins, Throw, Inv
<1> SUFFICES ASSUME Mild',
                    NEW label \in {"open", "set"}, Goto(c, label, ch)
             PROVE  Followed(c)'
  BY <1>1, FollowLeft DEF FollowInv, Mild
<1>2. /\ Phase(c) /\ Followed(c) /\ ch \in ConfigChange /\ disk \in Disks
  BY <1>1, FollowUnderWay DEF Mild
<1>3. pc'[c] = label /\ change'[c] = ch
  BY <1>1 DEF Goto, TypeOK
<1>4. /\ label = "open" => /\ Recreates(ch)
                           /\ IF ch.migrate THEN MigrateTree(ch.old.cache, ch.new.cache)
                              ELSE UNCHANGED <<disk, trouble>>
      /\ label = "set" => ~Recreates(ch) /\ UNCHANGED <<disk, trouble>>
  BY <1>1, <1>3 DEF Goto, TypeOK
<1> HIDE DEF ch
<1>5. /\ Applied(ch) /\ Holds(disk, mine, trouble, Seat(ch, "swap"))
      /\ ch.migrate => OneScope(ch.old, ch.new)
  BY <1>1, <1>2 DEF Phase, Followed, Found, Holds, ch
<1>6. Holds(disk', mine', trouble', Seat(ch, label))
  <2>1. CASE label = "open" /\ ch.migrate
    <3>1. ch.old.cache # ch.new.cache
      BY <1>4, <1>5, <2>1 DEF Recreates, Applied
    <3>2. /\ ch.old.cache \in Caches /\ ch.new.cache \in Caches
          /\ Inside(ch.old.cache) \in Places /\ Inside(ch.new.cache) \in Places
          /\ Inside(ch.old.cache) # Inside(ch.new.cache)
      BY <1>2, <3>1, ChangeType DEF Inside, Places
    <3>3. CASE ch.old.gameserver = None
      <4>1. /\ GameMoves(ch) /\ Seat(ch, "swap") = Inside(ch.old.cache)
            /\ Seat(ch, "open") = Inside(ch.new.cache)
        BY <1>2, <1>5, <2>1, <3>1, <3>2, <3>3, MovedByOne DEF Seat, GameMoves
      <4> QED  BY <1>1, <1>2, <1>4, <1>5, <2>1, <3>2, <4>1, MigrateFinds DEF MigrateTree
    <3>4. CASE ch.old.gameserver # None
      <4>1. /\ ch.old.gameserver \in Paths /\ ~GameMoves(ch) /\ GameDir(ch.old) = <<ch.old.gameserver>>
        BY <1>2, <1>5, <2>1, <3>1, <3>4, MovedByOne
      <4> DEFINE place == <<ch.old.gameserver>>
      <4>2. /\ place \in Places /\ place # Inside(ch.old.cache) /\ place # Inside(ch.new.cache)
        BY <3>2, <4>1, PlacesApart DEF Places
      <4>3. Holds(disk, mine, trouble, place) /\ Seat(ch, "open") = place
        BY <1>5, <4>1 DEF Seat
      <4> HIDE DEF place
      <4> QED  BY <1>1, <1>2, <1>4, <2>1, <3>2, <4>2, <4>3, MigrateLeaves DEF MigrateTree
    <3> QED  BY <3>3, <3>4
  <2>2. CASE label = "open" /\ ~ch.migrate
    BY <1>1, <1>4, <1>5, <2>2 DEF Seat
  <2>3. CASE label = "set"
    <3>1. ~CoveredByCache(ch)
      BY <1>4, <1>5, <2>3 DEF Recreates, Applied, Scopes, CoveredByCache
    <3> QED  BY <1>1, <1>4, <1>5, <2>3, <3>1 DEF Seat
  <2> QED  BY <2>1, <2>2, <2>3
<1> QED  BY <1>1, <1>3, <1>6 DEF Followed, Found, Holds

\* Steps between which the accounts stay where they are.
LEMMA SeatKept ==
    ASSUME Inv, FollowInv, NEW c \in Callers, pc[c] \in {"open", "restore", "set"},
           NEW label \in {"set", "restore", "reattach", "post"}, NEW ch,
           Goto(c, label, ch), UNCHANGED <<disk, mine, trouble>>,
           ch.old = change[c].old, ch.new = change[c].new, ch.migrate = change[c].migrate
    PROVE  FollowInv'
<1>1. TypeOK /\ OneCall /\ mine \in SUBSET Accounts
  BY DEF Inv, FollowInv
<1>2. ASSUME Mild
      PROVE  Followed(c)'
  <2>1. Found(Seat(change[c], pc[c]))
    BY <1>2, FollowUnderWay DEF Followed
  <2>2. pc'[c] = label /\ change'[c] = ch
    BY <1>1 DEF Goto, TypeOK
  <2>3. Seat(ch, label) = Seat(change[c], pc[c])
    BY DEF Seat, GameMoves
  <2> QED  BY <2>1, <2>2, <2>3 DEF Followed, Found
<1>3. Mild' <=> Mild
  BY DEF Mild
<1> QED  BY <1>1, <1>2, <1>3, FollowLeft

LEMMA BetweenFollow ==
    ASSUME Inv, FollowInv, NEW c \in Callers, OpensNew(c) \/ Restores(c) \/ SetsState(c)
    PROVE  FollowInv'
<1>1. UNCHANGED <<disk, mine, trouble>>
  BY DEF OpensNew, Restores, SetsState, game
<1>2. change[c] \in ConfigChange
  BY DEF OpensNew, Restores, SetsState, Inv, TypeOK
<1>3. CASE OpensNew(c)
  <2>1. CASE Goto(c, "restore", change[c])
    BY <1>1, <1>3, <2>1, SeatKept DEF OpensNew
  <2>2. CASE Goto(c, "set", [change[c] EXCEPT !.prov = Len(providers')])
    <3> DEFINE ch == [change[c] EXCEPT !.prov = Len(providers')]
    <3>1. ch.old = change[c].old /\ ch.new = change[c].new /\ ch.migrate = change[c].migrate
      BY <1>2 DEF ConfigChange
    <3>2. Goto(c, "set", ch)
      BY <2>2
    <3> HIDE DEF ch
    <3> QED  BY <1>1, <1>3, <3>1, <3>2, SeatKept DEF OpensNew
  <2> QED  BY <1>3, <2>1, <2>2 DEF OpensNew
<1>4. CASE Restores(c)
  BY <1>1, <1>4, SeatKept DEF Restores
<1>5. CASE SetsState(c)
  BY <1>1, <1>5, SeatKept DEF SetsState
<1> QED  BY <1>3, <1>4, <1>5

LEMMA ReattachesFollow ==
    ASSUME Inv, FollowInv, NEW c \in Callers, Reattaches(c)
    PROVE  FollowInv'
<1> DEFINE ch == change[c]
<1>1. /\ pc[c] = "reattach" /\ trouble \subseteq trouble' /\ TypeOK /\ OneCall /\ mine' = mine
      /\ Goto(c, "idle", None)
      /\ \/ /\ gamedb' = IF GameMoves(ch) THEN Reopened(ch) ELSE gamedb
            /\ disk' = IF GameMoves(ch) THEN Created(disk, Reopened(ch)) ELSE disk
         \/ "failed" \in trouble'
  BY DEF Reattaches, Throw, Inv
<1> SUFFICES ASSUME Mild'
             PROVE  Followed(c)' /\ gamedb' # Absent /\ Found(gamedb)'
  BY <1>1, FollowLeft DEF FollowInv
<1>2. /\ Phase(c) /\ Followed(c) /\ ch \in ConfigChange /\ disk \in Disks
  BY <1>1, FollowUnderWay DEF Mild
<1>3. pc'[c] = "idle" /\ ("merged" \notin trouble' => "merged" \notin trouble)
  BY <1>1 DEF Goto, TypeOK
<1> HIDE DEF ch
<1>4. Detached(ch) /\ Holds(disk, mine, trouble, Seat(ch, "reattach"))
  BY <1>1, <1>2 DEF Phase, Followed, Found, Holds, ch
<1>5. GameDir(ch.old) \in Places /\ Reopened(ch) \in Places
  BY <1>2, ChangeType
<1>6. CASE GameMoves(ch)
  <2>1. Reopened(ch) = Seat(ch, "reattach")
    BY <1>6 DEF Reopened, Seat
  <2>2. disk' = disk /\ gamedb' = Reopened(ch)
    BY <1>1, <1>2, <1>4, <1>5, <1>6, <2>1, CreatedAccounts DEF Mild, Holds
  <2> QED  BY <1>1, <1>3, <1>4, <1>5, <2>1, <2>2, AbsentAssumption DEF Followed, Found, Holds
<1>7. CASE ~GameMoves(ch)
  <2>1. /\ gamedb = GameDir(ch.old) /\ Holds(disk, mine, trouble, gamedb)
        /\ gamedb' = gamedb /\ disk' = disk
    BY <1>1, <1>4, <1>7 DEF Detached, Seat, Mild
  <2> QED  BY <1>1, <1>3, <1>5, <2>1, AbsentAssumption DEF Followed, Found, Holds
<1> QED  BY <1>6, <1>7

LEMMA PostSwapFollow ==
    ASSUME Inv, FollowInv, NEW c \in Callers, PostSwap(c)
    PROVE  FollowInv'
<1> DEFINE ch == change[c]
           place == GameDir(ch.new)
<1>1. /\ pc[c] = "post" /\ trouble \subseteq trouble' /\ TypeOK /\ OneCall
      /\ mine \in SUBSET Accounts /\ ch \in ConfigChange /\ disk \in Disks
      /\ \/ /\ Goto(c, "save", ch)
            /\ IF GameMoves(ch)
               THEN /\ gamedb' = place /\ disk' = Created(disk, place)
                    /\ mine' = IF ch.migrate THEN mine ELSE disk'[place]
               ELSE UNCHANGED <<gamedb, disk, mine>>
         \/ Goto(c, "idle", None) /\ "failed" \in trouble' /\ mine' = mine
  BY DEF PostSwap, Throw, Inv, FollowInv, TypeOK, Disks, game
<1>2. place \in Places
  BY <1>1, ChangeType
<1> HIDE DEF ch, place
<1>3. mine' \in SUBSET Accounts
  BY <1>1, <1>2, CreatedAccounts
<1>4. ASSUME Mild', Goto(c, "save", ch)
      PROVE  Followed(c)'
  <2>1. pc'[c] = "save"
    BY <1>1, <1>4 DEF Goto, TypeOK
  <2>2. IF GameMoves(ch)
        THEN /\ gamedb' = place /\ disk' = Created(disk, place)
             /\ mine' = IF ch.migrate THEN mine ELSE disk'[place]
        ELSE UNCHANGED <<gamedb, disk, mine>>
    BY <1>1, <1>4, <2>1 DEF Goto, TypeOK
  <2>3. Mild
    BY <1>1, <1>4 DEF Mild
  <2>4. Phase(c) /\ Followed(c)
    BY <1>1, <2>3, FollowUnderWay
  <2>5. Detached(ch) /\ Holds(disk, mine, trouble, Seat(ch, "post"))
    BY <1>1, <2>4 DEF Phase, Followed, Found, Holds, ch
  <2>6. Holds(disk', mine', trouble', gamedb')
    <3>1. CASE GameMoves(ch) /\ ch.migrate
      <4>1. Holds(disk, mine, trouble, place)
        BY <2>5, <3>1 DEF Seat, place
      <4>2. disk' = disk
        BY <1>1, <1>2, <2>2, <3>1, <4>1, CreatedAccounts DEF Holds
      <4> QED  BY <1>1, <2>2, <3>1, <4>1, <4>2 DEF Holds
    <3>2. CASE GameMoves(ch) /\ ~ch.migrate
      <4>1. disk'[place] \in SUBSET Accounts
        BY <1>1, <1>2, <2>2, <3>2, CreatedAccounts
      <4> QED  BY <2>2, <3>2, <4>1, AbsentAssumption DEF Holds
    <3>3. CASE ~GameMoves(ch)
      BY <1>1, <2>2, <2>5, <3>3 DEF Detached, Seat, Holds
    <3> QED  BY <3>1, <3>2, <3>3
  <2> QED  BY <2>1, <2>6 DEF Followed, Found, Holds
<1>5. Mild' => Goto(c, "save", ch)
  BY <1>1 DEF Mild
<1>6. CASE Goto(c, "save", ch)
  BY <1>1, <1>3, <1>4, <1>6, FollowLeft
<1>7. CASE ~Mild'
  BY <1>3, <1>7 DEF FollowInv
<1> QED  BY <1>5, <1>6, <1>7

LEMMA SavesFollow ==
    ASSUME Inv, FollowInv, NEW c \in Callers, Saves(c)
    PROVE  FollowInv'
<1>1. /\ pc[c] = "save" /\ trouble \subseteq trouble' /\ TypeOK /\ OneCall
      /\ UNCHANGED <<gamedb, disk, mine>> /\ mine \in SUBSET Accounts
      /\ \/ Goto(c, "notify", change[c])
         \/ Goto(c, "idle", None) /\ "failed" \in trouble'
  BY DEF Saves, Throw, Inv, FollowInv, runtime
<1> SUFFICES ASSUME Mild', Goto(c, "notify", change[c])
             PROVE  Followed(c)'
  BY <1>1, FollowLeft DEF FollowInv, Mild
<1>2. Followed(c)
  BY <1>1, FollowUnderWay DEF Mild
<1>3. pc'[c] = "notify" /\ ("merged" \notin trouble' => "merged" \notin trouble)
  BY <1>1 DEF Goto, TypeOK
<1> QED  BY <1>1, <1>2, <1>3 DEF Followed, Found

LEMMA NotifiesFollow ==
    ASSUME Inv, FollowInv, NEW c \in Callers, Notifies(c)
    PROVE  FollowInv'
<1>1. /\ pc[c] = "notify" /\ trouble' = trouble /\ TypeOK /\ OneCall
      /\ UNCHANGED <<gamedb, disk, mine>> /\ mine \in SUBSET Accounts
      /\ Goto(c, "idle", None)
  BY DEF Notifies, Inv, FollowInv, runtime
<1> SUFFICES ASSUME Mild'
             PROVE  Followed(c)' /\ gamedb' # Absent /\ Found(gamedb)'
  BY <1>1, FollowLeft
<1>2. Phase(c) /\ Followed(c) /\ change[c] \in ConfigChange
  BY <1>1, FollowUnderWay DEF Mild
<1>3. gamedb = GameDir(change[c].new) /\ gamedb \in Places
  BY <1>1, <1>2, ChangeType DEF Phase
<1>4. pc'[c] = "idle"
  BY <1>1 DEF Goto, TypeOK
<1> QED  BY <1>1, <1>2, <1>3, <1>4, AbsentAssumption DEF Followed, Found

LEMMA RestartFollow ==
    ASSUME Inv, FollowInv, Restart
    PROVE  FollowInv'
<1>1. TypeOK /\ Orderly /\ disk \in Disks /\ mine' = mine /\ mine \in SUBSET Accounts
  BY DEF Restart, Inv, FollowInv, TypeOK, Disks
<1>2. Loaded(file) = file /\ file \in Configs /\ GameDir(file) \in Places
  BY <1>1, LiveConfigAssumption, GameDirType DEF Loaded, TypeOK
<1>3. /\ gamedb' = GameDir(file) /\ disk' = Created(disk, GameDir(file))
      /\ \A c \in Callers : pc'[c] = "idle"
      /\ trouble' = IF Idle /\ trouble \subseteq {"merged"} THEN trouble ELSE {"cut"}
  BY <1>2 DEF Restart
<1>4. ASSUME Mild'
      PROVE  gamedb' # Absent /\ Found(gamedb)'
  <2>1. Idle /\ trouble \subseteq {"merged"} /\ trouble' = trouble
    BY <1>3, <1>4 DEF Mild
  <2>2. gamedb = GameDir(file) /\ Found(gamedb)
    BY <1>1, <2>1 DEF Orderly, Calm, Mild, Settled, FollowInv
  <2>3. disk' = disk
    BY <1>1, <1>2, <1>3, <2>2, CreatedAccounts DEF Found
  <2> QED  BY <1>1, <1>2, <1>3, <2>1, <2>2, <2>3, AbsentAssumption DEF Found
<1> QED  BY <1>1, <1>3, <1>4 DEF FollowInv, Followed

LEMMA FollowKept ==
    ASSUME FollowInv, UNCHANGED <<runtime, disk, mine, pc, change, trouble>>
    PROVE  FollowInv'
<1>1. \A c \in Callers : Followed(c)' <=> Followed(c)
  BY DEF Followed, Found, runtime
<1> QED  BY <1>1 DEF FollowInv, Found, Mild, Idle, runtime

\* An account that is put goes where the players' accounts are, at whatever step a call is.
LEMMA PutFollow ==
    ASSUME Inv, FollowInv, NEW a \in Accounts, PutAccount(a)
    PROVE  FollowInv'
<1>1. /\ gamedb # Absent /\ disk' = [disk EXCEPT ![gamedb] = @ \cup {a}] /\ mine' = mine \cup {a}
      /\ UNCHANGED <<live, gamedb, pc, change, trouble>>
  BY DEF PutAccount, others, runtime
<1>2. TypeOK /\ Orderly /\ mine \in SUBSET Accounts
  BY DEF Inv, FollowInv
<1>3. gamedb \in Places /\ disk \in Disks
  BY <1>1, <1>2 DEF TypeOK, Disks
<1>4. Found(gamedb) => Found(gamedb)'
  <2>1. ASSUME Found(gamedb) PROVE Found(gamedb)'
    <3>1. disk[gamedb] \in SUBSET Accounts /\ disk'[gamedb] = disk[gamedb] \cup {a}
      BY <1>1, <1>3, <2>1 DEF Found, Disks
    <3> QED  BY <1>1, <2>1, <3>1, AbsentAssumption DEF Found
  <2> QED  BY <2>1
<1>5. ASSUME Mild, NEW c \in Callers
      PROVE  Followed(c)'
  <2>1. CASE pc[c] = "idle"
    BY <1>1, <2>1 DEF Followed
  <2>2. CASE pc[c] # "idle"
    <3>1. Phase(c) /\ Followed(c)
      BY <1>5, <2>2, FollowUnderWay
    <3>2. CASE pc[c] = "submitted"
      BY <1>1, <1>4, <3>1, <3>2 DEF Phase, Followed, Found
    <3>3. CASE pc[c] \in {"swap", "open", "restore", "reattach", "set", "post"}
      <4>1. gamedb = GameDir(change[c].old) /\ ~GameMoves(change[c])
        BY <1>1, <3>1, <3>3 DEF Phase, Detached
      <4>2. Seat(change[c], pc[c]) = gamedb
        BY <4>1 DEF Seat
      <4>3. Found(gamedb)'
        BY <1>4, <3>1, <3>3, <4>2 DEF Followed
      <4> QED  BY <1>1, <3>1, <3>3, <4>2, <4>3 DEF Followed, Found
    <3>4. CASE pc[c] \in {"save", "notify"}
      BY <1>1, <1>4, <3>1, <3>4 DEF Followed
    <3> QED  BY <1>2, <2>2, <3>2, <3>3, <3>4 DEF TypeOK, Steps
  <2> QED  BY <2>1, <2>2
<1> QED  BY <1>1, <1>2, <1>4, <1>5 DEF FollowInv, Mild, Idle

LEMMA FollowStep == Inv /\ FollowInv /\ [Next]_vars => FollowInv'
<1> SUFFICES ASSUME Inv, FollowInv, [Next]_vars PROVE FollowInv'
  OBVIOUS
<1>1. CASE UNCHANGED vars
  BY <1>1, FollowKept DEF vars
<1>2. CASE Meanwhile
  <2>1. CASE UNCHANGED <<disk, mine>>
    BY <1>2, <2>1, MeanwhileLeaves, FollowKept DEF others
  <2>2. ASSUME NEW a \in Accounts, PutAccount(a)
        PROVE  FollowInv'
    BY <2>2, PutFollow
  <2> QED
    BY <1>2, <2>1, <2>2
       DEF Meanwhile, Arrives, Resolves, Ends, Shows, Accepted, Connects, Leaves, Subscribes,
           TakesSnapshot, SendsSnapshot, Pushes
<1>3. CASE Restart
  BY <1>3, RestartFollow
<1>4. ASSUME NEW c \in Callers, Apply(c)
      PROVE  FollowInv'
  BY <1>4, CallsFollow, NothingChangedFollow, PreSwapFollow, SwapBeginsFollow, BetweenFollow,
     ReattachesFollow, PostSwapFollow, SavesFollow, NotifiesFollow DEF Apply
<1> QED  BY <1>1, <1>2, <1>3, <1>4, NextSplits

LEMMA InitFollow == Init => FollowInv
<1> SUFFICES ASSUME Init PROVE FollowInv
  OBVIOUS
<1>1. GameDir(Default) \in Places
  BY GameDirType, LiveConfigAssumption
<1> QED  BY <1>1, AbsentAssumption DEF Init, FollowInv, Followed, Found

\* However the cache tree and the game database move, alone, one inside the other or over
\* an older one, and also when the new provider is refused after the move, the accounts are
\* where the game server looks: migrate_dir, GameDb::reopen and the catch of apply_config.
\* Not which version of them after a move over an older database, and nothing after a
\* restart that follows a refusal.
THEOREM FollowCorrect == Spec => []AccountsFollow
<1>1. FollowInv => AccountsFollow
  BY DEF FollowInv, AccountsFollow, Mild
<1> QED  BY <1>1, InitFollow, FollowStep, InvHolds, PTL DEF Spec

=============================================================================
