---------------------------- MODULE Relationships ----------------------------
(***************************************************************************)
(* Ownership and lovership between the accounts of the game server:        *)
(* account_ownership and account_lovership of game/account_manager.cpp.    *)
(*                                                                         *)
(* A relation is offered and accepted between members in one room, who     *)
(* hold it in memory, under gs_.mu.  What is agreed is persisted by        *)
(* coroutines that nobody waits for, and that may be overtaken.  Releasing *)
(* somebody who is not in the room, and breaking with a lover, first read  *)
(* the other's account from the database, and go on with what they read.   *)
(* One room is enough to tell members who meet from those who do not.      *)
(*                                                                         *)
(* Whatever else is written of an account, a login's time, looks, a        *)
(* password, rewrites all of it, and with it the relations that were read. *)
(* A write may fail; a read that does only ends what it was for, and is    *)
(* left out.                                                               *)
(*                                                                         *)
(* A bond's stage is 0 for none, 1 for BeginDatingOfferedByMemberNumber,   *)
(* and Stage + 2 else; its offer is for the next stage.  The settings'     *)
(* relationship_delay_ms is one unit of time.  Bonds and owners outside    *)
(* the game (by name alone) are left out.                                  *)
(***************************************************************************)
EXTENDS Naturals, FiniteSets

CONSTANTS Members,    \* member numbers
          Nobody,
          MaxLovers,  \* 5 in the code
          Black,      \* per member: its BlackList
          Extreme,    \* the members whose Difficulty is at level 3
          Begin,      \* what the database may hold at the start
          MaxActs,    \* bound: what clients ask for
          MaxMoves,   \* bound: comings, goings, updates of other fields, and failures
          MaxBoth,    \* bound on the two together
          MaxTime,    \* bound on time
          NoData, Live

Times == 0 .. MaxTime
Own == [owner: Members \cup {Nobody}, stage: {0, 1}, start: Times, offer: Members \cup {Nobody}]
Bond == [stage: 0 .. 4, start: Times, offer: BOOLEAN]
Bonds == [Members -> Bond]
Data == [own: Own, lov: Bonds]

Free == [owner |-> Nobody, stage |-> 0, start |-> 0, offer |-> Nobody]
NoBond == [stage |-> 0, start |-> 0, offer |-> FALSE]

\* What is persisted of bonds: offers are not, nor kept by who persists.
Stripped(l) ==
    [x \in Members |-> IF l[x].stage <= 1 THEN NoBond ELSE [l[x] EXCEPT !.offer = FALSE]]

Lovers(l) == {x \in Members : l[x].stage # 0}

\* Accounts without offers, whose lovers agree and are no more than allowed.
Sound(d) ==
    \A m \in Members :
        /\ d[m].own.owner = Nobody => d[m].own = Free
        /\ Stripped(d[m].lov) = d[m].lov
        /\ Cardinality(Lovers(d[m].lov)) <= MaxLovers
        /\ \A t \in Members : d[m].lov[t].stage = d[t].lov[m].stage

ASSUME RelationshipsAssumption ==
    /\ IsFiniteSet(Members)
    /\ MaxLovers \in Nat \ {0} /\ MaxActs \in Nat /\ MaxMoves \in Nat /\ MaxBoth \in Nat
    /\ MaxTime \in Nat \ {0}
    /\ Black \in [Members -> SUBSET Members] /\ Extreme \subseteq Members
    /\ Begin \subseteq [Members -> Data] /\ \A d \in Begin : Sound(d)
    /\ Nobody \notin Members
    /\ NoData \notin Data \cup Own \cup Bonds /\ Live \notin Data

VARIABLES
    now,      \* the time
    mem,      \* per member online: its account's data, else NoData
    room,     \* who is in the room
    loaded,   \* per member logging in: what its login has read
    stored,   \* the database
    updates,  \* updates of the database under way: of one of a member's two fields; read
              \* is the account it has read
    rewrites, \* updates of the database under way that are of no relation
    errands,  \* releases and breaks under way: by whom, of whom, what it has read (seen);
              \* acc: the session that asked, which holds the data it had when it ended
    acts, moves,   \* history: what was asked for, and what else happened, so far
    crossed   \* history: members of whom two updates were under way at once, one at least
              \* of a relation, or one of a relation failed, or of whom a login or an errand
              \* has used what it read although it was no longer so

relations == <<now, mem, room, loaded, stored, updates, rewrites, errands, acts, moves, crossed>>

RelationsInit ==
    /\ now = 1
    /\ stored \in Begin /\ mem = stored
    /\ room = Members
    /\ loaded = [m \in Members |-> NoData]
    /\ updates = {} /\ rewrites = {} /\ errands = {} /\ acts = 0 /\ moves = 0 /\ crossed = {}

-----------------------------------------------------------------------------

Online == {m \in Members : mem[m] # NoData}
Ripe(start) == start < now
Count(m) == Cardinality(Lovers(mem[m].lov))

PersistOwn(n, m, o) == [id |-> n, who |-> m, own |-> o, lov |-> NoData, read |-> NoData]
PersistLov(n, m, l) == [id |-> n, who |-> m, own |-> NoData, lov |-> l, read |-> NoData]
Pending(m) == {w \in updates : w.who = m}
Rewriting(m) == {w \in rewrites : w.who = m}

\* The members of whose updates W one meets another.
Meeting(W) == {w.who : w \in {x \in W : Pending(x.who) \cup Rewriting(x.who) # {}}}

\* The data ms are set, and W persisted.
Sets(ms, W) ==
    /\ mem' = ms
    /\ updates' = updates \cup W
    /\ crossed' = crossed \cup Meeting(W)

Wants(m) == m \in Online /\ acts < MaxActs /\ acts + moves < MaxBoth /\ acts' = acts + 1
Meet(m, t) == {m, t} \subseteq room

SetOwn(t, o) == Sets([mem EXCEPT ![t].own = o], {PersistOwn(acts + 1, t, o)})

-----------------------------------------------------------------------------
(* account_ownership                                                        *)

\* The submissive breaks: a trial at any time, a collar after the delay.
BreakOwner(m) ==
    /\ Wants(m)
    /\ LET o == mem[m].own
       IN  o.owner # Nobody /\ (o.stage = 0 \/ (Ripe(o.start) /\ m \notin Extreme))
    /\ SetOwn(m, Free)
    /\ UNCHANGED errands

\* The notes on a collared member are persisted with all of its ownership.
UpdateNotes(m, t) ==
    /\ Wants(m) /\ Meet(m, t)
    /\ mem[t].own.owner = m /\ mem[t].own.stage = 1
    /\ SetOwn(t, mem[t].own)
    /\ UNCHANGED errands

ReleasedInMemory(m, t) == Sets([mem EXCEPT ![t].own = Free], {})
Released(m, t) == SetOwn(t, Free)

ReleaseMember(m, t) ==
    /\ Wants(m) /\ Meet(m, t) /\ mem[t].own.owner = m
    /\ Released(m, t)
    /\ UNCHANGED errands

\* The first offer, of a trial, takes the place of an earlier one.
AnyOwner(m, t) == mem[t].own.stage = 0
NoOwner(m, t) == mem[t].own.owner = Nobody

\* The owner offers a collar after the delay.  No offer is persisted.
ProposeOwner(m, t) ==
    /\ Wants(m) /\ Meet(m, t) /\ m # t
    /\ mem[m].own.owner # t /\ m \notin Black[t]
    /\ LET o == mem[t].own
       IN  \/ NoOwner(m, t) /\ Sets([mem EXCEPT ![t].own = [Free EXCEPT !.offer = m]], {})
           \/ /\ o.owner = m /\ o.stage = 0 /\ o.offer = Nobody /\ Ripe(o.start)
              /\ Sets([mem EXCEPT ![t].own.offer = m], {})
    /\ UNCHANGED errands

AcceptOwner(m, t) ==
    /\ Wants(m) /\ Meet(m, t) /\ m \notin Black[t]
    /\ LET o == mem[m].own
       IN  /\ o.owner \in {Nobody, t} /\ o.stage = 0 /\ o.offer = t
           /\ SetOwn(m, [owner |-> t, stage |-> IF o.owner = t THEN 1 ELSE 0, start |-> now,
                         offer |-> Nobody])
    /\ UNCHANGED errands

Job0(k, m, t) == [id |-> acts + 1, kind |-> k, by |-> m, of |-> t, seen |-> NoData, acc |-> Live]

\* Whom is not in the room, the database is asked about.
ReleaseAbsent(m, t) ==
    /\ Wants(m) /\ m \in room /\ t \notin room
    /\ errands' = errands \cup {Job0("release", m, t)}
    /\ UNCHANGED <<mem, updates, crossed>>

-----------------------------------------------------------------------------
(* account_lovership                                                        *)

BreakLover(m, t) ==
    /\ Wants(m)
    /\ LET b == mem[m].lov[t] IN b.stage >= 2 /\ (b.stage = 4 => Ripe(b.start))
    /\ errands' = errands \cup {Job0("break", m, t)}
    /\ UNCHANGED <<mem, updates, crossed>>

TakesOneMore(t) == Count(t) <= MaxLovers
Takes(t) == Count(t) < MaxLovers

ProposeLover(m, t) ==
    /\ Wants(m) /\ Meet(m, t) /\ m # t /\ m \notin Black[t]
    /\ Takes(m) \/ mem[m].lov[t].stage # 0
    /\ LET b == mem[t].lov[m]
       IN  \/ /\ b.stage = 0 /\ Takes(t)
              /\ Sets([mem EXCEPT ![t].lov[m].stage = 1], {})
           \/ /\ b.stage \in {2, 3} /\ ~b.offer /\ Ripe(b.start)
              /\ Sets([mem EXCEPT ![t].lov[m].offer = TRUE], {})
    /\ UNCHANGED errands

HasRoom(m, t) == Takes(t) \/ mem[t].lov[m].stage # 0

\* What accepting the next stage makes of the other's bonds.
NotShared(m, t, b) == mem[t].lov
Shared(m, t, b) ==
    IF b.stage > 2 /\ mem[t].lov[m].stage = 0 THEN mem[t].lov ELSE [mem[t].lov EXCEPT ![m] = b]

AcceptLover(m, t) ==
    /\ Wants(m) /\ Meet(m, t) /\ m \notin Black[t]
    /\ Count(m) <= MaxLovers
    /\ LET b == mem[m].lov[t]
           new == [stage |-> b.stage + 1, start |-> now, offer |-> FALSE]
           mine == Stripped([mem[m].lov EXCEPT ![t] = new])
           theirs == Stripped(Shared(m, t, new))
       IN  /\ \/ b.stage = 1 /\ HasRoom(m, t)
              \/ b.stage \in {2, 3} /\ b.offer
           /\ Sets([mem EXCEPT ![m].lov = mine, ![t].lov = theirs],
                   {PersistLov(acts + 1, m, mine), PersistLov(acts + 1, t, theirs)})
    /\ UNCHANGED errands

-----------------------------------------------------------------------------
(* Jobs                                                                     *)

Reads(j) ==
    /\ j.seen = NoData
    /\ errands' = (errands \ {j}) \cup {[j EXCEPT !.seen = stored[j.of]]}
    /\ UNCHANGED <<mem, updates, crossed>>

\* Whether what j has read of the other is no longer all there is to know.
Stale(j) ==
    \/ Pending(j.of) # {}
    \/ \E d \in {mem[j.of]} \ {NoData} :
          Stripped(d.lov) # j.seen.lov \/ d.own.owner # j.seen.own.owner
    \/ mem[j.of] = NoData /\ stored[j.of] # j.seen

\* The room is that of the session that asked.
FinishRelease(j) ==
    LET W == {PersistOwn(j.id, j.of, Free)}
    IN  IF j.acc = Live /\ j.by \in room /\ j.seen.own.owner = j.by
        THEN /\ mem' = IF j.of \in Online THEN [mem EXCEPT ![j.of].own = Free] ELSE mem
             /\ updates' = updates \cup W
             /\ crossed' = crossed \cup Meeting(W) \cup (IF Stale(j) THEN {j.of} ELSE {})
        ELSE UNCHANGED <<mem, updates, crossed>>

\* The other is set to what was read of it, then the one who asked loses the bond.
FinishBreak(j) ==
    LET m == j.by
        t == j.of
        cut == [j.seen.lov EXCEPT ![m] = NoBond]
        hit == j.seen.lov[m].stage >= 2
        left == IF hit /\ t \in Online THEN [mem EXCEPT ![t].lov = cut] ELSE mem
        own == IF j.acc = Live THEN left[m] ELSE j.acc
        mine == Stripped([own.lov EXCEPT ![t] = NoBond])
        W == (IF hit THEN {PersistLov(j.id, t, Stripped(cut))} ELSE {})
                 \cup (IF m # t THEN {PersistLov(j.id, m, mine)} ELSE {})
    IN  /\ mem' = IF j.acc = Live /\ m # t THEN [left EXCEPT ![m].lov = mine] ELSE left
        /\ updates' = updates \cup W
        /\ crossed' = crossed \cup Meeting(W) \cup (IF Stale(j) THEN {t} ELSE {})
                          \cup (IF j.acc # Live THEN {m} ELSE {})

Finish(j) ==
    /\ j.seen # NoData
    /\ IF j.kind = "release" THEN FinishRelease(j) ELSE FinishBreak(j)
    /\ errands' = errands \ {j}

-----------------------------------------------------------------------------
(* The database, rooms, logins and time                                     *)

\* update_account_fields reads the account, and writes all of it with the field, or
\* throws; nobody catches that.
Moves == moves < MaxMoves /\ acts + moves < MaxBoth /\ moves' = moves + 1

GetAccount(w) ==
    /\ w.read = NoData
    /\ updates' = (updates \ {w}) \cup {[w EXCEPT !.read = stored[w.who]]}
    /\ UNCHANGED <<now, mem, room, loaded, stored, rewrites, errands, acts, moves, crossed>>

PutBack(w) ==
    /\ w.read # NoData
    /\ \/ /\ stored' = [stored EXCEPT ![w.who] =
                            IF w.lov = NoData THEN [w.read EXCEPT !.own = w.own]
                                              ELSE [w.read EXCEPT !.lov = w.lov]]
          /\ UNCHANGED <<crossed, moves>>
       \/ Moves /\ crossed' = crossed \cup {w.who} /\ UNCHANGED stored
    /\ updates' = updates \ {w}
    /\ UNCHANGED <<now, mem, room, loaded, rewrites, errands, acts>>

\* The same for other fields: what was read of the relations is written again.
RewriteGets(w) ==
    /\ w.read = NoData
    /\ rewrites' = (rewrites \ {w}) \cup {[w EXCEPT !.read = stored[w.who]]}
    /\ UNCHANGED <<now, mem, room, loaded, stored, updates, errands, acts, moves, crossed>>

\* A login whose update throws ends there.
RewritePuts(w) ==
    /\ w.read # NoData
    /\ \/ stored' = [stored EXCEPT ![w.who] = w.read] /\ UNCHANGED <<loaded, moves>>
       \/ /\ Moves
          /\ loaded' = IF w.kind = "login" THEN [loaded EXCEPT ![w.who] = NoData] ELSE loaded
          /\ UNCHANGED stored
    /\ rewrites' = rewrites \ {w}
    /\ UNCHANGED <<now, mem, room, updates, errands, acts, crossed>>


\* Such an update begins.
Met(m) == IF Pending(m) # {} THEN crossed \cup {m} ELSE crossed
Rewrites(kind, n, m) ==
    /\ rewrites' = rewrites \cup {[kind |-> kind, n |-> n, who |-> m, read |-> NoData]}
    /\ crossed' = Met(m)

\* Of what the member asks, of its looks, by the timer, or of its password, by anybody.
UpdateField(m) ==
    /\ Moves
    /\ Rewrites("update", moves + 1, m)
    /\ UNCHANGED <<now, mem, room, loaded, stored, updates, errands, acts>>

Enter(m) ==
    /\ Moves /\ m \in Online
    /\ room' = IF m \in room THEN room \ {m} ELSE room \cup {m}
    /\ UNCHANGED <<now, mem, loaded, stored, updates, rewrites, errands, acts, crossed>>

\* remove_account; looks that were delayed are written.
Logout(m) ==
    /\ Moves /\ m \in Online
    /\ Rewrites("logout", moves + 1, m) \/ UNCHANGED <<rewrites, crossed>>
    /\ mem' = [mem EXCEPT ![m] = NoData]
    /\ room' = room \ {m}
    /\ errands' = {IF j.by = m /\ j.acc = Live THEN [j EXCEPT !.acc = mem[m]] ELSE j : j \in errands}
    /\ UNCHANGED <<now, loaded, stored, updates, acts>>

\* A login reads the account, and updates LastLogin.
LogIn(m) ==
    /\ Moves /\ m \notin Online /\ loaded[m] = NoData
    /\ loaded' = [loaded EXCEPT ![m] = stored[m]]
    /\ Rewrites("login", moves + 1, m)
    /\ UNCHANGED <<now, mem, room, stored, updates, errands, acts>>

\* It goes on when that is written.
Seated(m) ==
    /\ loaded[m] # NoData
    /\ \A w \in Rewriting(m) : w.kind # "login"
    /\ mem' = [mem EXCEPT ![m] = loaded[m]]
    /\ loaded' = [loaded EXCEPT ![m] = NoData]
    /\ crossed' = IF Pending(m) # {} \/ stored[m] # loaded[m] THEN crossed \cup {m} ELSE crossed
    /\ UNCHANGED <<now, room, stored, updates, rewrites, errands, acts, moves>>

Tick ==
    /\ now < MaxTime
    /\ now' = now + 1
    /\ UNCHANGED <<mem, room, loaded, stored, updates, rewrites, errands, acts, moves, crossed>>

-----------------------------------------------------------------------------

Ownership(m, t) ==
    ReleaseAbsent(m, t) \/ UpdateNotes(m, t) \/ ReleaseMember(m, t) \/ ProposeOwner(m, t) \/ AcceptOwner(m, t)
Lovership(m, t) == BreakLover(m, t) \/ ProposeLover(m, t) \/ AcceptLover(m, t)

RelationsNext ==
    \/ /\ \/ \E m \in Members : BreakOwner(m)
          \/ \E m, t \in Members : Ownership(m, t) \/ Lovership(m, t)
       /\ UNCHANGED <<now, room, loaded, stored, rewrites, moves>>
    \/ /\ \E j \in errands : Reads(j) \/ Finish(j)
       /\ UNCHANGED <<now, room, loaded, stored, rewrites, acts, moves>>
    \/ \E w \in updates : GetAccount(w) \/ PutBack(w)
    \/ \E w \in rewrites : RewriteGets(w) \/ RewritePuts(w)
    \/ \E m \in Members : UpdateField(m) \/ Enter(m) \/ Logout(m) \/ LogIn(m) \/ Seated(m)
    \/ Tick

RelationsSpec == RelationsInit /\ [][RelationsNext]_relations

-----------------------------------------------------------------------------
(* Properties                                                               *)

\* With none of its updates under way, the database has of a member's relations what
\* is agreed in memory: nothing agreed is forgotten, and nothing ended comes back,
\* at the next login.
Settled ==
    \A m \in Online \ crossed : Pending(m) = {} =>
        /\ stored[m].lov = Stripped(mem[m].lov)
        /\ [stored[m].own EXCEPT !.offer = Nobody] = [mem[m].own EXCEPT !.offer = Nobody]

Stage(m, t) == LET s == IF m \in Online THEN mem[m].lov[t].stage ELSE stored[m].lov[t].stage
               IN  IF s = 1 THEN 0 ELSE s

\* Two members are lovers of one another, at the same stage, or not at all, through
\* offers that cross, breaks and logins; except while one's updates are under way.
LoversAgree ==
    \A m, t \in Members \ crossed :
        Pending(m) = {} /\ Pending(t) = {} => Stage(m, t) = Stage(t, m)

\* However offers cross, nobody has more lovers and offers than are allowed.
WithinLimit == \A m \in Online : Count(m) <= MaxLovers

\* Nobody passes from one owner to another without being free in between, becomes
\* owned but by whose offer it holds, or loses an owner to somebody's offer.
OwnersChange ==
    [][\A m \in Members : mem[m] # NoData /\ mem'[m] # NoData =>
          LET o == mem[m].own
              p == mem'[m].own
          IN  o.owner # p.owner => \/ p = Free
                                   \/ o.owner = Nobody /\ p.owner = o.offer /\ p.stage = 0
      ]_relations
=============================================================================
