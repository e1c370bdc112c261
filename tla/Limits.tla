------------------------------- MODULE Limits -------------------------------
(***************************************************************************)
(* What the game server counts against the clock: the connections of an    *)
(* address (register_ip_connection and remove of socketio/server.cpp), the *)
(* events of a connection (dispatch_event of socketio/connection.cpp), and *)
(* the accounts created from an address (account_create of game/           *)
(* account_manager.cpp), under limits the settings change while it runs.   *)
(*                                                                         *)
(* A connection's strand does one thing at a time, and takes ip_mu_ anew   *)
(* for each of the two tables of addresses: what others do comes between.  *)
(* The clock is the system's, taken to go on.                              *)
(***************************************************************************)
EXTENDS Naturals, Sequences, SequencesExt, FiniteSets, FiniteSetsExt

CONSTANTS
    Sockets, Addresses,
    Home,          \* the address a connection comes from
    Second, Hour,  \* 1000 ms and 3600000 ms, in ticks
    Settings,      \* the settings the panel may store
    MaxTime,       \* bound: the last tick
    MaxChanges,    \* bound: changes of the settings
    MaxActs        \* bound: events and accounts created in a run

ASSUME LimitsAssumption ==
    /\ Home \in [Sockets -> Addresses]
    /\ {Second, Hour, MaxTime, MaxChanges, MaxActs} \subseteq Nat
    /\ Settings \subseteq [conns: Nat, rate: Nat \ {0}, msgs: Nat, perDay: Nat, perHour: Nat]
    /\ Settings # {} /\ IsFiniteSet(Settings)

\* The clock is long past zero when the server starts.
Start == Hour + Second + 1

VARIABLES
    now,
    limits,       \* TransportLimits, and of the GameServerConfig what counts here
    at,           \* a connection: "new", "counted", "open", "dropped", "leaving", "gone"
    kept,         \* ip_connections_: times, oldest first
    listed,       \* ip_by_sid_: the connections in it
    bucket,       \* msg_bucket_
    creations,    \* account_creation_ip_
    \* history
    accepted,     \* by address, all times a connection was accepted
    openedAt,     \* by connection
    events,       \* by connection, the times of its events
    changes, acts,
    highest       \* the most that the settings allowed so far, each by itself

conns == <<at, kept, listed, bucket, accepted, openedAt, events>>
settings == <<limits, highest, changes>>
limitsVars == <<now, settings, acts, conns, creations>>

\* The bound on what is done besides coming and going.
Acts == acts < MaxActs /\ acts' = acts + 1

\* dispatch_event takes no limit under one.
Clamp(l) == IF l < 1 THEN 1 ELSE l

\* Every bucket is fitted to the limit at its first event, whatever it was made for.
LimitsInit ==
    /\ now = Start
    /\ limits \in Settings /\ highest = limits /\ changes = 0 /\ acts = 0
    /\ at = [c \in Sockets |-> "new"]
    /\ kept = [a \in Addresses |-> <<>>] /\ listed = {}
    /\ bucket = [c \in Sockets |-> [i \in 1 .. limits.msgs |-> 0]]
    /\ creations = <<>>
    /\ accepted = [a \in Addresses |-> <<>>]
    /\ openedAt = [c \in Sockets |-> 0] /\ events = [c \in Sockets |-> <<>>]

-----------------------------------------------------------------------------
(* Settings and time                                                        *)

\* GameApp::update_settings: the next use of a limit finds the new one.
SetLimits ==
    /\ \E s \in Settings :
        /\ s # limits
        /\ limits' = s
        /\ highest' = [k \in DOMAIN s |-> Max({highest[k], s[k]})]
    /\ changes < MaxChanges /\ changes' = changes + 1
    /\ UNCHANGED <<now, acts, conns, creations>>

Tick ==
    /\ now < MaxTime
    /\ now' = now + 1
    /\ UNCHANGED <<settings, acts, conns, creations>>

-----------------------------------------------------------------------------
(* Connections of an address                                                *)

OverRateByOne(v) == Len(v) > limits.rate /\ now - v[Len(v) - limits.rate] <= Second

\* The rate-th newest of the times kept is within the last second.
OverRate(v) == Len(v) >= limits.rate /\ now - v[Len(v) - limits.rate + 1] <= Second

Accepts(v) == Len(v) < limits.conns /\ ~OverRate(v)

\* register_ip_connection, on CONNECT; who is refused is told, and disconnected.
Register(c) ==
    /\ at[c] = "new"
    /\ LET a == Home[c]
       IN  IF Accepts(kept[a])
           THEN /\ kept' = [kept EXCEPT ![a] = Append(@, now)]
                /\ accepted' = [accepted EXCEPT ![a] = Append(@, now)]
                /\ openedAt' = [openedAt EXCEPT ![c] = now]
                /\ at' = [at EXCEPT ![c] = "counted"]
           ELSE /\ at' = [at EXCEPT ![c] = "dropped"]
                /\ UNCHANGED <<kept, accepted, openedAt>>
    /\ UNCHANGED <<now, settings, acts, listed, bucket, events, creations>>

\* on_connection, then the connect handler.
Lists(c) ==
    /\ at[c] = "counted"
    /\ listed' = listed \cup {c}
    /\ at' = [at EXCEPT ![c] = "open"]
    /\ UNCHANGED <<now, settings, acts, kept, bucket, accepted, openedAt, events, creations>>

\* do_disconnect of an open connection, for the client's reasons.
Leaves(c) ==
    /\ at[c] = "open"
    /\ at' = [at EXCEPT ![c] = "dropped"]
    /\ UNCHANGED <<now, settings, acts, kept, listed, bucket, accepted, openedAt, events, creations>>

\* remove: only who is listed gives its place back.
Unlists(c) ==
    /\ at[c] = "dropped"
    /\ listed' = listed \ {c}
    /\ at' = [at EXCEPT ![c] = IF c \in listed THEN "leaving" ELSE "gone"]
    /\ UNCHANGED <<now, settings, acts, kept, bucket, accepted, openedAt, events, creations>>

ReleasedNewest(v) == IF Len(v) <= 1 THEN <<>> ELSE Front(v)

\* release_ip_connection: the oldest time goes, whosever it is.
Released(v) == IF Len(v) <= 1 THEN <<>> ELSE Tail(v)

Release(c) ==
    /\ at[c] = "leaving"
    /\ kept' = [kept EXCEPT ![Home[c]] = Released(@)]
    /\ at' = [at EXCEPT ![c] = "gone"]
    /\ UNCHANGED <<now, settings, acts, listed, bucket, accepted, openedAt, events, creations>>

-----------------------------------------------------------------------------
(* Events of a connection                                                   *)

FittedFront(b, l) ==
    IF Len(b) > l THEN SubSeq(b, 1, l)
                  ELSE [i \in 1 .. l - Len(b) |-> 0] \o b

\* The bucket made to fit the limit: its oldest go, or zeros come before them.
Fitted(b, l) ==
    IF Len(b) > l THEN SubSeq(b, Len(b) - l + 1, Len(b))
                  ELSE [i \in 1 .. l - Len(b) |-> 0] \o b

\* dispatch_event
Event(c) ==
    /\ at[c] = "open" /\ Acts
    /\ LET b == Fitted(bucket[c], Clamp(limits.msgs))
       IN  /\ bucket' = [bucket EXCEPT ![c] = Append(Tail(b), now)]
           /\ at' = [at EXCEPT ![c] = IF now - Head(b) <= Second THEN "dropped" ELSE @]
    /\ events' = [events EXCEPT ![c] = Append(@, now)]
    /\ UNCHANGED <<now, settings, kept, listed, accepted, openedAt, creations>>

-----------------------------------------------------------------------------
(* Accounts                                                                 *)

Of(a) == {i \in DOMAIN creations : creations[i].address = a}
LastHour(a) == {i \in Of(a) : creations[i].time >= now - Hour}

MayCreate(a) == Cardinality(Of(a)) < limits.perDay /\ Cardinality(LastHour(a)) < limits.perHour

\* account_create up to its first wait, or its answer that there were too many: a coroutine
\* of its own, which the connection may not outlive (and then nothing is counted).
CreateAccount(c) ==
    /\ at[c] \notin {"new", "counted"} /\ Acts
    /\ MayCreate(Home[c])
    /\ creations' = Append(creations, [address |-> Home[c], time |-> now])
    /\ UNCHANGED <<now, settings, conns>>

-----------------------------------------------------------------------------

Connection(c) ==
    \/ Register(c) \/ Lists(c) \/ Leaves(c) \/ Unlists(c) \/ Release(c)
    \/ Event(c) \/ CreateAccount(c)

LimitsNext ==
    \/ Tick \/ SetLimits
    \/ \E c \in Sockets : Connection(c)

LimitsSpec == LimitsInit /\ [][LimitsNext]_limitsVars

-----------------------------------------------------------------------------
(* Properties                                                               *)

\* The connections that hold a place of the address.
Holders(a) == {c \in Sockets : Home[c] = a /\ (c \in listed \/ at[c] \in {"counted", "leaving"})}

\* Through refusals, and departures whose two steps others come between, an address has as
\* many times as connections that hold a place; and they are its latest, in order, so that the
\* rate is measured from what came last, whoever left.
KeptAreLatest ==
    \A a \in Addresses :
        /\ Len(kept[a]) = Cardinality(Holders(a))
        /\ IsSuffix(kept[a], accepted[a])

\* Whatever the settings were in the meantime, an address has no more connections open than the
\* most they allowed, and no more of these were opened within a second than the most they allowed.
OpenWithinLimits ==
    \A a \in Addresses :
        /\ Cardinality(Holders(a)) <= highest.conns
        /\ \A t \in Start .. now :
            Cardinality({c \in Holders(a) : openedAt[c] \in t .. t + Second}) <= highest.rate

\* As the comment in dispatch_event says, an event drops the client exactly when it is more than the
\* limit within a second: resizing the bucket forgets no event that counts, and makes up none.
Flood(c) == Cardinality({i \in DOMAIN events[c] : now - events[c][i] <= Second}) >= Clamp(limits.msgs)
DroppedExactly ==
    [][\A c \in Sockets :
        Len(events'[c]) > Len(events[c]) => (at'[c] = "dropped" <=> Flood(c))]_limitsVars

\* Likewise, however creations and changes of the settings fall, an address creates no more accounts in the
\* server's life, and in an hour, than the most the settings allowed.
CreationsBounded ==
    \A a \in Addresses :
        /\ Cardinality(Of(a)) <= highest.perDay
        /\ \A t \in Start .. now :
            Cardinality({i \in Of(a) : creations[i].time \in t .. t + Hour}) <= highest.perHour

\* The settings' limits on connections, their rate and accounts hold, each as the most it was.
WithinLimits == OpenWithinLimits /\ CreationsBounded
=============================================================================
