------------------------------ MODULE ChatRooms ------------------------------
(***************************************************************************)
(* The game server's chat rooms: game/chatroom_manager.cpp, with what the  *)
(* accounts (GameAccounts) do to them by seating and removing sessions,    *)
(* and the socket rooms of socketio/server.cpp that carry their messages.  *)
(*                                                                         *)
(* A connection's events run on its strand, each under gs_.mu from the     *)
(* look-up of the account to the last message, so that a handler is one    *)
(* step.  remove_account is three: it finds the account, takes it out of   *)
(* its room (the hook), and erases it.  A strand runs it on disconnect,    *)
(* and the login coroutine for a session that a new login replaces, while  *)
(* that session's strand goes on.                                          *)
(*                                                                         *)
(* Messages are posted to a connection's strand in the order of the steps, *)
(* so a client's picture of its room, view, is kept as it will be once it  *)
(* has them all.  Everybody is in one environment; of an account, Look is  *)
(* Appearance; rooms are found by names, which differ in case.  A room     *)
(* whose memory is freed may be made again; what a session whose room was  *)
(* freed under it does there (it is undefined) is left out.                *)
(***************************************************************************)
EXTENDS Naturals, Sequences, SequencesExt, Subsequences

CONSTANTS Conns,      \* connections, and their ids
          Members,    \* member numbers
          Sessions,   \* OnlineAccounts
          Rooms,      \* rooms, each made once
          Names,      \* of rooms, without blanks around them
          Upper(_),   \* toupper
          Offers,     \* room settings that clients send
          Prefs,      \* per member: who may change its items
          MaxEdits,   \* bound: administrative actions and changes of looks
          Login,      \* the login coroutine
          NoConn, NoMember, NoSession, NoRoom, NoData

Removers == Conns \cup {Login}
RoomData == [name: Names, admin: SUBSET Members, ban: SUBSET Members, white: SUBSET Members,
             locked: BOOLEAN, limit: Nat]

ASSUME RoomsAssumption ==
    /\ \A n \in Names : Upper(n) \in Names /\ Upper(Upper(n)) = Upper(n)
    /\ Offers \subseteq RoomData /\ MaxEdits \in Nat
    /\ Prefs \in [Members -> [perm: 0 .. 5, owner: Members \cup {NoMember}, lovers: SUBSET Members,
                              black: SUBSET Members, white: SUBSET Members, dominant: Nat]]
    /\ Login \notin Conns /\ NoConn \notin Conns /\ NoMember \notin Members
    /\ NoSession \notin Sessions /\ NoRoom \notin Rooms /\ NoData \notin RoomData

VARIABLES
    link,      \* per connection: "open", or "closing" once do_disconnect has begun
    bySocket,  \* GameState's by_socket
    sock, member,  \* per session: its connection and number, once it is made
    gs,        \* the rest of GameState (at: per session its chat_room; rooms: chat_rooms;
               \* data, members: per room), hub: per room its connections, view: per
               \* client the numbers it knows, and (history) mixed: rooms that held two
               \* sessions of a connection or of a member, or one whose connection was
               \* in another room too
    rm,        \* per strand, and for the login: its remove_account: "none", or the step
               \* it is at ("find", "hook", "erase"), of which connection and session
    login,     \* what the login coroutine is to seat: NoSession, or a session
    look, delayed, handed,   \* per session, by number, 0 before the first: the look it was last given to keep,
               \* delayed_appearance, and what was last handed to a detached write of the
               \* database; what comes of that is GameAccounts' matter
    \* history
    edits,     \* administrative actions and changes of looks so far
    removed,   \* sessions erased from by_socket
    replaced   \* those of them that a login removed

online == <<bySocket, sock, member>>
looks == <<look, delayed, handed>>
history == <<edits, removed, replaced>>
roomsVars == <<link, online, gs, rm, login, looks, history>>

NoRemoval == [step |-> "none", id |-> NoConn, acc |-> NoSession]

RoomsInit ==
    /\ link = [c \in Conns |-> "open"]
    /\ bySocket = [c \in Conns |-> NoSession]
    /\ sock = [s \in Sessions |-> NoConn]
    /\ member = [s \in Sessions |-> NoMember]
    /\ gs = [at |-> [s \in Sessions |-> NoRoom], rooms |-> {},
             data |-> [r \in Rooms |-> NoData], members |-> [r \in Rooms |-> <<>>],
             hub |-> [r \in Rooms |-> {}], view |-> [c \in Conns |-> <<>>],
           mixed |-> {}]
    /\ rm = [x \in Removers |-> NoRemoval]
    /\ login = NoSession
    /\ look = [s \in Sessions |-> 0] /\ delayed = look /\ handed = look
    /\ edits = 0 /\ removed = {} /\ replaced = {}

-----------------------------------------------------------------------------
(* Helpers that hold gs_.mu                                                 *)

\* The session whose event connection c's strand handles.
Handling(c, s) ==
    /\ link[c] = "open" /\ rm[c] = NoRemoval
    /\ bySocket[c] = s /\ s # NoSession

Numbers(q) == [i \in 1 .. Len(q) |-> member[q[i]]]
Present(r, m) == \E i \in 1 .. Len(gs.members[r]) : member[gs.members[r][i]] = m

\* emit_to_room, except to x: what a message makes of its readers' views.
Told(v, C, now) == [c \in Conns |-> IF c \in C THEN now[c] ELSE v[c]]

\* Who remains in the room when s leaves it, and who hears the room then.
AllButFirst(g, s) == Tail(g.members[g.at[s]])
Remaining(g, s) == Without(g.members[g.at[s]], {t \in Sessions : sock[t] = sock[s]})
StillHears(g, s) == g.hub[g.at[s]]
Hears(g, s) == g.hub[g.at[s]] \ {sock[s]}

\* room_remove_locked: the room's last member takes the room along.
Left(g, s) ==
    LET r == g.at[s]
        rest == Remaining(g, s)
        without == [c \in Conns |-> Without(g.view[c], {member[s]})]
    IN  IF r = NoRoom THEN g
        ELSE [g EXCEPT !.at[s] = NoRoom,
                       !.members[r] = rest,
                       !.hub[r] = Hears(g, s),
                       !.rooms = IF rest = <<>> THEN @ \ {r} ELSE @,
                       !.data[r] = IF rest = <<>> THEN NoData ELSE @,
                       !.view = [Told(@, Hears(g, s), without) EXCEPT ![sock[s]] = <<>>]]

\* The account joins, the others are told, and it is sent the whole.
Entered(g, s, r) ==
    LET all == Append(g.members[r], s)
        more == [c \in Conns |-> Append(g.view[c], member[s])]
        also == {q \in Rooms : sock[s] \in g.hub[q]}
        twice == also # {} \/ \E t \in ToSet(g.members[r]) : member[t] = member[s]
    IN  [g EXCEPT !.at[s] = r,
                  !.members[r] = all,
                  !.hub[r] = @ \cup {sock[s]},
                  !.view = [Told(@, g.hub[r], more) EXCEPT ![sock[s]] = Numbers(all)],
                  !.mixed = IF twice THEN @ \cup also \cup {r} ELSE @]

\* What a member says reaches the room: chat and games.
Audience(s) == gs.hub[gs.at[s]]

\* Its expression, pose, arousal and place on the map reach the others.
Relayed(s) == Audience(s) \ {sock[s]}

HasRole(m, d) == ~d.locked \/ m \in d.admin \/ m \in d.white
Full(r) == Len(gs.members[r]) >= gs.data[r].limit

\* Rooms are found by name in either case.
Named(n) == {r \in gs.rooms : Upper(gs.data[r].name) = Upper(n)}

-----------------------------------------------------------------------------
(* Rooms: ChatRoomCreate, ChatRoomJoin, ChatRoomLeave                       *)

Create(c, s) ==
    /\ Handling(c, s)
    /\ \E o \in Offers, r \in Rooms :
          /\ Named(o.name) = {} /\ gs.data[r] = NoData /\ \A t \in Sessions : gs.at[t] # r
          /\ \E d \in {o, [o EXCEPT !.admin = {member[s]}]} :
                gs' = Entered([Left(gs, s) EXCEPT !.rooms = @ \cup {r}, !.data[r] = d], s, r)
    /\ UNCHANGED <<link, online, rm, login, looks, edits, removed, replaced>>

\* What ChatRoomJoin answers to s for the room r, found by its name.
Answer(r, s) ==
    IF Full(r) THEN "RoomFull"
    ELSE IF member[s] \in gs.data[r].ban THEN "RoomBanned"
    ELSE IF ~HasRole(member[s], gs.data[r]) THEN "RoomLocked"
    ELSE IF gs.at[s] = r THEN "AlreadyInRoom" ELSE "JoinedRoom"

Join(c, s) ==
    /\ Handling(c, s)
    /\ \E n \in Names : \E r \in Named(n) :
          /\ Answer(r, s) = "JoinedRoom"
          /\ gs' = Entered(Left(gs, s), s, r)
    /\ UNCHANGED <<link, online, rm, login, looks, history>>

Leave(c, s) ==
    /\ Handling(c, s) /\ gs.at[s] # NoRoom
    /\ gs' = Left(gs, s)
    /\ UNCHANGED <<link, online, rm, login, looks, history>>

\* ChatRoomSearch, with or without full rooms: what is listed, and as what one can join.
Listed(r, s, full) == r \in gs.rooms /\ (full \/ ~Full(r)) /\ member[s] \notin gs.data[r].ban
CanJoin(r, s) == HasRole(member[s], gs.data[r])

-----------------------------------------------------------------------------
(* ChatRoomAdmin                                                            *)

Administers(c, s, r) ==
    /\ Handling(c, s) /\ edits < MaxEdits
    /\ r = gs.at[s] /\ r \in gs.rooms
    /\ member[s] \in gs.data[r].admin

Edited == edits' = edits + 1 /\ UNCHANGED <<removed, replaced>>

\* Another room has the name: asked only if the name is not the room's in capitals.
TakenExactly(r, n) == \E o \in gs.rooms \ {r} : gs.data[o].name = n
Taken(r, n) ==
    \E o \in gs.rooms \ {r} :
        Upper(gs.data[r].name) # n /\ Upper(gs.data[o].name) = Upper(n)

Update(c, s) ==
    /\ \E r \in Rooms, o \in Offers :
          /\ Administers(c, s, r)
          /\ ~Taken(r, o.name)
          /\ gs' = [gs EXCEPT !.data[r] = o]
    /\ Edited
    /\ UNCHANGED <<link, online, rm, login, looks>>

ReorderedQuietly(r, q) == [gs EXCEPT !.members[r] = q]
Reordered(r, q) == [gs EXCEPT !.members[r] = q, !.view = Told(@, gs.hub[r], [c \in Conns |-> Numbers(q)])]

\* Swap of two members, MoveLeft and MoveRight of one, or Shuffle.
Reorder(c, s) ==
    /\ \E r \in Rooms :
          /\ Administers(c, s, r)
          /\ \E q \in SetToSeqs(ToSet(gs.members[r])) :
                /\ Len(q) = Len(gs.members[r])
                /\ gs' = Reordered(r, q)
    /\ Edited
    /\ UNCHANGED <<link, online, rm, login, looks>>

\* The first member of the room with number m.
First(r, m) == gs.members[r][CHOOSE i \in 1 .. Len(gs.members[r]) :
                    /\ member[gs.members[r][i]] = m
                    /\ \A k \in 1 .. i - 1 : member[gs.members[r][k]] # m]

\* A message to one member, by the member's own connection.
Whispered(s, m) == IF Present(gs.at[s], m) THEN {sock[First(gs.at[s], m)]} ELSE {}

Ban(c, s) ==
    /\ \E r \in Rooms, m \in Members \ {member[s]} :
          /\ Administers(c, s, r)
          /\ LET g == [gs EXCEPT !.data[r].ban = @ \cup {m}]
             IN  gs' = IF Present(r, m) THEN Left(g, First(r, m)) ELSE g
    /\ Edited
    /\ UNCHANGED <<link, online, rm, login, looks>>

Kick(c, s) ==
    /\ \E r \in Rooms, m \in Members \ {member[s]} :
          /\ Administers(c, s, r) /\ Present(r, m)
          /\ gs' = Left(gs, First(r, m))
    /\ Edited
    /\ UNCHANGED <<link, online, rm, login, looks>>

\* Unban spares whoever is there; the other lists are changed for anybody, Admin
\* only for who is there.
Enlist(c, s) ==
    /\ \E r \in Rooms, m \in Members \ {member[s]} :
          /\ Administers(c, s, r)
          /\ \/ ~Present(r, m) /\ gs' = [gs EXCEPT !.data[r].ban = @ \ {m}]
             \/ Present(r, m) /\ \/ gs' = [gs EXCEPT !.data[r].admin = @ \cup {m}]
                                 \/ gs' = [gs EXCEPT !.data[r].admin = @ \ {m}]
             \/ gs' = [gs EXCEPT !.data[r].white = @ \cup {m}]
             \/ gs' = [gs EXCEPT !.data[r].white = @ \ {m}]
    /\ Edited
    /\ UNCHANGED <<link, online, rm, login, looks>>

-----------------------------------------------------------------------------
(* ChatRoomCharacterUpdate: looks, one's own or of another in the room      *)

\* get_allow_item: whether a member m may change what target wears.
AllowItem(m, target) ==
    LET p == Prefs[target]
        near == m \in p.white \/ m \in p.lovers
    IN  \/ p.perm = 0 \/ m = target \/ m = p.owner
        \/ p.perm = 1 /\ m \notin p.black
        \/ p.perm = 2 /\ m \notin p.black /\ (Prefs[m].dominant + 25 >= p.dominant \/ near)
        \/ p.perm = 3 /\ near
        \/ p.perm = 4 /\ m \in p.lovers

\* ChatRoomCharacterItemUpdate: a change to an item of m, told to the others.
ItemTold(s, m) ==
    IF \/ member[s] \in gs.data[gs.at[s]].ban
       \/ Present(gs.at[s], m) /\ ~AllowItem(member[s], m)
    THEN {} ELSE Relayed(s)

Dress(c, s) ==
    /\ Handling(c, s) /\ gs.at[s] \in gs.rooms
    /\ member[s] \notin gs.data[gs.at[s]].ban
    /\ \E i \in 1 .. Len(gs.members[gs.at[s]]) :
          LET t == gs.members[gs.at[s]][i]
          IN  /\ AllowItem(member[s], member[t])
              /\ edits < MaxEdits
              /\ look' = [look EXCEPT ![t] = edits + 1]
              /\ delayed' = [delayed EXCEPT ![t] = edits + 1]
    /\ Edited
    /\ UNCHANGED <<link, online, gs, rm, login, handed>>

Online(s) == \E c \in Conns : bySocket[c] = s
HandsOnce(S) == [s \in Sessions |-> IF s \in S /\ handed[s] = 0 THEN delayed[s] ELSE handed[s]]
HandsOver(S) == [s \in Sessions |-> IF s \in S /\ delayed[s] # 0 THEN delayed[s] ELSE handed[s]]

\* flush_delayed_updates: for whoever is online that has one, a write of the look begins.
Flush ==
    /\ handed' = HandsOver({s \in Sessions : Online(s)})
    /\ delayed' = [s \in Sessions |-> IF Online(s) THEN 0 ELSE delayed[s]]
    /\ UNCHANGED <<link, online, gs, rm, login, look, history>>

-----------------------------------------------------------------------------
(* Accounts come and go                                                     *)

Fresh(s) == sock[s] = NoConn

\* A login of m by connection c: a session m has is to be removed first.
StartLogin(s, c, m) ==
    /\ login = NoSession /\ Fresh(s) /\ link[c] = "open"
    /\ login' = s
    /\ sock' = [sock EXCEPT ![s] = c]
    /\ member' = [member EXCEPT ![s] = m]
    /\ \/ /\ \A d \in Conns : bySocket[d] # NoSession => member[bySocket[d]] # m
          /\ UNCHANGED rm
       \/ \E d \in Conns :
             /\ bySocket[d] # NoSession /\ member[bySocket[d]] = m
             /\ rm' = [rm EXCEPT ![Login] = [step |-> "find", id |-> d, acc |-> NoSession]]
    /\ UNCHANGED <<link, bySocket, gs, looks, history>>

SeatLogin ==
    /\ login # NoSession /\ rm[Login] = NoRemoval
    /\ bySocket' = [bySocket EXCEPT ![sock[login]] = login]
    /\ login' = NoSession
    /\ UNCHANGED <<link, sock, member, gs, rm, looks, history>>

\* remove_account(i): the account is found, leaves its room, and is erased.
FindsAccountOnly(x, i) ==
    rm' = [rm EXCEPT ![x] = IF bySocket[i] = NoSession THEN NoRemoval
                            ELSE [step |-> "erase", id |-> i, acc |-> bySocket[i]]]
FindsAccount(x, i) ==
    rm' = [rm EXCEPT ![x] = IF bySocket[i] = NoSession THEN NoRemoval
                            ELSE [step |-> "hook", id |-> i, acc |-> bySocket[i]]]

Found ==
    /\ rm[Login].step = "find"
    /\ FindsAccount(Login, rm[Login].id)
    /\ UNCHANGED <<link, online, gs, login, looks, history>>

Hook(x) ==
    /\ rm[x].step = "hook"
    /\ gs' = Left(gs, rm[x].acc)
    /\ rm' = [rm EXCEPT ![x].step = "erase"]
    /\ UNCHANGED <<link, online, login, looks, history>>

Erase(x) ==
    /\ rm[x].step = "erase"
    /\ bySocket' = [bySocket EXCEPT ![rm[x].id] = NoSession]
    /\ handed' = HandsOver({rm[x].acc})
    /\ rm' = [rm EXCEPT ![x] = NoRemoval]
    /\ removed' = removed \cup {rm[x].acc}
    /\ replaced' = IF x = Login THEN replaced \cup {rm[x].acc} ELSE replaced
    /\ UNCHANGED <<link, sock, member, gs, login, look, delayed, edits>>

RemoveAccount(x) == Hook(x) \/ Erase(x)

Removes(c) ==
    /\ link[c] = "open" /\ rm[c] = NoRemoval
    /\ FindsAccount(c, c)
    /\ UNCHANGED <<online, gs, login, looks, history>>

\* AccountDisconnect, and do_disconnect: the latter leaves the socket rooms last.
AccountDisconnect(c) == bySocket[c] # NoSession /\ Removes(c) /\ UNCHANGED link
DoDisconnect(c) == Removes(c) /\ link' = [link EXCEPT ![c] = "closing"]

LeaveHub(c) ==
    /\ link[c] = "closing" /\ rm[c] = NoRemoval
    /\ gs' = [gs EXCEPT !.hub = [r \in Rooms |-> @[r] \ {c}]]
    /\ link' = [link EXCEPT ![c] = "closed"]
    /\ UNCHANGED <<online, rm, login, looks, history>>

-----------------------------------------------------------------------------

RoomStep(c, s) == Create(c, s) \/ Join(c, s) \/ Leave(c, s)
ChatRoomAdmin(c, s) == Update(c, s) \/ Reorder(c, s) \/ Ban(c, s) \/ Kick(c, s) \/ Enlist(c, s)

RoomsNext ==
    \/ \E c \in Conns, s \in Sessions : RoomStep(c, s) \/ ChatRoomAdmin(c, s) \/ Dress(c, s)
    \/ \E s \in Sessions, c \in Conns, m \in Members : StartLogin(s, c, m)
    \/ Found \/ SeatLogin
    \/ \E x \in Removers : RemoveAccount(x)
    \/ \E c \in Conns : AccountDisconnect(c) \/ DoDisconnect(c) \/ LeaveHub(c)
    \/ Flush

RoomsSpec == RoomsInit /\ [][RoomsNext]_roomsVars

-----------------------------------------------------------------------------
(* Properties                                                               *)

Sound == Rooms \ gs.mixed

\* A room's list of members and the members' chat_room agree, through joins that
\* leave another room, kicks, bans and disconnects; a room is there exactly while
\* it has members, and never holds one twice.
MembershipAgrees ==
    \A r \in Sound :
        /\ \A s \in Sessions : gs.at[s] = r <=> s \in ToSet(gs.members[r])
        /\ IsInjective(gs.members[r])
        /\ r \in gs.rooms <=> gs.members[r] # <<>>
        /\ gs.data[r] = NoData <=> gs.members[r] = <<>>

\* What is said in a room reaches exactly the connections of its members, whether it
\* goes to the room, to the others or to one; and what a member may do to another's
\* items is told to no more than these.
HeardInside ==
    \A r \in Sound :
        LET gone == {c \in Conns : link[c] = "closed"}
            inside == {sock[s] : s \in ToSet(gs.members[r])} \ gone
        IN  /\ gs.hub[r] = inside
            /\ \A s \in ToSet(gs.members[r]) :
                  /\ Audience(s) = inside /\ Relayed(s) = inside \ {sock[s]}
                  /\ \A m \in Members :
                        Whispered(s, m) \ gone \subseteq inside /\ ItemTold(s, m) \subseteq inside

\* A client that has every message sent to it knows who is in its room, in order.
ViewsAgree ==
    \A r \in Sound : \A c \in gs.hub[r] : gs.view[c] = Numbers(gs.members[r])

\* Whoever is in a room is online: on disconnect a player leaves the room before
\* the account is erased (game_app.cpp:34-35).  Except a session that a new login
\* replaced, whose client may join a room between the two, and one whose
\* connection another login shares.
NoGhosts ==
    \A r \in Rooms : \A s \in ToSet(gs.members[r]) :
        Online(s) \/ s \in replaced \/ \E t \in Sessions \ {s} : sock[t] = sock[s]

\* The room that a search lists as one to join, is the one that its name joins,
\* whatever case the names are in and however rooms are renamed.
SearchTellsTruth ==
    \A r \in Rooms, s \in Sessions :
        Online(s) /\ Listed(r, s, FALSE) /\ CanJoin(r, s) =>
            \A q \in Named(gs.data[r].name) : Answer(q, s) \in {"JoinedRoom", "AlreadyInRoom"}

\* No look that a roommate gave a member, even one about to go, is left behind in memory:
\* when the account has been removed, the last of them is what was last handed to a write
\* of the database, except of a session that a login replaced. Whether the write succeeds,
\* and whether another overtakes or undoes it, is not said here (NewestKept).
LooksHandedOn ==
    \A s \in Sessions :
        /\ s \in removed \ replaced => handed[s] = look[s]
        /\ Online(s) => look[s] \in {handed[s], delayed[s]}
=============================================================================
