------------------------------ MODULE Transport ------------------------------
(***************************************************************************)
(* One connection of the game server: its outbox, the long poll that       *)
(* empties it, the upgrade to WebSocket and the heartbeat                  *)
(* (socketio/connection.cpp, with handle_request of socketio/server.cpp).  *)
(*                                                                         *)
(* What runs on the connection's strand between two waits is one step.  A  *)
(* poll runs on the strand until it waits for park_timer_ and, the timer's *)
(* completion going to the poll's own executor, beside the strand after    *)
(* that: there its reads and writes of the outbox and of the timer are     *)
(* steps of their own.  (They are data races; other outcomes than an order *)
(* of the calls are left out.)                                             *)
(*                                                                         *)
(* The client is engine.io's: it has one poll at a time, answers a ping,   *)
(* and before it sends UPGRADE waits for its poll, if it is patient.  A    *)
(* message is the number it was sent with; "bye" stands for the            *)
(* ForceDisconnect or "1" that goes before a disconnect.  A ping times out *)
(* only when nothing is on its way between the two, or the client is gone. *)
(***************************************************************************)
EXTENDS Naturals, Sequences, SequencesExt, FiniteSets, Subsequences

CONSTANT MaxMsgs   \* bound: messages sent to the client

ASSUME TransportAssumption == MaxMsgs \in Nat \ {0}

Message(n) == <<"message", n>>
Ping == <<"ping", 0>>
Bye == <<"bye", 0>>
Close == <<"close", 0>>
Noop == <<"noop", 0>>
Requests == {"connect", "event", "flood", "leave", "close"}

VARIABLES
    conn,    \* sio_connected_, closing_, awaiting_pong_, ws_mode_ and ws_stop_
    outbox,
    timer,   \* park_timer_'s expiry: "past" (time_point::min) or "far" (max)
    poll,    \* drain_for_poll, and what it returns
    hb,      \* heartbeat_loop: at rest, after a ping, or over
    ws,      \* the WebSocket: "none", "probed", "five" (UPGRADE sent), "run", "over"
    writer,  \* ws_writer, and the packet it is writing
    reader,  \* ws_reader runs
    wire,    \* packets on their way to the client by WebSocket
    client,  \* "open", "shut" when it knows of the end, "gone" when it is lost
    patient,
    due,     \* the client has a ping to answer
    \* history
    pushed, got,   \* packets pushed and had by the client, pings apart
    ends,          \* what called the disconnect handler, in order
    owed,          \* a poll was waiting when "bye" was pushed
    raced          \* the outbox has changed while a poll was copying it

server == <<conn, outbox, timer, poll, hb, writer, reader>>
transportVars == <<server, ws, wire, client, patient, due, pushed, got, ends, owed, raced>>

TransportInit ==
    /\ conn = [sio |-> FALSE, closing |-> FALSE, awaiting |-> FALSE, wsMode |-> FALSE, wsStop |-> FALSE]
    /\ outbox = <<>> /\ timer = "far"
    /\ poll = [at |-> "none", body |-> <<>>]
    /\ hb = "rest" /\ ws = "none"
    /\ writer = [at |-> "off", pkt |-> Noop] /\ reader = FALSE
    /\ wire = <<>> /\ client = "open" /\ patient \in BOOLEAN /\ due = FALSE
    /\ pushed = <<>> /\ got = <<>> /\ ends = <<>> /\ owed = FALSE /\ raced = FALSE

Lasting(q) == Without(q, {Ping, Noop, Close})

-----------------------------------------------------------------------------
(* The timer and the outbox                                                 *)

NoWake == poll

\* Setting its expiry ends every wait for park_timer_.
WokenPoll == IF poll.at = "parked" THEN [poll EXCEPT !.at = "awake"] ELSE poll
WokenWriter == IF writer.at = "parked" THEN [writer EXCEPT !.at = "ready"] ELSE writer

Expires(t) == timer' = t /\ poll' = WokenPoll /\ writer' = WokenWriter

Pushes(q) == outbox' = outbox \o q /\ pushed' = pushed \o Lasting(q)

RunsAgain(why) == TRUE

\* push_locked of q, then do_disconnect for the reason why, unless there is none.
RunsHandler(why) == ~conn.closing
Ends(why) == IF why # "" /\ RunsHandler(why) THEN Append(ends, why) ELSE ends
ServesQuietly(c, q, why) ==
    /\ conn' = [c EXCEPT !.closing = @ \/ why # ""]
    /\ Pushes(q)
    /\ IF q # <<>> THEN Expires("past") ELSE UNCHANGED <<timer, poll, writer>>
    /\ ends' = Ends(why)
    /\ owed' = owed

Serves(c, q, why) ==
    /\ conn' = [c EXCEPT !.closing = @ \/ why # ""]
    /\ Pushes(q)
    /\ IF q # <<>> \/ why # "" THEN Expires("past") ELSE UNCHANGED <<timer, poll, writer>>
    /\ ends' = Ends(why)
    /\ owed' = (owed \/ (Bye \in ToSet(q) /\ ~conn.wsMode /\ poll.at \in {"parked", "awake"}))

-----------------------------------------------------------------------------
(* Polling                                                                  *)

FindsClosed(go) ==
    IF conn.wsMode THEN [at |-> "answer", body |-> <<Noop>>]
    ELSE IF conn.closing THEN [at |-> "answer", body |-> <<Close>>]
    ELSE IF outbox # <<>> THEN [at |-> go, body |-> outbox]
    ELSE [at |-> "rearm", body |-> <<>>]

\* What a poll does on finding the outbox so.
Finds(go) ==
    IF conn.wsMode THEN [at |-> "answer", body |-> <<Noop>>]
    ELSE IF outbox # <<>> THEN [at |-> go, body |-> outbox]
    ELSE IF conn.closing THEN [at |-> "answer", body |-> <<Close>>]
    ELSE [at |-> "rearm", body |-> <<>>]

\* A poll comes in, on the strand until it waits.
PollArrives ==
    /\ poll.at = "sent"
    /\ LET p == Finds("answer")
       IN  IF p.at = "rearm" THEN /\ poll' = [p EXCEPT !.at = "parked"]
                                  /\ timer' = "far" /\ writer' = WokenWriter
                                  /\ UNCHANGED outbox
                             ELSE /\ poll' = p
                                  /\ outbox' = IF p.body = outbox THEN <<>> ELSE outbox
                                  /\ UNCHANGED <<timer, writer>>
    /\ UNCHANGED <<conn, hb, reader, ws, wire, client, patient, due, pushed, got, ends, owed, raced>>

\* It is woken, beside the strand: it copies the packets, and clears the outbox.  What
\* woke the client's one poll is still there, so that it does not wait again (a poll
\* that did would stay at "rearm", against PollAnswered).
PollWakes ==
    /\ poll.at = "awake"
    /\ poll' = Finds("copied")
    /\ UNCHANGED <<conn, outbox, timer, hb, writer, reader, ws, wire, client, patient, due, pushed, got, ends, owed, raced>>

PollCopies ==
    /\ poll.at = "copied"
    /\ raced' = (raced \/ outbox # poll.body)
    /\ poll' = [poll EXCEPT !.at = "answer"]
    /\ UNCHANGED <<conn, outbox, timer, hb, writer, reader, ws, wire, client, patient, due, pushed, got, ends, owed>>

PollClears ==
    /\ poll.at = "copied"
    /\ outbox' = <<>>
    /\ raced' = (raced \/ outbox # poll.body)
    /\ poll' = [poll EXCEPT !.at = "answer"]
    /\ UNCHANGED <<conn, timer, hb, writer, reader, ws, wire, client, patient, due, pushed, got, ends, owed>>

-----------------------------------------------------------------------------
(* What comes from the client, the application and the heartbeat            *)

\* handle_sio_payload and dispatch_event, and the packets of the transport.
Handles(k) ==
    \/ k = "connect" /\ ~conn.sio /\ Len(pushed) < MaxMsgs
       /\ Serves([conn EXCEPT !.sio = TRUE], <<Message(Len(pushed) + 1)>>, "")
    \/ k = "event" /\ Serves(conn, <<>>, "")
    \/ k = "flood" /\ Serves(conn, <<Bye>>, "rate limited")
    \/ k = "leave" /\ Serves(conn, <<>>, "client namespace disconnect")
    \/ k = "pong" /\ Serves([conn EXCEPT !.awaiting = FALSE], <<>>, "")

\* A POST.
Ingest(k) ==
    /\ ws \notin {"five", "run", "over"} /\ ~conn.closing
    /\ \/ Handles(k)
       \/ k = "close" /\ Serves(conn, <<>>, "transport close")
    /\ UNCHANGED <<hb, reader, ws, wire, patient, got, raced>>

\* A frame, and the end of the reader by it: it stops the writer.
Frame(k) ==
    /\ ws = "run" /\ reader
    /\ IF k = "close"
       THEN /\ conn' = [conn EXCEPT !.wsStop = TRUE] /\ reader' = FALSE
            /\ Expires("past")
            /\ UNCHANGED <<outbox, pushed, ends, owed>>
       ELSE /\ Handles(k)
            /\ reader' = ~(conn.closing \/ k \in {"flood", "leave"})
    /\ UNCHANGED <<hb, ws, wire, patient, got, raced>>

ClientSends ==
    /\ client = "open"
    /\ \E k \in Requests :
        /\ Ingest(k) \/ Frame(k)
        /\ client' = IF k = "close" THEN "shut" ELSE client
    /\ UNCHANGED due

ClientPongs ==
    /\ client = "open" /\ due
    /\ Ingest("pong") \/ Frame("pong")
    /\ due' = FALSE /\ UNCHANGED client

Emit ==
    /\ conn.sio /\ ~conn.closing /\ Len(pushed) < MaxMsgs
    /\ Serves(conn, <<Message(Len(pushed) + 1)>>, "")
    /\ UNCHANGED <<hb, reader, ws, wire, client, patient, due, got, raced>>

Disconnect ==
    /\ ~conn.closing
    /\ Serves(conn, <<Bye>>, "server namespace disconnect")
    /\ UNCHANGED <<hb, reader, ws, wire, client, patient, due, got, raced>>

HeartbeatPings ==
    /\ hb = "rest" /\ ~conn.closing
    /\ Serves([conn EXCEPT !.awaiting = TRUE], <<Ping>>, "")
    /\ hb' = "pinged"
    /\ UNCHANGED <<reader, ws, wire, client, patient, due, got, raced>>

\* Something is on its way, so that no ping times out yet.
UnderWay ==
    /\ client = "open"
    /\ \/ due \/ wire # <<>>
       \/ poll.at \notin {"none", "parked"} \/ (poll.at = "none" /\ ws \in {"none", "probed"})
       \/ writer.at \in {"ready", "writing", "last"} \/ ws = "five"
       \/ ws = "run" /\ (~reader \/ writer.at = "ended")

ChecksOnly ==
    /\ hb = "pinged" /\ ~conn.closing
    /\ hb' = IF conn.awaiting THEN "over" ELSE "rest"
    /\ UNCHANGED <<conn, outbox, timer, poll, writer, pushed, ends, owed>>
    /\ UNCHANGED <<reader, ws, wire, client, patient, due, got, raced>>

HeartbeatChecks ==
    /\ hb = "pinged" /\ ~conn.closing
    /\ IF conn.awaiting THEN ~UnderWay /\ Serves(conn, <<>>, "ping timeout") /\ hb' = "over"
                        ELSE hb' = "rest" /\ UNCHANGED <<conn, outbox, timer, poll, writer, pushed, ends, owed>>
    /\ UNCHANGED <<reader, ws, wire, client, patient, due, got, raced>>

-----------------------------------------------------------------------------
(* The WebSocket                                                            *)

\* run_websocket, once UPGRADE has come.
Upgraded ==
    /\ ws = "five"
    /\ IF conn.closing
       THEN ws' = "over" /\ UNCHANGED <<conn, timer, poll, writer, reader>>
       ELSE /\ ws' = "run"
            /\ conn' = [conn EXCEPT !.wsMode = TRUE, !.wsStop = FALSE]
            /\ timer' = "past" /\ poll' = WokenPoll
            /\ writer' = [writer EXCEPT !.at = "ready"] /\ reader' = TRUE
    /\ UNCHANGED <<outbox, hb, wire, client, patient, due, pushed, got, ends, owed, raced>>

WriterTurns ==
    /\ writer.at = "ready"
    /\ \/ conn.wsStop /\ writer' = [writer EXCEPT !.at = "ended"] /\ UNCHANGED <<outbox, timer, poll>>
       \/ /\ ~conn.wsStop /\ outbox # <<>>
          /\ writer' = [at |-> "writing", pkt |-> Head(outbox)] /\ outbox' = Tail(outbox)
          /\ UNCHANGED <<timer, poll>>
       \/ /\ ~conn.wsStop /\ outbox = <<>> /\ conn.closing
          /\ writer' = [at |-> "last", pkt |-> Close]
          /\ UNCHANGED <<outbox, timer, poll>>
       \/ /\ ~conn.wsStop /\ outbox = <<>> /\ ~conn.closing
          /\ timer' = "far" /\ poll' = WokenPoll
          /\ writer' = [writer EXCEPT !.at = "parked"]
          /\ UNCHANGED outbox
    /\ UNCHANGED <<conn, hb, reader, ws, wire, client, patient, due, pushed, got, ends, owed, raced>>

\* A write ends.  It fails when the client is gone, or the reader has ended.
WriteEnds ==
    /\ writer.at \in {"writing", "last"}
    /\ \/ /\ client # "gone" /\ reader
          /\ wire' = Append(wire, writer.pkt)
          /\ IF writer.at = "writing"
             THEN writer' = [writer EXCEPT !.at = "ready"] /\ UNCHANGED conn
             ELSE writer' = [writer EXCEPT !.at = "ended"] /\ conn' = [conn EXCEPT !.wsStop = TRUE]
       \/ /\ client = "gone" \/ ~reader
          /\ writer' = [writer EXCEPT !.at = "ended"] /\ conn' = [conn EXCEPT !.wsStop = TRUE]
          /\ UNCHANGED wire
    /\ UNCHANGED <<outbox, timer, poll, hb, reader, ws, client, patient, due, pushed, got, ends, owed, raced>>

\* The reader fails, or is cancelled since the writer has ended.
ReaderFails ==
    /\ reader /\ (client # "open" \/ writer.at = "ended")
    /\ reader' = FALSE
    /\ conn' = [conn EXCEPT !.wsStop = TRUE]
    /\ Expires("past")
    /\ UNCHANGED <<outbox, hb, ws, wire, client, patient, due, pushed, got, ends, owed, raced>>

WebSocketEnds ==
    /\ ws = "run" /\ ~reader /\ writer.at = "ended"
    /\ ws' = "over"
    /\ Serves(conn, <<>>, "websocket closed")
    /\ UNCHANGED <<hb, reader, wire, client, patient, due, got, raced>>

-----------------------------------------------------------------------------
(* The client                                                               *)

SendPoll ==
    /\ client = "open" /\ poll.at = "none"
    /\ ws = "none" \/ (ws = "probed" /\ ~patient)
    /\ IF conn.closing THEN client' = "shut" /\ UNCHANGED poll
                       ELSE poll' = [poll EXCEPT !.at = "sent"] /\ UNCHANGED client
    /\ UNCHANGED <<conn, outbox, timer, hb, writer, reader, ws, wire, patient, due, pushed, got, ends, owed, raced>>

\* What comes from the server, by poll or by WebSocket, in the order it comes.
Receives(q) ==
    /\ got' = IF client = "open" THEN got \o Lasting(q) ELSE got
    /\ due' = (due \/ (client = "open" /\ Ping \in ToSet(q)))
    /\ client' = IF client = "open" /\ Close \in ToSet(q) THEN "shut" ELSE client

PollReturns ==
    /\ poll.at = "answer"
    /\ Receives(poll.body)
    /\ poll' = [at |-> "none", body |-> <<>>]
    /\ UNCHANGED <<conn, outbox, timer, hb, writer, reader, ws, wire, patient, pushed, ends, owed, raced>>

WireDelivers ==
    /\ wire # <<>>
    /\ Receives(<<Head(wire)>>)
    /\ wire' = Tail(wire)
    /\ UNCHANGED <<server, ws, patient, pushed, ends, owed, raced>>

Probe ==
    /\ client = "open" /\ ws = "none" /\ ~conn.closing
    /\ ws' = "probed"
    /\ UNCHANGED <<server, wire, client, patient, due, pushed, got, ends, owed, raced>>

SendUpgrade ==
    /\ client = "open" /\ ws = "probed"
    /\ patient => poll.at = "none"
    /\ ws' = "five"
    /\ UNCHANGED <<server, wire, client, patient, due, pushed, got, ends, owed, raced>>

\* The client is lost.
Vanish ==
    /\ client = "open" /\ client' = "gone"
    /\ UNCHANGED <<server, ws, wire, patient, due, pushed, got, ends, owed, raced>>

-----------------------------------------------------------------------------

Polling == PollArrives \/ PollWakes \/ PollClears \/ PollReturns
Heartbeat == HeartbeatPings \/ HeartbeatChecks
WebSocket == Upgraded \/ WriterTurns \/ WriteEnds \/ ReaderFails \/ WebSocketEnds \/ WireDelivers

TransportNext ==
    \/ Polling \/ Heartbeat \/ WebSocket
    \/ ClientSends \/ ClientPongs \/ Emit \/ Disconnect
    \/ SendPoll \/ Probe \/ SendUpgrade \/ Vanish

\* The server's threads and timers go on, and so does a client that is there.
Fairness ==
    /\ WF_transportVars(Polling) /\ WF_transportVars(HeartbeatPings) /\ WF_transportVars(HeartbeatChecks)
    /\ WF_transportVars(Upgraded) /\ WF_transportVars(WriterTurns) /\ WF_transportVars(WriteEnds)
    /\ WF_transportVars(ClientPongs) /\ WF_transportVars(ReaderFails) /\ WF_transportVars(WebSocketEnds) /\ WF_transportVars(WireDelivers)

TransportSpec == TransportInit /\ [][TransportNext]_transportVars /\ Fairness

-----------------------------------------------------------------------------
(* Properties                                                               *)

Answering == IF poll.at = "answer" THEN Lasting(poll.body) ELSE <<>>
Writing == IF writer.at \in {"writing", "last"} THEN Lasting(<<writer.pkt>>) ELSE <<>>
UnderWayTo == Answering \o Lasting(wire) \o Writing \o Lasting(outbox)

\* Through polls, their wake-ups and the upgrade, what the server sends has come to the
\* client, in order and once, or is still on its way; until either drops the WebSocket.
InOrder ==
    client = "open" /\ ~raced /\ (ws = "run" => reader) /\ ws # "over" =>
        IF patient THEN got \o UnderWayTo = pushed
                   ELSE /\ ToSet(got \o UnderWayTo) = ToSet(pushed)
                        /\ Len(got \o UnderWayTo) = Len(pushed)

\* Of the client's leaving, the ping's timeout, the server's disconnect and the end of
\* the WebSocket, whichever meet, one runs the disconnect handler, and only one.
EndsOnce == Len(ends) = IF conn.closing THEN 1 ELSE 0

\* No client that answers is lost to a ping's timeout, whatever it is about: waiting
\* in a poll, between two, or changing to WebSocket.
LiveStays == "ping timeout" \in ToSet(ends) => client # "open" \/ raced

\* A poll is answered in the end: there is the heartbeat to wake it, or the disconnect.
PollAnswered == poll.at = "sent" ~> poll.at = "none"

\* The connection of a client that is lost is ended: by the failure of its WebSocket,
\* or by the heartbeat.
GoneNoticed == client = "gone" ~> conn.closing

\* Whoever waits in a poll when it is dropped, is told.
FarewellTold == owed ~> (Bye \in ToSet(got) \/ client = "gone" \/ raced)
=============================================================================
