----------------------------- MODULE AppServerLink -----------------------------
(***************************************************************************)
(* The link to the Codex App Server: a WebSocket over a Unix socket        *)
(* (codex-app-server-transport.ts), the JSON-RPC client on it              *)
(* (codex-app-server-client.ts), the connector that holds the client in    *)
(* use, and the runner that connects, works and reconnects.  Every         *)
(* connection has a socket and a client of its own, and an old socket may  *)
(* still speak, or close, when a new one is in use.                        *)
(***************************************************************************)
EXTENDS Naturals, Sequences, SequencesExt

CONSTANTS
    Connections, NoConnection,
    ServerAsks,    \* requests the server makes of its client
    MaxCalls,      \* bound on the calls of a client; the first is initialize
    MaxLinkFaults  \* bound on what goes wrong: frames, handlers, sockets, calls and stops

\* There is room for initialize, and no connection is the absent one.
ASSUME LinkAssumption ==
    NoConnection \notin Connections /\ MaxCalls \in Nat \ {0} /\ MaxLinkFaults \in Nat

VARIABLES
    server,    \* the server's end of each connection and the calls it owes
    wire,      \* frames on their way to the client
    socket,    \* UnixWebSocketConnection; "dead" when its process has stopped
    client,    \* CodexAppServerClient
    inUse,     \* the connector's client and connectionId
    attached,  \* the service's
    runner,    \* what the runner does, and on which connection
    backoff,   \* reconnectFailures, and whether nextConnectAt lies ahead
    asked,     \* codex_interactions: each ask and its connection
    said,      \* ghost: the messages the server sent on each connection
    heard,     \* ghost: the messages the client was given
    linkFaults

linkVars == <<server, wire, socket, client, inUse, attached, runner, backoff, asked, said, heard, linkFaults>>

Reply(id) == [kind |-> "reply", id |-> id]
Ask(q)    == [kind |-> "ask", id |-> q]
ServerMessages  == {Reply(id) : id \in 1..MaxCalls} \cup {Ask(q) : q \in ServerAsks}

Text(part, m) == [op |-> "text", part |-> part, msg |-> m]
Control(op)   == [op |-> op, part |-> "all", msg |-> Ask(CHOOSE q \in ServerAsks : TRUE)]

\* A message is one frame, or two with perhaps a ping between them.
Framings(m) ==
    {<<Text("all", m)>>, <<Text("head", m), Text("tail", m)>>,
     <<Text("head", m), Control("ping"), Text("tail", m)>>}

LinkInit ==
    /\ server = [c \in Connections |-> [up |-> FALSE, owes |-> {}]]
    /\ wire = [c \in Connections |-> <<>>]
    /\ socket = [c \in Connections |-> [state |-> "unused", closeSent |-> FALSE, half |-> FALSE]]
    /\ client = [c \in Connections |-> [transport |-> FALSE, closed |-> FALSE, pending |-> {}, next |-> 1]]
    /\ inUse = NoConnection /\ attached = NoConnection
    /\ runner = [stopped |-> TRUE, pc |-> "idle", conn |-> NoConnection]
    /\ backoff = [failures |-> 0, waiting |-> FALSE]
    /\ asked = [q \in ServerAsks |-> [state |-> "none", conn |-> NoConnection]]
    /\ said = [c \in Connections |-> <<>>] /\ heard = [c \in Connections |-> <<>>]
    /\ linkFaults = 0

-----------------------------------------------------------------------------
(* The server.                                                             *)

Accept(c) ==
    /\ socket[c].state = "opening" /\ ~server[c].up
    /\ server' = [server EXCEPT ![c].up = TRUE]
    /\ UNCHANGED <<wire, socket, client, inUse, attached, runner, backoff, asked, said, heard, linkFaults>>

\* It may ask as soon as it has accepted; it answers a call once.
Send(c, m) ==
    /\ server[c].up /\ socket[c].state \in {"opening", "open"}
    /\ \/ m.kind = "reply" /\ m.id \in server[c].owes
       \/ m.kind = "ask" /\ \A d \in Connections : m \notin ToSet(said[d])
    /\ server' = [server EXCEPT ![c].owes = @ \ {m.id}]
    /\ \E frames \in Framings(m) : wire' = [wire EXCEPT ![c] = @ \o frames]
    /\ said' = [said EXCEPT ![c] = Append(@, m)]
    /\ UNCHANGED <<socket, client, inUse, attached, runner, backoff, asked, heard, linkFaults>>

Malformed(c) ==
    /\ server[c].up /\ socket[c].state = "open" /\ linkFaults < MaxLinkFaults
    /\ linkFaults' = linkFaults + 1
    /\ wire' = [wire EXCEPT ![c] = Append(@, Control("garbage"))]
    /\ UNCHANGED <<server, socket, client, inUse, attached, runner, backoff, asked, said, heard>>

\* It closes with a close frame, or dies.
ServerCloses(c) ==
    /\ server[c].up /\ linkFaults < MaxLinkFaults
    /\ linkFaults' = linkFaults + 1
    /\ server' = [server EXCEPT ![c] = [up |-> FALSE, owes |-> {}]]
    /\ \/ UNCHANGED wire
       \/ wire' = [wire EXCEPT ![c] = Append(@, Control("close"))]
    /\ UNCHANGED <<socket, client, inUse, attached, runner, backoff, asked, said, heard>>

-----------------------------------------------------------------------------
(* What the end of a connection does, from the socket up to the service.   *)

CanSend(c) == socket[c].state = "open" /\ ~socket[c].closeSent

Later == [backoff EXCEPT !.failures = IF @ < 3 THEN @ + 1 ELSE @, !.waiting = TRUE]

\* The open interactions of the connection cannot be answered any more.
Lost(c) == [q \in ServerAsks |->
    IF asked[q].state = "open" /\ asked[q].conn = c THEN [asked[q] EXCEPT !.state = "lost"] ELSE asked[q]]

\* onDisconnect: only for the connection in use.
\* mutant: the guard on the connection's own id is left out
InUseOrNot(c) == inUse # NoConnection
InUse(c) == inUse = c

\* initialize is awaited by the runner when it is among the calls rejected.
InitRejected(c) ==
    IF 1 \in client[c].pending /\ runner.conn = c /\ runner.pc = "initializing"
    THEN [runner EXCEPT !.pc = "failed"] ELSE runner

Disconnect(c) ==
    IF ~client[c].transport /\ client[c].closed
    THEN UNCHANGED <<client, inUse, attached, runner, backoff, asked>>
    ELSE /\ client' = [client EXCEPT ![c].transport = FALSE, ![c].pending = {}]
         /\ runner' = InitRejected(c)
         /\ \/ /\ ~InUse(c)
               /\ UNCHANGED <<inUse, attached, backoff, asked>>
            \/ /\ InUse(c)
               /\ inUse' = NoConnection
               /\ backoff' = Later
               /\ asked' = IF attached = c THEN Lost(c) ELSE asked
               /\ attached' = IF attached = c THEN NoConnection ELSE attached

\* error and close of the socket, whichever comes first, at any time.
ReportClose(c) ==
    /\ socket[c].state = "open"
    /\ ~server[c].up \/ socket[c].closeSent \/ linkFaults < MaxLinkFaults
    /\ linkFaults' = IF server[c].up /\ ~socket[c].closeSent THEN linkFaults + 1 ELSE linkFaults
    /\ socket' = [socket EXCEPT ![c].state = "closed"]
    /\ server' = [server EXCEPT ![c] = [up |-> FALSE, owes |-> {}]]
    /\ wire' = [wire EXCEPT ![c] = <<>>]
    /\ Disconnect(c)
    /\ UNCHANGED <<said, heard>>

-----------------------------------------------------------------------------
(* Frames and messages.                                                    *)

\* An answer that is late finds no pending call.
AnswerPending(c, id) ==
    /\ client' = [client EXCEPT ![c].pending = @ \ {id}]
    /\ runner' = IF id = 1 /\ 1 \in client[c].pending /\ runner.conn = c /\ runner.pc = "initializing"
                 THEN [runner EXCEPT !.pc = "initialized"] ELSE runner
    /\ UNCHANGED <<inUse, attached, backoff, asked, linkFaults>>

\* A handler that throws counts as an invalid message; the transport is
\* forgotten before it is closed, so the socket stays open.
HandleMessage(c, m) ==
    \/ m.kind = "reply" /\ AnswerPending(c, m.id)
    \/ /\ m.kind = "ask"
       /\ asked' = IF attached = c THEN [asked EXCEPT ![m.id] = [state |-> "open", conn |-> c]] ELSE asked
       /\ UNCHANGED <<client, inUse, attached, runner, backoff, linkFaults>>
    \/ /\ m.kind = "ask" /\ attached = c /\ linkFaults < MaxLinkFaults
       /\ linkFaults' = linkFaults + 1
       /\ Disconnect(c)

\* A complete frame is taken off the buffer.
TakeFrame(c) == wire' = [wire EXCEPT ![c] = Tail(@)]

ReadControl(c) ==
    /\ socket[c].state = "open" /\ wire[c] # <<>>
    /\ Head(wire[c]).op \in {"ping", "close"}
    /\ TakeFrame(c)
    /\ socket' = [socket EXCEPT ![c].closeSent = @ \/ Head(wire[c]).op = "close"]
    /\ UNCHANGED <<server, client, inUse, attached, runner, backoff, asked, said, heard, linkFaults>>

\* The first part of a message waits for the last one.
ReadHead(c) ==
    /\ socket[c].state = "open" /\ wire[c] # <<>>
    /\ Head(wire[c]).op = "text" /\ Head(wire[c]).part = "head" /\ ~socket[c].half
    /\ TakeFrame(c)
    /\ socket' = [socket EXCEPT ![c].half = TRUE]
    /\ UNCHANGED <<server, client, inUse, attached, runner, backoff, asked, said, heard, linkFaults>>

ReadMessage(c) ==
    /\ socket[c].state = "open" /\ wire[c] # <<>>
    /\ LET f == Head(wire[c]) IN
        /\ f.op = "text" /\ f.part = (IF socket[c].half THEN "tail" ELSE "all")
        /\ heard' = [heard EXCEPT ![c] = Append(@, f.msg)]
        /\ HandleMessage(c, f.msg)
    /\ TakeFrame(c)
    /\ socket' = [socket EXCEPT ![c].half = FALSE]
    /\ UNCHANGED <<server, said>>

\* A frame that breaks the protocol destroys the socket.
ReadGarbage(c) ==
    /\ socket[c].state = "open" /\ wire[c] # <<>>
    /\ Head(wire[c]).op = "garbage"
    /\ socket' = [socket EXCEPT ![c].state = "closed", ![c].closeSent = TRUE]
    /\ server' = [server EXCEPT ![c] = [up |-> FALSE, owes |-> {}]]
    /\ wire' = [wire EXCEPT ![c] = <<>>]
    /\ Disconnect(c)
    /\ UNCHANGED <<said, heard, linkFaults>>

-----------------------------------------------------------------------------
(* Connecting: the handshake, initialize, and the connection in use.       *)

Start ==
    /\ runner.stopped
    /\ runner' = [runner EXCEPT !.stopped = FALSE]
    /\ backoff' = [backoff EXCEPT !.waiting = FALSE]
    /\ UNCHANGED <<server, wire, socket, client, inUse, attached, asked, said, heard, linkFaults>>

\* close(): a close frame and the end of the socket; frames may still come.
ClosingSocket(c) == [socket EXCEPT ![c].closeSent = @ \/ socket[c].state = "open"]

\* A connection that is being made is not stopped.
StopRunner ==
    /\ ~runner.stopped /\ linkFaults < MaxLinkFaults
    /\ linkFaults' = linkFaults + 1
    /\ runner' = [runner EXCEPT !.stopped = TRUE]
    /\ \/ /\ inUse = NoConnection
          /\ UNCHANGED <<socket, client, attached, asked>>
       \/ /\ inUse # NoConnection
          /\ asked' = IF attached = inUse THEN Lost(inUse) ELSE asked
          /\ attached' = IF attached = inUse THEN NoConnection ELSE attached
          /\ socket' = IF client[inUse].transport THEN ClosingSocket(inUse) ELSE socket
          /\ client' = [client EXCEPT ![inUse].transport = FALSE, ![inUse].closed = TRUE, ![inUse].pending = {}]
    /\ inUse' = NoConnection
    /\ UNCHANGED <<server, wire, backoff, said, heard>>

\* The process dies: no client sees its connection end, and the interactions
\* stay open in the table.
LinkCrash ==
    /\ linkFaults < MaxLinkFaults
    /\ linkFaults' = linkFaults + 1
    /\ server' = [c \in Connections |-> [up |-> FALSE, owes |-> {}]]
    /\ wire' = [c \in Connections |-> IF socket[c].state = "unused" THEN wire[c] ELSE <<>>]
    /\ socket' = [c \in Connections |-> IF socket[c].state = "unused" THEN socket[c]
                                        ELSE [socket[c] EXCEPT !.state = "dead"]]
    /\ client' = [c \in Connections |-> [client[c] EXCEPT !.transport = FALSE, !.pending = {}]]
    /\ inUse' = NoConnection /\ attached' = NoConnection
    /\ runner' = [stopped |-> TRUE, pc |-> "idle", conn |-> NoConnection]
    /\ backoff' = [failures |-> 0, waiting |-> FALSE]
    /\ UNCHANGED <<asked, said, heard>>

PassTime ==
    /\ backoff.waiting
    /\ backoff' = [backoff EXCEPT !.waiting = FALSE]
    /\ UNCHANGED <<server, wire, socket, client, inUse, attached, runner, asked, said, heard, linkFaults>>

Connect(c) ==
    /\ ~runner.stopped /\ runner.pc = "idle" /\ inUse = NoConnection /\ ~backoff.waiting
    /\ socket[c].state = "unused"
    /\ socket' = [socket EXCEPT ![c].state = "opening"]
    /\ runner' = [runner EXCEPT !.pc = "connecting", !.conn = c]
    /\ UNCHANGED <<server, wire, client, inUse, attached, backoff, asked, said, heard, linkFaults>>

\* mutant: what follows the handshake in its chunk is dropped
RemainderDropped(c) == <<>>

\* The frames that came with the server's answer are not lost.
Remainder(c) == wire[c]

Upgraded(c) ==
    /\ socket[c].state = "opening" /\ server[c].up
    /\ socket' = [socket EXCEPT ![c].state = "open"]
    /\ wire' = [wire EXCEPT ![c] = Remainder(c)]
    /\ UNCHANGED <<server, client, inUse, attached, runner, backoff, asked, said, heard, linkFaults>>

HandshakeFails(c) ==
    /\ socket[c].state = "opening" /\ linkFaults < MaxLinkFaults
    /\ linkFaults' = linkFaults + 1
    /\ socket' = [socket EXCEPT ![c].state = "closed"]
    /\ server' = [server EXCEPT ![c] = [up |-> FALSE, owes |-> {}]]
    /\ runner' = [runner EXCEPT !.pc = "idle", !.conn = NoConnection]
    /\ backoff' = Later
    /\ wire' = [wire EXCEPT ![c] = <<>>]
    /\ UNCHANGED <<client, inUse, attached, asked, said, heard>>

\* A call is pending before it is sent, and forgotten when sending throws.
SendCall(c) ==
    /\ client' = [client EXCEPT ![c].transport = TRUE, ![c].next = @ + 1,
                                ![c].pending = IF CanSend(c) THEN @ \cup {client[c].next} ELSE @]
    /\ server' = [server EXCEPT ![c].owes = IF CanSend(c) /\ server[c].up THEN @ \cup {client[c].next} ELSE @]

Initialize(c) ==
    /\ runner.pc = "connecting" /\ runner.conn = c
    /\ socket[c].state \in {"open", "closed"}
    /\ SendCall(c)
    /\ runner' = [runner EXCEPT !.pc = IF CanSend(c) THEN "initializing" ELSE "failed"]
    /\ UNCHANGED <<wire, socket, inUse, attached, backoff, asked, said, heard, linkFaults>>

Attach(c) ==
    /\ runner.pc = "initialized" /\ runner.conn = c
    /\ \/ /\ client[c].transport /\ CanSend(c)
          /\ inUse' = c /\ attached' = c
          /\ runner' = [runner EXCEPT !.pc = "idle", !.conn = NoConnection]
          /\ backoff' = [backoff EXCEPT !.failures = 0]
       \/ /\ ~(client[c].transport /\ CanSend(c))
          /\ runner' = [runner EXCEPT !.pc = "failed"]
          /\ UNCHANGED <<inUse, attached, backoff>>
    /\ UNCHANGED <<server, wire, socket, client, asked, said, heard, linkFaults>>

ConnectFails(c) ==
    /\ runner.pc = "failed" /\ runner.conn = c
    /\ socket' = IF client[c].transport THEN ClosingSocket(c) ELSE socket
    /\ client' = [client EXCEPT ![c].transport = FALSE]
    /\ runner' = [runner EXCEPT !.pc = "idle", !.conn = NoConnection]
    /\ backoff' = Later
    /\ UNCHANGED <<server, wire, inUse, attached, asked, said, heard, linkFaults>>

-----------------------------------------------------------------------------
(* Work on the connection in use.                                          *)

Call(c) ==
    /\ attached = c /\ client[c].transport /\ client[c].next <= MaxCalls
    /\ SendCall(c)
    /\ UNCHANGED <<wire, socket, inUse, attached, runner, backoff, asked, said, heard, linkFaults>>

CallTimesOut(c, id) ==
    /\ id \in client[c].pending /\ linkFaults < MaxLinkFaults
    /\ linkFaults' = linkFaults + 1
    /\ client' = [client EXCEPT ![c].pending = @ \ {id}]
    /\ runner' = IF id = 1 THEN InitRejected(c) ELSE runner
    /\ UNCHANGED <<server, wire, socket, inUse, attached, backoff, asked, said, heard>>

\* The operator's answer goes out on the connection that asked.
Respond(q) ==
    /\ asked[q].state = "open" /\ attached = asked[q].conn
    /\ client[attached].transport /\ CanSend(attached)
    /\ asked' = [asked EXCEPT ![q].state = "answered"]
    /\ UNCHANGED <<server, wire, socket, client, inUse, attached, runner, backoff, said, heard, linkFaults>>

LinkNext ==
    \/ Start \/ StopRunner \/ LinkCrash \/ PassTime
    \/ \E c \in Connections :
        \/ Accept(c) \/ Malformed(c) \/ ServerCloses(c) \/ ReportClose(c)
        \/ \E m \in ServerMessages : Send(c, m)
        \/ ReadControl(c) \/ ReadHead(c) \/ ReadMessage(c) \/ ReadGarbage(c)
        \/ Connect(c) \/ Upgraded(c) \/ HandshakeFails(c) \/ Initialize(c)
        \/ Attach(c) \/ ConnectFails(c) \/ Call(c)
        \/ \E id \in 1..MaxCalls : CallTimesOut(c, id)
    \/ \E q \in ServerAsks : Respond(q)

LinkSpec == LinkInit /\ [][LinkNext]_linkVars

-----------------------------------------------------------------------------
(* Properties.                                                             *)

\* The types of the link's state.
LinkTypeOK ==
    /\ server \in [Connections -> [up : BOOLEAN, owes : SUBSET (1..MaxCalls)]]
    /\ socket \in [Connections -> [state : {"unused", "opening", "open", "closed", "dead"},
                                   closeSent : BOOLEAN, half : BOOLEAN]]
    /\ client \in [Connections -> [transport : BOOLEAN, closed : BOOLEAN,
                                   pending : SUBSET (1..MaxCalls), next : 1..(MaxCalls + 1)]]
    /\ {inUse, attached} \subseteq Connections \cup {NoConnection}
    /\ runner \in [stopped : BOOLEAN, conn : Connections \cup {NoConnection},
                   pc : {"idle", "connecting", "initializing", "initialized", "failed"}]
    /\ backoff \in [failures : 0..3, waiting : BOOLEAN]
    /\ asked \in [ServerAsks -> [state : {"none", "open", "lost", "answered"}, conn : Connections \cup {NoConnection}]]
    /\ \A c \in Connections : ToSet(said[c]) \subseteq ServerMessages
    /\ linkFaults \in 0..MaxLinkFaults

\* The client is given the server's messages in their order, with none left
\* out: none of those that come with the handshake, or in parts with a ping
\* between them (open, consume, handleFrame).
HeardInOrder == \A c \in Connections : IsPrefix(heard[c], said[c])

\* An interaction waits for an answer only while the connection it came on is
\* the one in use, in the connector and in the service, or when that connection
\* ended with its process: an old connection that closes late takes nothing
\* with it, and none stays open because its connection ended in any other way
\* (the connectionId guards of the connector and of detachConnection).
OpenOnTheLink ==
    \A q \in ServerAsks : asked[q].state = "open" =>
        \/ asked[q].conn = inUse /\ attached = inUse
        \/ socket[asked[q].conn].state = "dead"

=============================================================================
