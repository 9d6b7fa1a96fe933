----------------------------- MODULE ChatServer -----------------------------
(***************************************************************************)
(* The chat server: run_server and the handlers it calls (network.c), the  *)
(* clients that connect to it (start-client, and the send command that     *)
(* writes one message and leaves), and the TCP connections between them.   *)
(*                                                                         *)
(* The server is one process that sleeps in select; one of its steps is    *)
(* one select, one accept, one recv or one send.  Clients connect, write,  *)
(* read and leave between any two of them.                                 *)
(*                                                                         *)
(* A connection is a stream without message boundaries: recv returns any   *)
(* nonempty prefix of what has arrived.  The stream is cut into tokens, a  *)
(* text or the newline that ends a line.                                   *)
(***************************************************************************)
EXTENDS Naturals, Sequences, FiniteSets, SequencesExt

CONSTANTS
    Conns,        \* the connections ever opened
    ShortConns,   \* those opened by the send command
    Slow,         \* those whose client may stop reading until its buffer is full
    NoConn,       \* an empty slot: client_sockets[i] = -1
    Listener,     \* the listening socket, in the set select returns
    MaxClients,   \* MAX_CLIENTS
    Texts,        \* what a line may say
    Connected,    \* the line "\connected"
    Newline,
    MaxLines      \* bound: the lines each start-client user writes

ASSUME ConnsAssumption ==
    /\ ShortConns \subseteq Conns /\ Slow \subseteq Conns
    /\ NoConn \notin Conns /\ Listener \notin Conns /\ NoConn # Listener
ASSUME MaxClientsAssumption == MaxClients \in Nat
ASSUME MaxLinesAssumption == MaxLines \in [Conns -> Nat]
ASSUME TextsAssumption == Newline \notin Texts

VARIABLES
    \* the clients and the network
    client,       \* what the client of each connection does
    wire,         \* each connection as the server's kernel knows it
    inbox,        \* the tokens that arrived at the server and were not read
    unread,       \* has the client bytes it did not read?
    backlog,      \* connections accept has not returned yet
    \* the server
    pc,
    client_sockets,
    client_ids,
    client_count,
    connected_clients,
    ready,        \* read_fds as select left it
    scan,         \* the slot the loop over read_fds is at
    cast,         \* the slot the loop of broadcast_message is at
    \* history
    log,          \* the messages broadcast
    sent,         \* the texts each client wrote
    id,           \* the number each client was welcomed with, 0 before
    joined,       \* Len(log) when the client was admitted
    seen,         \* the messages sent to each client, as indices in log
    cut,          \* those of them it was only sent the beginning of
    dropped       \* connections the server closed

netVars == <<client, wire, inbox, unread, backlog>>
slotVars == <<client_sockets, client_ids, client_count, connected_clients>>
loopVars == <<pc, ready, scan, cast>>
histVars == <<log, sent, id, joined, seen, cut, dropped>>
vars == <<netVars, slotVars, loopVars, histVars>>

Slots == 1..MaxClients
Tokens == Texts \cup {Newline}

(* "fin": the client closed its end, having read everything; "finsent":    *)
(* the server has sent to it since; "finrst": the client's kernel has      *)
(* refused those bytes.  "reset": the client closed with bytes unread.     *)
WireStates == {"none", "up", "fin", "finsent", "finrst", "reset"}

Message == [conn : Conns, id : Nat, body : Seq(Tokens), count : Nat]

TypeOK ==
    /\ client \in [Conns -> {"away", "open", "half", "done", "gone"}]
    /\ wire \in [Conns -> WireStates]
    /\ inbox \in [Conns -> Seq(Tokens)]
    /\ unread \in [Conns -> BOOLEAN]
    /\ backlog \in Seq(Conns)
    /\ pc \in {"select", "accept", "scan", "cast", "killed"}
    /\ client_sockets \in [Slots -> Conns \cup {NoConn}]
    /\ client_ids \in [Slots -> Nat]
    /\ client_count \in Nat
    /\ connected_clients \in Nat
    /\ ready \in SUBSET (Conns \cup {Listener})
    /\ scan \in 1..(MaxClients + 1)
    /\ cast \in 1..(MaxClients + 1)
    /\ log \in Seq(Message)
    /\ sent \in [Conns -> Seq(Texts)]
    /\ id \in [Conns -> Nat]
    /\ joined \in [Conns -> Nat]
    /\ seen \in [Conns -> Seq(Nat)]
    /\ cut \in [Conns -> SUBSET Nat]
    /\ dropped \in SUBSET Conns

Init ==
    /\ client = [c \in Conns |-> "away"]
    /\ wire = [c \in Conns |-> "none"]
    /\ inbox = [c \in Conns |-> <<>>]
    /\ unread = [c \in Conns |-> FALSE]
    /\ backlog = <<>>
    /\ pc = "select"
    /\ client_sockets = [i \in Slots |-> NoConn]
    /\ client_ids = [i \in Slots |-> 0]
    /\ client_count = 0
    /\ connected_clients = 0
    /\ ready = {}
    /\ scan = 1
    /\ cast = 1
    /\ log = <<>>
    /\ sent = [c \in Conns |-> <<>>]
    /\ id = [c \in Conns |-> 0]
    /\ joined = [c \in Conns |-> 0]
    /\ seen = [c \in Conns |-> <<>>]
    /\ cut = [c \in Conns |-> {}]
    /\ dropped = {}

Alive == pc # "killed"
Occupied == {i \in Slots : client_sockets[i] # NoConn}
Admitted == {c \in Conns : id[c] # 0}
Failed(c) == wire[c] \in {"reset", "finrst"}

-----------------------------------------------------------------------------
(* The clients.                                                            *)

Connect(c) ==
    /\ Alive
    /\ client[c] = "away"
    /\ client' = [client EXCEPT ![c] = "open"]
    /\ wire' = [wire EXCEPT ![c] = "up"]
    /\ backlog' = Append(backlog, c)
    /\ UNCHANGED <<inbox, unread, slotVars, loopVars, histVars>>

(* What a client writes after the server closed its connection goes        *)
(* nowhere and is left out.                                                *)
Write(c, tokens) ==
    /\ Alive /\ c \notin dropped
    /\ inbox' = [inbox EXCEPT ![c] = @ \o tokens]
    /\ UNCHANGED <<wire, unread, backlog, slotVars, loopVars, log, id,
                   joined, seen, cut, dropped>>

(* start-client writes a line with its newline in one send. *)
ClientLine(c) ==
    /\ client[c] = "open" /\ c \notin ShortConns /\ Len(sent[c]) < MaxLines[c]
    /\ \E t \in Texts :
          /\ Write(c, <<t, Newline>>)
          /\ sent' = [sent EXCEPT ![c] = Append(@, t)]
    /\ UNCHANGED client

(* send_message writes the text and then, in a second send, the newline. *)
SendText(c) ==
    /\ client[c] = "open" /\ c \in ShortConns
    /\ client' = [client EXCEPT ![c] = "half"]
    /\ \E t \in Texts :
          /\ Write(c, <<t>>)
          /\ sent' = [sent EXCEPT ![c] = Append(@, t)]

SendNewline(c) ==
    /\ client[c] = "half"
    /\ client' = [client EXCEPT ![c] = "done"]
    /\ Write(c, <<Newline>>)
    /\ UNCHANGED sent

(* client_receive; send_message never reads. *)
ClientRead(c) ==
    /\ Alive /\ c \notin ShortConns
    /\ client[c] = "open" /\ unread[c]
    /\ unread' = [unread EXCEPT ![c] = FALSE]
    /\ UNCHANGED <<client, wire, inbox, backlog, slotVars, loopVars, histVars>>

(* close: a FIN when the client has read everything, else a RST. *)
ClientClose(c) ==
    /\ Alive
    /\ client[c] = (IF c \in ShortConns THEN "done" ELSE "open")
    /\ client' = [client EXCEPT ![c] = "gone"]
    /\ wire' = [wire EXCEPT ![c] = IF unread[c] THEN "reset" ELSE "fin"]
    /\ UNCHANGED <<inbox, unread, backlog, slotVars, loopVars, histVars>>

-----------------------------------------------------------------------------
(* The kernel's answer to a send of the server to connection c.            *)

(* The bytes are on their way to a client that is there to read them. *)
Delivered(c) ==
    /\ wire[c] = "up"
    /\ unread' = [unread EXCEPT ![c] = TRUE]
    /\ UNCHANGED wire

(* The client is gone, but send does not know it yet. *)
Vanished(c) ==
    /\ wire[c] \in {"fin", "finsent"}
    /\ wire' = [wire EXCEPT ![c] = "finsent"]
    /\ UNCHANGED unread

(* The kernel of a client that is gone answers such bytes with a RST. *)
Refuse(c) ==
    /\ Alive
    /\ wire[c] = "finsent"
    /\ wire' = [wire EXCEPT ![c] = "finrst"]
    /\ UNCHANGED <<client, inbox, unread, backlog, slotVars, loopVars, histVars>>

(* A client that is there has stopped reading for so long that the buffer  *)
(* of its socket, which does not block, has no room for the whole message. *)
Full(c) == wire[c] = "up" /\ c \in Slow /\ unread[c]

(* send returns -1: ECONNRESET, or EAGAIN when there is no room at all. *)
SendError(c) == wire[c] = "reset" \/ Full(c)

(* A RST after the FIN is reported as EPIPE, with a SIGPIPE. *)
BrokenPipe(c) == wire[c] = "finrst"

-----------------------------------------------------------------------------
(* The server.                                                             *)

(* close(client_sockets[i]), client_sockets[i] = -1, connected_clients--   *)
(* for the slots in S.                                                     *)
CloseSlots_KeepsCount(S) ==
    /\ client_sockets' = [i \in Slots |-> IF i \in S THEN NoConn ELSE client_sockets[i]]
    /\ dropped' = dropped \cup {client_sockets[i] : i \in S}
    /\ UNCHANGED <<client_ids, client_count, connected_clients>>

CloseSlots(S) ==
    /\ client_sockets' = [i \in Slots |-> IF i \in S THEN NoConn ELSE client_sockets[i]]
    /\ connected_clients' = connected_clients - Cardinality(S)
    /\ dropped' = dropped \cup {client_sockets[i] : i \in S}
    /\ UNCHANGED <<client_ids, client_count>>

(* Is the socket in read_fds after select? *)
Readable_OnData(c) == inbox[c] # <<>>

Readable(c) == inbox[c] # <<>> \/ wire[c] # "up"

(* One turn of the loop up to the return of select.  Every hundredth turn, *)
(* here any turn, first closes the connections with an error.              *)
Select ==
    /\ pc = "select"
    /\ \E broken \in {{}, {i \in Occupied : Failed(client_sockets[i])}} :
          /\ CloseSlots(broken)
          /\ ready' = {c \in {client_sockets[i] : i \in Occupied \ broken} : Readable(c)}
                        \cup (IF backlog # <<>> THEN {Listener} ELSE {})
    /\ pc' = (IF ready' = {} THEN "select" ELSE IF Listener \in ready' THEN "accept" ELSE "scan")
    /\ UNCHANGED <<netVars, scan, cast, log, sent, id, joined, seen, cut>>

(* handle_new_connection for a connection and a free slot: the result of   *)
(* the welcome message's send is not looked at.                            *)
Admit_ReusesNumber(c, slot) ==
    /\ client_count' = connected_clients + 1
    /\ client_sockets' = [client_sockets EXCEPT ![slot] = c]
    /\ client_ids' = [client_ids EXCEPT ![slot] = client_count']
    /\ connected_clients' = connected_clients + 1
    /\ id' = [id EXCEPT ![c] = client_count']
    /\ joined' = [joined EXCEPT ![c] = Len(log)]
    /\ Delivered(c) \/ Vanished(c)
    /\ UNCHANGED dropped

Admit(c, slot) ==
    /\ client_count' = client_count + 1
    /\ client_sockets' = [client_sockets EXCEPT ![slot] = c]
    /\ client_ids' = [client_ids EXCEPT ![slot] = client_count']
    /\ connected_clients' = connected_clients + 1
    /\ id' = [id EXCEPT ![c] = client_count']
    /\ joined' = [joined EXCEPT ![c] = Len(log)]
    /\ Delivered(c) \/ Vanished(c)
    /\ UNCHANGED dropped

(* ... and when no slot is free. *)
TurnAway(c) ==
    /\ Occupied = Slots
    /\ dropped' = dropped \cup {c}
    /\ UNCHANGED <<slotVars, id, joined, wire, unread>>

FirstFree(slot) ==
    slot \in Slots \ Occupied /\ \A i \in Slots \ Occupied : slot <= i

Accept ==
    /\ pc = "accept"
    /\ LET c == Head(backlog) IN
          TurnAway(c) \/ \E slot \in Slots : FirstFree(slot) /\ Admit(c, slot)
    /\ backlog' = Tail(backlog)
    /\ pc' = "scan"
    /\ UNCHANGED <<client, inbox, ready, scan, cast, log, sent, seen, cut>>

(* The loop over read_fds stops at slot i next. *)
Serves(i) ==
    /\ pc = "scan"
    /\ i \in scan..MaxClients /\ client_sockets[i] \in ready
    /\ \A j \in scan..MaxClients : client_sockets[j] \in ready => i <= j

(* handle_client_data when the socket has an error, whatever else arrived  *)
(* before it, and when recv returns 0.                                     *)
HangUp_WithUnread(c) == Failed(c) \/ wire[c] \in {"fin", "finsent"}

HangUp(c) == Failed(c) \/ (wire[c] \in {"fin", "finsent"} /\ inbox[c] = <<>>)

Drop(i) ==
    /\ Serves(i)
    /\ HangUp(client_sockets[i])
    /\ CloseSlots({i})
    /\ scan' = i + 1
    /\ UNCHANGED <<netVars, pc, ready, cast, log, sent, id, joined, seen, cut>>

(* One newline at the end of the bytes received is removed. *)
StripNewline_CutsLast(tokens) == Front(tokens)

StripNewline(tokens) ==
    IF Last(tokens) = Newline THEN Front(tokens) ELSE tokens

(* What handle_client_data broadcasts for the bytes it received. *)
Formatted(i, tokens) ==
    [conn |-> client_sockets[i], id |-> client_ids[i], body |-> StripNewline(tokens),
     count |-> IF StripNewline(tokens) = <<Connected>> THEN connected_clients ELSE 0]

Receive(i) ==
    LET c == client_sockets[i] IN
    /\ Serves(i) /\ ~Failed(c)
    /\ \E n \in DOMAIN inbox[c] :
          /\ log' = Append(log, Formatted(i, SubSeq(inbox[c], 1, n)))
          /\ inbox' = [inbox EXCEPT ![c] = SubSeq(@, n + 1, Len(@))]
    /\ pc' = "cast"
    /\ scan' = i + 1
    /\ UNCHANGED <<client, wire, unread, backlog, slotVars, ready, cast, sent, id,
                   joined, seen, cut, dropped>>

EndScan ==
    /\ pc = "scan"
    /\ \A i \in scan..MaxClients : client_sockets[i] \notin ready
    /\ pc' = "select"
    /\ ready' = {}
    /\ scan' = 1
    /\ UNCHANGED <<netVars, slotVars, cast, histVars>>

(* The loop of broadcast_message stops at slot i next. *)
SendsTo(i) ==
    /\ pc = "cast"
    /\ i \in Occupied /\ cast <= i
    /\ \A j \in Occupied : cast <= j => i <= j

CastDelivered(i) ==
    LET c == client_sockets[i] IN
    /\ SendsTo(i)
    /\ \/ Delivered(c) /\ seen' = [seen EXCEPT ![c] = Append(@, Len(log))]
       \/ Vanished(c) /\ UNCHANGED seen
    /\ cast' = i + 1
    /\ UNCHANGED <<client, inbox, backlog, slotVars, pc, ready, scan, log, sent,
                   id, joined, cut, dropped>>

(* send takes as much of the message as there is room for.  That is not    *)
(* below 0, so the rest is not sent and nobody is told.                    *)
CastCut(i) ==
    LET c == client_sockets[i] IN
    /\ SendsTo(i)
    /\ Full(c)
    /\ seen' = [seen EXCEPT ![c] = Append(@, Len(log))]
    /\ cut' = [cut EXCEPT ![c] = @ \cup {Len(log)}]
    /\ cast' = i + 1
    /\ UNCHANGED <<netVars, slotVars, pc, ready, scan, log, sent, id, joined, dropped>>

(* A failed send closes the connection. *)
CastFails_KeepsSlot(i) ==
    /\ SendsTo(i)
    /\ SendError(client_sockets[i])
    /\ cast' = i + 1
    /\ UNCHANGED <<netVars, slotVars, pc, ready, scan, histVars>>

CastFails(i) ==
    /\ SendsTo(i)
    /\ SendError(client_sockets[i])
    /\ CloseSlots({i})
    /\ cast' = i + 1
    /\ UNCHANGED <<netVars, pc, ready, scan, log, sent, id, joined, seen, cut>>

(* SIGPIPE is neither ignored nor suppressed with MSG_NOSIGNAL: it ends    *)
(* the server.                                                             *)
CastKilled(i) ==
    /\ SendsTo(i)
    /\ BrokenPipe(client_sockets[i])
    /\ pc' = "killed"
    /\ UNCHANGED <<netVars, slotVars, ready, scan, cast, histVars>>

EndCast_EndsScan ==
    /\ pc = "cast"
    /\ \A i \in Occupied : i < cast
    /\ pc' = "select"
    /\ cast' = 1
    /\ scan' = 1
    /\ ready' = {}
    /\ UNCHANGED <<netVars, slotVars, histVars>>

EndCast_ByCount ==
    /\ pc = "cast"
    /\ \A i \in Occupied : i < cast \/ connected_clients < i
    /\ pc' = "scan"
    /\ cast' = 1
    /\ UNCHANGED <<netVars, slotVars, ready, scan, histVars>>

EndCast ==
    /\ pc = "cast"
    /\ \A i \in Occupied : i < cast
    /\ pc' = "scan"
    /\ cast' = 1
    /\ UNCHANGED <<netVars, slotVars, ready, scan, histVars>>

Client(c) ==
    \/ Refuse(c) \/ Connect(c) \/ ClientLine(c) \/ SendText(c) \/ SendNewline(c)
    \/ ClientRead(c) \/ ClientClose(c)

Server ==
    \/ Select \/ Accept \/ EndScan \/ EndCast
    \/ \E i \in Slots :
          \/ Drop(i) \/ Receive(i)
          \/ CastDelivered(i) \/ CastCut(i) \/ CastFails(i) \/ CastKilled(i)

(* The server process is gone. *)
Dead == ~Alive /\ UNCHANGED vars

Next == (\E c \in Conns : Client(c)) \/ Server \/ Dead

Spec == Init /\ [][Next]_vars

-----------------------------------------------------------------------------
(* Properties.                                                             *)

TextsOf(tokens) ==
    FlattenSeq([i \in DOMAIN tokens |-> IF tokens[i] \in Texts THEN <<tokens[i]>> ELSE <<>>])

(* What the clients were shown of what c wrote. *)
Logged(c) ==
    TextsOf(FlattenSeq([k \in DOMAIN log |-> IF log[k].conn = c THEN log[k].body ELSE <<>>]))

(* The number "\connected" reports is the number of connections in the     *)
(* slots, each of them in one slot only, however a connection is closed:   *)
(* by its client, by a failed broadcast or by the periodic check           *)
(* (network.c:118-120, 212-221, 229-235, 361-367).                         *)
CountHonest ==
    /\ connected_clients = Cardinality(Occupied)
    /\ \A i, j \in Occupied : client_sockets[i] = client_sockets[j] => i = j

(* A message carries the number its writer was welcomed with, and no two   *)
(* connections were ever given the same one, although slots are reused and *)
(* their entries in client_ids are not cleared (network.c:183-188).        *)
NamesFit ==
    /\ \A k \in DOMAIN log : log[k].id = id[log[k].conn]
    /\ \A c, d \in Admitted : id[c] = id[d] => c = d

(* However recv cuts the stream, what a client wrote is shown in the order *)
(* in which it was written, nothing twice and nothing left out: the texts  *)
(* shown and those not yet read make up those written (network.c:224-267). *)
StreamKept == \A c \in Conns : Logged(c) \o TextsOf(inbox[c]) = sent[c]

(* All clients see the same conversation: each is sent, without a gap, the *)
(* messages since it was admitted, one that is still there has been sent   *)
(* them all when the server looks for new work, and all of each, unless it *)
(* is one that does not keep up with reading (network.c:102-123).          *)
SameConversation ==
    \A c \in Admitted :
        /\ \A k \in DOMAIN seen[c] : seen[c][k] = joined[c] + k
        /\ cut[c] \subseteq (IF c \in Slow THEN ToSet(seen[c]) ELSE {})
        /\ pc = "select" /\ c \notin dropped /\ wire[c] = "up"
              => joined[c] + Len(seen[c]) = Len(log)

(* The server only drops a client that reads its messages once it has left *)
(* and, unless a broadcast crossed its leaving, only after everything it   *)
(* had written was shown (handle_client_data, network.c:226-235).          *)
OrderlyLeave ==
    \A c \in (Admitted \cap dropped) \ Slow :
        /\ wire[c] # "up"
        /\ wire[c] = "fin" => Logged(c) = sent[c]

(* The conversation as its users see it.                                   *)
Room == INSTANCE ChatRoom WITH
    People <- Conns,
    Slow <- Slow,
    left <- {c \in Conns : wire[c] \notin {"none", "up"}},
    members <- {client_sockets[i] : i \in Occupied},
    name <- id,
    last <- client_count,
    said <- [k \in DOMAIN log |-> [from |-> log[k].conn, name |-> log[k].id,
                                   question |-> log[k].body = <<Connected>>,
                                   count |-> log[k].count]],
    heard <- [c \in Conns |-> joined[c] + Len(seen[c])],
    partly <- cut

(* The code keeps the promises of ChatRoom: accepting, reading, each send  *)
(* of a broadcast and each close is one of its steps or changes nothing a  *)
(* user can see (network.c:90-271).                                        *)
RoomSpec == Room!Spec

(* The server goes through its loop as long as it lives. *)
Fairness == WF_vars(Server)

(* Whoever has written is served, that is, something of what it wrote is   *)
(* shown, or its connection is closed, in the face of other clients that   *)
(* never stop writing (run_server's loop over all slots, network.c:417-424)*)
EveryoneServed ==
    \A c \in Conns :
        c \in Admitted /\ inbox[c] # <<>>
            ~> \/ pc = "cast" /\ Last(log).conn = c
               \/ c \in dropped \/ ~Alive

(* A client that left gives its slot back, however much the others write   *)
(* (network.c:226-235).                                                    *)
SlotsGivenBack ==
    \A c \in Conns : client[c] = "gone" ~> (c \in dropped \/ ~Alive)

(* A failed send only costs the server that connection: "If sending fails, *)
(* close this client connection properly" (network.c:117).  It does not    *)
(* hold: a send after the client's RST raises SIGPIPE.                     *)
ServerSurvives == Alive

=============================================================================
