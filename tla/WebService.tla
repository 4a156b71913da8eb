----------------------------- MODULE WebService -----------------------------
(***************************************************************************)
(* CockpitWebService, src/ws/cockpitwebservice.c, for one session: it      *)
(* relays between WebSockets and the transport to the session's bridge.    *)
(* With it the server's end of the closing handshake of a                  *)
(* WebSocketConnection, src/websocket/websocketconnection.c.               *)
(*                                                                         *)
(* A browser chooses the ids of its channels with the seed of its socket,  *)
(* so a channel has an Owner.  Messages that change no state (ping, hints, *)
(* unknown commands) and credentials are left out.                         *)
(***************************************************************************)
EXTENDS Naturals, Sequences, FiniteSets, SequencesExt

CONSTANTS Sockets, Channels, Owner,
          NoSocket,        \* a channel that is not in by_channel
          MaxData,         \* bound: messages of the browser per channel
          MaxUp,           \* bound: messages of the bridge per channel, but for its close
          Faults           \* what may go wrong with a socket: "abrupt", "frame", "command"

ASSUME WebServiceAssumption ==
  /\ Owner \in [Channels -> Sockets] /\ NoSocket \notin Sockets
  /\ MaxData \in Nat /\ MaxUp \in Nat /\ Faults \subseteq {"abrupt", "frame", "command"}

VARIABLES service,         \* closing, sent_done, init_received, callers of the CockpitWebService
          by_channel,      \* the socket of each channel that is known
          socket,          \* each CockpitSocket with its connection, see NewSocket
          browser,         \* what each browser has done, see NewBrowser
          up,              \* messages under way from the bridge
          bridge,          \* "new", "running", "ending" (its transport is being closed), "gone"
          told,            \* for each channel, what the bridge has been told of it
          came             \* history: for each channel, what the bridge sent and the service took

webvars == <<service, by_channel, socket, browser, up, bridge, told, came>>

NewSocket == [tracked |-> FALSE, channels |-> {}, init |-> FALSE,
              starting |-> FALSE,  \* on_idle_start_input() is to run
              handshake |-> FALSE, close_sent |-> FALSE, close_received |-> FALSE,
              timeout |-> FALSE,   \* on_timeout_close_io() is set
              io |-> "none",       \* "open", "closing" (close_async), "closed"
              incoming |-> <<>>,   \* frames of the browser, those that are still under way too
              outgoing |-> <<>>]

NewBrowser == [sent |-> [c \in Channels |-> 0], seen |-> <<>>,
               hung |-> FALSE, gone |-> FALSE, fault |-> "none"]

WebServiceInit ==
  /\ service = [closing |-> FALSE, sent_done |-> FALSE, init_received |-> FALSE, callers |-> 0]
  /\ by_channel = [c \in Channels |-> NoSocket]
  /\ socket = [s \in Sockets |-> NewSocket]
  /\ browser = [s \in Sockets |-> NewBrowser]
  /\ up = <<>> /\ bridge = "new"
  /\ told = [c \in Channels |-> <<>>] /\ came = [c \in Channels |-> <<>>]

\* web_socket_connection_get_ready_state()
State(k) ==
  IF k.io = "closed" THEN "CLOSED"
  ELSE IF k.io = "closing" \/ k.close_sent THEN "CLOSING"
  ELSE IF k.handshake THEN "OPEN" ELSE "CONNECTING"
-----------------------------------------------------------------------------
\* Functions that take a socket with its connection, and return what it is after them.

\* close_io_stream(): the sources are removed, so no frame is read or written any more; the
\* stream is closed later.
IoClosed(k) ==
  IF k.io # "open" THEN k
  ELSE [k EXCEPT !.timeout = FALSE, !.io = "closing", !.incoming = <<>>, !.outgoing = <<>>]

\* A close frame.  After one that is queued with WEB_SOCKET_QUEUE_LAST the stream is closed.
Hangup(last) == [type |-> "hangup", last |-> last]

\* send_close_rfc6455()
CloseSent(k, last) == [k EXCEPT !.outgoing = Append(@, Hangup(last)), !.close_sent = TRUE]

\* web_socket_connection_close() after its signal.
OrderlyHung(k) == IF k.handshake THEN CloseSent(k, k.close_received) ELSE IoClosed(k)
Orderly(k) ==
  IF k.handshake THEN [CloseSent(k, k.close_received) EXCEPT !.timeout = TRUE] ELSE IoClosed(k)

\* web_socket_connection_send(), where the callers look at the state.
Sent(k, m) == IF State(k) = "OPEN" THEN [k EXCEPT !.outgoing = Append(@, m)] ELSE k
-----------------------------------------------------------------------------
Msg(type, c) == [type |-> type, channel |-> c]

\* cockpit_transport_send() of a message.
Tell(m) == told' = [told EXCEPT ![m.channel] = Append(@, m)]
TellNothing == UNCHANGED told

\* on_web_socket_closing(): the channels this socket has opened are closed.
TellCloses(s) ==
  told' = [c \in Channels |-> IF c \in socket[s].channels /\ ~service.sent_done
                              THEN Append(told[c], Msg("close", c)) ELSE told[c]]

\* cockpit_sockets_close(), where the signal for closing has nobody to tell.
SocketsClosed(k) ==
  [s \in Sockets |-> IF k[s].tracked /\ State(k[s]) \in {"CONNECTING", "OPEN"}
                     THEN Orderly(k[s]) ELSE k[s]]

\* cockpit_web_service_dispose(), with the sockets k before.  The transport is closed, so that no
\* channel has to be, and nothing is heard of it any more.
Dispose(k) ==
  /\ service' = [service EXCEPT !.closing = TRUE, !.sent_done = TRUE]
  /\ socket' = SocketsClosed(k)
  /\ bridge' = "gone" /\ up' = <<>>
-----------------------------------------------------------------------------
\* cockpit_web_service_socket(): the service is found by a cookie, which a disposed one has not.
Connect(s) ==
  /\ ~service.closing /\ socket[s] = NewSocket /\ ~browser[s].gone
  /\ socket' = [socket EXCEPT ![s] = [@ EXCEPT !.tracked = TRUE, !.starting = TRUE, !.io = "open"]]
  /\ service' = [service EXCEPT !.callers = @ + 1]
  /\ UNCHANGED <<by_channel, browser, up, bridge, told, came>>

\* on_idle_start_input(), and on_web_socket_open() which sends an init.  A handshake that is
\* refused is answered, and the stream closed after that.
Start(s, ok) ==
  /\ socket[s].starting
  /\ LET k == [socket[s] EXCEPT !.starting = FALSE, !.handshake = ok]
     IN socket' = [socket EXCEPT ![s] = IF ok THEN Sent(k, [type |-> "init"])
                                        ELSE [k EXCEPT !.outgoing = <<[Hangup(TRUE) EXCEPT !.type = "refusal"]>>]]
  /\ UNCHANGED <<service, by_channel, browser, up, bridge, told, came>>

\* on_web_socket_output(): a frame is written; after the last one the stream is closed.  The
\* browser gets it, and answers an init with its own.
Output(s) ==
  /\ socket[s].io = "open" /\ socket[s].outgoing # <<>>
  /\ LET m == Head(socket[s].outgoing)
         k == [socket[s] EXCEPT !.outgoing = Tail(@),
                                !.incoming = IF m.type = "init" /\ ~browser[s].gone
                                             THEN Append(@, [type |-> "init"]) ELSE @]
     IN /\ socket' = [socket EXCEPT ![s] = IF m.type \in {"hangup", "refusal"} /\ m.last
                                            THEN IoClosed(k) ELSE k]
        /\ browser' = [browser EXCEPT ![s].seen = Append(@, m)]
  /\ UNCHANGED <<service, by_channel, up, bridge, told, came>>

\* on_timeout_close_io(): the browser did not answer the close in five seconds.
IoTimeout(s) ==
  /\ socket[s].timeout
  /\ socket' = [socket EXCEPT ![s] = IoClosed(@)]
  /\ UNCHANGED <<service, by_channel, browser, up, bridge, told, came>>

\* on_iostream_closed(), and on_web_socket_close(): the socket is destroyed.
Destroy(s) ==
  /\ socket[s].io = "closing"
  /\ by_channel' = [c \in Channels |-> IF c \in socket[s].channels THEN NoSocket ELSE by_channel[c]]
  /\ socket' = [socket EXCEPT ![s] = [@ EXCEPT !.io = "closed", !.tracked = FALSE, !.channels = {}]]
  /\ service' = [service EXCEPT !.callers = @ - 1]
  /\ UNCHANGED <<browser, up, bridge, told, came>>

\* The end of the stream, or an error of it: closed without the signal for an orderly close.
Lost(s) ==
  /\ socket[s].io = "open" /\ ~socket[s].starting
  /\ browser[s].gone /\ socket[s].incoming = <<>>
  /\ socket' = [socket EXCEPT ![s] = IoClosed(@)]
  /\ UNCHANGED <<service, by_channel, browser, up, bridge, told, came>>
-----------------------------------------------------------------------------
\* inbound_protocol_error() tells the browser and closes the socket in order.
ProtocolError(s, k) ==
  IF State(k) = "OPEN"
  THEN /\ TellCloses(s)
       /\ socket' = [socket EXCEPT ![s] = Orderly(Sent(k, [type |-> "problem"]))]
  ELSE TellNothing /\ socket' = [socket EXCEPT ![s] = k]

\* The command "open": process_and_relay_open().
Open(s, k, m) ==
  IF service.closing
  THEN /\ socket' = [socket EXCEPT ![s] = k] /\ TellNothing /\ UNCHANGED by_channel
  ELSE IF by_channel[m.channel] # NoSocket
  THEN ProtocolError(s, k) /\ UNCHANGED by_channel
  ELSE /\ by_channel' = [by_channel EXCEPT ![m.channel] = s]
       /\ socket' = [socket EXCEPT ![s] = [k EXCEPT !.channels = @ \cup {m.channel}]]
       /\ IF service.sent_done THEN TellNothing ELSE Tell(m)

\* process_close(): a channel leaves both tables.
Removed(k, c) == [k EXCEPT !.channels = @ \ {c}]

\* The command "close": process_and_relay_close().
Close(s, k, m) ==
  /\ by_channel' = [by_channel EXCEPT ![m.channel] = NoSocket]
  /\ socket' = [socket EXCEPT ![s] = Removed(k, m.channel)]
  /\ IF service.sent_done THEN TellNothing ELSE Tell(m)

\* An actual payload message.
Payload(s, k, m) ==
  /\ socket' = [socket EXCEPT ![s] = k]
  /\ IF service.closing \/ service.sent_done THEN TellNothing ELSE Tell(m)
  /\ UNCHANGED by_channel

\* dispatch_inbound_command(); a socket is served only after its init.
Dispatch(s, k, m) ==
  CASE m.type = "init"  -> /\ socket' = [socket EXCEPT ![s] = [k EXCEPT !.init = TRUE]]
                           /\ TellNothing /\ UNCHANGED by_channel
    [] m.type = "data"  -> Payload(s, k, m)
    [] m.type = "open" /\ k.init -> Open(s, k, m)
    [] m.type = "close" /\ k.init -> Close(s, k, m)
    [] OTHER -> ProtocolError(s, k) /\ UNCHANGED by_channel

\* receive_close_rfc6455(): the answer to a close closes the stream, else it is answered.
ReceiveCloseSilent(s, k) ==
  /\ socket' = [socket EXCEPT ![s] = IF k.close_sent
                                     THEN IoClosed([k EXCEPT !.close_received = TRUE])
                                     ELSE Orderly([k EXCEPT !.close_received = TRUE])]
  /\ TellNothing
ReceiveClose(s, k) ==
  IF k.close_sent
  THEN /\ socket' = [socket EXCEPT ![s] = IoClosed([k EXCEPT !.close_received = TRUE])]
       /\ TellNothing
  ELSE /\ socket' = [socket EXCEPT ![s] = Orderly([k EXCEPT !.close_received = TRUE])]
       /\ TellCloses(s)

\* on_web_socket_input(): the next frame of the browser.  A malformed one is answered with a
\* close at once (_web_socket_connection_error_and_close), without the signal.
Input(s) ==
  /\ socket[s].io = "open" /\ socket[s].handshake /\ socket[s].incoming # <<>>
  /\ LET m == Head(socket[s].incoming)
         k == [socket[s] EXCEPT !.incoming = Tail(@)]
     IN /\ m.type # "logout"
        /\ CASE m.type = "hangup" -> ReceiveClose(s, k) /\ UNCHANGED by_channel
             [] m.type = "malformed" ->
                  /\ socket' = [socket EXCEPT ![s] =
                                  IF State(k) = "OPEN"
                                  THEN [CloseSent(k, TRUE) EXCEPT !.outgoing = <<Hangup(TRUE)>> \o k.outgoing]
                                  ELSE k]
                  /\ TellNothing /\ UNCHANGED by_channel
             [] m.type \notin {"hangup", "malformed"} /\ k.close_received ->
                  /\ socket' = [socket EXCEPT ![s] = k]
                  /\ TellNothing /\ UNCHANGED by_channel
             [] OTHER -> Dispatch(s, k, m)
  /\ UNCHANGED <<service, browser, up, bridge, came>>

\* The command "logout" with "disconnect" disposes the service: every socket is closed.
InputLogout(s) ==
  /\ socket[s].io = "open" /\ socket[s].handshake /\ socket[s].incoming # <<>>
  /\ Head(socket[s].incoming).type = "logout"
  /\ LET k == [socket EXCEPT ![s].incoming = Tail(@)]
     IN IF socket[s].close_received
        THEN socket' = k /\ UNCHANGED <<service, up, bridge>>
        ELSE Dispose(k)
  /\ UNCHANGED <<by_channel, browser, told, came>>
-----------------------------------------------------------------------------
\* on_transport_control() and on_transport_recv(): to the socket that has opened the channel.
\* The socket is looked up before a close removes the channel.
ForwardAfter(m) ==
  LET s == by_channel[m.channel]
  IN IF s = NoSocket THEN UNCHANGED <<socket, by_channel>>
     ELSE /\ socket' = [socket EXCEPT ![s] =
                          IF m.type = "close" THEN Removed(@, m.channel) ELSE Sent(@, m)]
          /\ by_channel' = IF m.type = "close" THEN [by_channel EXCEPT ![m.channel] = NoSocket]
                           ELSE by_channel
Forward(m) ==
  LET s == by_channel[m.channel]
  IN IF s = NoSocket THEN UNCHANGED <<socket, by_channel>>
     ELSE /\ socket' = [socket EXCEPT ![s] =
                          Sent(IF m.type = "close" THEN Removed(@, m.channel) ELSE @, m)]
          /\ by_channel' = IF m.type = "close" THEN [by_channel EXCEPT ![m.channel] = NoSocket]
                           ELSE by_channel

FromBridge ==
  /\ up # <<>> /\ bridge # "ending" /\ up' = Tail(up)
  /\ CASE Head(up).type = "init" ->
            /\ service' = [service EXCEPT !.init_received = TRUE]
            /\ UNCHANGED <<by_channel, socket, bridge, came>>
       [] Head(up).type = "unsupported" ->        \* outbound_protocol_error()
            /\ bridge' = "ending"
            /\ UNCHANGED <<service, by_channel, socket, came>>
       [] OTHER ->
            /\ Forward(Head(up))
            /\ came' = [came EXCEPT ![Head(up).channel] = Append(@, Head(up))]
            /\ UNCHANGED <<service, bridge>>
  /\ UNCHANGED <<browser, told>>

\* on_transport_closed(): the sockets are closed with the problem.  Their channels are told to a
\* transport that is closed, which comes to nothing.
BridgeEnds ==
  /\ bridge # "gone" /\ (up = <<>> \/ bridge = "ending")
  /\ Dispose(socket)
  /\ UNCHANGED <<by_channel, browser, told, came>>
-----------------------------------------------------------------------------
\* The bridge (external).  It sends an init first, and for a channel only between its open and
\* its close.
BridgeInit(type) ==
  /\ bridge = "new" /\ bridge' = "running" /\ up' = Append(up, [type |-> type])
  /\ UNCHANGED <<service, by_channel, socket, browser, told, came>>

Has(seq, type) == \E i \in DOMAIN seq : seq[i].type = type

\* The messages of the bridge on a channel.
Of(c, seq) ==
  LET of[n \in 0..Len(seq)] ==
        IF n = 0 THEN <<>>
        ELSE IF seq[n] \in {Msg("data", c), Msg("close", c)} THEN Append(of[n - 1], seq[n])
        ELSE of[n - 1]
  IN of[Len(seq)]

BridgeSends(c, type) ==
  /\ bridge = "running"
  /\ Has(told[c], "open") /\ ~Has(told[c], "close")
  /\ \A i \in DOMAIN (came[c] \o up) : (came[c] \o up)[i] # Msg("close", c)
  /\ type = "data" => Len(came[c] \o Of(c, up)) < MaxUp
  /\ up' = Append(up, Msg(type, c))
  /\ UNCHANGED <<service, by_channel, socket, browser, bridge, told, came>>
-----------------------------------------------------------------------------
\* A browser (external): it keeps to the protocol on each channel.
Speaks(s) == socket[s].io = "open" /\ ~browser[s].gone /\ ~browser[s].hung
Knows(s, type) == Has(browser[s].seen, type)
Closed(s, c) == \E i \in DOMAIN browser[s].seen : browser[s].seen[i] = Msg("close", c)

\* Once it has seen the close frame of the server it only answers that.
Sends(s, m, sent) ==
  /\ Speaks(s) /\ Knows(s, "init") /\ ~Knows(s, "hangup")
  /\ socket' = [socket EXCEPT ![s].incoming = Append(@, m)]
  /\ browser' = [browser EXCEPT ![s].sent = sent]
  /\ UNCHANGED <<service, by_channel, up, bridge, told, came>>

BrowserOpens(s, c) ==
  /\ Owner[c] = s /\ browser[s].sent[c] = 0
  /\ Sends(s, Msg("open", c), [browser[s].sent EXCEPT ![c] = 1])

BrowserSends(s, c) ==
  /\ browser[s].sent[c] \in 1..MaxData /\ ~Closed(s, c)
  /\ Sends(s, Msg("data", c), [browser[s].sent EXCEPT ![c] = @ + 1])

BrowserCloses(s, c) ==
  /\ browser[s].sent[c] \in 1..(MaxData + 1) /\ ~Closed(s, c)
  /\ Sends(s, Msg("close", c), [browser[s].sent EXCEPT ![c] = MaxData + 2])

BrowserLogsOut(s) ==
  /\ ~service.closing /\ ~\E t \in Sockets : Has(socket[t].incoming, "logout")
  /\ Sends(s, [type |-> "logout"], browser[s].sent)

\* The page is left, or the close of the server is answered.
BrowserHangsUp(s) ==
  /\ Speaks(s) /\ Knows(s, "init")
  /\ socket' = [socket EXCEPT ![s].incoming = Append(@, [type |-> "hangup"])]
  /\ browser' = [browser EXCEPT ![s].hung = TRUE]
  /\ UNCHANGED <<service, by_channel, up, bridge, told, came>>

\* The connection breaks; what was under way may still arrive.
BrowserVanishes(s) ==
  /\ socket[s].io = "open" /\ ~browser[s].gone
  /\ "abrupt" \in Faults /\ browser[s].fault = "none"
  /\ \E n \in 0..Len(socket[s].incoming) :
       socket' = [socket EXCEPT ![s].incoming = SubSeq(@, 1, n)]
  /\ browser' = [browser EXCEPT ![s].gone = TRUE, ![s].fault = "abrupt"]
  /\ UNCHANGED <<service, by_channel, up, bridge, told, came>>

\* A frame that is not well-formed, or a command that is not.
BrowserErrs(s, fault) ==
  /\ fault \in Faults \ {"abrupt"} /\ browser[s].fault = "none"
  /\ Speaks(s) /\ Knows(s, "init") /\ ~Knows(s, "hangup")
  /\ socket' = [socket EXCEPT ![s].incoming =
                   Append(@, [type |-> IF fault = "frame" THEN "malformed" ELSE "invalid"])]
  /\ browser' = [browser EXCEPT ![s].fault = fault]
  /\ UNCHANGED <<service, by_channel, up, bridge, told, came>>

WebServiceNext ==
  \/ \E s \in Sockets : Connect(s)
  \/ \E s \in Sockets, ok \in BOOLEAN : Start(s, ok)
  \/ \E s \in Sockets : Output(s)
  \/ \E s \in Sockets : IoTimeout(s)
  \/ \E s \in Sockets : Destroy(s)
  \/ \E s \in Sockets : Lost(s)
  \/ \E s \in Sockets : Input(s)
  \/ \E s \in Sockets : InputLogout(s)
  \/ FromBridge
  \/ BridgeEnds
  \/ \E type \in {"init", "unsupported"} : BridgeInit(type)
  \/ \E c \in Channels, type \in {"data", "close"} : BridgeSends(c, type)
  \/ \E s \in Sockets, c \in Channels : BrowserOpens(s, c)
  \/ \E s \in Sockets, c \in Channels : BrowserSends(s, c)
  \/ \E s \in Sockets, c \in Channels : BrowserCloses(s, c)
  \/ \E s \in Sockets : BrowserLogsOut(s)
  \/ \E s \in Sockets : BrowserHangsUp(s)
  \/ \E s \in Sockets : BrowserVanishes(s)
  \/ \E s \in Sockets, fault \in {"frame", "command"} : BrowserErrs(s, fault)

\* The main loop runs what is ready and the timers.  Nothing is assumed of browsers or the bridge.
WebServiceFairness ==
  \A s \in Sockets : /\ WF_webvars(\E ok \in BOOLEAN : Start(s, ok))
                     /\ WF_webvars(Output(s)) /\ WF_webvars(IoTimeout(s))
                     /\ WF_webvars(Destroy(s)) /\ WF_webvars(Lost(s))

WebServiceSpec == WebServiceInit /\ [][WebServiceNext]_webvars /\ WebServiceFairness
-----------------------------------------------------------------------------
Message == [type : {"open", "data", "close"}, channel : Channels]

\* The tables and the streams have the types that their declarations say.
WebServiceTypeOK ==
  /\ service \in [closing : BOOLEAN, sent_done : BOOLEAN, init_received : BOOLEAN,
                  callers : 0..Cardinality(Sockets)]
  /\ by_channel \in [Channels -> Sockets \cup {NoSocket}]
  /\ bridge \in {"new", "running", "ending", "gone"}
  /\ told \in [Channels -> Seq(Message)] /\ came \in [Channels -> Seq(Message)]
  /\ service.callers = Cardinality({s \in Sockets : socket[s].tracked})

ToBrowser(s, c) == Of(c, browser[s].seen \o socket[s].outgoing)

\* What the bridge sends on a channel reaches the browser that opened it, in order, and while the
\* socket is open and the browser has not closed the channel without a gap; the close included,
\* though it is what removes the channel from the tables.
Delivered ==
  \A c \in Channels :
    LET s == Owner[c]
    IN /\ IsPrefix(ToBrowser(s, c), came[c])
       /\ State(socket[s]) = "OPEN" /\ ~Has(told[c], "close") => ToBrowser(s, c) = came[c]

Ended(c) == Has(told[c], "close") \/ Has(came[c], "close")

\* Whoever closes first, the bridge is told of the end of each channel once and last; and when a
\* browser has left in order, of the end of all the channels it had opened.
ToldOnce ==
  \A c \in Channels :
    LET s == Owner[c]
    IN /\ browser[s].fault # "command" =>
            \A i \in DOMAIN told[c] : /\ told[c][i].type = "open" <=> i = 1
                                      /\ told[c][i].type = "close" => i = Len(told[c])
       /\ /\ browser[s].fault = "none" /\ socket[s].io = "closed"
          /\ Has(told[c], "open") /\ ~service.sent_done
          => Ended(c)

\* Once a socket is closing, or the service is, it ends and lets the service go, whether or not the
\* browser takes part.
SocketsEnd ==
  \A s \in Sockets :
    (socket[s].tracked /\ (service.closing \/ State(socket[s]) = "CLOSING"))
      ~> ~socket[s].tracked

\* "Close any channels that were opened by this web socket" (on_web_socket_closing): when a
\* socket is gone and the session is not, the bridge has been told to close its channels.
ChannelsClosed ==
  \A c \in Channels :
    socket[Owner[c]].io = "closed" /\ Has(told[c], "open") /\ ~service.sent_done => Ended(c)
=============================================================================
