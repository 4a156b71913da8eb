-------------------------------- MODULE Shell --------------------------------
(***************************************************************************)
(* The shell and the frames it shows (pkg/shell/base_index.js,             *)
(* pkg/shell/indexes.js), each running the Transport and Channel code of   *)
(* Page.  The shell holds the only WebSocket.  Its Router forwards what    *)
(* frames post to it, and hands what arrives to the frame it belongs to:   *)
(* messages by the seed in the channel's id, control messages to every     *)
(* frame.  A frame's document can be replaced by another one of the same   *)
(* window, and so of the same name, at any time.                           *)
(*                                                                         *)
(* The other end of the WebSocket is cockpit-ws with the bridges behind    *)
(* it, as far as a page can see it.                                        *)
(***************************************************************************)
EXTENDS Page, FiniteSets

CONSTANTS Windows,       \* the frames of the shell, by name
          Documents,     \* Documents[w]: the documents w shows, one by one
          Channels,      \* the channels made by a document's scripts
          Maker,         \* Maker[c]: the document that makes channel c
          Top,           \* the shell's own document
          Watchdog,      \* the channel of the shell's watchdog
          MaxCalls,      \* bound: calls of scripts, and beforeunload events
          MaxAnswers,    \* bound: messages the server calls by itself
          MaxJumps,      \* bound: changes of the current frame
          Hurried        \* bound: may a document go before its init was looked at?

Docs == UNION {ToSet(Documents[w]) : w \in Windows}

ASSUME ShellAssumption ==
  /\ Documents \in [Windows -> Seq(Docs)]
  /\ \A v, w \in Windows : \A i \in DOMAIN Documents[v], j \in DOMAIN Documents[w] :
       Documents[v][i] = Documents[w][j] => v = w /\ i = j
  /\ Maker \in [Channels -> Docs] /\ Top \notin Docs
  /\ Watchdog \notin Channels \cup Windows /\ "none" \notin Windows
  /\ Binary \subseteq Channels
  /\ MaxCalls \in Nat /\ MaxAnswers \in Nat /\ MaxJumps \in Nat
  /\ Hurried \in BOOLEAN

VARIABLES doc,           \* doc[d]: what d's scripts know, see Page
          shown,         \* shown[w]: how many of w's documents were loaded
          loaded,        \* the documents that are loaded now
          source,        \* source[w]: source_by_name, the seed, or 0
          unique_id,
          current,       \* index.current_frame()
          jumps,         \* how often it was changed
          hurried,       \* a document went before its init was looked at
          posted,        \* messages for the shell's window, from frames
          inbox,         \* inbox[d]: messages for a frame's window
          up, down,      \* the WebSocket
          served,        \* what the server knows of each id it was told of
          confused,      \* the messages that broke the protocol
          link,          \* the connection: "up", "silent" when the network is
                         \* gone, "lost" when it ends, "closed", or "gone" with
                         \* the page that held it
          ignoring,      \* ignore_health_check
          leaving,       \* reload_after_disconnect, after a logout
          problem,       \* watchdog_problem
          calls,         \* calls of channels' methods, hints, beforeunload
          answers        \* messages sent by the server

shellvars == <<doc, shown, loaded, source, unique_id, current, jumps, hurried,
               posted, inbox, up, down, served, confused, link, ignoring, leaving, problem,
               calls, answers>>

Window(d) == CHOOSE w \in Windows : d \in ToSet(Documents[w])

\* The document a window shows, if it is loaded.
InWindow(w) == {d \in loaded : d \in ToSet(Documents[w])}

Mine(d) == IF d = Top THEN {Watchdog} ELSE {c \in Channels : Maker[c] = d}

ShellInit ==
  /\ doc = [d \in Docs \cup {Top} |->
              IF d = Top THEN CreateChannel(NewPage(Mine(Top)), Watchdog)
              ELSE NewPage(Mine(d))]
  /\ shown = [w \in Windows |-> 0] /\ loaded = {}
  /\ source = [w \in Windows |-> 0] /\ unique_id = 0
  /\ current = "none" /\ jumps = 0 /\ hurried = FALSE
  /\ posted = <<>> /\ inbox = [d \in Docs |-> <<>>]
  /\ up = <<>> /\ down = <<>> /\ served = {} /\ confused = {}
  /\ link = "up" /\ ignoring = FALSE /\ leaving = FALSE /\ problem = "none"
  /\ calls = 0 /\ answers = 0

-----------------------------------------------------------------------------
(* Events of a document: what its scripts do, and what they are told.      *)

\* The watchdog's close handler shows the "Disconnected" curtain.
Noticed(D) ==
  IF D.chan[Watchdog].stage # "closed" \/ problem # "none" THEN problem
  ELSE IF D.chan[Watchdog].problem = "none" THEN "disconnected"
  ELSE D.chan[Watchdog].problem

\* Document d becomes D, and what it sent is on its way.
Becomes(d, D) ==
  /\ doc' = [doc EXCEPT ![d] = [D EXCEPT !.out = <<>>]]
  /\ IF d = Top
     THEN /\ up' = IF link = "up" THEN up \o D.out ELSE up
          /\ problem' = Noticed(D)
          /\ UNCHANGED posted
     ELSE /\ posted' = posted \o [i \in DOMAIN D.out |-> [from |-> d, msg |-> D.out[i]]]
          /\ UNCHANGED <<up, problem>>

frames == <<shown, loaded, source, unique_id, current, jumps, hurried>>

server == <<down, served, confused, link, ignoring, leaving, answers>>

Call == calls < MaxCalls /\ calls' = calls + 1

\* A script makes a channel, calls on it, ends its output, closes it, and
\* waits for it, in any order the Channel object allows.
Create(c) ==
  LET d == Maker[c] IN
  /\ d \in loaded /\ doc[d].chan[c].stage = "none"
  /\ Becomes(d, CreateChannel(doc[d], c))
  /\ UNCHANGED <<frames, inbox, server, calls>>

Send(c) ==
  LET d == Maker[c] k == doc[d].chan[c] IN
  /\ Call /\ d \in loaded /\ k.stage = "valid" /\ ~k.sent_done
  /\ Becomes(d, ChannelSend(doc[d], c))
  /\ UNCHANGED <<frames, inbox, server>>

\* A channel that was closed before it had an id has none to end the output of.
Done(c) ==
  LET d == Maker[c] k == doc[d].chan[c] IN
  /\ Call /\ d \in loaded /\ k.stage # "none" /\ (k.attached => k.id # NoId)
  /\ Becomes(d, ChannelDone(doc[d], c))
  /\ UNCHANGED <<frames, inbox, server>>

CloseChannel(c) ==
  LET d == Maker[c] IN
  /\ Call /\ d \in loaded /\ doc[d].chan[c].stage = "valid"
  /\ Becomes(d, ChannelClose(doc[d], c, "none"))
  /\ UNCHANGED <<frames, inbox, server>>

Wait(c) ==
  LET d == Maker[c] k == doc[d].chan[c] IN
  /\ Call /\ d \in loaded /\ k.stage # "none" /\ k.waiting = "none"
  /\ Becomes(d, ChannelWait(doc[d], c))
  /\ UNCHANGED <<frames, inbox, server>>

\* onopen: a ParentWebSocket opens by a timeout, the WebSocket when it does.
Opened(d) ==
  /\ d = Top \/ d \in loaded
  /\ doc[d].ws = "opening"
  /\ Becomes(d, SendData([doc[d] EXCEPT !.ws = "open"], Msg("init", NoId, "none")))
  /\ UNCHANGED <<frames, inbox, server, calls>>

\* The beforeunload event.  The document may stay, when the user wants so or
\* when what it was to show turns out to be a download.
BeforeUnload(d) ==
  /\ Call /\ (d = Top => link # "gone") /\ (d # Top => d \in loaded) /\ ~doc[d].expect
  /\ Becomes(d, [doc[d] EXCEPT !.expect = TRUE])
  /\ UNCHANGED <<frames, inbox, server>>

\* A message event in a frame.  Without a transport nobody listens.
FrameMessage(d) ==
  /\ d \in loaded /\ inbox[d] # <<>>
  /\ inbox' = [inbox EXCEPT ![d] = Tail(@)]
  /\ Becomes(d, IF doc[d].ws = "none" THEN doc[d]
                ELSE Dispatch(doc[d], Head(inbox[d]), TRUE))
  /\ UNCHANGED <<frames, server, calls>>

-----------------------------------------------------------------------------
(* The shell's Router.                                                     *)

\* postMessage to the windows in ws: it reaches the document they show now.
Posted(box, ws, m) ==
  [d \in Docs |-> IF d \in loaded /\ Window(d) \in ws THEN Append(box[d], m)
                  ELSE box[d]]

Registered == {w \in Windows : source[w] # 0}

\* The incoming filter: control messages of channels go to every frame, a
\* frame's messages to that frame alone.
RouterFilter(m) ==
  LET owner == {w \in Registered : source[w] = m.id[1]}
  IN IF m.kind \in {"ready", "done", "close"}
     THEN [box |-> Posted(inbox, Registered, m), local |-> TRUE]
     ELSE IF m.kind = "data" /\ m.id[1] # 0 /\ owner # {}
     THEN [box |-> Posted(inbox, owner, m), local |-> FALSE]
     ELSE [box |-> inbox, local |-> TRUE]

\* A message arrives on the WebSocket.
SocketMessage ==
  /\ link \in {"up", "silent", "lost"} /\ down # <<>>
  /\ down' = Tail(down)
  /\ LET m == Head(down) route == RouterFilter(m) IN
       /\ inbox' = route.box
       /\ Becomes(Top, IF route.local THEN Dispatch(doc[Top], m, FALSE) ELSE doc[Top])
  /\ UNCHANGED <<frames, served, confused, link, ignoring, leaving, calls, answers>>

\* unregister: cockpit.kill of the group, which is the frame's name.
Unregister(D, w) ==
  IF source[w] = 0 THEN D ELSE SendData(D, Msg("kill", NoId, w))

RegisterSilently(w) ==
  /\ unique_id' = unique_id + 1
  /\ source' = [source EXCEPT ![w] = unique_id + 1]
  /\ inbox' = Posted(inbox, {w},
                     Msg("init", <<unique_id + 1, 0>>,
                         IF doc[Top].waiting_for_init THEN "not-supported" ELSE "none"))

\* register and the reply to init.  The reply extends the options of the
\* shell's own transport: without them it has no version.
Register(w) ==
  /\ unique_id' = unique_id + 1
  /\ source' = [source EXCEPT ![w] = unique_id + 1]
  /\ LET init == Msg("init", <<unique_id + 1, 0>>,
                     IF doc[Top].waiting_for_init THEN "not-supported" ELSE "none")
         box == Posted(inbox, {w}, init)
     IN inbox' = IF current # w
                 THEN [d \in Docs |-> IF d \in InWindow(w)
                                      THEN Append(box[d], Msg("hint", NoId, "hidden"))
                                      ELSE box[d]]
                 ELSE box

ForwardsAll(w, m) == TRUE

\* Which messages of a frame without a source are forwarded: an ArrayBuffer,
\* whose sender is not looked at.
Forwards(w, m) == source[w] # 0 \/ (m.kind = "data" /\ m.arg = "raw")

\* A message event in the shell: message_handler.  Messages that come before
\* the router starts wait in window.messages.
PostedMessage ==
  /\ posted # <<>> /\ doc[Top].ready
  /\ LET d == Head(posted).from m == Head(posted).msg w == Window(d) IN
       /\ posted' = Tail(posted)
       /\ IF InWindow(w) = {}
          THEN \* the frame was removed, and the event has no sender
               /\ doc' = doc /\ up' = up
               /\ UNCHANGED <<source, unique_id, inbox>>
          ELSE LET D == CASE m.kind \in {"bye", "init"} -> Unregister(doc[Top], w)
                          [] m.kind = "open" /\ Forwards(w, m) ->
                               SendData(doc[Top], [m EXCEPT !.arg = w])
                          [] m.kind \notin {"bye", "init", "open"} /\ Forwards(w, m) ->
                               SendData(doc[Top], m)
                          [] OTHER -> doc[Top]
               IN /\ doc' = [doc EXCEPT ![Top] = [D EXCEPT !.out = <<>>]]
                  /\ up' = IF link = "up" THEN up \o D.out ELSE up
                  /\ CASE m.kind = "init" -> Register(w)
                       [] m.kind = "bye" -> /\ source' = [source EXCEPT ![w] = 0]
                                            /\ UNCHANGED <<unique_id, inbox>>
                       [] OTHER -> UNCHANGED <<source, unique_id, inbox>>
  /\ UNCHANGED <<shown, loaded, current, jumps, hurried, server, problem, calls>>

\* Frames.lookup makes w show its next document; index.current_frame tells
\* both frames who is hidden.  A curtain leaves no frame current.
HintCurrent(w) ==
  [d \in Docs |->
     IF d \in loaded /\ source[Window(d)] # 0 /\ w # current /\ Window(d) \in {w, current}
     THEN Append(inbox[d], Msg("hint", NoId, IF Window(d) = w THEN "visible" ELSE "hidden"))
     ELSE inbox[d]]

Navigate(w) ==
  /\ link # "gone" /\ problem = "none" /\ w # current /\ jumps < MaxJumps
  /\ jumps' = jumps + 1
  /\ w # "none" => InWindow(w) # {} \/ shown[w] < Len(Documents[w])
  /\ current' = w
  /\ inbox' = HintCurrent(w)
  /\ IF w # "none" /\ InWindow(w) = {}
     THEN /\ shown' = [shown EXCEPT ![w] = @ + 1]
          /\ loaded' = loaded \cup {Documents[w][shown[w] + 1]}
     ELSE UNCHANGED <<shown, loaded>>
  /\ UNCHANGED <<doc, source, unique_id, hurried, posted, up, problem, server, calls>>

ListeningNever(w) == FALSE

\* on_unload: its listener was installed by register.
Listening(w) == source[w] # 0

\* The init of d waits for the router.
InitPosted(d) == \E i \in DOMAIN posted : posted[i].from = d /\ posted[i].msg.kind = "init"

\* A document goes: the frame is removed, reloaded or follows a link.  Its
\* own unload handler posts the empty message, then the router's runs.
Unload(d, next) ==
  LET w == Window(d)
      D == IF Listening(w) THEN Unregister(doc[Top], w) ELSE doc[Top]
  IN
  /\ d \in loaded
  /\ hurried' = (hurried \/ InitPosted(d)) /\ (hurried' => Hurried)
  /\ next => shown[w] < Len(Documents[w])
  /\ loaded' = (loaded \ {d}) \cup
                 IF next THEN {Documents[w][shown[w] + 1]} ELSE {}
  /\ shown' = IF next THEN [shown EXCEPT ![w] = @ + 1] ELSE shown
  /\ current' = IF ~next /\ current = w THEN "none" ELSE current
  /\ inbox' = [inbox EXCEPT ![d] = <<>>]
  /\ posted' = IF doc[d].ws \in {"opening", "open"}
               THEN Append(posted, [from |-> d, msg |-> Msg("bye", NoId, "none")])
               ELSE posted
  /\ source' = IF Listening(w) THEN [source EXCEPT ![w] = 0] ELSE source
  /\ doc' = [doc EXCEPT ![Top] = [D EXCEPT !.out = <<>>],
                        ![d] = [NewPage(Mine(d)) EXCEPT !.ws = "null"]]
  /\ up' = IF link = "up" THEN up \o D.out ELSE up
  /\ UNCHANGED <<unique_id, jumps, problem, server, calls>>

\* The hint ignore_transport_health_check, which send_control takes for the
\* transport itself.  The router hands a frame's hint on, with a source or not.
IgnoreHealthCheck(b) ==
  /\ Call /\ doc[Top].ready /\ link # "gone" /\ ignoring # b
  /\ ignoring' = b
  /\ UNCHANGED <<doc, frames, posted, inbox, up, down, served, confused, link, leaving,
                 problem, answers>>

\* The health check found that no message came for 30 seconds.
HealthCheck ==
  /\ link \in {"up", "silent"} /\ doc[Top].ws # "null" /\ ~ignoring
  /\ link' = "lost" /\ down' = <<>> /\ served' = {} /\ up' = <<>>
  /\ LET D == TransportClose(doc[Top], "timeout", FALSE) IN
       /\ doc' = [doc EXCEPT ![Top] = [D EXCEPT !.out = <<>>]]
       /\ problem' = Noticed(D)
  /\ UNCHANGED <<frames, posted, inbox, confused, ignoring, leaving, calls, answers>>

\* onclose of the WebSocket, after the last message.  A page that waited for
\* its logout reloads itself.
SocketClosed ==
  /\ link = "lost" /\ down = <<>>
  /\ UNCHANGED <<source, unique_id, current, jumps, hurried, shown, up, down, served, confused,
                 ignoring, leaving, calls, answers>>
  /\ IF leaving
     THEN /\ link' = "gone" /\ loaded' = {}
          /\ doc' = [d \in DOMAIN doc |-> [NewPage(Mine(d)) EXCEPT !.ws = "null"]]
          /\ posted' = <<>> /\ inbox' = [d \in Docs |-> <<>>]
          /\ UNCHANGED problem
     ELSE LET D == TransportClose(doc[Top], "disconnected", FALSE) IN
          /\ link' = "closed"
          /\ doc' = [doc EXCEPT ![Top] = [D EXCEPT !.out = <<>>]]
          /\ problem' = Noticed(D)
          /\ UNCHANGED <<loaded, posted, inbox>>

\* cockpit.logout
Logout ==
  /\ Call /\ ~leaving /\ link = "up" /\ doc[Top].ws # "null" /\ doc[Top].ready
  /\ leaving' = TRUE
  /\ Becomes(Top, SendData(doc[Top], Msg("logout", NoId, "none")))
  /\ UNCHANGED <<frames, inbox, down, served, confused, link, ignoring, answers>>

-----------------------------------------------------------------------------
(* cockpit-ws and the bridges.                                             *)

Known(id) == \E s \in served : s.id = id

Entry(id) == CHOOSE s \in served : s.id = id

Change(id, s) == (served \ {Entry(id)}) \cup {s}

\* The channels in hit are closed from that end.
EndChannels(hit, why) ==
  /\ served' = (served \ hit) \cup {[s EXCEPT !.is = "ended"] : s \in hit}
  /\ down' = down \o SetToSeq({Msg("close", s.id, why) : s \in hit})
  /\ UNCHANGED <<confused, link>>

\* A channel is "open", or "done" by the page, until either end closes it.
ServerReceives ==
  /\ link = "up" /\ up # <<>>
  /\ up' = Tail(up)
  /\ LET m == Head(up) IN
     CASE m.kind = "init" ->
            /\ \E arg \in {"none", "problem", "not-supported"} :
                 down' = Append(down, Msg("init", NoId, arg))
            /\ UNCHANGED <<served, confused, link>>
       [] m.kind = "open" ->
            /\ served' = served \cup {[id |-> m.id, group |-> m.arg, is |-> "open"]}
            /\ confused' = IF Known(m.id) THEN confused \cup {m} ELSE confused
            /\ UNCHANGED <<down, link>>
       [] m.kind \in {"data", "done"} ->
            /\ confused' = IF Known(m.id) /\ Entry(m.id).is \in {"open", "ended"}
                           THEN confused ELSE confused \cup {m}
            /\ served' = IF m.kind = "done" /\ Known(m.id) /\ Entry(m.id).is = "open"
                         THEN Change(m.id, [Entry(m.id) EXCEPT !.is = "done"])
                         ELSE served
            /\ UNCHANGED <<down, link>>
       [] m.kind = "close" ->
            /\ confused' = IF Known(m.id) /\ Entry(m.id).is # "closed"
                           THEN confused ELSE confused \cup {m}
            /\ served' = IF Known(m.id)
                         THEN Change(m.id, [Entry(m.id) EXCEPT !.is = "closed"])
                         ELSE served
            /\ UNCHANGED <<down, link>>
       [] m.kind = "again" ->
            EndChannels({s \in served : s.id = m.id /\ s.is = "done"}, "protocol-error")
       [] m.kind = "kill" ->
            EndChannels({s \in served : s.group = m.arg /\ s.is \in {"open", "done"}},
                        "terminated")
       [] m.kind = "logout" ->
            /\ link' = "lost" /\ served' = {}
            /\ UNCHANGED <<down, confused>>
  /\ UNCHANGED <<doc, frames, posted, inbox, ignoring, leaving, problem, calls, answers>>

ServerSends(s, kind) ==
  /\ link = "up" /\ s.is \in {"open", "done"} /\ answers < MaxAnswers
  /\ answers' = answers + 1
  /\ s.group = Watchdog => kind = "close"        \* its payload is "null"
  /\ down' = Append(down, Msg(kind, s.id, "none"))
  /\ served' = IF kind = "close" THEN Change(s.id, [s EXCEPT !.is = "ended"])
               ELSE served
  /\ UNCHANGED <<doc, frames, posted, inbox, up, confused, link, ignoring, leaving, problem,
                 calls>>

\* The server ends the connection, or the network goes and nobody says so.
ConnectionLost(how) ==
  /\ link = "up"
  /\ link' = how /\ up' = <<>> /\ served' = {}
  /\ UNCHANGED <<doc, frames, posted, inbox, down, confused, ignoring, leaving, problem, calls,
                 answers>>

ShellNext ==
  \/ \E c \in Channels : Create(c)
  \/ \E c \in Channels : Send(c)
  \/ \E c \in Channels : Done(c)
  \/ \E c \in Channels : CloseChannel(c)
  \/ \E c \in Channels : Wait(c)
  \/ \E d \in Docs \cup {Top} : Opened(d)
  \/ \E d \in Docs \cup {Top} : BeforeUnload(d)
  \/ \E d \in Docs : FrameMessage(d)
  \/ SocketMessage
  \/ PostedMessage
  \/ \E w \in Windows \cup {"none"} : Navigate(w)
  \/ \E d \in Docs, next \in BOOLEAN : Unload(d, next)
  \/ \E b \in BOOLEAN : IgnoreHealthCheck(b)
  \/ HealthCheck
  \/ SocketClosed
  \/ Logout
  \/ ServerReceives
  \/ \E s \in served, kind \in {"ready", "data", "done", "close"} : ServerSends(s, kind)
  \/ \E how \in {"lost", "silent"} : ConnectionLost(how)

\* The browser runs an event that is due, a timer too.  It matters once the
\* connection is lost.
ShellSpec ==
  /\ ShellInit /\ [][ShellNext]_shellvars
  /\ WF_shellvars(link \in {"silent", "lost"} /\ (SocketMessage \/ SocketClosed \/ HealthCheck))

-----------------------------------------------------------------------------
ShellTypeOK ==
  /\ loaded \subseteq Docs /\ current \in Windows \cup {"none"}
  /\ source \in [Windows -> 0..unique_id]
  /\ link \in {"up", "silent", "lost", "closed", "gone"} /\ ignoring \in BOOLEAN
  /\ \A d \in DOMAIN doc :
       /\ doc[d].ws \in {"none", "opening", "open", "null"} /\ doc[d].out = <<>>
       /\ \A c \in DOMAIN doc[d].chan :
            /\ doc[d].chan[c].stage \in {"none", "valid", "closed"}
            /\ doc[d].chan[c].registered => doc[d].chan[c].stage = "valid"

\* What reaches the server about a channel is its open, then its messages,
\* at most one done, and its close last, whatever was queued while the
\* transport was not ready and whoever closed first (Channel, cockpit.js).
\* Only binary data of a document that the router knows no more can come for
\* a channel that was never opened; the done of a script that ended its
\* output before is the script's own fault.  When a document went before its
\* init was looked at, the router takes its messages for those of the next
\* document in the window, and nothing is claimed from then on.
ProtocolKept ==
  hurried \/ \A m \in confused :
    m.kind = "data" /\ m.arg = "raw" /\ \A w \in Windows : source[w] # m.id[1]

OnTheWay(m) == \E i \in DOMAIN up : up[i] = m

\* A channel that is open at the server, and that no message under way will
\* end, belongs to a loaded document of the window that opened it, and the
\* router forwards that channel's messages to this window.
Routed ==
  hurried \/ \A s \in served :
    \/ s.is \notin {"open", "done"} \/ s.group \notin Windows
    \/ OnTheWay(Msg("kill", NoId, s.group))
    \/ /\ source[s.group] = s.id[1]
       /\ \E d \in InWindow(s.group) :
            \E c \in Mine(d) : doc[d].chan[c].id = s.id

\* The first message a frame's transport gets is its init: a message for an
\* earlier document of the window would close it as a protocol error.
InitFirst ==
  hurried \/ \A d \in loaded :
    inbox[d] # <<>> /\ doc[d].ws \in {"opening", "open"} /\ doc[d].waiting_for_init
      => Head(inbox[d]).kind = "init"

\* When no message is under way, a frame knows whether it is hidden, even
\* when it was shown or hidden before its init was handled.
HiddenKnown ==
  hurried \/ \A d \in loaded :
    doc[d].ws = "open" /\ ~doc[d].waiting_for_init /\ inbox[d] = <<>>
      => doc[d].hidden = (current # Window(d))

\* The loss of the connection is shown to the user, unless the page leaves,
\* was about to, or was told not to look.
LossNoticed ==
  (link \in {"silent", "lost"})
    ~> (problem # "none" \/ link = "gone" \/ doc[Top].expect \/ ignoring)
=============================================================================
