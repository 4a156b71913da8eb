-------------------------------- MODULE Page ---------------------------------
(***************************************************************************)
(* The Transport and Channel objects of one document                       *)
(* (src/base1/cockpit.js).  A document is a record: its default transport, *)
(* the channels its scripts have made, and `out', what it handed to its    *)
(* WebSocket, or, in a frame, to its parent window, during one event.      *)
(* Every operator takes such a record and returns the next one, so that    *)
(* the shell and its frames run the same code.                             *)
(***************************************************************************)
EXTENDS Naturals, Sequences, SequencesExt

CONSTANT Binary          \* the channels opened with the option binary

\* The id of a channel that has none yet.
NoId == <<0, 0>>

\* A control message or, for kind "data", a message of a channel.  arg is the
\* opener of an "open", the group of a "kill", the problem of a "close", and
\* "raw" for data that is an ArrayBuffer and not a string.
Msg(kind, id, arg) == [kind |-> kind, id |-> id, arg |-> arg]

NewChannel == [stage |-> "none",        \* "valid" once made, then "closed"
               attached |-> FALSE,      \* var transport is set
               id |-> NoId,
               registered |-> FALSE,    \* in control_cbs and message_cbs
               queue |-> <<>>,
               sent_done |-> FALSE, received_done |-> FALSE,
               ready |-> FALSE,
               waiting |-> "none",      \* the promise of wait()
               problem |-> "none"]

NewPage(mine) == [ws |-> "none",        \* no default_transport yet
                  ready |-> FALSE,
                  waiting_for_init |-> TRUE,
                  seed |-> 0, last |-> 0,
                  waiters |-> <<>>,     \* listeners of the "ready" event
                  hidden |-> FALSE,
                  expect |-> FALSE,     \* expect_disconnect
                  chan |-> [c \in mine |-> NewChannel],
                  out |-> <<>>]

\* send_data: dropped when the WebSocket is gone.
SendData(D, m) ==
  IF D.ws = "null" THEN D ELSE [D EXCEPT !.out = Append(@, m)]

\* The same for one message after the other.
SendAll(D, q) ==
  IF D.ws = "null" THEN D ELSE [D EXCEPT !.out = @ \o q]

\* The channel gets its id; what it queued was not given one.
Name(D, c) ==
  LET id == <<D.seed, D.last + 1>> IN
  [D EXCEPT !.last = @ + 1,
            !.chan[c] = [@ EXCEPT !.attached = TRUE, !.id = id, !.registered = TRUE,
                                  !.queue = <<>>]]

Named(q, id) == [i \in DOMAIN q |-> [q[i] EXCEPT !.id = id]]

AttachQueueFirst(D, c) ==
  LET id == <<D.seed, D.last + 1>>
  IN SendAll(Name(D, c), Named(D.chan[c].queue, id) \o <<Msg("open", id, c)>>)

\* The callback a channel gives to ensure_transport: open first, then what
\* was queued.
Attach(D, c) ==
  LET id == <<D.seed, D.last + 1>>
  IN IF D.chan[c].stage = "closed"
     THEN [D EXCEPT !.chan[c].attached = TRUE]
     ELSE SendAll(Name(D, c), <<Msg("open", id, c)>> \o Named(D.chan[c].queue, id))

\* The listeners of "ready" run in the order in which they were added.
AttachAll(D, cs) ==
  LET after[n \in 0..Len(cs)] == IF n = 0 THEN D ELSE Attach(after[n - 1], cs[n])
  IN after[Len(cs)]

ReadyForChannels(D) ==
  IF D.ready THEN D
  ELSE AttachAll([D EXCEPT !.ready = TRUE, !.waiters = <<>>], D.waiters)

\* on_close of a channel: the "close" event rejects the promise of wait().
Closed(k, problem) ==
  [k EXCEPT !.stage = "closed", !.registered = FALSE, !.problem = problem,
            !.waiting = IF @ = "pending" THEN "rejected" ELSE @]

Broadcast(D, problem) ==
  [D EXCEPT !.chan = [c \in DOMAIN @ |->
                        IF @[c].registered THEN Closed(@[c], problem) ELSE @[c]]]

TransportCloseQuiet(D, problem, frame) ==
  [D EXCEPT !.ws = "null", !.ready = TRUE]

\* Transport.close.  The close method of a frame's ParentWebSocket posts an
\* empty message and runs onclose, which closes the transport once more, with
\* the problem "disconnected", before the outer call gets to its broadcast.
\* A document that expects the disconnect tells nobody.
TransportClose(D, problem, frame) ==
  LET first == D.ws # "null"
      E == [D EXCEPT !.ws = "null",
                     !.out = IF frame /\ first THEN Append(@, Msg("bye", NoId, "none"))
                             ELSE @]
  IN IF D.expect THEN E
     ELSE Broadcast(ReadyForChannels(E),
                    IF frame /\ first THEN "disconnected" ELSE problem)

\* ensure_transport, as the constructor of a channel calls it.
EnsureTransport(D, c) ==
  IF D.ws # "none" /\ D.ready THEN Attach(D, c)
  ELSE [D EXCEPT !.ws = IF @ = "none" THEN "opening" ELSE @,
                 !.waiters = Append(@, c)]

CreateChannel(D, c) ==
  EnsureTransport([D EXCEPT !.chan[c].stage = "valid"], c)

\* self.send, self.control and self.close of a channel.
ChannelPost(D, c, m) ==
  IF D.chan[c].attached THEN SendData(D, [m EXCEPT !.id = D.chan[c].id])
  ELSE [D EXCEPT !.chan[c].queue = Append(@, m)]

ChannelSend(D, c) ==
  ChannelPost(D, c, Msg("data", NoId, IF c \in Binary THEN "raw" ELSE "none"))

\* self.control of a "done", which looks neither at closed nor at sent_done.
\* The message of a script that ends its output again, or after it closed, is
\* the same; it has a kind of its own to tell who broke the protocol.
ChannelDone(D, c) ==
  LET k == D.chan[c] IN
  ChannelPost([D EXCEPT !.chan[c].sent_done = TRUE], c,
              Msg(IF k.sent_done \/ k.stage = "closed" THEN "again" ELSE "done",
                  NoId, "none"))

ChannelClose(D, c, problem) ==
  LET E == ChannelPost(D, c, Msg("close", NoId, problem))
  IN [E EXCEPT !.chan[c] = Closed(@, problem)]

ChannelWait(D, c) ==
  [D EXCEPT !.chan[c].waiting =
     IF D.chan[c].stage = "closed" THEN "rejected"
     ELSE IF D.chan[c].ready THEN "resolved" ELSE "pending"]

\* on_ready of a channel: the "ready" event resolves the promise of wait().
Readied(k) ==
  [k EXCEPT !.ready = TRUE, !.waiting = IF @ = "pending" THEN "resolved" ELSE @]

OnMessage(D, c) ==
  IF D.chan[c].received_done THEN ChannelClose(D, c, "protocol-error") ELSE D

OnControl(D, c, m) ==
  CASE m.kind = "close" -> [D EXCEPT !.chan[c] = Closed(@, m.arg)]
    [] m.kind = "ready" ->
         [D EXCEPT !.chan[c] = Readied(@)]
    [] m.kind = "done" ->
         IF D.chan[c].received_done THEN ChannelClose(D, c, "protocol-error")
         ELSE [D EXCEPT !.chan[c].received_done = TRUE]

\* process_init.  arg says what is wrong with the init, id[1] is its seed.
ProcessInit(D, m, frame) ==
  IF m.arg # "none" THEN TransportClose(D, m.arg, frame)
  ELSE LET E == [D EXCEPT !.seed = m.id[1]]
       IN IF D.waiting_for_init
          THEN ReadyForChannels([E EXCEPT !.waiting_for_init = FALSE])
          ELSE E

\* dispatch_data, after the filters: process_control and process_message.
Dispatch(D, m, frame) ==
  LET to == {c \in DOMAIN D.chan : D.chan[c].registered /\ D.chan[c].id = m.id}
  IN CASE m.kind = "data" ->
            IF to = {} THEN D ELSE OnMessage(D, CHOOSE c \in to : TRUE)
       [] m.kind = "init" -> ProcessInit(D, m, frame)
       [] m.kind # "init" /\ m.kind # "data" /\ D.waiting_for_init ->
            TransportClose([D EXCEPT !.waiting_for_init = FALSE],
                           "protocol-error", frame)
       [] m.kind = "hint" /\ ~D.waiting_for_init -> [D EXCEPT !.hidden = (m.arg = "hidden")]
       [] m.kind \in {"ready", "done", "close"} /\ ~D.waiting_for_init ->
            IF to = {} THEN D ELSE OnControl(D, CHOOSE c \in to : TRUE, m)
=============================================================================
