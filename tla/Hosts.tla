-------------------------------- MODULE Hosts --------------------------------
(***************************************************************************)
(* machines.js: the Loader that keeps a connection to one saved host, the  *)
(* Machines object it writes to, and the Machines object of another frame, *)
(* which follows it through sessionStorage.  A refresh triggers its events *)
(* at once, so an action is a whole chain of calls.                        *)
(***************************************************************************)
EXTENDS Naturals, Sequences

CONSTANTS MaxConnections,  \* bound: echo channels opened
          MaxEdits         \* bound: changes of the saved host

ASSUME HostsAssumption == MaxConnections \in Nat /\ MaxEdits \in Nat

VARIABLES L,          \* the frame of the Loader, as a record
          edits,
          mail,       \* storage events on their way to the other frame
          reader      \* what its Machines object holds

hostvars == <<L, edits, mail, reader>>

\* The saved properties of the host, and the overlay of what is known.
Content == [visible : BOOLEAN, address : {"a", "b"}]
Overlay == [state : {"none", "connecting", "connected", "failed"}, problem : BOOLEAN,
            restarting : BOOLEAN, manifests : BOOLEAN]

\* The closure of one call of connect(): a request for the manifests is
\* under way, the channel has answered, the manifests have to be loaded.
Connection == [request : BOOLEAN, open : BOOLEAN, url : BOOLEAN]

Connections == 1..MaxConnections

HostsInit ==
  /\ L = [content |-> [visible |-> FALSE, address |-> "a"],
          overlay |-> [state |-> "none", problem |-> FALSE, restarting |-> FALSE,
                       manifests |-> FALSE],
          made |-> 0, channel |-> 0, timers |-> 0, push |-> FALSE,
          conn |-> [i \in Connections |-> [request |-> FALSE, open |-> FALSE, url |-> FALSE]]]
  /\ edits = 0 /\ mail = <<>>
  /\ reader = [content |-> L.content, overlay |-> L.overlay]

-----------------------------------------------------------------------------
(* The chain of calls.  M is the frame's state.                            *)

Shared(M) == [content |-> M.content, overlay |-> M.overlay]

PushNever(M) == M

\* refresh(shared, true): a timeout will store what is there then.
Push(M) == [M EXCEPT !.push = TRUE]

\* The overlay that state() writes.
StateValues(overlay, value, problem) ==
  [overlay EXCEPT !.state = value, !.problem = problem,
                  !.restarting = IF value = "connected" THEN FALSE ELSE @,
                  !.manifests = IF value # "connected" /\ problem THEN FALSE ELSE @]

ConnectAgain(M) ==
  Push([M EXCEPT !.made = @ + 1, !.channel = M.made + 1,
                 !.conn[M.made + 1].url = ~M.overlay.manifests,
                 !.overlay = StateValues(@, "connecting", FALSE)])

\* connect(): opens a channel unless there is one.  The last thing it does
\* is whirl(), whose refresh finds the channel there.
Connect(M) ==
  IF M.channel # 0 THEN M
  ELSE Push([M EXCEPT !.made = @ + 1, !.channel = M.made + 1,
                      !.conn[M.made + 1].url = ~M.overlay.manifests,
                      !.overlay = StateValues(@, "connecting", FALSE)])

\* The close handler of the channel of connection i, with or without a
\* problem.  The refresh in it never connects: either there is a problem or
\* the host is not visible.
Closed(M, i, problem) ==
  LET orderly == ~problem /\ ~M.content.visible
      N == [M EXCEPT !.conn[i].open = FALSE, !.channel = 0,
                     !.timers = IF M.overlay.restarting THEN @ + 1 ELSE @,
                     !.overlay = IF orderly THEN StateValues(@, "none", FALSE)
                                 ELSE StateValues(@, "failed", TRUE)]
  IN Push(N)

\* disconnect(): close() of a channel calls its close handler.
Disconnect(M) == IF M.channel = 0 THEN M ELSE Closed(M, M.channel, FALSE)

\* updated(), the handler of refresh: moved if the connection string changed.
Updated(M, moved) ==
  CASE M.content.visible /\ moved -> Connect(Disconnect(M))
    [] M.content.visible /\ ~moved /\ ~M.overlay.problem -> Connect(M)
    [] M.content.visible /\ ~moved /\ M.overlay.problem -> M
    [] ~M.content.visible -> Disconnect(M)

\* machines.overlay(host, values)
Overlaid(M, overlay) == Updated(Push([M EXCEPT !.overlay = overlay]), FALSE)

WhirlAnyway(M, i) ==
  Overlaid(M, IF ~M.conn[i].request THEN StateValues(M.overlay, "connected", FALSE)
              ELSE StateValues(M.overlay, "connecting", FALSE))

\* whirl() of connection i.  Its problem variable is never assigned.
Whirl(M, i) ==
  Overlaid(M, IF ~M.conn[i].request /\ M.conn[i].open
              THEN StateValues(M.overlay, "connected", FALSE)
              ELSE StateValues(M.overlay, "connecting", FALSE))

-----------------------------------------------------------------------------
outer == <<edits, mail, reader>>

Room == L.made + 1 < MaxConnections

\* The bridge's Machines property changes: machines.data(content).
ContentChanges(content) ==
  /\ edits < MaxEdits /\ Room /\ content # L.content
  /\ edits' = edits + 1
  /\ L' = Updated(Push([L EXCEPT !.content = content]), content.address # L.content.address)
  /\ UNCHANGED <<mail, reader>>

\* The echo channel answers.
Message ==
  /\ L.channel # 0 /\ ~L.conn[L.channel].open /\ Room
  /\ LET i == L.channel
     IN L' = Whirl([L EXCEPT !.conn[i].open = TRUE, !.conn[i].request = L.conn[i].url], i)
  /\ UNCHANGED outer

\* The request for the manifests of connection i ends, whether or not the
\* connection is still there.
RequestEnds(i, ok) ==
  /\ L.conn[i].request /\ Room
  /\ LET M == IF ok THEN Overlaid(L, [L.overlay EXCEPT !.manifests = TRUE]) ELSE L
     IN L' = Whirl([M EXCEPT !.conn[i].request = FALSE], i)
  /\ UNCHANGED outer

\* The packages of the host changed: the subscription of watch_manifests.
ManifestsChange ==
  /\ L.channel # 0 /\ L.conn[L.channel].open /\ ~L.overlay.manifests
  /\ L' = Overlaid(L, [L.overlay EXCEPT !.manifests = TRUE])
  /\ UNCHANGED outer

\* The connection is lost.
ChannelFails ==
  /\ L.channel # 0
  /\ L' = Closed(L, L.channel, TRUE)
  /\ UNCHANGED outer

\* A page says that the host will restart.
ExpectRestart ==
  /\ edits < MaxEdits /\ Room
  /\ edits' = edits + 1
  /\ L' = Overlaid(L, [L.overlay EXCEPT !.restarting = TRUE, !.problem = FALSE])
  /\ UNCHANGED <<mail, reader>>

\* The timeout after a restart.
RestartTimer ==
  /\ L.timers > 0 /\ Room
  /\ L' = Connect([L EXCEPT !.timers = @ - 1])
  /\ UNCHANGED outer

\* The timeout of refresh() stores what is there by now.
StoreShared ==
  /\ L.push
  /\ L' = [L EXCEPT !.push = FALSE]
  /\ mail' = Append(mail, Shared(L))
  /\ UNCHANGED <<edits, reader>>

\* The storage handler of the other frame: refresh(), without a push.
ReaderStorage ==
  /\ mail # <<>>
  /\ reader' = Head(mail) /\ mail' = Tail(mail)
  /\ UNCHANGED <<L, edits>>

HostsNext ==
  \/ \E content \in Content : ContentChanges(content)
  \/ Message
  \/ \E i \in Connections, ok \in BOOLEAN : RequestEnds(i, ok)
  \/ ManifestsChange
  \/ ChannelFails
  \/ ExpectRestart
  \/ RestartTimer
  \/ StoreShared
  \/ ReaderStorage

HostsSpec == HostsInit /\ [][HostsNext]_hostvars

-----------------------------------------------------------------------------
HostsTypeOK ==
  /\ L.content \in Content /\ L.overlay \in Overlay
  /\ L.made \in 0..MaxConnections /\ L.channel \in 0..L.made
  /\ L.conn \in [Connections -> Connection]
  /\ reader.content \in Content /\ reader.overlay \in Overlay

\* A host is shown as connected only while its channel is there and has
\* answered, whatever requests and timeouts of earlier connections do
\* afterwards (whirl); and only the channel the Loader knows is open, so
\* that no call of connect() leaves one behind.
ConnectedIsOpen ==
  /\ L.overlay.state = "connected" => L.channel # 0 /\ L.conn[L.channel].open
  /\ \A i \in Connections : L.conn[i].open => i = L.channel

\* Once nothing is on its way, the other frame has the state of the Loader,
\* although only one in several refreshes is stored.
ReaderCurrent == ~L.push /\ mail = <<>> => reader = Shared(L)

\* "Don't automatically reconnect failed machines": a host that failed is
\* connected again when its address changes or a restart is expected, and
\* otherwise only when asked for.
FailedStays ==
  [][L.overlay.state = "failed" /\ L'.channel > L.channel
       => edits' > edits \/ L'.timers < L.timers]_hostvars
=============================================================================
