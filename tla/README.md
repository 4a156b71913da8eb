# Cockpit, in TLA+

Cockpit is a web console for servers. A browser page talks over a WebSocket to
`cockpit-ws`, which logs the user in and relays to `cockpit-bridge`, a process that
runs in the user's session. All communication is in *channels*, multiplexed over one
message stream (`doc/protocol.md`). This directory models four levels: the part of the
bridge that carries every channel (transport with its freeze queue, router, peers, local
channels, pipes); of `cockpit-ws`, the logins and the service that relays between WebSockets and
the bridge; `cockpit.js`, the library every page is written with, and the shell
that relays between frames; and the models behind seventeen pages. TLC checks small
instances. For every value of the constants, TLAPS proves the properties of the transport, of the
pipe, of the logins, and of five parts of the library and the pages, and that the bridge uses
its transport as the transport's specification allows.

## 1. The system

| Component | State | Operations | Talks to |
|---|---|---|---|
| `CockpitPipe` (`src/common/cockpitpipe.c`) | descriptors, a source for each, queue of blocks, bytes written of the first, child watch, closing, closed, problem | write, close, dispose; callbacks for input, output, stderr, child, idle close | emits `read` and `close` to its owner, on the stack of the callback |
| `CockpitTransport` (`src/common/cockpittransport.c`), `CockpitPipeTransport` | table `freeze` of channel names, queue `frozen` of held messages | emit, freeze, thaw, close | emits `control` and `recv`, handlers run at once and call back |
| `CockpitRouter` (`src/bridge/cockpitrouter.c`) | list of rules, local channels, channels of the "fence" group, channels held by the fence, init | init, open, kill, reload of the bridges | creates channels, asks peers, freezes and thaws |
| `CockpitPeer` (`src/bridge/cockpitpeer.c`) | transport to the process, init received, channels, frozen channels, timer, closed and problem | handle an open, ensure, reset; events of the process and the timer | freezes and thaws the frontend's transport, forwards both ways |
| `CockpitChannel` (`src/bridge/cockpitchannel.c`) and its payloads (D-Bus, HTTP, files, streams, metrics) | prepared, sent and emitted close, done flags, output buffer | prepare, ready, receive, send, control, close | frozen until ready; tells the router when closed |
| `cockpit-bridge` (`src/bridge/bridge.c`) | the main loop | start, reload packages, exit | all of the above |
| `CockpitWebService` (`src/ws/cockpitwebservice.c`) | sockets, the session's transport, channel to socket table, init and close flags | relay both ways, socket open and close, idle | WebSockets, transport |
| `CockpitAuth` (`src/ws/cockpitauth.c`), `session.c` | logins under way, sessions, pending conversations, timers | login, resume, authorize reply, timeout, idle | `cockpit-session`, `cockpit-ssh` |
| Web server, responses, WebSocket library (`src/common/cockpitweb*.c`, `src/websocket`) | connections, queued output, filters, close handshake | requests, queue, complete, abort, close | `CockpitWebService`, handlers |
| `cockpit.js` transport, channels (`src/base1/cockpit.js`) | the transport, callbacks by channel, queues before `init` | channel, send, control, close, health check | `cockpit-ws`, or the shell |
| Shell (`pkg/shell/base_index.js`, `indexes.js`) | frames and their documents, seeds, groups, hints, watchdog | register, forward both ways, reload and removal of a frame | WebSocket, frames by `postMessage` |
| `cockpit.js` library | promises and their queue; D-Bus calls, watches, cache and proxies; file objects; buffers; series, grids and metrics; caches shared by frames | the public API | channels, `localStorage` |
| Machines (`pkg/lib/machines.js`) | one connection per host, overlay of its state | connect, problem, refresh, storage events | other frames, channels |
| Kubernetes client (`pkg/kubernetes/scripts/kube-client*.js`) | objects, watches and their last version, index of keys | watch, retry, flush, load, select | API server |
| Updates (`pkg/packagekit`, `pkg/lib/packagekit.es6`) | state of the page, the transaction watched; backend of automatic updates | refresh, apply, cancel, install; enable, set | PackageKit, systemd |
| Networking (`pkg/networkmanager/interfaces.js`) | objects by path, settings, derived interfaces; checkpoints under way | signals, refreshes, exports; `with_checkpoint` | NetworkManager |
| Logs, Services (`pkg/systemd`) | the box and three processes; units by path, pending renders | scroll, follow; signals, lists, properties | `journalctl`, systemd |
| Docker, Realmd, Subscriptions, Login page | containers and requests; the realm and the operation; two commands; form, handlers and requests | see the modules | Docker, realmd, subscription-manager, `cockpit-ws` |
| Virtual machines, Firewall, OSTree, `lib/service.js` | machines and placeholders; services with their details; the connection and what runs; a unit and promises of its jobs | see the modules | libvirt, firewalld, rpm-ostree, systemd |
| Storage, accounts, other pages | views over D-Bus proxies or commands | | |

**What is hard here.** Everything runs in one thread, yet calls nest. A signal runs its
handlers at once; a handler freezes the channel it is handling, thaws another, closes a
peer or walks the rules, and these emit again, while the loop that started it all is
half done. In `cockpit-ws` the answer to a login is sent from within whatever ended it, and the
sessions are counted by hand meanwhile. Processes die before or after their `init`, with channels in every state.
A fence holds opens back and lets them go. Timers reset peers. A reload replaces the
rules while opens wait. Pipes end in any order: input, output, stderr, child.

In the browser one event runs at a time, yet everything between two events is open. A
document is replaced while its messages are under way. A cached value changes between
the call and its handler. Answers come in another order than the calls, or after the
dialog has moved on; a watch ends and starts again with an older version; a timer fires
after the state it was set for; two frames claim the same value. Tests fix one order
each; the models below take all of them.

**What makes it correct.** A channel's messages reach one handler, in order, without a
gap; none is stranded in a queue; every open is answered; a close is told once and is
the last word; a pipe writes what it is given, and says it is closed once and last. A page
shows, once it is quiet, what the service it watches has, is not busy for nothing, and
never loses a change it has confirmed.
`PROJECT.json` lists the hazards by line with the properties that would catch them.

## 2. Modules

| Module | Models | Used by |
|---|---|---|
| `Transport` | freeze, thaw, the walk of the queue, nested calls | `Peer`, `MCTransport`, `TransportProofs` |
| `Peer` | `CockpitPeer` | `Router` |
| `Router` | `CockpitRouter` and the life of a local `CockpitChannel` | `Bridge` |
| `Bridge` | the composition with the frontend and the main loop; properties | `MCBridge`, `BridgeProofs` |
| `Pipe` | `CockpitPipe` | `PipeProofs` |
| `WebService` | `CockpitWebService` for one session, the server's end of its WebSockets | `MCSession`, `WebServiceProofs` |
| `Auth` | `CockpitAuth`: logins, sessions, conversations, timers | `MCSession`, `AuthProofs` |
| `MCTransport`, `MCBridge` | instances for TLC | |
| `TransportProofs`, `BridgeProofs`, `PipeProofs`, `AuthProofs`, `WebServiceProofs`, `ShellProofs`, `LibraryProofs` (of `File`, `StorageCache` and `DBusClient`), `PagesProofs` (of `MCPages` and eight models of pages) | theorems; `BridgeProofs` instantiates those of `TransportProofs` | |
| `Page` | transport and channels of one document, as operators on a record | `Shell` |
| `Shell` | the shell, its frames, the WebSocket and the server as a page sees it | `MCShell` |
| `Promises`, `DBusClient`, `File`, `Streams`, `Series`, `StorageCache` | the parts of `cockpit.js` named in section 1 | `MCLibrary` |
| `Hosts`, `Kube`, `Select`, `Updates`, `AutoUpdates`, `Checkpoint`, `NetModel`, `JournalBox`, `Login`, `Docker`, `Services`, `Realmd`, `Subscriptions`, `ServiceProxy`, `Firewall`, `OSTree`, `Libvirt` | one model behind a page each | `MCPages` |

### Transport

`freeze` is the table, `frozen` the queue shared by all channels. The code compares names
of held messages by *address*: freezing a name again makes a new copy of it. `key[c]`
numbers the copies. `cur` is the message whose handlers run, `stack` the calls below it;
a walk of `cockpit_transport_thaw` is a frame with the channel, the copy it looks for, and
the link it will visit next. `sent` and `taken` count messages that arrived and that a
handler took. Actions: `Recv` (the read loop delivers a frame), `Take`, `TakeAndFreeze`
(a handler that also freezes, as a new channel does), `PutBack` (freeze and emit again, as
`cockpit_peer_handle` and the fence do), `Thaw`, `FlushNext`, `FlushEnd`, `Close`.

A nested walk may free the very link an outer walk has saved. What the code does then is
undefined, so `FlushDangling` is free: the process dies or the walk ends. The flag
`dangled` remembers it, and the properties are about behaviours without it.

### Peer, Router, Bridge

One step starts from an empty stack for each callback of the main loop: a frame of the
frontend (`FrontSend`, `FrontInit`, `FrontKill`), an event of a peer's process (`OtherInit`,
`OtherInitProblem`, `OtherExit`, `OtherReady`, `OtherClose`), a timer (`PeerTimeout`), the
idle callback of a channel (`Prepare`), a local channel that gets ready, fails or has
finished closing (`LocalEvent`), a reload (`SetBridges`). A loop that calls out is a frame
on the stack and takes one step per round: `resume` (thaw the channels of a queue),
`orphans` (`on_other_closed`), `reset`, `clear`, `dispose`, `rules` (the walk of
`process_open`), `kill`, `bridges`, `ready`. Calls that only change the caller's own state
are part of the step of their caller.

`handlers` is the order in which peers and channels connected to the transport's signals;
the first that claims a message gets it. `out[c]` is what the frontend is told, `got[c]`
who was handed which message; both are histories.

Abstractions: a peer stands for its configuration; messages are `open`, `data` and `close`
with a number; a problem code is whether there is one. Links of other channels are skipped
within one step of a walk. A local channel may close at once or stay `closing` until its
own pipe or socket has ended. `closed` stops the model, since the bridge exits.

### Pipe

`pipe` is the `CockpitPipe`, one field per member, `kind` the way it was created: `connect`,
`pty`, `spawn` with stderr (without it is the same after stderr has ended), `new` with two
descriptors, `pair` (one end of a socket pair and a process, as `CockpitPeer` and
`CockpitAuth` make), and one that `failed` to start. Bytes are numbered, a block is a range of
them, so `wire`, the bytes written, can be compared with those given. `reading` marks that
handlers of `read` run, in which the owner may write and close. `OutputWrites(n)` is
`dispatch_output` with a `writev` that takes `n` bytes, any number up to all it is offered.

### WebService, Auth

`WebService` has a socket with its connection as one record; operators named for the functions of
`websocketconnection.c` (`IoClosed`, `CloseSent`, `Orderly`, `State`) take it and return it. Actions are
callbacks of the main loop: `Connect`, `Start` (the handshake, in an idle callback), `Input` and `InputLogout`
(one frame with all that handling it calls), `Output`, `IoTimeout` (five seconds without an answer to the close), `Lost`,
`Destroy` (the stream is closed at last), `FromBridge`, `BridgeEnds`. Frames still on the wire and
those read are one queue, so a frame may be handled long after the service has closed the socket, or
never. A browser may leave in order, vanish with any part of what it sent, or send a malformed frame or
command, by the constant `Faults`. `told` and `came` are histories of what passed each way.

`Auth` has one record for the whole `CockpitAuth`, since completing a login reaches through all of it:
`g_simple_async_result_complete` runs `cockpit_auth_login_finish` on the stack, which resets the session that is being
reset. Each function is an operator on that record, composed in the order of the calls; `refs` is counted as the code counts
it, and `dangling` notes a use after the free. `timer` is the one `timeout_tag`, by what it was set for: the
process, the client, or an idle session. Actions: a request (`LoginNew`, `LoginReply`), its idle callback, what
`cockpit-session` sends (`ProcessAsks`, `ProcessPrompts`, `ProcessInits`), the end of its transport, the three
timers, sockets and logout. Of the web service it has the number of callers and whether it is disposed.

### Page, Shell

`Page` holds no variables: an operator takes a document's record and returns the next one, with
what it hands to its socket or parent in `out`. An event is a composition of such operators: a transport that becomes
ready, for instance, attaches each waiting channel (`AttachAll`), and each names itself (`Name`) and sends its queue
(`SendAll`). `Shell` runs it for the shell and for each frame. A document that got `beforeunload` expects the
disconnect and tells its channels nothing of it (`expect`), also when it stays; the hint that turns the health check off
(`ignoring`) is the shell's. The router forwards binary data without a look at its sender (`Forwards`), so data of a
document that is gone still reaches the server. `done` may be sent by a script at any time: one that comes
after another or after the close has the kind `again`, so that a script's own mistake is told from one of the library.
Events are the browser's: `SocketMessage`, `SocketClosed`, a posted message (`posted` is in order
between two windows), the load and the end of a document, a call by its script, the
health check. A window keeps its name when its document is replaced, so a message under way to
the old one is handed to the new one, as in the browser. Server actions answer what
has been opened. Text, and all of the menus, is left out.

### The library

* `Promises`: a `Deferred` with its state, pending entries and scheduled flag, and the one queue
  of functions called later (`later_invoke`). Script code (`Resolve`, `ResolveWith`, `Then`, `Notify`) runs between the
  functions and inside each handler, so a handler may settle or add to the very promise whose entries
  are being walked. A handler may also throw (`Throw`, `ThrowUpdate`): what `later_drain` had taken and not called is
  dropped, and the promises among it stay scheduled (`lost`).
* `DBusClient`: the properties of an object are a version. Calls and watches go out in `dsent`,
  answers and notifications come back in `drecv`, in order. The bridge's end follows `cockpitdbuscache.c`: a reply follows
  the notifications the bridge had before it. Handlers of a notification run in a later turn.
* `File`: content is the set of changes in it, a tag is a number. The bridge's `fsread1`,
  `fsreplace1` (which checks the tag at the open and again before it renames) and `fswatch1` are
  actions; `OtherWrites` is any other program. `fsread1` compares the tag it began with to that of the descriptor it
  holds (`held`): a write in place makes the read fail and start again, a `rename()` does not, and the read ends well with the old
  content. `fswatch1` reports only changes made after it began to monitor the file.
* `Streams`: `channel.buffer` with the callback's count of bytes it took, `HttpClient`, and
  `journalctl()` with its interval, its incomplete line and a `stream()` that may come late.
* `Series`: `SeriesSink` with cache and limit, `stash`, `truncate`, expiry; grids that walk,
  move and are filled. A sample's value is its own time. Series with one identifier share an index that lives in a parent
  window and outlives their frames (`OtherInput`, `FrameReloaded`), while each has a count and a list of its
  own. A channel that fails to find its source is followed by one with the next options.
* `StorageCache`: a value in the top window, versions in `sessionStorage`, storage events that come later.

### The pages

Each module has the page's state and the service's, and the calls, replies and signals between
them. Replies come in order where the service answers in order over one connection (D-Bus to one
process, one pipe), in any order where they are HTTP requests or processes of their own. An action is a
whole event of the browser: jQuery and `cockpit` handlers that run at once are part of it.
What a service lists, the wording and the layout are data and left out; each header says
what else is. The services are external; what they may do is read off how the page uses them.

`Updates` has the gap between the reply that names a running update and the subscription to it, in which the update may end
(`FoundEnds`). `Kube` has a watch for each path; a new limit cancels the watches outside it and starts others only if one was
outside. Answers to `Docker` come in any order.

The modules of `MCLibrary` and of `MCPages` share no state. Each behaviour picks one part at the
start, so the runs are unions and not products.

## 3. Runs

| Run | Instance | Shows |
|---|---|---|
| `transport` | 2 channels, 3 and 2 messages, each name copied up to `MaxKeys` times | `TransportInv` (inductive), `InOrder`, `NoneLeftBehind` |
| `bridge` | a channel for two peers, a fence channel whose id is used twice, a malformed open; kills and closes | one handler in order, nothing dropped, nothing frozen without a holder, one owner; `Bridge` implements `Transport` |
| `bridge_live` | the same with a reload, under fairness | every open is answered |
| `pipe` | all kinds, blocks of 1 and 2 bytes, 5 bytes, 2 reads | bytes, signals, flush before a normal close |
| `pipe_live` | the same without blocked writes, under fairness | what is given is written; a close ends |
| `shell` | a shell, a frame with two documents one after the other, a channel each, one of them binary | the protocol per channel, routing, hints, the lost connection |
| `session` | 2 processes, 3 logins, a prompt each; a socket with a channel and all faults, or two sockets | counts and references, no session forgotten, every login answered; the protocol of each channel, every socket ends |
| `library` | the six parts of `cockpit.js` | section 4 |
| `pages` | the seventeen models | section 4 |
| `services_gone`, `socket_lost`, `modify_retry` | the smallest instance of each | the disagreements of section 6 |

`UsesTransport` is the refinement that ties the two levels: with the stack cut down to its
walks, every step of `Bridge` is a step of `Transport` or leaves it alone. It is proved too
(section 5), and with it what is proved of `Transport` holds in the bridge.

**Bounds.** `MaxKeys` 2: a channel can be frozen, thawed and frozen again from within the walk,
which is where copies of a name meet. `MaxMsgs`: an open, a message that waits behind it and a close are the three
roles a message can have. `MaxSpawns`: a second process is needed only for the reset of a
peer with a timeout (section 6), so `OneOwner` is checked without such a peer. `MaxReloads` is 0 in `bridge`, whose
`NothingDropped` fails after a reload that drops a peer (section 6), and 1 in `bridge_live`: one reload under way is what can
disturb; two in a row start from a settled state. Two peers are the least for a channel to
be passed on, two frozen channels the least for nested walks. `IovMax` is 2 for the code's 4,
so that three blocks do not fit in one call. `MaxBytes` 5 allows such a queue with a
partly written first block.

Session: three logins let a request, the reply to its prompt and another request cross while two
are the limit of startups; two processes make the counts differ. With one message each way and
the close, each can be under way when the other end closes. The second socket has no channel: it logs out, or is
closed with the first. Two sockets with all faults (8.3 million states) satisfy the
invariants too, outside the time a run may take.

Shell: `MaxCalls` 2 is what scripts do with their channels, hints, logout and `beforeunload` included, so a call can queue behind another; `MaxAnswers` 1 what the server
says by itself, `MaxJumps` 2 how often the user shows another frame. `Hurried = TRUE` lets documents go before the shell
looked at their `init`; what follows such an exit the invariants except, by the variable `hurried`. Two documents in one window are the least for a message to
meet the wrong one. Library: four deferreds make a chain and one added by a handler; two
cookies let a reply overtake, one loss ends the channel in between; two modifiers and one disturbance
(another's write or an error) are what a retry has to survive; four samples against a cache of three
force the expiry while the index is searched; two frames are the least that can both claim. Pages:
two objects, paths or operations where they can cross, else one; two or three changes, so that a
change falls before, between and after the two reads of a refresh; one or two failures. With `Faults = {}`
a watch of `Kube` ends only between complete frames, without `Overlap` a unit is not started again while
its job waits, and without `Hasty` a machine changes only between reads of it, and `virsh` is quicker than
the ten seconds until the next attempt; the other cases are in section 6. Every
bound is a named constant in a guard.

`CHECK_DEADLOCK FALSE` is used throughout: the bridge may exit, a pipe ends closed, and the
frontend need not send more.

**Fairness.** In `Bridge`, weak fairness for calls under way (they return) and for a new
channel's idle callback (the main loop dispatches what stays ready); of the world, a started
process sends its `init` or exits, and a channel of the fence group ends, which is strong
fairness because the main loop may be busy now and then. Nothing is assumed of the
frontend, of reloads or of timers. In `Pipe`, weak fairness for handlers that return, for
output while its source is in the loop, for the idle close; of the world, the other end
ends once the pipe is closing, and a process whose pipe is closed exits. A process that ignores both
the end of its input and SIGTERM keeps its pipe open; that is the code's design. In `cockpit-ws`, weak
fairness of idle callbacks, timers, output that the socket takes and the completed close of a stream; of the world, a
process whose transport was closed exits. Nothing is assumed of browsers, or of a session process that
does not answer. In the browser,
weak fairness of events that are due: a message or the close of the socket, the functions to be called
later, messages of the bridge, which reads what it is sent. `Checkpoint` assumes also that
NetworkManager answers and that the rollback it was asked for happens. Nothing is assumed of
users, of other programs or of services otherwise.

## 4. Properties

* `InOrder`, `NoneLeftBehind` (Transport): a handler sees a channel's messages in order
  however they were held; back in the main loop nothing is left for a channel that is not frozen.
* `OneHandlerInOrder`: one handler has all of a channel's messages from the open on, though
  failed peers and rules were tried before.
* `NothingDropped`: a message nobody got is of a channel one end has closed or is closing.
* `FrozenHasHolder`: a frozen channel has somebody who will thaw it.
* `OneOwner`: no channel is in the tables of two peers, or of one and local.
* `EveryOpenAnswered`: liveness of the open.
* `StreamIntact`: written and queued bytes together are those given, in order.
* `SignalsInOrder`, `CloseSignal`, `NormalCloseFlushed`, `ClosesInTheEnd`,
  `Written`: the contract of `CockpitPipe`.
* `CountsExact`: `startups` is the number of requests without an answer, each is answered once, and a
  session's references are those of the tables and results, so it is freed then and only then, and not used after.
* `Attended`: a session that is left alone has a timer or an ending process; a cookie is of a live service.
  `LoginsAnswered`: also when the process hangs.
* `ToldOnce`: the bridge hears of a channel's open first and of its close once and last, and of the end of all channels of
  a browser that left in order. `Delivered`: the browser gets what the bridge sent, in order, the close included.
  `SocketsEnd`: a socket that is closing ends without the browser's help.
* `ProtocolKept`: whatever was queued and whoever closed first, the server sees a channel's open,
  messages, at most one done and the close last; but for binary data of a document the router knows no more. `Routed`: an open
  channel belongs to a live document and its messages go there. `HiddenKnown`, `LossNoticed`: a frame knows whether it is hidden, the user
  that the connection is lost, unless the page expects a disconnect or was told to ignore the health check.
* `HandlersRun`: a handler added while others run is called, and an exception costs no handlers but those
  of the same round. `HandlersSeeCache`: a reply's handler sees
  the cache as it was when the bridge replied. `CallsAnswered`: also by a close.
* `NoChangeLost`: a change that `modify()` has confirmed is in the file for good. `WatchIsCurrent`: a
  watch has seen the content there is, unless its last read failed or was `overtaken` (section 6).
* `BuffersKeep`: `StreamedWhole` (consumed and delivered pieces are what was sent) and `CacheKeepsLimit` (the
  accounting and order of the series cache: the samples of a shared index are those its series count, gone ones included). `SeenIsShared`: frames agree on a shared value.
* `ConnectedIsOpen`: a host is connected only by the channel the loader knows, and no other is left open.
* `NoFalseNegatives`: the index of `kube-client.js` finds what has the keys.
* `BusyHasCause`: a busy page has something under way that ends it, and a waiting one can be used. Its parts are
  `FormCanBeSent` (Login: the form works after any crossing of requests), `BusyHasTransaction` (Updates; but for an update
  that was found running and ended before it was watched, section 6),
  `BusyEnds` (Realmd), `JobsSettle` (ServiceProxy), `RunningHasCause` (OSTree), `PlaceholderLeaves` (Libvirt).
* `KeptIsInPlace`, `CurtainFalls`: a kept network change was not rolled back; the curtain goes.
* `ShownWhenQuiet`: each page shows the state of its service when nothing is under way. Its parts are
  `ReaderCurrent` (Hosts), `LiveShown` (Kube, of the namespaces that are watched), `NetCurrent`, `ShownIsSet` (AutoUpdates), `ContainersFollow`
  (Docker, unless a list has overtaken older answers), `TableCurrent` (Services), `RealmOfAddress`, `StatusShown` (Subscriptions), `ProxyCurrent`
  (ServiceProxy), `FirewallShown`, `RunningShown` (OSTree), `MachinesShown` (Libvirt), `BoxRendered` (JournalBox: the box
  shows what rendering all its entries at once would).

`PROJECT.json` names one mutant per property. Each part of the three conjunctions has its own
operator next to the definition it would replace, which breaks just that part: `PushNever`,
`AcceptAny`, `PopRefreshLate`, `ScriptDoneDay`, `ListedOnlyNew`, `RenderDropped`, `AnswerUnasked`, `GetForgets`,
`SettledOften`, `RefreshProxyNever`, `OwnerKeepsList`, `TriggerDropped`, `UndefineAny`, `BottomOutputAgain` (for `ShownWhenQuiet`),
`ClosedUnwatched`, `EnsureQuiet`, `JobRemovedDone`, `CleanupKeeps`, `RemoveCreateAll`,
`CallLoginEarly` (for `BusyHasCause`), `StashUncounted`, `LeftOfLast` (for `BuffersKeep`). The type invariants `ShellTypeOK`,
`LibraryTypeOK`, `PagesTypeOK`, `AuthTypeOK` and `WebServiceTypeOK` hold and are not listed in the runs, which
ask for more; `ProcessStaysScheduled` (Promises) and `NotWaitingIfDone` (Docker) break theirs.

## 5. Proofs

**Transport** (`TransportProofs`: `TransportTypes`, `Invariance`, `Order`, `Completeness`).
Assumed: nothing of the constants (`MaxMsgsAssumption` types the bound). `InOrder` is not inductive; `TransportInv` is
the type invariant and, unless a walk met a freed link, `Orderly`:

* the message being emitted is of a channel that is not frozen; it and the links are exactly the
  messages received and not taken, and it is earlier than the links of its channel
  (`OneAtATime`, `Pending`);
* copies of a channel's name grow with the depth of its walks on the stack, and a link of an old
  copy has a walk that will visit it (`KeysGrow`, `HasWalk`);
* of one channel, links of a newer copy hold earlier messages, and links of one copy are in
  order (`QueueOrder`);
* what a walk still has to emit is not before the link it has saved (`Ahead`).

The step that needs them all is `PutBack` from within a walk: the message goes to the tail under
a new copy, behind links with later messages of the same channel, and is still delivered
first, since the outer walk finds those links frozen under the new copy and queues them again after
it. `Recv` is harmless because the main loop runs it with an empty stack, where every link of a
channel is of its current copy. `FlushEnd` uses `Ahead`: no link of the copy is left when
the walk reaches the end.

**Bridge** (`BridgeProofs`: `BridgeTypes`, `Refinement`, `BridgeOrder`, `BridgeCompleteness`,
`FrozenIsHeld`, `ResetNeverAsserts`, `OwnedOnce`, `OneHandler`, `NoneDropped`), for any
channels, peers, rules, lists of bridges and reloads. Assumed: the types of the constants, and that a peer is neither
a channel nor one of the built-in rules (`NamesAssumption`; the code has pointers to different structures). `BridgeTypes` needs
to know the shape of every frame on the stack, since a step reads its peer, channel or queue from the
frame on top. `Refinement` goes through the actions one by one: with `Walks(stack)`, the frames of
`cockpit_transport_thaw`, for the stack, a step pushes or replaces frames that are not walks and leaves the
transport alone, or it is one of `Recv`, `Take`, `TakeAndFreeze`, `PutBack`, `Thaw`, `FlushNext`, `FlushEnd`,
`FlushDangling`, `Close`. `Walks` is defined by a recursive function; what it does to a pushed and to a popped frame
is proved once (`WalksAppend`). `InOrder` and `NoneLeftBehind` then follow from `TransportProofs`,
instantiated with that stack: a handler of the bridge gets a channel's messages in order however peers, the fence
and new channels held them, and in the main loop none is left behind.
`FrozenHasHolder` is not inductive alone: `ResetClear` and `Dispose` wipe a peer, its list of frozen channels included,
and the channels would stay frozen for ever if that peer were starting. That it is not depends on what can be called from
where. `StackOK` says it (`Calls`): under a loop over orphans there are only calls that thaw or route; under `dispose` and
`clear` there is the reset of the same peer; a peer whose orphans are routed is closed and has no process, and since
the walk over the rules passes a closed peer, routing starts it no sooner than it was cleared; the walk is always innermost.
With it goes that a message is only handled from the main loop or from a walk (`Emitting`), and that kept messages are
numbered as sent (`Numbered`), which is how a close that was told stays told. `HolderInv` is all of this. `ResetNeverAsserts`,
about the `g_assert` of `cockpit_peer_reset`, follows from `StackOK` as well. Nothing is assumed beyond the types: reloads, timeouts
and the dangling link of a nested flush are included.

`OwnedOnce`, `OneHandler` and `NoneDropped` are about what section 6 shows to fail in general, so they say when they hold: before
the first reload (`reloads = 0`); the first two for lists of bridges that are `Ordered`, in which no peer with a timeout is
tried for a channel before another peer; the last two until a walk has met a freed link (`~dangled`). Without timeouts every
list is `Ordered`, and so is the instance of the run `bridge`. Three tables say what a step of any action does to one peer
(`Changed`: kept, fell, was wiped or was tried by a rule), to one local channel (`Moved`), to the messages of one channel (`MessagesMove`) and
to the stack (`Rises`); the arguments below go through these and not through the actions again.

* `OwnedOnce` (`OwnerInv`). `Placed`: a channel of a peer is not local, and every matching peer before it in the list has
  refused, that is, has ended without a problem code. Two owners cannot be, since the first of them would have ended and have no channels.
  Refusals last only while a peer is not reset (`RefusedStays`), and before a reload only a peer with a timeout is (`Plain`); this is where `Ordered` is
  used. `Walked` is the same for the open whose rules are being walked, which may be a re-emitted one whose channel is still
  in the table of the peer that started with it.
* `NoneDropped` (`CaredInv`). `Fate` follows a channel from its open: closed, local, with a peer that is up and connected, its open still
  to be handled, or without further messages and in the list of a loop that closes it. A peer that ends in the main loop leaves a channel with
  messages only if it is frozen (`NoneLeftBehind`, from the refinement), and then its open is the next message or it is local (`Held`). So a message
  that nobody claims is of a channel that was closed or is closing (`Heard`).
* `OneHandler` (`SingleInv`, with `OwnerInv`). `Bound`: what was delivered is a prefix of what was taken, to the handler that has the
  channel now; once a message was dropped nobody has the channel, and since only its first message is an open (`OpensOnce`, for
  an id that is not used again) nobody gets it any more. That the message in hand is the next one is `InOrder`.

**Pipe** (`PipeProofs`), for every kind of pipe, sizes and bounds.

* `SignalOrder`, `CloseExactly`, `CloseFlushes`, `SourcesFollow`. The invariant `IInv` adds to the properties that an
  `eof` signal means a stopped input, that a descriptor for output is missing only in a closing,
  closed or failed pipe (this is why a write always starts the output again), and that a pending
  idle close belongs to a failed pipe, which has its problem set. Of the queue this argument needs only
  whether it is empty.
* `PipeTypes` (with the assertion of `dispatch_output` on the partly written block) and `StreamKept`. The invariant
  `Stream` says that byte *i* of the wire is byte *i* given, and that the queue is a line (`Line`): each block starts
  where the one before it ends, the first where the wire ends less `out_partial`, and the last ends with the last
  byte given. Two lemmas are about the recursive parts: the bytes of a line are a run (`BytesOfLine`), and the
  loop after `writev` finds, for any number of bytes and of blocks, the blocks that are done and the part of the
  next one (`Found`, `StepFinds`, `WroteFinds`). That `out_partial` is 0 whenever the queue is empty, which a new block
  relies on, is part of it.

**Auth** (`AuthProofs`: `AuthSafe`, `CountsExactAlways`, `AttendedAlways`), for any number of logins, sessions,
prompts and callers. Assumed: the set of logins is finite (it is counted), and `~Mismatch`, because a reply with
another scheme really breaks the counts (section 6). `AuthInv` says: `startups` is the number of requests
without an answer, and a request and the session it waits for name each other (`Books`); a session's references are its places
in the tables and its result, and it has callers, a cookie or an idle timer only after its `init` (`Counted`); a live
session has a timer, a caller or an ending process (`Tended`); no request that waits has an error yet. A completion that
runs inside another call sees these hold but for the one session in hand, so the lemmas are about the
operators (`Reset`, `Forget`, `Granted`, ...), composed as in the code.

**WebService** (`WebServiceProofs`: `WebInvAlways`, `ToldOnceAlways`, `DeliveredAlways`), for any sockets, channels, numbers of
messages and faults. Assumed: the types of the constants, and that each channel has an owner. Neither property is inductive: what
the bridge will be told depends on frames that are still under way, and whether a close is the last word on whether the channel
has left the table. `WebInv` therefore has, besides the types:

* for a channel (`Chan`): of the frames under way, those on it continue what the bridge has been told, the open first and
  nothing after the close, as long as the socket is heeded (`Stream`); a channel that is told open is in its
  socket's table until a close of it is told or has come, and one in the table has been told open and not closed (`Account`); what the browser has seen, and what is queued for it, is
  a prefix of what has come, and all of it while the socket is open (`Shown`);
* for a socket and its browser (`Sock`): an init waits before whatever needs it and a hangup waits at most once (`Waiting`); without
  a fault the server sends a close frame, or closes the stream, only after it received one (`Line`), which is why the end of every
  channel has been told when the socket is gone;
* that a socket has nothing to do with the channels of others (`Foreign`), and that the bridge sends on a channel only after its
  open and nothing after its own close (`Upward`).

The steps that need most of it are the close frame of a browser, which tells the end of exactly the channels that have none yet
(`EndsChan`), and a message of the bridge that meets a channel which is in no table (`MissedChan`): it is lost only
if the socket is closing or its browser has closed the channel.

**Shell** (`ShellProofs`: `ProtocolIsKept`, `ChannelsAreRouted`, `HiddenIsKnown`, `InitComesFirst`), for any windows,
frames, channels and bounds, and for `Hurried` as well as not: each says what holds until a document goes before the shell
has looked at its `init` (`hurried`), after which it is false (section 6). None of the properties is inductive, because what the server will be told is
spread over the pages' queues, the messages posted between windows and the socket. `ShellInv` is `hurried` or three parts:

* `Base`. Of every page (`PageOK`): its channels agree with the set of facts (opened, done, closed) that it has said of
  them, so that the next thing it says may follow. Every document is in a phase, and each phase says what its inbox, the
  router's entry for its window and its posted messages hold: it has not asked for an init (`Fresh`), has asked (`Asked`), has the
  init waiting first in its inbox (`Answered`), is in use (`Running`, where the last hint in the inbox, or the page's own flag if there is
  none, is whether it is hidden), has closed its transport (`Shut`), or is not loaded (`Away`).
* `Rest`. The facts in their order: what the server knows, then what is on the socket, then what is posted, are a
  legal history of each channel (`StreamOK`), once the binary data is left out of it whose seed the router has no window for, a state
  that stays (`Strays`, `LostStays`); a channel the server has open is routed to a loaded document that has it,
  or a kill of its group is under way (`RoutesOK`).
* `Cut`: nothing is served once the connection is gone.

The lemmas are about `Page`'s operators, one after the other as an event composes them, and about the router's
reaction to one posted message; a step of `Shell` then changes one document and appends to one stream.

**File** (`LibraryProofs`: `ChangesSafe`, `NoChangeLostAlways`, `WatchIsCurrentAlways`), for any set of `modify()` calls and
any number of disturbances. `ChangesInv`: a message under way tells the truth about the file if it carries the file's tag,
and a replace under way adds one change to what its tag stands for. `WatchInv`: a read is asked for at most once, and
content that the watch has not seen is followed by something that will make it look, or was `overtaken`.

**StorageCache** (`LibraryProofs`: `SeenIsSharedAlways`), for any frames and values: a frame that has not heard of the shared value
has the event under way, or its last timeout will call back with it.

**DBusClient** (`LibraryProofs`: `DescribedAlways`, `HandlersSeeCacheAlways`), for any objects and any number of calls, watches and
changes. `Described`: the words that wait in `later_invoke`'s queue lead from the cache to some state, and the words under way
in the channel from there to what the bridge last announced (`Carries`: there is a path of states on which a notification is a
step and a reply carries the state where it stands). A call that is rejected here, for a cancelled watch or a closed channel,
changes nothing on the path, which is why the property survives the close.

**Hosts** (`PagesProofs`: `HostsSafe`, `ConnectedIsOpenAlways`, `ReaderCurrentAlways`): the channel the loader knows is the
last it made and the only one that can be open; what the other frame will read last is what is shared, unless a push is due.

**Checkpoint** (`PagesProofs`: `CheckpointSafe`, `KeptIsInPlaceAlways`): for each point that an operation's closure can have
reached, what it may assume of the checkpoint and of the change (`Agrees`).

**Pages that are busy** (`PagesProofs`: `BusyPagesHaveCause`, stated of `MCPages`), for any number of transactions, calls,
machines and answers in any order, and for `Overlap = FALSE` as in the run (with `Overlap` it is false, section 6); `BusyHasTransaction`
excepts the update that ended before it was watched. One
inductive invariant per model: `UpdatesInv` (each transaction knows whether its promise is settled, and each state of the
page in which it only waits, the dialog and the message among them, has an unsettled transaction of a kind whose handlers leave
it), `RealmdInv`, `OSTreeInv`, `LibvirtInv` (a placeholder that is shown has a timeout, one that installs that of the installation) and `LoginInv`.
`ProxyInv`, of `service.js`, is the long one: every unsettled call has exactly one token, which is a request, a reply or an entry of
`pending_jobs`; a job is told of once, and its end comes after that; the job that runs belongs to an unsettled call, at most one
of each kind. That last part makes `systemd` never answer with a job another call waits for, which is where `Overlap` breaks it.
The step lemmas are about one message or request (`NoiseTold`, `JobIsOver`, `JobStarts`, `EndHeard`...) and an action
is a sequence of them.

**Pages that are quiet** (`PagesProofs`: `RealmOfAddressAlways`, `RunningShownAlways`, `StatusShownAlways`, each of its own model
and bounds). The invariants are of one kind: what is shown is what the service has, or something is under way (a check, a
notice, a command that will run again) whose end brings it.

The provers have no induction over data. Where a definition is a recursive function (`Picked` in `Bridge`, `Bytes` and
`Wrote` in `Pipe`, `Of` in `WebService`) the proofs use the well-foundedness of the natural numbers instead: the set of
counterexamples has a least element (`Least`), and the definition's equation, whose solution is shown to exist, contradicts it.

**Only model-checked.**

* Liveness, with its fairness: no theorem is about it.
* Of `Bridge`: `OneHandlerInOrder`, `NothingDropped` and `OneOwner` after a reload and for other orders of peers, where they
  are not true of every value of the constants (section 6: a peer with a timeout that is tried first, a reload that drops a peer).
* `Promises` (liveness), `Streams`, `Series`, `Select`, and of `ShownWhenQuiet` the parts of `Kube`, `AutoUpdates`, `ServiceProxy`, `NetModel`, `Docker`, `Services`,
  `Firewall`, `Libvirt` and `JournalBox`. `Series` and `JournalBox` have properties of recursive algorithms; the others have not been attempted.

## 6. Disagreements found

Three are runs that expect a violation:

1. `services_gone`: the loop that deletes units that are gone compares a number with an array and runs no round
   (`pkg/systemd/init.js:437`, `WithoutUnseen`). In the trace a unit is unloaded before the second update, neither of whose lists
   names it, and is rendered at the end of that update.
2. `socket_lost`: a WebSocket whose connection breaks, whose browser sends a malformed frame, or that is
   lost in any other way than by a close frame, is destroyed without the signal whose handler closes its channels in
   the bridge (`cockpitwebservice.c:1190`); they stay open as long as the session lasts.
3. `modify_retry`: `fsreplace1` reports a late conflict as `out-of-date`, for which `modify()` does not
   start again as its documentation says.

A run's configuration with some constants and the property changed shows others; each ends
with a counterexample. The rows for the bridge have no fence, malformed open, local or reused channel and no closer unless
they name one:

| Configuration to change | Shows |
|---|---|
| `Bridge.cfg` with one channel, one peer that has a problem code and no timeout, `MaxMsgs <- LiveMsgs`, `Bridges <- FirstPeer`: `ClosedOnce` | a peer with a problem code that fails before its `init` closes each waiting channel and then thaws it; the thawed open is answered with a second `close` |
| `Bridge.cfg` with a channel and a fence channel, one peer, `MaxMsgs <- LiveMsgs`, `Bridges <- FirstPeer`: `FenceBlocksOnlyLater` | an open held for a starting peer is re-emitted when the peer is up, and then the fence holds it, though it was opened before the fence |
| `Bridge.cfg` with one channel, one peer, `Bridges <- OnlyReloaded`, `MaxReloads = 1`: `NothingDropped` | a reload destroys dropped peers before the built-in rules are in the new list; opens that waited for them get no answer |
| `Bridge.cfg` with one channel, the first peer in `Timeout`, `MaxSpawns = 2`: `OneOwner` | a channel passed on from a failed peer with a timeout is handed back to it, and stays in the table of both |
| `Bridge.cfg` with one local channel in `Closers`, `Bridges <- NoPeers`: `QuietAfterClose` | `cockpit_channel_ready` sends `ready` after its thaw has closed the channel |
| `Pipe.cfg` with `FairSpec`, `Kinds = {"spawn"}`, `MaxBytes = 2`: `Written` | after `EAGAIN` or `EINTR` from `writev` the output source leaves the main loop for good; the queue is never written (`cockpitpipe.c:531`) |
| `Pipe.cfg` with `Kinds = {"connect"}` and `ClosesOwnFds` | a pipe with one descriptor for both directions closes the number twice |
| `Shell.cfg`, and `Routed`, `HiddenKnown` or `ProtocolKept` without `hurried \/` | messages of a document that went before the shell looked at its `init` are taken for those of the next document in the window, whose channel is then not routed, or which is not told that it is hidden |
| `DBusSpec` with the constants of `Library.cfg`: `InitialSet` | `proxies.wait()` can be resolved while objects of the initial set are missing |
| `RealmdSpec` with the constants of `Pages.cfg`: `CancelIsHeeded` | cancelling while the realm is still being discovered does not keep the dialog from joining it (`pkg/realmd/operation.js:425`; the comment at `:34`: "first time cancel is clicked, cancel operation") |
| `Session.cfg` with `SuccessIsUsable` | `session->authorize` is never cleared, so a session that logged in after a prompt is put back into `conversations`; a request that is sent again with the same reply drops the session's cookie, waits for the timeout that ends the running bridge, and is then told it succeeded, with a cookie that is removed in the same call (`cockpitauth.c:1407`, where the comment at `:1422` says "begin a timeout during which caller must do something else"). With `Retry = FALSE` it holds |
| `Session.cfg` with `QuitIsIdle` | the timer of the whole process looks only at logged-in sessions, so `cockpit-ws` can end while somebody is logging in (`cockpitauth.c:254`; `:62`: "Timeout of everything when noone is connected") |
| `Session.cfg` with `Mismatch = TRUE`: `CountsExact` | a reply with another scheme than the prompt's is completed in an idle callback but stays the session's result, and is completed again (`cockpitauth.c:1353`) |
| `JournalBoxSpec` with the constants of `Pages.cfg`: `EarlierIsBelow` | `didnt_reach_start()` at `logs.js:254` is called without a cursor: "Load earlier entries" starts from the end |

The passing runs avoid these by their constants (the list of peers, the kinds of
pipe), and where a page really shows or loses something by a name in the property, each of which is violated
without it:

* `HandlersRun` without `lost`: a handler that throws loses the functions behind it in the round, and `process_scheduled` stays
  true for promises among them, whose handlers never run, not even those added later (`cockpit.js:1171`; the comment
  at `:1188` says that exceptions are left to be exceptions).
* `WatchIsCurrent` without `overtaken`: a `rename()` while `fsread1` reads makes the read end well with the old content
  (`cockpitfsread.c:79`), and the message of the change is ignored because a read is under way (`cockpit.js:3789`); and a
  `watch()` that joins a read already under way gets what that read found, though the file changed before the bridge monitored it.
* `BusyHasTransaction` without `missed`: an update that is found running and ends before the subscription leaves the page
  "applying", until PackageKit leaves the bus and the end is shown as a crash (`updates.jsx:560`).
* `LiveShown` is of namespaces that have a watch; `LimitWatched` (Kube) fails: a list of namespaces that gains one and
  loses none gets no watch for it (`kube-client.js:638`; the comment of `app.js`: "It'll open up individual watches about those namespaces").
* `ContainersFollow` without `crossed` (Docker): a list of containers that overtakes an older list or older details is undone by them.
* `LossNoticed` without `expect`: a page that got `beforeunload` and stays, for a download for instance, tells
  nobody of a later loss (`cockpit.js:562`).

Properties in the modules that no configuration lists, which fail for the constants given in
brackets and the code's comment quoted above each: `SomeoneProvides` (StorageCache, 3 frames), `EventsReconnected` (Docker),
`FailedStays` (Hosts), `RemovedGone` (Kube, `MaxChange` 3 without loads), `NothingMissed` (Kube, `Faults`
`{"midlist"}`), `LabelSelects` (Select), `RunningUpdateFound` (Updates), `SupportsWritten` (AutoUpdates),
`HealthCheckOff` (Checkpoint), `ExportComplete` (NetModel), `RowAligned` (Series, `End` 5, `Limit` 4, `Options` 1 and three moves),
`TimeoutMeansNoReply` (Subscriptions). `SourcesMatch` (Pipe) holds, and so do
`ResetAssertion` (Bridge) and `InitFirst` (Shell), which are proved.

Three of the pages' properties leave out a race by a constant or a variable, and fail with it. `JobsSettle`
with `Overlap`: `pending_jobs` of `service.js` is overwritten when systemd answers a second `start()` with the job
of the first, whose promise is never settled. `FirewallShown` without `raced`: a service that is removed, or
a firewalld that stops, while the service's details are being asked for is shown all the same. `MachinesShown` with `Hasty`: a
machine that is defined after the list was read and before `virsh event` runs is missed, one that stops between `dumpxml` and `dominfo` is not yet known to be persistent and is removed, and a
late `GET_VM` brings back one that is gone.

Seen in the models, where no text promises otherwise: a series whose samples another series has overwritten goes on counting them, and may
cache nothing of its own; samples of a series whose frame is gone are never expired, only overwritten; an archive channel that found
no source is followed by one that counts as following, and keeps `follow()` from opening its own.

Met while reading, without a model: leaving a realm does not return the promise of `Deconfigure`; the
properties of a timer are set without a render (`init.js`); the fail handler of `LoadUnit` on the page of a
unit does not look whether the unit is still shown.

## 7. Not modelled, and the plan

Not modelled: contents and parsing of frames, JSON and encodings (pure functions with unit tests),
authorize messages through a peer, dynamic peers, the output buffer and `done` of `CockpitChannel`,
start-up, packages and manifests beyond the list of bridges, PAM and libssh; of `cockpit-ws` the
static files and responses served by channels, credentials, authorize messages, hints and pings, the framing of
WebSockets; plots, dialogs that fill in arguments, menus, Angular and React views, which are functions of
the models' state; fixtures, translations and test tooling. The views and dialogs are
most of the JavaScript by lines, and keep no state between events that the models above do not have.

Next, in this order:

1. `ChannelOutput`: the buffer for incomplete characters, its timeout, `done` and the flush before `close`.
2. `WebService` with `Auth`: an abstract relay that they implement, which replaces the server of `Shell`; the
   responses that are channels.
3. The page of one unit; accounts; the jobs and locks of the storage page.
4. Dynamic peers and authorize in `Peer` and `Router`; `WebResponse`.

Proofs planned: those of `Select`, of the buffers of `Streams` and of the other parts of `ShownWhenQuiet`.
