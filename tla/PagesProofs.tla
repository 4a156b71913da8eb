----------------------------- MODULE PagesProofs -----------------------------
(***************************************************************************)
(* Proofs about the pages of the shell.  Of module Hosts: the Loader of    *)
(* machines.js shows a host as connected only over an open channel and     *)
(* leaves no channel behind, and the Machines object of another frame      *)
(* catches up, for any number of connections and edits.  Of module         *)
(* Checkpoint: with_checkpoint of the networking page reports a change as  *)
(* kept only while the change is in place, for any set of operations and   *)
(* any number of tries.  Of the pages together: one that is busy has       *)
(* something under way that will end it, from an inductive invariant for   *)
(* each of the models Updates, Realmd, ServiceProxy, OSTree, Libvirt and   *)
(* Login.  Of the models Realmd, OSTree, Subscriptions, AutoUpdates and    *)
(* ServiceProxy: what the page shows when all is quiet is what there is.   *)
(***************************************************************************)
EXTENDS MCPages, SequenceTheorems, FiniteSetTheorems, NaturalsInduction,
        WellFoundedInduction, TLAPS


FrameValues == [content : Content, overlay : Overlay, made : 0..MaxConnections,
          channel : 0..MaxConnections, timers : Nat, push : BOOLEAN,
          conn : [Connections -> Connection]]

\* The channel the Loader knows is the last it made, if there is one, and is the
\* only one that can be open.
Sound(M) ==
  /\ M \in FrameValues
  /\ M.channel \in {0, M.made}
  /\ M.overlay.state = "connected" => M.channel # 0 /\ M.conn[M.channel].open
  /\ \A i \in Connections : M.conn[i].open => i = M.channel

\* From M to N: at most one more connection, and what the other frame will read
\* is unchanged or about to be stored.
Follows(M, N) ==
  /\ N.made \in {M.made, M.made + 1}
  /\ N.push \/ (N.push = M.push /\ Shared(N) = Shared(M))

\* What the other frame holds once it has read its mail.
LastRead == IF mail = <<>> THEN reader ELSE mail[Len(mail)]

SharedValues == [content : Content, overlay : Overlay]

\* The inductive invariant.
HostsInv ==
  /\ Sound(L)
  /\ mail \in Seq(SharedValues) /\ reader \in SharedValues
  /\ ~L.push => LastRead = Shared(L)

----
\* state() writes a well-formed overlay with the state it is asked for.
LEMMA StateValuesType ==
  ASSUME NEW overlay \in Overlay, NEW value \in {"none", "connecting", "connected", "failed"},
         NEW problem \in BOOLEAN
  PROVE  /\ StateValues(overlay, value, problem) \in Overlay
         /\ StateValues(overlay, value, problem).state = value
<1> DEFINE restarting == IF value = "connected" THEN FALSE ELSE overlay.restarting
           manifests == IF value # "connected" /\ problem THEN FALSE ELSE overlay.manifests
<1>1. restarting \in BOOLEAN /\ manifests \in BOOLEAN
  BY DEF Overlay
<1>2. StateValues(overlay, value, problem) =
        [overlay EXCEPT !.state = value, !.problem = problem, !.restarting = restarting,
                        !.manifests = manifests]
  BY DEF StateValues, Overlay
<1> HIDE DEF restarting, manifests
<1> QED BY <1>1, <1>2 DEF Overlay

\* A refresh that pushes keeps the frame sound.
LEMMA PushSound ==
  ASSUME NEW M, Sound(M)
  PROVE  Sound(Push(M)) /\ Push(M).push /\ Push(M).made = M.made /\ Push(M).channel = M.channel
  BY DEF Sound, Push, FrameValues

\* connect(): the new channel is the only one, and it has not answered.
LEMMA ConnectSound ==
  ASSUME NEW M, Sound(M), M.channel # 0 \/ M.made < MaxConnections
  PROVE  Sound(Connect(M)) /\ Follows(M, Connect(M))
<1>1. CASE M.channel # 0
  BY <1>1 DEF Connect, Sound, FrameValues, Follows
<1>2. CASE M.channel = 0
  <2> DEFINE i == M.made + 1
             overlay == StateValues(M.overlay, "connecting", FALSE)
             url == ~M.overlay.manifests
             conn == [M.conn EXCEPT ![i].url = url]
             N == [M EXCEPT !.made = i, !.channel = i, !.conn = conn, !.overlay = overlay]
  <2>1. i \in Connections /\ i \in 0..MaxConnections /\ i # 0
    BY <1>2, HostsAssumption DEF Sound, FrameValues, Connections
  <2>2. overlay \in Overlay /\ overlay.state = "connecting"
    BY StateValuesType DEF Sound, FrameValues
  <2>3. url \in BOOLEAN
    OBVIOUS
  <2>4. Connect(M) = Push(N)
    BY <1>2 DEF Connect, Sound, FrameValues
  <2> HIDE DEF i, overlay, url
  <2>5. conn \in [Connections -> Connection] /\ \A j \in Connections : conn[j].open = M.conn[j].open
    BY <2>1, <2>3 DEF Sound, FrameValues, Connection
  <2>6. \A j \in Connections : ~M.conn[j].open
    BY <1>2 DEF Sound, Connections
  <2> HIDE DEF conn
  <2>7. Sound(N)
    BY <2>1, <2>2, <2>5, <2>6 DEF Sound, FrameValues
  <2>8. N.made = M.made + 1
    BY DEF i, Sound, FrameValues
  <2> HIDE DEF N
  <2> QED BY <2>4, <2>7, <2>8, PushSound DEF Follows
<1> QED BY <1>1, <1>2

\* The close handler of the channel the Loader knows.
LEMMA ClosedSound ==
  ASSUME NEW M, Sound(M), M.channel # 0, NEW problem \in BOOLEAN
  PROVE  /\ Sound(Closed(M, M.channel, problem)) /\ Closed(M, M.channel, problem).push
         /\ Closed(M, M.channel, problem).made = M.made
<1> DEFINE i == M.channel
           orderly == ~problem /\ ~M.content.visible
           overlay == IF orderly THEN StateValues(M.overlay, "none", FALSE)
                      ELSE StateValues(M.overlay, "failed", TRUE)
           timers == IF M.overlay.restarting THEN M.timers + 1 ELSE M.timers
           conn == [M.conn EXCEPT ![i].open = FALSE]
           N == [M EXCEPT !.conn = conn, !.channel = 0, !.timers = timers, !.overlay = overlay]
<1>1. i \in Connections
  BY HostsAssumption DEF Sound, FrameValues, Connections
<1>2. overlay \in Overlay /\ overlay.state # "connected"
  BY StateValuesType DEF Sound, FrameValues
<1>3. timers \in Nat
  BY DEF Sound, FrameValues
<1>4. Closed(M, M.channel, problem) = Push(N)
  BY DEF Closed, Sound, FrameValues
<1>5. conn \in [Connections -> Connection] /\ \A j \in Connections : ~conn[j].open
  BY <1>1 DEF Sound, FrameValues, Connection
<1> HIDE DEF overlay, timers, conn
<1>6. Sound(N) /\ N.made = M.made
  <2>0. 0 \in 0..MaxConnections /\ M \in FrameValues
    BY HostsAssumption DEF Sound
  <2>1. N \in FrameValues
    BY <1>2, <1>3, <1>5, <2>0 DEF FrameValues
  <2>2. N.channel = 0 /\ N.overlay = overlay /\ N.conn = conn /\ N.made = M.made
    BY DEF Sound, FrameValues
  <2> HIDE DEF N
  <2> QED BY <1>2, <1>5, <2>1, <2>2 DEF Sound
<1> HIDE DEF N
<1> QED BY <1>4, <1>6, PushSound

\* disconnect()
LEMMA DisconnectSound ==
  ASSUME NEW M, Sound(M)
  PROVE  /\ Sound(Disconnect(M)) /\ Disconnect(M).made = M.made
         /\ Disconnect(M) = M \/ Disconnect(M).push
  BY ClosedSound DEF Disconnect

\* updated(), the handler of refresh.
LEMMA UpdatedSound ==
  ASSUME NEW M, Sound(M), NEW moved \in BOOLEAN,
         M.made < MaxConnections \/ (M.channel # 0 /\ ~moved)
  PROVE  Sound(Updated(M, moved)) /\ Follows(M, Updated(M, moved))
<1>1. CASE M.content.visible /\ moved
  <2>1. Updated(M, moved) = Connect(Disconnect(M))
    BY <1>1 DEF Updated
  <2> DEFINE D == Disconnect(M)
  <2>2. Sound(D) /\ D.made = M.made /\ (D = M \/ D.push)
    BY DisconnectSound
  <2> HIDE DEF D
  <2>3. Sound(Connect(D)) /\ Follows(D, Connect(D))
    BY <1>1, <2>2, ConnectSound
  <2>4. D.push => Connect(D).push
    BY <2>3 DEF Follows
  <2>5. Follows(M, Connect(D))
    BY <2>2, <2>3, <2>4 DEF Follows
  <2> QED BY <2>1, <2>3, <2>5 DEF D
<1>2. CASE M.content.visible /\ ~moved /\ ~M.overlay.problem
  <2>1. Updated(M, moved) = Connect(M)
    BY <1>2 DEF Updated
  <2> QED BY <2>1, ConnectSound
<1>3. CASE M.content.visible /\ ~moved /\ M.overlay.problem
  <2>1. Updated(M, moved) = M
    BY <1>3 DEF Updated
  <2> QED BY <2>1 DEF Follows
<1>4. CASE ~M.content.visible
  <2>1. Updated(M, moved) = Disconnect(M)
    BY <1>4 DEF Updated
  <2> QED BY <2>1, DisconnectSound DEF Follows
<1> QED BY <1>1, <1>2, <1>3, <1>4

\* machines.overlay(): "connected" may be written only over an open channel.
LEMMA OverlaidSound ==
  ASSUME NEW M, Sound(M), NEW overlay \in Overlay, M.made < MaxConnections \/ M.channel # 0,
         overlay.state = "connected" => M.channel # 0 /\ M.conn[M.channel].open
  PROVE  /\ Sound(Overlaid(M, overlay)) /\ Overlaid(M, overlay).push
         /\ Overlaid(M, overlay).made \in {M.made, M.made + 1}
<1> DEFINE N == [M EXCEPT !.overlay = overlay]
<1>1. Sound(N) /\ N.made = M.made /\ N.channel = M.channel
  BY DEF Sound, FrameValues
<1>2. Overlaid(M, overlay) = Updated(Push(N), FALSE)
  BY DEF Overlaid
<1> HIDE DEF N
<1>3. Sound(Push(N)) /\ Push(N).push /\ Push(N).made = M.made /\ Push(N).channel = M.channel
  BY <1>1, PushSound
<1>4. Sound(Updated(Push(N), FALSE)) /\ Follows(Push(N), Updated(Push(N), FALSE))
  BY <1>3, UpdatedSound
<1> QED BY <1>2, <1>3, <1>4 DEF Follows

\* whirl() of a connection, also of one that was given up.
LEMMA WhirlSound ==
  ASSUME NEW M, Sound(M), M.made < MaxConnections, NEW i \in Connections
  PROVE  Sound(Whirl(M, i)) /\ Whirl(M, i).push
<1> DEFINE overlay == IF ~M.conn[i].request /\ M.conn[i].open
                      THEN StateValues(M.overlay, "connected", FALSE)
                      ELSE StateValues(M.overlay, "connecting", FALSE)
<1>1. overlay \in Overlay
  BY StateValuesType DEF Sound, FrameValues
<1>2. overlay.state = "connected" => M.conn[i].open
  BY StateValuesType DEF Sound, FrameValues
<1>3. M.conn[i].open => i = M.channel /\ M.channel # 0
  BY DEF Sound, Connections
<1>4. Whirl(M, i) = Overlaid(M, overlay)
  BY DEF Whirl
<1> HIDE DEF overlay
<1> QED BY <1>1, <1>2, <1>3, <1>4, OverlaidSound

----
\* A step of the Loader that leaves what the other frame reads alone, or is about
\* to store it.
LEMMA LoaderStep ==
  ASSUME HostsInv, Sound(L'), L'.push \/ (L'.push = L.push /\ Shared(L)' = Shared(L)),
         UNCHANGED <<mail, reader>>
  PROVE  HostsInv'
<1>1. LastRead' = LastRead
  BY DEF LastRead
<1> QED BY <1>1 DEF HostsInv

\* The saved properties of the host change.
LEMMA ContentChangesInv ==
  ASSUME HostsInv, NEW content \in Content, ContentChanges(content)
  PROVE  HostsInv'
<1> DEFINE N == [L EXCEPT !.content = content]
           moved == content.address # L.content.address
<1>1. Sound(N) /\ N.made = L.made
  BY DEF HostsInv, Sound, FrameValues
<1>2. L' = Updated(Push(N), moved) /\ N.made < MaxConnections /\ UNCHANGED <<mail, reader>>
  BY <1>1, HostsAssumption DEF ContentChanges, Room, HostsInv, Sound, FrameValues
<1>3. moved \in BOOLEAN
  OBVIOUS
<1> HIDE DEF N, moved
<1>4. Sound(Push(N)) /\ Push(N).push /\ Push(N).made = N.made
  BY <1>1, PushSound
<1>5. Sound(L') /\ L'.push
  BY <1>2, <1>3, <1>4, UpdatedSound DEF Follows
<1> QED BY <1>2, <1>5, LoaderStep

\* The echo channel answers.
LEMMA MessageInv ==
  ASSUME HostsInv, Message
  PROVE  HostsInv'
<1> DEFINE i == L.channel
           conn == [L.conn EXCEPT ![i] = [@ EXCEPT !.open = TRUE, !.request = L.conn[i].url]]
           N == [L EXCEPT !.conn = conn]
<1>1. i \in Connections
  BY HostsAssumption DEF HostsInv, Message, Sound, FrameValues, Connections
<1>2. L' = Whirl(N, i) /\ L.made < MaxConnections /\ UNCHANGED <<mail, reader>>
  <2>1. [L EXCEPT !.conn[i].open = TRUE, !.conn[i].request = L.conn[i].url] = N
    BY <1>1 DEF HostsInv, Sound, FrameValues, Connection
  <2>2. L' = Whirl([L EXCEPT !.conn[i].open = TRUE, !.conn[i].request = L.conn[i].url], i)
    BY DEF Message
  <2>3. L.made < MaxConnections /\ UNCHANGED <<mail, reader>>
    BY HostsAssumption DEF Message, Room, outer, HostsInv, Sound, FrameValues
  <2> QED BY <2>1, <2>2, <2>3
<1>3. /\ conn \in [Connections -> Connection] /\ conn[i].open
      /\ \A j \in Connections : conn[j].open => j = i
  BY <1>1 DEF HostsInv, Sound, FrameValues, Connection
<1> HIDE DEF conn
<1>4. Sound(N) /\ N.made = L.made
  BY <1>1, <1>3 DEF HostsInv, Sound, FrameValues
<1> HIDE DEF N
<1>5. Sound(L') /\ L'.push
  BY <1>1, <1>2, <1>4, WhirlSound
<1> QED BY <1>2, <1>5, LoaderStep

\* The end of a request for the manifests, also of a connection that is gone.
LEMMA RequestEndsInv ==
  ASSUME HostsInv, NEW i \in Connections, NEW ok \in BOOLEAN, RequestEnds(i, ok)
  PROVE  HostsInv'
<1> DEFINE overlay == [L.overlay EXCEPT !.manifests = TRUE]
           M == IF ok THEN Overlaid(L, overlay) ELSE L
           N == [M EXCEPT !.conn[i].request = FALSE]
<1>1. L' = Whirl(N, i) /\ L.made \in Nat /\ L.made + 1 < MaxConnections /\ UNCHANGED <<mail, reader>>
  BY DEF RequestEnds, Room, outer, HostsInv, Sound, FrameValues
<1>2. overlay \in Overlay /\ overlay.state = L.overlay.state
  BY DEF HostsInv, Sound, FrameValues, Overlay
<1> HIDE DEF overlay
<1>3. Sound(M) /\ M.made \in {L.made, L.made + 1}
  <2>1. CASE ok
    <3>1. M = Overlaid(L, overlay)
      BY <2>1
    <3>2. Sound(L) /\ L.made < MaxConnections
      BY <1>1, HostsAssumption DEF HostsInv
    <3>3. overlay.state = "connected" => L.channel # 0 /\ L.conn[L.channel].open
      BY <1>2 DEF HostsInv, Sound
    <3> QED BY <1>2, <3>1, <3>2, <3>3, OverlaidSound
  <2>2. CASE ~ok
    BY <2>2 DEF HostsInv
  <2> QED BY <2>1, <2>2
<1> HIDE DEF M
<1>4. Sound(N) /\ N.made = M.made
  <2> DEFINE conn == [M.conn EXCEPT ![i].request = FALSE]
  <2>1. conn \in [Connections -> Connection] /\ \A j \in Connections : conn[j].open = M.conn[j].open
    BY <1>3 DEF Sound, FrameValues, Connection
  <2>2. N = [M EXCEPT !.conn = conn]
    BY <1>3 DEF Sound, FrameValues
  <2>3. M.channel # 0 => M.channel \in Connections
    BY <1>3, HostsAssumption DEF Sound, FrameValues, Connections
  <2> HIDE DEF conn, N
  <2> QED BY <1>3, <2>1, <2>2, <2>3 DEF Sound, FrameValues
<1> HIDE DEF N
<1>5. N.made < MaxConnections
  BY <1>1, <1>3, <1>4, HostsAssumption
<1>6. Sound(L') /\ L'.push
  BY <1>1, <1>4, <1>5, WhirlSound
<1> QED BY <1>1, <1>6, LoaderStep

\* The packages of the host change while it is connected.
LEMMA ManifestsChangeInv ==
  ASSUME HostsInv, ManifestsChange
  PROVE  HostsInv'
<1> DEFINE overlay == [L.overlay EXCEPT !.manifests = TRUE]
<1>1. L' = Overlaid(L, overlay) /\ L.channel # 0 /\ UNCHANGED <<mail, reader>>
  BY DEF ManifestsChange, outer
<1>2. overlay \in Overlay /\ overlay.state = L.overlay.state
  BY DEF HostsInv, Sound, FrameValues, Overlay
<1> HIDE DEF overlay
<1>3. Sound(L) /\ (overlay.state = "connected" => L.channel # 0 /\ L.conn[L.channel].open)
  BY <1>2 DEF HostsInv, Sound
<1>4. Sound(L') /\ L'.push
  BY <1>1, <1>2, <1>3, OverlaidSound
<1> QED BY <1>1, <1>4, LoaderStep

\* The connection is lost.
LEMMA ChannelFailsInv ==
  ASSUME HostsInv, ChannelFails
  PROVE  HostsInv'
<1>1. L' = Closed(L, L.channel, TRUE) /\ L.channel # 0 /\ UNCHANGED <<mail, reader>>
  BY DEF ChannelFails, outer
<1>2. Sound(L') /\ L'.push
  BY <1>1, ClosedSound DEF HostsInv
<1> QED BY <1>1, <1>2, LoaderStep

\* A page says that the host will restart.
LEMMA ExpectRestartInv ==
  ASSUME HostsInv, ExpectRestart
  PROVE  HostsInv'
<1> DEFINE overlay == [L.overlay EXCEPT !.restarting = TRUE, !.problem = FALSE]
<1>1. L' = Overlaid(L, overlay) /\ L.made < MaxConnections /\ UNCHANGED <<mail, reader>>
  BY HostsAssumption DEF ExpectRestart, Room, HostsInv, Sound, FrameValues
<1>2. overlay \in Overlay /\ overlay.state = L.overlay.state
  BY DEF HostsInv, Sound, FrameValues, Overlay
<1> HIDE DEF overlay
<1>3. Sound(L) /\ (overlay.state = "connected" => L.channel # 0 /\ L.conn[L.channel].open)
  BY <1>2 DEF HostsInv, Sound
<1>4. Sound(L') /\ L'.push
  BY <1>1, <1>2, <1>3, OverlaidSound
<1> QED BY <1>1, <1>4, LoaderStep

\* The timeout after a restart connects again.
LEMMA RestartTimerInv ==
  ASSUME HostsInv, RestartTimer
  PROVE  HostsInv'
<1> DEFINE N == [L EXCEPT !.timers = @ - 1]
<1>1. Sound(N) /\ N.made = L.made /\ N.push = L.push /\ Shared(N) = Shared(L)
  BY DEF HostsInv, RestartTimer, Sound, FrameValues, Shared
<1>2. L' = Connect(N) /\ N.made < MaxConnections /\ UNCHANGED <<mail, reader>>
  BY <1>1, HostsAssumption DEF RestartTimer, Room, outer, HostsInv, Sound, FrameValues
<1> HIDE DEF N
<1>3. Sound(L') /\ Follows(N, L')
  BY <1>1, <1>2, ConnectSound
<1>4. Shared(L)' = Shared(L')
  BY DEF Shared
<1> QED BY <1>1, <1>2, <1>3, <1>4, LoaderStep DEF Follows

\* The timeout of refresh() stores what is there by now.
LEMMA StoreSharedInv ==
  ASSUME HostsInv, StoreShared
  PROVE  HostsInv'
<1>1. Sound(L') /\ Shared(L)' = Shared(L) /\ Shared(L) \in SharedValues
  BY DEF HostsInv, StoreShared, Sound, FrameValues, Shared, SharedValues
<1>2. mail' \in Seq(SharedValues) /\ mail' # <<>> /\ mail'[Len(mail')] = Shared(L)
  BY <1>1 DEF HostsInv, StoreShared
<1>3. LastRead' = Shared(L)'
  BY <1>1, <1>2 DEF LastRead
<1> QED BY <1>1, <1>2, <1>3 DEF HostsInv, StoreShared

\* The storage handler of the other frame.
LEMMA ReaderStorageInv ==
  ASSUME HostsInv, ReaderStorage
  PROVE  HostsInv'
<1>1. mail' \in Seq(SharedValues) /\ reader' \in SharedValues
  BY DEF HostsInv, ReaderStorage
<1>2. LastRead' = LastRead
  <2>1. CASE Len(mail) = 1
    BY <2>1 DEF HostsInv, ReaderStorage, LastRead
  <2>2. CASE Len(mail) # 1
    <3>0. mail # <<>> /\ mail' = Tail(mail) /\ mail \in Seq(SharedValues)
      BY DEF HostsInv, ReaderStorage
    <3>1. Len(mail) > 1
      <4>1. Len(mail) \in Nat \ {0}
        BY <3>0, EmptySeq
      <4> QED BY <2>2, <4>1
    <3>2. Len(mail') = Len(mail) - 1 /\ mail'[Len(mail')] = mail[Len(mail)] /\ mail' # <<>>
      BY <3>0, <3>1
    <3> QED BY <3>0, <3>2 DEF LastRead
  <2> QED BY <2>1, <2>2
<1>3. Sound(L)' /\ L' = L /\ Shared(L)' = Shared(L)
  BY DEF HostsInv, ReaderStorage, Sound, Shared
<1> QED BY <1>1, <1>2, <1>3 DEF HostsInv

\* The invariant holds whatever the host, its requests, the timeouts and the
\* page do.
THEOREM HostsSafe == HostsSpec => []HostsInv
<1>1. HostsInit => HostsInv
  <2> SUFFICES ASSUME HostsInit PROVE HostsInv
    OBVIOUS
  <2>1. L \in FrameValues
    BY HostsAssumption DEF HostsInit, FrameValues, Content, Overlay, Connection
  <2>2. Sound(L)
    BY <2>1 DEF HostsInit, Sound
  <2>3. reader \in SharedValues
    BY <2>1 DEF HostsInit, SharedValues, FrameValues
  <2> QED BY <2>2, <2>3 DEF HostsInit, HostsInv, LastRead, Shared
<1>2. HostsInv /\ [HostsNext]_hostvars => HostsInv'
  <2> SUFFICES ASSUME HostsInv, [HostsNext]_hostvars PROVE HostsInv'
    OBVIOUS
  <2>1. CASE HostsNext
    BY <2>1, ContentChangesInv, MessageInv, RequestEndsInv, ManifestsChangeInv, ChannelFailsInv,
       ExpectRestartInv, RestartTimerInv, StoreSharedInv, ReaderStorageInv DEF HostsNext
  <2>2. CASE UNCHANGED hostvars
    BY <2>2 DEF hostvars, HostsInv, Sound, LastRead, Shared
  <2> QED BY <2>1, <2>2
<1> QED BY <1>1, <1>2, PTL DEF HostsSpec

\* A host is shown as connected only over its open channel, and no call of
\* connect() leaves a channel behind.
THEOREM ConnectedIsOpenAlways == HostsSpec => []ConnectedIsOpen
<1>1. HostsInv => ConnectedIsOpen
  BY DEF HostsInv, Sound, ConnectedIsOpen
<1> QED BY <1>1, HostsSafe, PTL

\* The Machines object of the other frame has the state of the Loader once
\* nothing is on its way, although only one in several refreshes is stored.
THEOREM ReaderCurrentAlways == HostsSpec => []ReaderCurrent
<1>1. HostsInv => ReaderCurrent
  BY DEF HostsInv, LastRead, ReaderCurrent
<1> QED BY <1>1, HostsSafe, PTL
----
(* Checkpoint. *)


\* What the closure of an operation, at the point it has reached, knows of the
\* checkpoint and of the change of its device.
Agrees(c, d) ==
  /\ c.phase \in {"idle", "create", "asking", "kept", "over"} => ~d.checkpoint
  /\ c.phase = "modify" /\ c.plain => ~d.checkpoint
  /\ c.phase = "create" => ~c.plain
  /\ c.phase \in {"settle", "destroy"} /\ d.checkpoint => d.changed
  /\ c.phase = "modify" /\ d.reply = "ok" /\ d.checkpoint => d.changed
  /\ c.phase # "modify" => d.reply = "none"
  /\ c.phase = "kept" => d.changed

\* The inductive invariant.
CheckpointInv == CheckpointTypeOK /\ \A o \in Ops : Agrees(op[o], device[o])

\* Every action of CheckpointNext is about one operation and leaves the closure
\* and the device of the others alone.
Others(o) == \A p \in Ops \ {o} : op'[p] = op[p] /\ device'[p] = device[p]

\* A step that keeps the records of the others and leaves agreeing records of
\* its own operation keeps the invariant.
LEMMA OneOperation ==
  ASSUME CheckpointInv, NEW o \in Ops, Others(o), CheckpointTypeOK', Agrees(op'[o], device'[o])
  PROVE  CheckpointInv'
  BY DEF CheckpointInv, Others

\* Only the records of operation o change.
LEMMA OneRecord ==
  ASSUME CheckpointInv, NEW o \in Ops, NEW c \in Closure, NEW d \in Device, Agrees(c, d),
         op' = [op EXCEPT ![o] = c], device' = [device EXCEPT ![o] = d],
         curtain' \in BOOLEAN, ignored' \in BOOLEAN
  PROVE  CheckpointInv'
<1>1. CheckpointTypeOK'
  BY DEF CheckpointInv, CheckpointTypeOK
<1>2. Others(o) /\ Agrees(op'[o], device'[o])
  BY DEF CheckpointInv, CheckpointTypeOK, Others
<1> QED BY <1>1, <1>2, OneOperation

\* The user starts a change: with_checkpoint is called again.
LEMMA StartChangeInv ==
  ASSUME CheckpointInv, NEW o \in Ops, NEW hack \in BOOLEAN, StartChange(o, hack)
  PROVE  CheckpointInv'
<1>1. CheckpointTypeOK'
  BY CheckpointAssumption DEF CheckpointInv, CheckpointTypeOK, StartChange, Closure, Device, Phases
<1>2. Others(o) /\ Agrees(op'[o], device'[o])
  BY DEF CheckpointInv, CheckpointTypeOK, StartChange, Closure, Device, Phases, Agrees, Others
<1> QED BY <1>1, <1>2, OneOperation

\* The reply of CheckpointCreate.
LEMMA CreatedInv ==
  ASSUME CheckpointInv, NEW o \in Ops, NEW ok \in BOOLEAN, Created(o, ok)
  PROVE  CheckpointInv'
<1>0. op[o] \in Closure /\ device[o] \in Device /\ Agrees(op[o], device[o])
  BY DEF CheckpointInv, CheckpointTypeOK
<1>1. CASE ok
  <2> DEFINE c == [phase |-> "modify", plain |-> op[o].plain, timer |-> TRUE, title |-> TRUE,
                   tries |-> op[o].tries]
             d == [changed |-> device[o].changed, breaks |-> device[o].breaks,
                   checkpoint |-> TRUE, reply |-> device[o].reply]
  <2>1. c \in Closure /\ d \in Device
    BY <1>0 DEF Closure, Device, Phases
  <2>2. op' = [op EXCEPT ![o] = c] /\ device' = [device EXCEPT ![o] = d]
    BY <1>0, <1>1, ZenonT(60) DEF CheckpointInv, CheckpointTypeOK, Created, ShowCurtain, Closure, Device
  <2>3. Agrees(c, d)
    BY <1>0 DEF Created, Agrees
  <2>4. curtain' \in BOOLEAN /\ ignored' \in BOOLEAN
    BY <1>1 DEF CheckpointInv, CheckpointTypeOK, Created
  <2> HIDE DEF c, d
  <2> QED BY <2>1, <2>2, <2>3, <2>4, OneRecord
<1>2. CASE ~ok
  <2> DEFINE c == [phase |-> "modify", plain |-> TRUE, timer |-> op[o].timer,
                   title |-> op[o].title, tries |-> op[o].tries]
  <2>1. c \in Closure
    BY <1>0 DEF Closure, Device, Phases
  <2>2. op' = [op EXCEPT ![o] = c] /\ device' = [device EXCEPT ![o] = device[o]]
    BY <1>0, <1>2 DEF CheckpointInv, CheckpointTypeOK, Created, Closure, Device
  <2>3. Agrees(c, device[o])
    BY <1>0 DEF Created, Agrees
  <2>4. curtain' \in BOOLEAN /\ ignored' \in BOOLEAN
    BY <1>2 DEF CheckpointInv, CheckpointTypeOK, Created
  <2> HIDE DEF c
  <2> QED BY <1>0, <2>1, <2>2, <2>3, <2>4, OneRecord
<1> QED BY <1>1, <1>2

\* NetworkManager makes the change or refuses to.
LEMMA ModifiedInv ==
  ASSUME CheckpointInv, NEW o \in Ops, NEW ok \in BOOLEAN, NEW breaks \in BOOLEAN, Modified(o, ok, breaks)
  PROVE  CheckpointInv'
<1> DEFINE reply == IF ok THEN "ok" ELSE "failed"
           broken == ok /\ breaks
           d == [device[o] EXCEPT !.reply = reply, !.changed = ok, !.breaks = broken]
<1>1. op[o] \in Closure /\ device[o] \in Device /\ Agrees(op[o], device[o])
  BY DEF CheckpointInv, CheckpointTypeOK
<1>2. op' = [op EXCEPT ![o] = op[o]] /\ device' = [device EXCEPT ![o] = d]
  BY DEF CheckpointInv, CheckpointTypeOK, Modified
<1>3. broken \in BOOLEAN /\ reply \in {"none", "ok", "failed"} /\ (reply = "ok" => ok)
  OBVIOUS
<1>4. curtain' \in BOOLEAN /\ ignored' \in BOOLEAN /\ op[o].phase = "modify"
  BY DEF CheckpointInv, CheckpointTypeOK, Modified
<1> HIDE DEF reply, broken
<1>5. d \in Device
  BY <1>1, <1>3 DEF Device
<1>6. Agrees(op[o], d)
  BY <1>1, <1>3, <1>4 DEF Agrees, Device
<1> HIDE DEF d
<1> QED BY <1>1, <1>2, <1>4, <1>5, <1>6, OneRecord

\* The reply of modify(): the change settles, or the failure is dealt with.
LEMMA ModifyDoneInv ==
  ASSUME CheckpointInv, NEW o \in Ops, NEW rollback \in BOOLEAN, ModifyDone(o, rollback)
  PROVE  CheckpointInv'
<1> DEFINE d == [device[o] EXCEPT !.reply = "none"]
<1>1. op[o] \in Closure /\ device[o] \in Device /\ Agrees(op[o], device[o]) /\ op[o].phase = "modify"
  BY DEF CheckpointInv, CheckpointTypeOK, ModifyDone
<1>2. d \in Device /\ device' = [device EXCEPT ![o] = d]
  BY <1>1 DEF Device, CheckpointInv, CheckpointTypeOK, ModifyDone
<1>3. curtain' \in BOOLEAN /\ ignored' \in BOOLEAN
  BY DEF CheckpointInv, CheckpointTypeOK, ModifyDone
<1>4. CASE op[o].plain
  <2> DEFINE c == [op[o] EXCEPT !.phase = "over"]
  <2>1. op' = [op EXCEPT ![o] = c]
    BY <1>4 DEF CheckpointInv, CheckpointTypeOK, ModifyDone
  <2>2. c \in Closure /\ Agrees(c, d)
    BY <1>1, <1>4 DEF Closure, Phases, Device, Agrees
  <2> QED BY <1>2, <1>3, <2>1, <2>2, OneRecord
<1>5. CASE ~op[o].plain /\ device[o].reply = "ok"
  <2> DEFINE c == [op[o] EXCEPT !.phase = "settle"]
  <2>1. op' = [op EXCEPT ![o] = c]
    BY <1>5 DEF CheckpointInv, CheckpointTypeOK, ModifyDone
  <2>2. c \in Closure /\ Agrees(c, d)
    BY <1>1, <1>5 DEF Closure, Phases, Device, Agrees
  <2> QED BY <1>2, <1>3, <2>1, <2>2, OneRecord
<1>6. CASE ~op[o].plain /\ device[o].reply # "ok"
  <2> DEFINE next == IF rollback THEN "rollback" ELSE "discard"
             c == [op[o] EXCEPT !.phase = next, !.timer = FALSE, !.title = FALSE]
  <2>1. op' = [op EXCEPT ![o] = c]
    BY <1>1, <1>6 DEF CheckpointInv, CheckpointTypeOK, ModifyDone, HideCurtain, Closure
  <2>2. next \in {"rollback", "discard"}
    OBVIOUS
  <2> HIDE DEF next
  <2>3. c \in Closure /\ Agrees(c, d)
    BY <1>1, <2>2 DEF Closure, Phases, Device, Agrees
  <2> QED BY <1>2, <1>3, <2>1, <2>3, OneRecord
<1> QED BY <1>4, <1>5, <1>6

\* settle_time is over.
LEMMA SettleDoneInv ==
  ASSUME CheckpointInv, NEW o \in Ops, SettleDone(o)
  PROVE  CheckpointInv'
<1>1. CheckpointTypeOK'
  BY DEF CheckpointInv, CheckpointTypeOK, SettleDone, Closure, Device, Phases
<1>2. Others(o) /\ Agrees(op'[o], device'[o])
  BY DEF CheckpointInv, CheckpointTypeOK, SettleDone, Closure, Device, Phases, Agrees, Others
<1> QED BY <1>1, <1>2, OneOperation

\* The reply of CheckpointDestroy: the change is kept if the checkpoint was there.
LEMMA DestroyedInv ==
  ASSUME CheckpointInv, NEW o \in Ops, Destroyed(o)
  PROVE  CheckpointInv'
<1> DEFINE next == IF device[o].checkpoint THEN "kept" ELSE "asking"
           c == [op[o] EXCEPT !.phase = next, !.timer = FALSE, !.title = FALSE]
           d == [device[o] EXCEPT !.checkpoint = FALSE]
<1>1. op[o] \in Closure /\ device[o] \in Device /\ Agrees(op[o], device[o]) /\ op[o].phase = "destroy"
  BY DEF CheckpointInv, CheckpointTypeOK, Destroyed
<1>2. op' = [op EXCEPT ![o] = c] /\ device' = [device EXCEPT ![o] = d]
  BY <1>1 DEF CheckpointInv, CheckpointTypeOK, Destroyed, HideCurtain, Closure
<1>3. curtain' \in BOOLEAN /\ ignored' \in BOOLEAN
  BY DEF Destroyed
<1>4. next \in {"kept", "asking"} /\ (next = "kept" => device[o].changed)
  BY <1>1 DEF Agrees
<1> HIDE DEF next
<1>5. c \in Closure /\ d \in Device
  BY <1>1, <1>4 DEF Closure, Phases, Device
<1>6. Agrees(c, d)
  BY <1>1, <1>4 DEF Closure, Device, Agrees
<1> QED BY <1>2, <1>3, <1>5, <1>6, OneRecord

\* The checkpoint of a failed change is destroyed or rolled back.
LEMMA DiscardedInv ==
  ASSUME CheckpointInv, NEW o \in Ops, Discarded(o)
  PROVE  CheckpointInv'
<1>1. CheckpointTypeOK'
  BY ZenonT(60) DEF CheckpointInv, CheckpointTypeOK, Discarded, Closure, Device, Phases
<1>2. Others(o) /\ Agrees(op'[o], device'[o])
  BY DEF CheckpointInv, CheckpointTypeOK, Discarded, Closure, Device, Phases, Agrees, Others
<1> QED BY <1>1, <1>2, OneOperation

\* NetworkManager rolls back by itself, at any point while the checkpoint is there.
LEMMA RollbackInv ==
  ASSUME CheckpointInv, NEW o \in Ops, Rollback(o)
  PROVE  CheckpointInv'
<1>1. CheckpointTypeOK'
  BY ZenonT(60) DEF CheckpointInv, CheckpointTypeOK, Rollback, Closure, Device, Phases
<1>2. Others(o) /\ Agrees(op'[o], device'[o])
  BY DEF CheckpointInv, CheckpointTypeOK, Rollback, Closure, Device, Phases, Agrees, Others
<1> QED BY <1>1, <1>2, OneOperation

\* The curtain is shown.
LEMMA CurtainTimeoutInv ==
  ASSUME CheckpointInv, NEW o \in Ops, CurtainTimeout(o)
  PROVE  CheckpointInv'
<1>1. CheckpointTypeOK'
  BY ZenonT(60) DEF CheckpointInv, CheckpointTypeOK, CurtainTimeout, Closure, Device, Phases
<1>2. Others(o) /\ Agrees(op'[o], device'[o])
  BY DEF CheckpointInv, CheckpointTypeOK, CurtainTimeout, Closure, Device, Phases, Agrees, Others
<1> QED BY <1>1, <1>2, OneOperation

\* The user answers the dialog that offers to make the change anyway.
LEMMA AnywayInv ==
  ASSUME CheckpointInv, NEW o \in Ops, NEW yes \in BOOLEAN, Anyway(o, yes)
  PROVE  CheckpointInv'
<1> DEFINE next == IF yes THEN "modify" ELSE "over"
           c == [op[o] EXCEPT !.phase = next, !.plain = TRUE]
<1>1. op[o] \in Closure /\ device[o] \in Device /\ Agrees(op[o], device[o]) /\ op[o].phase = "asking"
  BY DEF CheckpointInv, CheckpointTypeOK, Anyway
<1>2. op' = [op EXCEPT ![o] = c] /\ device' = [device EXCEPT ![o] = device[o]]
  BY <1>1 DEF CheckpointInv, CheckpointTypeOK, Anyway
<1>3. curtain' \in BOOLEAN /\ ignored' \in BOOLEAN
  BY DEF CheckpointInv, CheckpointTypeOK, Anyway
<1>4. next \in {"modify", "over"}
  OBVIOUS
<1> HIDE DEF next
<1>5. c \in Closure /\ Agrees(c, device[o])
  BY <1>1, <1>4 DEF Closure, Phases, Agrees
<1> QED BY <1>1, <1>2, <1>3, <1>5, OneRecord

\* The invariant holds in every state of with_checkpoint and NetworkManager,
\* whatever the order of replies, timeouts and overlapping operations.
THEOREM CheckpointSafe == CheckpointSpec => []CheckpointInv
<1>1. CheckpointInit => CheckpointInv
  <2> SUFFICES ASSUME CheckpointInit PROVE CheckpointInv
    OBVIOUS
  <2>1. op \in [Ops -> Closure]
    BY CheckpointAssumption DEF CheckpointInit, Closure, Phases
  <2>2. device \in [Ops -> Device]
    BY DEF CheckpointInit, Device
  <2> QED BY <2>1, <2>2 DEF CheckpointInit, CheckpointInv, CheckpointTypeOK, Agrees
<1>2. CheckpointInv /\ [CheckpointNext]_cpvars => CheckpointInv'
  <2> SUFFICES ASSUME CheckpointInv, [CheckpointNext]_cpvars PROVE CheckpointInv'
    OBVIOUS
  <2>1. CASE CheckpointNext
    BY <2>1, StartChangeInv, CreatedInv, ModifiedInv, ModifyDoneInv, SettleDoneInv, DestroyedInv,
       DiscardedInv, RollbackInv, CurtainTimeoutInv, AnywayInv DEF CheckpointNext
  <2>2. CASE UNCHANGED cpvars
    BY <2>2 DEF cpvars, CheckpointInv, CheckpointTypeOK, Agrees
  <2> QED BY <2>1, <2>2
<1> QED BY <1>1, <1>2, PTL DEF CheckpointSpec

\* A change that the networking page keeps without a question is in place: a
\* rollback that came first, at any point of with_checkpoint, is noticed.
THEOREM KeptIsInPlaceAlways == CheckpointSpec => []KeptIsInPlace
<1>1. CheckpointInv => KeptIsInPlace
  BY DEF CheckpointInv, Agrees, KeptIsInPlace
<1> QED BY <1>1, CheckpointSafe, PTL

----
(* The dialog to join a domain                                             *)

PerformStates == {"none", "ensure", "call", "done"}

RealmdInv ==
  /\ performs \in [1 .. MaxPerforms -> [state : PerformStates, check : Nat, late : BOOLEAN]]
  /\ checking \in Nat /\ operation \in 0 .. MaxPerforms
  /\ BusyEnds

LEMMA RealmdStarts == RealmdInit => RealmdInv
<1> SUFFICES ASSUME RealmdInit PROVE RealmdInv
  OBVIOUS
<1>1. performs \in [1 .. MaxPerforms -> [state : PerformStates, check : Nat, late : BOOLEAN]]
  <2>1. [state |-> "none", check |-> 0, late |-> FALSE] \in [state : PerformStates, check : Nat, late : BOOLEAN]
    BY DEF PerformStates
  <2> QED BY <2>1 DEF RealmdInit
<1>2. checking = 1 /\ operation = 0
  BY DEF RealmdInit
<1> QED BY <1>1, <1>2, RealmdAssumption DEF RealmdInv, BusyEnds

LEMMA RealmdKeeps ==
  ASSUME RealmdInv, [RealmdNext]_realmvars
  PROVE  RealmdInv'
<1> USE RealmdAssumption DEF RealmdInv, PerformStates, BusyEnds
<1>1. ASSUME NEW text \in Addresses \cup {""}, TypeAddress(text) PROVE RealmdInv'
  BY <1>1 DEF TypeAddress
<1>2. CASE CheckTimeout
  BY <1>2 DEF CheckTimeout, Check
<1>3. ASSUME NEW i \in 1 .. MaxChecks, NEW found \in BOOLEAN, Discovered(i, found) PROVE RealmdInv'
  BY <1>3 DEF Discovered, DiscoverAnswer, Check
<1>4. ASSUME NEW i \in 1 .. MaxChecks, RealmReady(i) PROVE RealmdInv'
  BY <1>4 DEF RealmReady
<1>5. ASSUME NEW p \in 1 .. MaxPerforms, Perform(p) PROVE RealmdInv'
  <2>1. checking' \in Nat
    BY <1>5 DEF Perform, Check
  <2> QED BY <1>5, <2>1 DEF Perform
<1>6. ASSUME NEW p \in 1 .. MaxPerforms, EnsureFailed(p) PROVE RealmdInv'
  BY <1>6 DEF EnsureFailed
<1>7. ASSUME NEW p \in 1 .. MaxPerforms, NEW b \in BOOLEAN, EnsureDone(p, b) PROVE RealmdInv'
  <2> DEFINE late == b /\ p \in cancelled
             to == IF b THEN "call" ELSE "done"
  <2>1. late \in BOOLEAN /\ to \in PerformStates
    OBVIOUS
  <2>2. performs' \in [1 .. MaxPerforms -> [state : PerformStates, check : Nat, late : BOOLEAN]]
    <3>1. performs' = [performs EXCEPT ![p].state = to, ![p].late = late]
      BY <1>7 DEF EnsureDone
    <3> HIDE DEF late, to
    <3> QED BY <2>1, <3>1
  <2> QED BY <1>7, <2>2 DEF EnsureDone
<1>8. ASSUME NEW p \in 1 .. MaxPerforms, NEW b \in BOOLEAN, CallEnds(p, b) PROVE RealmdInv'
  BY <1>8 DEF CallEnds
<1>9. CASE Cancel
  BY <1>9 DEF Cancel
<1>10. CASE UNCHANGED realmvars
  BY <1>10 DEF realmvars
<1> QED BY <1>1, <1>2, <1>3, <1>4, <1>5, <1>6, <1>7, <1>8, <1>9, <1>10 DEF RealmdNext

----
(* The page of rpm-ostree                                                  *)

OstTypes ==
  [client : {"none", "connecting", "ready"}, local_running : OsTransactions \cup {"none"},
   active : OsTransactions \cup {"none", "other"}, timer : BOOLEAN, skipped : BOOLEAN,
   listening : BOOLEAN, runningMethod : OsTransactions \cup {"none", "other"}]

OSTreeInv ==
  /\ tx \in [OsTransactions ->
               {"idle", "waiting", "reload", "call", "running", "caching", "done", "failed"}]
  /\ ost \in OstTypes
  /\ rpmostree \in OsTransactions \cup {"none", "other"}
  /\ ostnotices \in Seq(OsTransactions \cup {"none", "other"})
  /\ RunningHasCause

\* The "changed" event is about the page: the client stays as it is.
LEMMA ChangedKeepsClient ==
  ASSUME NEW S \in OstTypes
  PROVE  /\ SysrootChanged(S) \in OstTypes /\ SysrootChanged(S).local_running = S.local_running
         /\ TriggerChanged(S) \in OstTypes /\ TriggerChanged(S).local_running = S.local_running
<1>1. SysrootChanged(S) \in OstTypes /\ SysrootChanged(S).local_running = S.local_running
  BY DEF OstTypes, SysrootChanged, RunningMethod
<1>2. TriggerChanged(S) \in OstTypes /\ TriggerChanged(S).local_running = S.local_running
  <2> HIDE DEF SysrootChanged
  <2> QED BY <1>1 DEF OstTypes, TriggerChanged
<1> QED BY <1>1, <1>2

LEMMA CleanupClears ==
  ASSUME NEW S \in OstTypes
  PROVE  Cleanup(S) \in OstTypes /\ Cleanup(S).local_running = "none"
<1> DEFINE N == [S EXCEPT !.local_running = "none"]
<1>1. N \in OstTypes /\ N.local_running = "none"
  BY DEF OstTypes
<1> QED BY <1>1, ChangedKeepsClient DEF Cleanup

LEMMA OSTreeStarts == OSTreeInit => OSTreeInv
BY DEF OSTreeInit, OSTreeInv, OstTypes, RunningHasCause

LEMMA OSTreeKeeps ==
  ASSUME OSTreeInv, [OSTreeNext]_ostvars
  PROVE  OSTreeInv'
<1> USE OSTreeAssumption DEF OSTreeInv, RunningHasCause
<1>0. ost \in OstTypes
  OBVIOUS
<1>1. CASE TimerFires
  <2> DEFINE M == [ost EXCEPT !.timer = FALSE]
             K == IF ost.skipped THEN SysrootChanged(M) ELSE ost
  <2>1. M \in OstTypes /\ M.local_running = ost.local_running
    BY <1>0 DEF OstTypes
  <2>2. K \in OstTypes /\ K.local_running = ost.local_running
    <3> HIDE DEF M
    <3> QED BY <1>0, <2>1, ChangedKeepsClient
  <2>3. ost' = [K EXCEPT !.timer = FALSE, !.skipped = FALSE]
    BY <1>1 DEF TimerFires
  <2>4. ost' \in OstTypes /\ ost'.local_running = ost.local_running
    <3> HIDE DEF K
    <3> QED BY <2>2, <2>3 DEF OstTypes
  <2> QED BY <1>1, <2>4 DEF TimerFires
<1>2. CASE Reconnect
  <2>1. ost' \in OstTypes /\ ost'.local_running = "none"
    BY <1>0, <1>2 DEF Reconnect, GetClient, OstTypes
  <2> QED BY <1>2, <2>1 DEF Reconnect
<1>3. CASE ClientConnected
  <2> DEFINE S == [ost EXCEPT !.client = "ready", !.active = rpmostree]
             K == [TriggerChanged(S) EXCEPT !.listening = TRUE]
  <2>1. S \in OstTypes /\ S.local_running = ost.local_running
    BY <1>0 DEF OstTypes
  <2>2. TriggerChanged(S) \in OstTypes /\ TriggerChanged(S).local_running = ost.local_running
    BY <2>1, ChangedKeepsClient
  <2>3. K \in OstTypes /\ K.local_running = ost.local_running
    BY <2>2 DEF OstTypes
  <2>4. SysrootChanged(K) \in OstTypes /\ SysrootChanged(K).local_running = ost.local_running
    BY <2>3, ChangedKeepsClient
  <2>5. ost' = IF S.listening THEN TriggerChanged(S) ELSE SysrootChanged(K)
    BY <1>3 DEF ClientConnected
  <2>6. ost' \in OstTypes /\ ost'.local_running = ost.local_running
    <3> HIDE DEF S, K
    <3> QED BY <2>2, <2>4, <2>5
  <2>7. ost'.local_running # "none" =>
          tx'[ost'.local_running] \in {"waiting", "reload", "call", "running", "caching"}
    <3>1. ost.local_running \in OsTransactions \cup {"none"}
      BY <1>0 DEF OstTypes
    <3>2. tx' = [t \in OsTransactions |-> IF tx[t] = "waiting" THEN "reload" ELSE tx[t]]
      BY <1>3 DEF ClientConnected
    <3> QED BY <3>1, <3>2, <2>6
  <2> QED BY <1>3, <2>6, <2>7 DEF ClientConnected
<1>4. CASE ClientClosed
  <2> DEFINE S == [ost EXCEPT !.client = "none", !.active = "none"]
             T == IF ost.client = "connecting" THEN TriggerChanged(S) ELSE S
  <2>1. S \in OstTypes /\ S.local_running = ost.local_running
    BY <1>0 DEF OstTypes
  <2>2. T \in OstTypes /\ T.local_running = ost.local_running
    BY <2>1, ChangedKeepsClient
  <2>3. Cleanup(T) \in OstTypes /\ Cleanup(T).local_running = "none"
    <3> HIDE DEF T
    <3> QED BY <2>2, CleanupClears
  <2>4. TriggerChanged(Cleanup(T)) \in OstTypes /\ TriggerChanged(Cleanup(T)).local_running = "none"
    BY <2>3, ChangedKeepsClient
  <2>5. ost' = CASE NeedClient = {} -> T
                 [] \E t \in NeedClient : NeedClient = {t} -> Cleanup(T)
                 [] OTHER -> TriggerChanged(Cleanup(T))
    BY <1>4 DEF ClientClosed
  <2>6. \/ NeedClient = {} /\ ost' = T
        \/ ost' = Cleanup(T) \/ ost' = TriggerChanged(Cleanup(T))
    <3> HIDE DEF T
    <3> QED BY <2>5
  <2>7. ost' \in OstTypes
    <3> HIDE DEF T
    <3> QED BY <2>2, <2>3, <2>4, <2>6
  <2>8. ost'.local_running = "none" \/ (NeedClient = {} /\ ost'.local_running = ost.local_running)
    <3> HIDE DEF T
    <3> QED BY <2>2, <2>3, <2>4, <2>6
  <2>9. tx' = [t \in OsTransactions |-> IF t \in NeedClient THEN "failed" ELSE tx[t]]
    BY <1>4 DEF ClientClosed
  <2>10. ost'.local_running # "none" =>
          tx'[ost'.local_running] \in {"waiting", "reload", "call", "running", "caching"}
    BY <2>7, <2>8, <2>9
  <2>11. rpmostree' = rpmostree /\ ostnotices' = <<>>
    BY <1>4 DEF ClientClosed
  <2> QED BY <2>7, <2>9, <2>10, <2>11
<1>5. CASE OnSysrootChanged
  <2> DEFINE S == [ost EXCEPT !.active = Head(ostnotices)]
  <2>1. S \in OstTypes /\ S.local_running = ost.local_running
    BY <1>0, <1>5 DEF OstTypes, OnSysrootChanged
  <2>2. ost' \in OstTypes /\ ost'.local_running = ost.local_running
    BY <1>5, <2>1, ChangedKeepsClient DEF OnSysrootChanged
  <2> QED BY <1>5, <2>2 DEF OnSysrootChanged
<1>6. CASE OtherTransaction
  BY <1>6 DEF OtherTransaction, Tell
<1>7. ASSUME NEW t \in OsTransactions, RunTransaction(t) PROVE OSTreeInv'
  <2>1. ost' \in OstTypes /\ ost'.local_running \in {"none", t}
    BY <1>0, <1>7 DEF RunTransaction, GetClient, OstTypes
  <2> QED BY <1>7, <2>1 DEF RunTransaction
<1>8. ASSUME NEW t \in OsTransactions, Reloaded(t) PROVE OSTreeInv'
  BY <1>8 DEF Reloaded
<1>9. ASSUME NEW t \in OsTransactions, Failed(t) PROVE OSTreeInv'
  <2>1. ost' \in OstTypes /\ ost'.local_running = "none"
    BY <1>0, <1>9, CleanupClears DEF Failed
  <2> QED BY <1>9, <2>1 DEF Failed
<1>10. ASSUME NEW t \in OsTransactions, RunStarted(t) PROVE OSTreeInv'
  BY <1>10 DEF RunStarted, Tell
<1>11. ASSUME NEW t \in OsTransactions, RunFinished(t) PROVE OSTreeInv'
  <2>1. Cleanup(ost) \in OstTypes /\ Cleanup(ost).local_running = "none"
    BY <1>0, CleanupClears
  <2>2. rpmostree' \in OsTransactions \cup {"none", "other"}
        /\ ostnotices' \in Seq(OsTransactions \cup {"none", "other"})
    BY <1>11 DEF RunFinished, Tell
  <2>3. CASE t \in Rebases /\ ost.client = "ready"
    <3>1. tx' = [tx EXCEPT ![t] = "caching"] /\ ost' = [Cleanup(ost) EXCEPT !.local_running = t]
      BY <1>11, <2>3 DEF RunFinished
    <3>2. ost' \in OstTypes /\ ost'.local_running = t
      BY <2>1, <3>1 DEF OstTypes
    <3> QED BY <3>1, <3>2, <2>2
  <2>4. CASE ~(t \in Rebases /\ ost.client = "ready")
    <3>1. tx' = [tx EXCEPT ![t] = "done"] /\ ost' = Cleanup(ost)
      BY <1>11, <2>4 DEF RunFinished
    <3> QED BY <3>1, <2>1, <2>2
  <2> QED BY <2>3, <2>4
<1>12. ASSUME NEW t \in OsTransactions, TransactionFailed(t) PROVE OSTreeInv'
  <2>1. ost' \in OstTypes /\ ost'.local_running = "none"
    BY <1>0, <1>12, CleanupClears DEF TransactionFailed
  <2> QED BY <1>12, <2>1 DEF TransactionFailed, Tell
<1>13. ASSUME NEW t \in OsTransactions, Cached(t) PROVE OSTreeInv'
  <2>1. ost' \in OstTypes /\ ost'.local_running = "none"
    BY <1>0, <1>13, CleanupClears DEF Cached, Cleanup
  <2> QED BY <1>13, <2>1 DEF Cached
<1>14. CASE UNCHANGED ostvars
  BY <1>14 DEF ostvars
<1> QED BY <1>1, <1>2, <1>3, <1>4, <1>5, <1>6, <1>7, <1>8, <1>9, <1>10, <1>11, <1>12, <1>13, <1>14 DEF OSTreeNext

----
(* The page of virtual machines                                            *)

Placeholder ==
  [ui : [shown : BOOLEAN, creating : BOOLEAN, installing : BOOLEAN],
   timers : SUBSET {"create", "install"}, stray : Nat]

\* A placeholder that is shown has a timeout, and one that installs that of
\* the installation.
Leaving(P) ==
  /\ P \in Placeholder
  /\ P.ui.shown => P.timers # {}
  /\ P.ui.installing => "install" \in P.timers

LibvirtInv == placeholder \in [Vms -> {P \in Placeholder : Leaving(P)}]

LEMMA ClearVmUiStateLeaves ==
  ASSUME NEW P, Leaving(P)
  PROVE  Leaving(ClearVmUiState(P))
BY DEF Leaving, ClearVmUiState, Placeholder, NoPlaceholder

LEMMA InProgressLeaves ==
  ASSUME NEW P, Leaving(P), NEW kind \in {"create", "install"}
  PROVE  Leaving(InProgress(P, kind))
<1> DEFINE c == P.ui.creating \/ kind = "create"
           n == P.ui.installing \/ kind = "install"
           u == [P.ui EXCEPT !.shown = TRUE, !.creating = c, !.installing = n]
           k == P.stray + (IF kind \in P.timers THEN 1 ELSE 0)
<1>1. c \in BOOLEAN /\ n \in BOOLEAN /\ k \in Nat
  BY DEF Leaving, Placeholder
<1>2. n => "install" \in P.timers \cup {kind}
  BY DEF Leaving, Placeholder
<1>3. InProgress(P, kind) = [ui |-> u, timers |-> P.timers \cup {kind}, stray |-> k]
  BY DEF InProgress
<1>4. u \in [shown : BOOLEAN, creating : BOOLEAN, installing : BOOLEAN] /\ u.installing = n
  <2> HIDE DEF c, n
  <2> QED BY <1>1 DEF Leaving, Placeholder
<1>5. P.timers \cup {kind} \in SUBSET {"create", "install"}
  BY DEF Leaving, Placeholder
<1> HIDE DEF c, n, u, k
<1> QED BY <1>1, <1>2, <1>3, <1>4, <1>5 DEF Leaving, Placeholder

LEMMA FinishProgressLeaves ==
  ASSUME NEW P, Leaving(P), NEW kind
  PROVE  Leaving(FinishProgress(P, kind))
BY DEF Leaving, FinishProgress, Placeholder

LEMMA ResolveUiStateLeaves ==
  ASSUME NEW P, Leaving(P)
  PROVE  Leaving(ResolveUiState(P))
<1>1. CASE ~P.ui.shown
  BY <1>1 DEF ResolveUiState
<1>2. CASE P.ui.shown /\ P.ui.installing
  <2> DEFINE Q == [P EXCEPT !.timers = @ \ {"create"}]
  <2>1. Leaving(Q)
    BY <1>2 DEF Leaving, Placeholder
  <2>2. Leaving(FinishProgress(Q, "create"))
    <3> HIDE DEF Q
    <3> QED BY <2>1, FinishProgressLeaves
  <2> QED BY <1>2, <2>2 DEF ResolveUiState, RemoveCreate
<1>3. CASE P.ui.shown /\ ~P.ui.installing
  BY <1>3, ClearVmUiStateLeaves DEF ResolveUiState
<1> QED BY <1>1, <1>2, <1>3 DEF Leaving, Placeholder

LEMMA LibvirtStarts == LibvirtInit => LibvirtInv
<1> DEFINE P == [ui |-> NoPlaceholder, timers |-> {}, stray |-> 0]
<1>1. Leaving(P)
  BY DEF Leaving, Placeholder, NoPlaceholder
<1>2. P \in {Q \in Placeholder : Leaving(Q)}
  BY <1>1 DEF Leaving
<1>3. LibvirtInit => placeholder = [v \in Vms |-> P]
  BY DEF LibvirtInit
<1> HIDE DEF P
<1> QED BY <1>2, <1>3 DEF LibvirtInv

LEMMA LibvirtKeeps ==
  ASSUME LibvirtInv, [LibvirtNext]_virtvars
  PROVE  LibvirtInv'
<1>0. ASSUME NEW v \in Vms PROVE Leaving(placeholder[v])
  BY <1>0 DEF LibvirtInv
<1>s. ASSUME NEW v, NEW P, placeholder' = [placeholder EXCEPT ![v] = P], v \in Vms => Leaving(P)
      PROVE  LibvirtInv'
  BY <1>s DEF LibvirtInv, Leaving
<1>u. ASSUME UNCHANGED placeholder PROVE LibvirtInv'
  BY <1>u DEF LibvirtInv
<1>1. ASSUME NEW v \in Vms, NEW kinds \in {{"create"}, {"install"}, {"create", "install"}}, CreateVm(v, kinds)
      PROVE  LibvirtInv'
  <2> DEFINE P == IF "create" \in kinds THEN InProgress(placeholder[v], "create") ELSE placeholder[v]
             Q == IF "install" \in kinds THEN InProgress(P, "install") ELSE P
  <2>1. Leaving(P)
    BY <1>0, InProgressLeaves
  <2>2. Leaving(Q)
    <3> HIDE DEF P
    <3> QED BY <2>1, InProgressLeaves
  <2>3. placeholder' = [placeholder EXCEPT ![v] = Q]
    BY <1>1 DEF CreateVm
  <2> HIDE DEF Q
  <2> QED BY <2>2, <2>3, <1>s
<1>2. ASSUME NEW v \in Vms, CleanupTimeout(v) PROVE LibvirtInv'
  <2> DEFINE P == ClearVmUiState(placeholder[v])
  <2>1. Leaving(P) /\ P.stray = placeholder[v].stray /\ placeholder[v].stray \in Nat
    BY <1>0, ClearVmUiStateLeaves DEF ClearVmUiState, Leaving, Placeholder
  <2>2. CASE placeholder' = [placeholder EXCEPT ![v] = P]
    <3> HIDE DEF P
    <3> QED BY <2>1, <2>2, <1>s
  <2>3. CASE placeholder[v].stray > 0 /\ placeholder' = [placeholder EXCEPT ![v] = [P EXCEPT !.stray = @ - 1]]
    <3> HIDE DEF P
    <3>1. Leaving([P EXCEPT !.stray = @ - 1])
      BY <2>1, <2>3 DEF Leaving, Placeholder
    <3> QED BY <2>3, <3>1, <1>s
  <2> QED BY <1>2, <2>2, <2>3 DEF CleanupTimeout
<1>3. ASSUME NEW i, NEW ok \in BOOLEAN, ScriptEnds(i, ok) PROVE LibvirtInv'
  <2> DEFINE s == vmscripts[i]
             P == placeholder[s.of]
             Q == IF "create" \in s.kinds THEN FinishProgress(P, "create") ELSE P
             N == IF ~ok /\ "create" \in s.kinds THEN ClearVmUiState(P)
                  ELSE IF "install" \in s.kinds THEN FinishProgress(Q, "install") ELSE Q
  <2>1. s.of \in Vms => Leaving(P)
    BY <1>0
  <2>2. s.of \in Vms => Leaving(Q)
    <3> HIDE DEF P
    <3> QED BY <2>1, FinishProgressLeaves
  <2>3. s.of \in Vms => Leaving(N)
    <3> HIDE DEF P, Q
    <3> QED BY <2>1, <2>2, FinishProgressLeaves, ClearVmUiStateLeaves
  <2>4. placeholder' = [placeholder EXCEPT ![s.of] = N]
    BY <1>3 DEF ScriptEnds
  <2> HIDE DEF N, s
  <2> QED BY <2>3, <2>4, <1>s
<1>4. ASSUME NEW i, VirshEnds(i) PROVE LibvirtInv'
  <2>1. \/ UNCHANGED placeholder
        \/ placeholder' = [placeholder EXCEPT ![virsh[i].of] = ResolveUiState(placeholder[virsh[i].of])]
    BY <1>4 DEF VirshEnds, ListEnds, DumpxmlEnds
  <2>2. virsh[i].of \in Vms => Leaving(ResolveUiState(placeholder[virsh[i].of]))
    BY <1>0, ResolveUiStateLeaves
  <2> QED BY <2>1, <2>2, <1>s, <1>u
<1>5. ASSUME NEW v \in Vms, LibvirtChanges(v) PROVE LibvirtInv'
  BY <1>5, <1>u DEF LibvirtChanges, DomainChanges
<1>6. ASSUME NEW i, VirshReads(i) PROVE LibvirtInv'
  BY <1>6, <1>u DEF VirshReads
<1>7. CASE HandleEvent \/ MonitorRuns \/ MonitorFails \/ GetAllVms \/ LibvirtdStops \/ LibvirtdStarts
  BY <1>7, <1>u DEF HandleEvent, MonitorRuns, MonitorFails, GetAllVms, LibvirtdStops, LibvirtdStarts
<1>8. CASE UNCHANGED virtvars
  BY <1>8, <1>u DEF virtvars
<1> QED BY <1>1, <1>2, <1>3, <1>4, <1>5, <1>6, <1>7, <1>8 DEF LibvirtNext

LEMMA LibvirtGoal == LibvirtInv => PlaceholderLeaves
BY DEF LibvirtInv, PlaceholderLeaves, Leaving, Placeholder

----
(* The login page                                                          *)

LoginInv ==
  /\ prompts \in 0 .. MaxRequests /\ handlers \in SUBSET (0 .. prompts) /\ sent \in Nat
  /\ FormCanBeSent

\* Requests that are sent are awaited.
LEMMA SendAwaits ==
  ASSUME NEW n \in Nat \ {0}, NEW seen \in BOOLEAN, sent \in Nat, SendWhile(n, seen)
  PROVE  requests' # {} /\ sent' \in Nat
<1>1. sent + 1 \in sent + 1 .. sent + n
  OBVIOUS
<1>2. [id |-> sent + 1, auto |-> FALSE] \in requests'
  BY <1>1 DEF SendWhile
<1> QED BY <1>2 DEF SendWhile

LEMMA AskedCounts ==
  ASSUME LoginInv, handlers \cap Prompts # {}
  PROVE  Cardinality(handlers \cap Prompts) \in Nat \ {0}
<1>1. IsFiniteSet(0 .. prompts)
  BY LoginAssumption, FS_Interval DEF LoginInv
<1>2. IsFiniteSet(handlers \cap Prompts)
  BY <1>1, FS_Subset DEF LoginInv
<1> QED BY <1>2, FS_CardinalityType, FS_EmptySet

LEMMA LoginStarts == LoginInit => LoginInv
BY LoginAssumption DEF LoginInit, LoginInv, FormCanBeSent

LEMMA LoginKeeps ==
  ASSUME LoginInv, [LoginNext]_loginvars
  PROVE  LoginInv'
<1> USE LoginAssumption
<1>a. ASSUME NEW n \in Nat \ {0}, NEW seen \in BOOLEAN, SendWhile(n, seen),
             handlers' \in SUBSET (0 .. prompts), UNCHANGED prompts
      PROVE  LoginInv'
  BY <1>a, SendAwaits DEF LoginInv, FormCanBeSent
<1>b. ASSUME NEW empty \in BOOLEAN, CallLoginForm(empty, handlers), UNCHANGED prompts
      PROVE  LoginInv'
  <2>1. CASE empty
    <3>1. form' = "login" /\ ~disabled' /\ handlers' = handlers \cup {0} /\ UNCHANGED <<sent, requests>>
      BY <1>b, <2>1 DEF CallLoginForm, ShowForm, CallLogin
    <3> QED BY <1>b, <3>1 DEF CallLogin, LoginInv, FormCanBeSent
  <2>2. CASE ~empty
    <3>1. SendWhile(1, FALSE) /\ handlers' \in SUBSET (0 .. prompts)
      BY <1>b, <2>2 DEF CallLoginForm, Send, LoginInv
    <3>2. 1 \in Nat \ {0} /\ FALSE \in BOOLEAN
      OBVIOUS
    <3> QED BY <1>b, <3>1, <3>2, <1>a, Zenon
  <2> QED BY <2>1, <2>2
<1>c. ASSUME handlers \cap Prompts # {}, CallConverse(handlers \cap Prompts, handlers), UNCHANGED prompts
      PROVE  LoginInv'
  BY <1>c, <1>a, AskedCounts DEF CallConverse, Send, LoginInv
<1>1. ASSUME NEW empty \in BOOLEAN, EnterPassword(empty) PROVE LoginInv'
  BY <1>1, <1>b DEF EnterPassword
<1>2. ASSUME NEW empty \in BOOLEAN, ClickButton(empty) PROVE LoginInv'
  <2> DEFINE clicked == handlers \cap Prompts
  <2>1. CASE clicked = {}
    BY <1>2, <2>1, <1>b DEF ClickButton
  <2>2. CASE clicked # {} /\ CallLogin \in handlers
    <3> DEFINE n == Cardinality(clicked) + (IF empty THEN 0 ELSE 1)
    <3>1. n \in Nat \ {0}
      BY <2>2, AskedCounts
    <3>2. SendWhile(n, empty) /\ UNCHANGED prompts
      BY <1>2, <2>2 DEF ClickButton
    <3>3. handlers' \in SUBSET (0 .. prompts)
      BY <1>2, <2>2 DEF ClickButton, CallLogin, LoginInv
    <3> HIDE DEF n
    <3> QED BY <3>1, <3>2, <3>3, <1>a
  <2>3. CASE clicked # {} /\ CallLogin \notin handlers
    BY <1>2, <2>3, <1>c DEF ClickButton
  <2> QED BY <2>1, <2>2, <2>3
<1>3. CASE EnterReply
  BY <1>3, <1>c DEF EnterReply
<1>4. ASSUME NEW r \in requests, LoggedIn(r) PROVE LoginInv'
  BY <1>4 DEF LoggedIn, LoginInv, FormCanBeSent
<1>5. ASSUME NEW r \in requests, Challenged(r) PROVE LoginInv'
  BY <1>5 DEF Challenged, ShowForm, LoginInv, FormCanBeSent
<1>6. ASSUME NEW r \in requests, Refused(r) PROVE LoginInv'
  BY <1>6 DEF Refused, ShowForm, CallLogin, LoginInv, FormCanBeSent
<1>7. ASSUME NEW r \in requests, Fatal(r) PROVE LoginInv'
  BY <1>7 DEF Fatal, LoginInv, FormCanBeSent
<1>8. CASE UNCHANGED loginvars
  BY <1>8 DEF loginvars, LoginInv, FormCanBeSent
<1> QED BY <1>1, <1>2, <1>3, <1>4, <1>5, <1>6, <1>7, <1>8 DEF LoginNext

----
(* The software update page                                                *)

UpdatesPage ==
  [state : PageStates, boot : {"list", "time", "done", "dialog"}, tx : Seq(Transaction),
   dialog : {"closed", "open", "installing"}, message : BOOLEAN, data : {"null", "some", "nothing"},
   cancel : Nat]

UpdateKinds == {"UpdatePackages", "found"}

Loading == {"loading", "refreshing", "locked"}

\* A transaction of these kinds will settle its promise.  That of j, if there
\* is one, is being settled: it may be over.
Waits(S, j, kinds) ==
  \E i \in 1 .. Len(S.tx) :
    S.tx[i].kind \in kinds /\ (S.tx[i].phase # "over" \/ i = j) /\ ~S.tx[i].settled

\* Once it is over the promise of a transaction is settled, and then there are no
\* more calls of its progress callback.  Updates have neither, and only they are missed.
TransactionFits(t, i, j) ==
  IF Updating(t.kind) THEN ~t.progress /\ ~t.settled
  ELSE /\ t.phase # "missed"
       /\ t.phase = "over" => t.settled \/ i = j
       /\ t.progress => ~t.settled /\ t.kind # "GetUpdateDetail"

UpdatesFit(S, j) ==
  /\ S \in UpdatesPage
  /\ \A i \in 1 .. Len(S.tx) : TransactionFits(S.tx[i], i, j)
  /\ S.boot = "done" /\ S.state \in Loading => Waits(S, j, PageKinds)
  /\ S.state = "applying" => Waits(S, j, UpdateKinds)
  /\ S.message => Waits(S, j, CheckKinds)
  /\ S.dialog = "installing" => Waits(S, j, {"install"})

UpdatesInv == UpdatesFit(U, 0)

TransactionKinds == PageKinds \cup CheckKinds \cup UpdateKinds \cup {"install"}

\* All but what is said of the state of page and dialog.
TransactionsFit(S, j) == S \in UpdatesPage /\ \A i \in 1 .. Len(S.tx) : TransactionFits(S.tx[i], i, j)

LEMMA NewTransactionWaits ==
  ASSUME NEW S, NEW kind \in TransactionKinds, TransactionsFit(S, 0)
  PROVE  LET N == NewTransaction(S, kind) IN
         /\ TransactionsFit(N, 0)
         /\ N.state = S.state /\ N.boot = S.boot /\ N.message = S.message /\ N.dialog = S.dialog
         /\ \A K : Waits(S, 0, K) => Waits(N, 0, K)
         /\ \A K : kind \in K => Waits(N, 0, K)
<1> DEFINE pr == kind # "GetUpdateDetail" /\ ~Updating(kind)
           ti == ~Updating(kind)
           t == [kind |-> kind, phase |-> "create", settled |-> FALSE, progress |-> pr, timer |-> ti]
           N == NewTransaction(S, kind)
<1>1. pr \in BOOLEAN /\ ti \in BOOLEAN
  OBVIOUS
<1>2. /\ t \in Transaction /\ t.kind = kind /\ t.phase = "create" /\ ~t.settled
      /\ (t.progress => ~Updating(kind) /\ kind # "GetUpdateDetail")
  <2>1. pr => ~Updating(kind) /\ kind # "GetUpdateDetail"
    OBVIOUS
  <2> HIDE DEF pr, ti
  <2> QED BY <1>1, <2>1 DEF Transaction, TransactionKinds, UpdateKinds
<1>3. N = [S EXCEPT !.tx = Append(S.tx, t)]
  BY DEF NewTransaction
<1> HIDE DEF t, N
<1>4. S \in UpdatesPage /\ S.tx \in Seq(Transaction)
  BY DEF TransactionsFit, UpdatesPage
<1>5. /\ N \in UpdatesPage /\ N.tx = Append(S.tx, t)
      /\ N.state = S.state /\ N.boot = S.boot /\ N.message = S.message /\ N.dialog = S.dialog
  <2>1. Append(S.tx, t) \in Seq(Transaction)
    BY <1>2, <1>4
  <2> DEFINE q == Append(S.tx, t)
  <2> HIDE DEF q
  <2>2. q \in Seq(Transaction) /\ N = [S EXCEPT !.tx = q]
    BY <2>1, <1>3 DEF q
  <2>3. N \in UpdatesPage /\ N.tx = q
    BY <2>2, <1>4 DEF UpdatesPage
  <2>4. N.state = S.state /\ N.boot = S.boot /\ N.message = S.message /\ N.dialog = S.dialog
    BY <2>2, <1>4 DEF UpdatesPage
  <2> QED BY <2>3, <2>4 DEF q
<1>6. /\ Len(N.tx) = Len(S.tx) + 1 /\ N.tx[Len(S.tx) + 1] = t
      /\ \A i \in 1 .. Len(S.tx) : N.tx[i] = S.tx[i]
  BY <1>2, <1>4, <1>5
<1>7. Len(S.tx) \in Nat
  BY <1>4
<1>8. TransactionsFit(N, 0)
  <2>1. \A i : TransactionFits(t, i, 0)
    BY <1>2 DEF TransactionFits
  <2>2. \A i \in 1 .. Len(N.tx) : TransactionFits(N.tx[i], i, 0)
    <3> TAKE i \in 1 .. Len(N.tx)
    <3>1. CASE i = Len(S.tx) + 1
      BY <3>1, <2>1, <1>6, <1>7
    <3>2. CASE i \in 1 .. Len(S.tx)
      BY <3>2, <1>6 DEF TransactionsFit
    <3> QED BY <3>1, <3>2, <1>6, <1>7
  <2> QED BY <2>2, <1>5 DEF TransactionsFit
<1>9. ASSUME NEW K, Waits(S, 0, K) PROVE Waits(N, 0, K)
  BY <1>9, <1>6, <1>7 DEF Waits
<1>10. ASSUME NEW K, kind \in K PROVE Waits(N, 0, K)
  BY <1>10, <1>2, <1>6, <1>7 DEF Waits
<1> QED BY <1>5, <1>8, <1>9, <1>10 DEF N

\* A new state of the page or the dialog, then a transaction.
LEMMA NewTransactionFits ==
  ASSUME NEW S, NEW kind \in TransactionKinds, TransactionsFit(S, 0),
         S.boot = "done" /\ S.state \in Loading => kind \in PageKinds \/ Waits(S, 0, PageKinds),
         S.state = "applying" => Waits(S, 0, UpdateKinds),
         S.message => kind \in CheckKinds \/ Waits(S, 0, CheckKinds),
         S.dialog = "installing" => kind = "install" \/ Waits(S, 0, {"install"})
  PROVE  UpdatesFit(NewTransaction(S, kind), 0)
<1> DEFINE N == NewTransaction(S, kind)
<1>1. /\ TransactionsFit(N, 0)
      /\ N.state = S.state /\ N.boot = S.boot /\ N.message = S.message /\ N.dialog = S.dialog
      /\ \A K : Waits(S, 0, K) => Waits(N, 0, K)
      /\ \A K : kind \in K => Waits(N, 0, K)
  BY NewTransactionWaits
<1>2. kind = "install" => Waits(N, 0, {"install"})
  BY <1>1
<1> HIDE DEF N
<1>3. UpdatesFit(N, 0)
  BY <1>1, <1>2 DEF UpdatesFit, TransactionsFit
<1> QED BY <1>3 DEF N

\* Transaction i is over.
LEMMA OverFits ==
  ASSUME NEW S, UpdatesFit(S, 0), NEW i \in 1 .. Len(S.tx)
  PROVE  LET N == [S EXCEPT !.tx[i].phase = "over"] IN
         /\ UpdatesFit(N, i) /\ Len(N.tx) = Len(S.tx) /\ N.tx[i].kind = S.tx[i].kind
<1> DEFINE t == [S.tx[i] EXCEPT !.phase = "over"]
           N == [S EXCEPT !.tx[i].phase = "over"]
<1>1. S \in UpdatesPage /\ S.tx \in Seq(Transaction) /\ S.tx[i] \in Transaction /\ Len(S.tx) \in Nat
  BY DEF UpdatesFit, UpdatesPage
<1>2. /\ t \in Transaction /\ t.phase = "over" /\ t.kind = S.tx[i].kind
      /\ t.settled = S.tx[i].settled /\ t.progress = S.tx[i].progress
  BY <1>1 DEF Transaction
<1>3. N = [S EXCEPT !.tx = [S.tx EXCEPT ![i] = t]]
  BY <1>1 DEF UpdatesPage
<1> HIDE DEF t, N
<1>4. /\ N \in UpdatesPage /\ N.tx = [S.tx EXCEPT ![i] = t]
      /\ N.state = S.state /\ N.boot = S.boot /\ N.message = S.message /\ N.dialog = S.dialog
  <2> DEFINE q == [S.tx EXCEPT ![i] = t]
  <2>1. q \in Seq(Transaction)
    BY <1>1, <1>2
  <2> HIDE DEF q
  <2>2. N = [S EXCEPT !.tx = q]
    BY <1>3 DEF q
  <2>3. N \in UpdatesPage /\ N.tx = q
    BY <2>1, <2>2, <1>1 DEF UpdatesPage
  <2>4. N.state = S.state /\ N.boot = S.boot /\ N.message = S.message /\ N.dialog = S.dialog
    BY <2>2, <1>1 DEF UpdatesPage
  <2> QED BY <2>3, <2>4 DEF q
<1>5. /\ Len(N.tx) = Len(S.tx) /\ N.tx[i] = t
      /\ \A k \in 1 .. Len(S.tx) : k # i => N.tx[k] = S.tx[k]
  BY <1>1, <1>2, <1>4
<1>6. ASSUME NEW K, Waits(S, 0, K) PROVE Waits(N, i, K)
  <2>1. PICK k \in 1 .. Len(S.tx) : S.tx[k].kind \in K /\ (S.tx[k].phase # "over" \/ k = 0) /\ ~S.tx[k].settled
    BY <1>6 DEF Waits
  <2>2. CASE k = i
    BY <2>1, <2>2, <1>2, <1>5 DEF Waits
  <2>3. CASE k # i
    BY <2>1, <2>3, <1>1, <1>5 DEF Waits
  <2> QED BY <2>2, <2>3
<1>7. \A k \in 1 .. Len(N.tx) : TransactionFits(N.tx[k], k, i)
  <2> TAKE k \in 1 .. Len(N.tx)
  <2>1. TransactionFits(S.tx[k], k, 0)
    BY <1>1, <1>5 DEF UpdatesFit
  <2>2. CASE k = i
    BY <2>1, <2>2, <1>2, <1>5 DEF TransactionFits
  <2>3. CASE k # i
    BY <2>1, <2>3, <1>1, <1>5 DEF TransactionFits
  <2> QED BY <2>2, <2>3
<1>8. UpdatesFit(N, i)
  BY <1>4, <1>6, <1>7 DEF UpdatesFit
<1> QED BY <1>8, <1>2, <1>5 DEF N

\* The promise of transaction i is settled, before its handlers are called.
LEMMA MarkFits ==
  ASSUME NEW S, NEW i \in 1 .. Len(S.tx), UpdatesFit(S, i), ~Updating(S.tx[i].kind)
  PROVE  LET N == [S EXCEPT !.tx[i].settled = TRUE, !.tx[i].progress = FALSE] IN
         /\ TransactionsFit(N, 0) /\ Len(N.tx) = Len(S.tx)
         /\ N.state = S.state /\ N.boot = S.boot /\ N.message = S.message /\ N.dialog = S.dialog
         /\ \A K : Waits(S, i, K) /\ (S.tx[i].kind \notin K \/ S.tx[i].settled) => Waits(N, 0, K)
<1> DEFINE t == [S.tx[i] EXCEPT !.settled = TRUE, !.progress = FALSE]
           N == [S EXCEPT !.tx[i].settled = TRUE, !.tx[i].progress = FALSE]
<1>1. S \in UpdatesPage /\ S.tx \in Seq(Transaction) /\ S.tx[i] \in Transaction /\ Len(S.tx) \in Nat
  BY DEF UpdatesFit, UpdatesPage
<1>2. t \in Transaction /\ t.phase = S.tx[i].phase /\ t.kind = S.tx[i].kind /\ t.settled /\ ~t.progress
  BY <1>1 DEF Transaction
<1>3. N = [S EXCEPT !.tx = [S.tx EXCEPT ![i] = t]]
  BY <1>1 DEF UpdatesPage
<1> HIDE DEF t, N
<1>4. /\ N \in UpdatesPage /\ N.tx = [S.tx EXCEPT ![i] = t]
      /\ N.state = S.state /\ N.boot = S.boot /\ N.message = S.message /\ N.dialog = S.dialog
  <2> DEFINE q == [S.tx EXCEPT ![i] = t]
  <2>1. q \in Seq(Transaction)
    BY <1>1, <1>2
  <2> HIDE DEF q
  <2>2. N = [S EXCEPT !.tx = q]
    BY <1>3 DEF q
  <2>3. N \in UpdatesPage /\ N.tx = q
    BY <2>1, <2>2, <1>1 DEF UpdatesPage
  <2>4. N.state = S.state /\ N.boot = S.boot /\ N.message = S.message /\ N.dialog = S.dialog
    BY <2>2, <1>1 DEF UpdatesPage
  <2> QED BY <2>3, <2>4 DEF q
<1>5. /\ Len(N.tx) = Len(S.tx) /\ N.tx[i] = t
      /\ \A k \in 1 .. Len(S.tx) : k # i => N.tx[k] = S.tx[k]
  BY <1>1, <1>2, <1>4
<1>6. ASSUME NEW K, Waits(S, i, K), S.tx[i].kind \notin K \/ S.tx[i].settled PROVE Waits(N, 0, K)
  <2>1. PICK k \in 1 .. Len(S.tx) : S.tx[k].kind \in K /\ (S.tx[k].phase # "over" \/ k = i) /\ ~S.tx[k].settled
    BY <1>6 DEF Waits
  <2>2. k # i
    BY <2>1, <1>6
  <2> QED BY <2>1, <2>2, <1>1, <1>5 DEF Waits
<1>7. \A k \in 1 .. Len(N.tx) : TransactionFits(N.tx[k], k, 0)
  <2> TAKE k \in 1 .. Len(N.tx)
  <2>1. TransactionFits(S.tx[k], k, i)
    BY <1>1, <1>5 DEF UpdatesFit
  <2>2. CASE k = i
    BY <2>1, <2>2, <1>2, <1>5 DEF TransactionFits
  <2>3. CASE k # i
    BY <2>1, <2>3, <1>1, <1>5 DEF TransactionFits
  <2> QED BY <2>2, <2>3
<1>8. TransactionsFit(N, 0)
  BY <1>4, <1>7 DEF TransactionsFit
<1> QED BY <1>4, <1>5, <1>6, <1>8 DEF N

\* The page shows that it is not busy.
LEMMA StateFits ==
  ASSUME NEW S, NEW s \in PageStates \ (Loading \cup {"applying"}), TransactionsFit(S, 0),
         S.message => Waits(S, 0, CheckKinds), S.dialog = "installing" => Waits(S, 0, {"install"})
  PROVE  UpdatesFit([S EXCEPT !.state = s], 0) /\ [S EXCEPT !.state = s].tx = S.tx
<1> DEFINE N == [S EXCEPT !.state = s]
<1>1. N \in UpdatesPage /\ N.tx = S.tx /\ N.state = s /\ N.message = S.message /\ N.dialog = S.dialog
  BY DEF TransactionsFit, UpdatesPage
<1> HIDE DEF N
<1>2. \A K : Waits(S, 0, K) => Waits(N, 0, K)
  BY <1>1 DEF Waits
<1>3. UpdatesFit(N, 0)
  BY <1>1, <1>2 DEF UpdatesFit, TransactionsFit
<1> QED BY <1>1, <1>3 DEF N

LEMMA PageSettledFits ==
  ASSUME NEW S, NEW kind \in PageKinds, NEW ok \in BOOLEAN, NEW more \in BOOLEAN, TransactionsFit(S, 0),
         S.state = "applying" => Waits(S, 0, UpdateKinds),
         S.message => Waits(S, 0, CheckKinds), S.dialog = "installing" => Waits(S, 0, {"install"})
  PROVE  LET N == PageSettled(S, kind, ok, more) IN
         UpdatesFit(N, 0) /\ (~ok => Len(N.tx) = Len(S.tx))
<1> DEFINE N == PageSettled(S, kind, ok, more)
<1>1. \/ \E s \in {"available", "loadError", "uptodate"} : N = [S EXCEPT !.state = s]
      \/ ok /\ N = NewTransaction(S, "GetUpdates")
      \/ ok /\ N = NewTransaction(S, "GetUpdateDetail")
  BY DEF PageSettled, PageKinds
<1> HIDE DEF N
<1>2. \A s \in {"available", "loadError", "uptodate"} : s \in PageStates \ (Loading \cup {"applying"})
  BY DEF PageStates, Loading
<1>3. ASSUME NEW s \in {"available", "loadError", "uptodate"}, N = [S EXCEPT !.state = s]
      PROVE  UpdatesFit(N, 0) /\ N.tx = S.tx
  BY <1>2, <1>3, StateFits
<1>4. ASSUME NEW k \in {"GetUpdates", "GetUpdateDetail"}, N = NewTransaction(S, k)
      PROVE  UpdatesFit(N, 0)
  <2>1. k \in TransactionKinds /\ k \in PageKinds
    BY DEF TransactionKinds, PageKinds
  <2> QED BY <2>1, <1>4, NewTransactionFits
<1>5. UpdatesFit(N, 0) /\ (~ok => Len(N.tx) = Len(S.tx))
  BY <1>1, <1>3, <1>4
<1> QED BY <1>5 DEF N

\* Nothing but the transaction that is settled, of this kind, may be missing.
DialogSettling(S, kind) ==
  /\ TransactionsFit(S, 0)
  /\ S.boot = "done" /\ S.state \in Loading => Waits(S, 0, PageKinds)
  /\ S.state = "applying" => Waits(S, 0, UpdateKinds)
  /\ S.message => kind \in CheckKinds \/ Waits(S, 0, CheckKinds)
  /\ S.dialog = "installing" => kind = "install" \/ Waits(S, 0, {"install"})

LEMMA DialogSettledFits ==
  ASSUME NEW S, NEW kind \in CheckKinds \cup {"install"}, NEW ok \in BOOLEAN, NEW more \in BOOLEAN,
         NEW available \in BOOLEAN, DialogSettling(S, kind)
  PROVE  LET N == DialogSettled(S, kind, ok, more, available) IN
         UpdatesFit(N, 0) /\ (~ok => Len(N.tx) = Len(S.tx))
<1> USE DEF DialogSettling
<1> DEFINE N == DialogSettled(S, kind, ok, more, available)
           M == [S EXCEPT !.message = FALSE, !.cancel = 0]
<1>0. S \in UpdatesPage
  BY DEF TransactionsFit
<1>1. CASE kind = "install"
  <2> DEFINE d == IF ok \/ S.dialog = "closed" THEN "closed" ELSE "open"
  <2>1. N = [S EXCEPT !.dialog = d]
    BY <1>1 DEF DialogSettled, CheckKinds
  <2>2. d \in {"closed", "open"}
    OBVIOUS
  <2> HIDE DEF N, d
  <2>3. N \in UpdatesPage /\ N.tx = S.tx
    BY <1>0, <2>1, <2>2 DEF UpdatesPage
  <2>4. N.state = S.state /\ N.boot = S.boot /\ N.message = S.message /\ N.dialog # "installing"
    BY <1>0, <2>1, <2>2 DEF UpdatesPage
  <2>5. \A K : Waits(S, 0, K) => Waits(N, 0, K)
    BY <2>3 DEF Waits
  <2>6. S.message => Waits(S, 0, CheckKinds)
    BY <1>1 DEF CheckKinds
  <2>7. UpdatesFit(N, 0)
    BY <2>3, <2>4, <2>5, <2>6 DEF UpdatesFit, TransactionsFit
  <2> QED BY <2>3, <2>7 DEF N
<1>2. CASE kind \in CheckKinds /\ ok /\ more /\ kind # "dialog-details"
  <2>1. kind # "install"
    BY <1>2 DEF CheckKinds
  <2>2. N = NewTransaction(S, NextCheck(kind))
    BY <1>2, <2>1 DEF DialogSettled
  <2>3. NextCheck(kind) \in CheckKinds
    BY <1>2 DEF NextCheck, CheckKinds
  <2>4. NextCheck(kind) \in TransactionKinds
    BY <2>3 DEF TransactionKinds
  <2>5. UpdatesFit(NewTransaction(S, NextCheck(kind)), 0)
    BY <2>1, <2>3, <2>4, NewTransactionFits
  <2> QED BY <1>2, <2>2, <2>5
<1>3. CASE kind \in CheckKinds /\ ~(ok /\ more /\ kind # "dialog-details")
  <2>1. kind # "install"
    BY <1>3 DEF CheckKinds
  <2>2. M \in UpdatesPage /\ M.tx = S.tx /\ M.state = S.state /\ M.boot = S.boot /\ ~M.message /\ M.dialog = S.dialog
    BY <1>0 DEF UpdatesPage
  <2>3. \E d \in {"null", "some", "nothing"} : N = [M EXCEPT !.data = d]
    <3>1. M.data \in {"null", "some", "nothing"} /\ M = [M EXCEPT !.data = M.data]
      BY <2>2 DEF UpdatesPage
    <3>2. CASE ~ok
      <4>1. N = M
        BY <1>3, <2>1, <3>2 DEF DialogSettled
      <4> QED BY <3>1, <4>1
    <3>3. CASE ok
      <4> DEFINE d == IF kind # "dialog-resolve" THEN "some" ELSE IF available THEN "nothing" ELSE M.data
      <4>1. N = [M EXCEPT !.data = d]
        BY <1>3, <2>1, <3>3 DEF DialogSettled
      <4>2. d \in {"null", "some", "nothing"}
        BY <3>1
      <4> HIDE DEF d
      <4> QED BY <4>1, <4>2
    <3> QED BY <3>2, <3>3
  <2>4. PICK d \in {"null", "some", "nothing"} : N = [M EXCEPT !.data = d]
    BY <2>3
  <2> HIDE DEF M, N
  <2>5. N \in UpdatesPage /\ N.tx = S.tx
    BY <2>2, <2>4 DEF UpdatesPage
  <2>6. N.state = S.state /\ N.boot = S.boot /\ ~N.message /\ N.dialog = S.dialog
    BY <2>2, <2>4 DEF UpdatesPage
  <2>7. \A K : Waits(S, 0, K) => Waits(N, 0, K)
    BY <2>5 DEF Waits
  <2>8. S.dialog = "installing" => Waits(S, 0, {"install"})
    BY <2>1
  <2>9. UpdatesFit(N, 0)
    BY <2>5, <2>6, <2>7, <2>8 DEF UpdatesFit, TransactionsFit
  <2> QED BY <2>5, <2>9 DEF N
<1> QED BY <1>1, <1>2, <1>3

\* Whoever is settled, the page is not left busy without a transaction.
LEMMA SettledFits ==
  ASSUME NEW S, NEW i \in 1 .. Len(S.tx), UpdatesFit(S, i), ~Updating(S.tx[i].kind),
         NEW ok \in BOOLEAN, NEW more \in BOOLEAN, NEW available \in BOOLEAN
  PROVE  LET N == Settled(S, i, ok, more, available) IN
         UpdatesFit(N, 0) /\ (~ok => Len(N.tx) = Len(S.tx))
<1> DEFINE N == [S EXCEPT !.tx[i].settled = TRUE, !.tx[i].progress = FALSE]
           kind == S.tx[i].kind
<1>1. /\ TransactionsFit(N, 0) /\ Len(N.tx) = Len(S.tx)
      /\ N.state = S.state /\ N.boot = S.boot /\ N.message = S.message /\ N.dialog = S.dialog
      /\ \A K : Waits(S, i, K) /\ (kind \notin K \/ S.tx[i].settled) => Waits(N, 0, K)
  BY MarkFits
<1>2. /\ S.boot = "done" /\ S.state \in Loading => Waits(S, i, PageKinds)
      /\ S.state = "applying" => Waits(S, i, UpdateKinds)
      /\ S.message => Waits(S, i, CheckKinds)
      /\ S.dialog = "installing" => Waits(S, i, {"install"})
  BY DEF UpdatesFit
<1>3. kind \in PageKinds \cup CheckKinds \cup {"install"} /\ kind \notin UpdateKinds
  <2>1. S.tx[i] \in Transaction
    BY DEF UpdatesFit, UpdatesPage
  <2>2. kind \in PageKinds \cup CheckKinds \cup {"install", "UpdatePackages", "found"}
    BY <2>1 DEF Transaction
  <2> QED BY <2>2 DEF Updating, UpdateKinds
<1>4. CASE S.tx[i].settled
  <2>1. Settled(S, i, ok, more, available) = N
    BY <1>4 DEF Settled
  <2> HIDE DEF N
  <2> QED BY <2>1, <1>1, <1>2, <1>4 DEF UpdatesFit, TransactionsFit
<1>5. CASE ~S.tx[i].settled /\ kind \in PageKinds
  <2>1. Settled(S, i, ok, more, available) = PageSettled(N, kind, ok, more)
    BY <1>5 DEF Settled
  <2>2. kind \notin CheckKinds /\ kind # "install"
    BY <1>5 DEF PageKinds, CheckKinds
  <2> HIDE DEF N, kind
  <2>3. /\ N.state = "applying" => Waits(N, 0, UpdateKinds)
        /\ N.message => Waits(N, 0, CheckKinds)
        /\ N.dialog = "installing" => Waits(N, 0, {"install"})
    BY <1>1, <1>2, <1>3, <2>2
  <2> QED BY <1>1, <1>5, <2>1, <2>3, PageSettledFits
<1>6. CASE ~S.tx[i].settled /\ kind \notin PageKinds
  <2>1. Settled(S, i, ok, more, available) = DialogSettled(N, kind, ok, more, available)
    BY <1>6 DEF Settled
  <2>2. kind \in CheckKinds \cup {"install"}
    BY <1>3, <1>6
  <2> HIDE DEF N, kind
  <2>3. /\ N.boot = "done" /\ N.state \in Loading => Waits(N, 0, PageKinds)
        /\ N.state = "applying" => Waits(N, 0, UpdateKinds)
        /\ N.message => kind \in CheckKinds \/ Waits(N, 0, CheckKinds)
        /\ N.dialog = "installing" => kind = "install" \/ Waits(N, 0, {"install"})
    BY <1>1, <1>2, <1>3, <1>6
  <2> DEFINE D == DialogSettled(N, kind, ok, more, available)
  <2>4. UpdatesFit(D, 0) /\ (~ok => Len(D.tx) = Len(N.tx))
    <3>1. DialogSettling(N, kind)
      BY <1>1, <2>3 DEF DialogSettling
    <3> QED BY <2>2, <3>1, DialogSettledFits
  <2> QED BY <1>1, <2>1, <2>4
<1> QED BY <1>4, <1>5, <1>6

LEMMA UpdatingOver ==
  ASSUME NEW S, NEW i \in 1 .. Len(S.tx), UpdatesFit(S, i), Updating(S.tx[i].kind)
  PROVE  /\ TransactionsFit(S, 0)
         /\ S.boot = "done" /\ S.state \in Loading => Waits(S, 0, PageKinds)
         /\ S.message => Waits(S, 0, CheckKinds)
         /\ S.dialog = "installing" => Waits(S, 0, {"install"})
<1>1. ASSUME NEW K, S.tx[i].kind \notin K, Waits(S, i, K) PROVE Waits(S, 0, K)
  BY <1>1 DEF Waits
<1>2. S.tx[i].kind \notin PageKinds /\ S.tx[i].kind \notin CheckKinds /\ S.tx[i].kind \notin {"install"}
  BY DEF Updating, PageKinds, CheckKinds
<1>3. \A k \in 1 .. Len(S.tx) : TransactionFits(S.tx[k], k, 0)
  <2> TAKE k \in 1 .. Len(S.tx)
  <2>1. TransactionFits(S.tx[k], k, i)
    BY DEF UpdatesFit
  <2> QED BY <2>1 DEF TransactionFits
<1> QED BY <1>1, <1>2, <1>3 DEF UpdatesFit, TransactionsFit

LEMMA UpdateFinishedFits ==
  ASSUME NEW S, NEW i \in 1 .. Len(S.tx), UpdatesFit(S, i), Updating(S.tx[i].kind),
         NEW exit \in {"success", "cancelled", "failed"}
  PROVE  LET N == UpdateFinished(S, exit) IN
         UpdatesFit(N, 0) /\ (exit = "failed" => Len(N.tx) = Len(S.tx))
<1>0. /\ TransactionsFit(S, 0)
      /\ S.message => Waits(S, 0, CheckKinds)
      /\ S.dialog = "installing" => Waits(S, 0, {"install"})
  BY UpdatingOver
<1>1. {"updateSuccess", "updateError"} \subseteq PageStates \ (Loading \cup {"applying"})
  BY DEF PageStates, Loading
<1>2. CASE exit = "success"
  <2>1. UpdateFinished(S, exit) = [S EXCEPT !.state = "updateSuccess"]
    BY <1>2 DEF UpdateFinished
  <2> QED BY <1>0, <1>1, <1>2, <2>1, StateFits
<1>3. CASE exit = "failed"
  <2>1. UpdateFinished(S, exit) = [S EXCEPT !.state = "updateError"]
    BY <1>3 DEF UpdateFinished
  <2>2. UpdatesFit([S EXCEPT !.state = "updateError"], 0) /\ [S EXCEPT !.state = "updateError"].tx = S.tx
    BY <1>0, <1>1, StateFits
  <2> QED BY <2>1, <2>2
<1>4. CASE exit = "cancelled"
  <2> DEFINE M == [S EXCEPT !.state = "loading"]
  <2>1. UpdateFinished(S, exit) = NewTransaction(M, "GetUpdates")
    BY <1>4 DEF UpdateFinished
  <2>2. M \in UpdatesPage /\ M.tx = S.tx /\ M.state = "loading" /\ M.message = S.message /\ M.dialog = S.dialog
    BY <1>0 DEF TransactionsFit, UpdatesPage, PageStates
  <2> HIDE DEF M
  <2>3. \A K : Waits(S, 0, K) => Waits(M, 0, K)
    BY <2>2 DEF Waits
  <2>4. TransactionsFit(M, 0)
    BY <1>0, <2>2 DEF TransactionsFit
  <2>5. "GetUpdates" \in TransactionKinds /\ "GetUpdates" \in PageKinds
    BY DEF TransactionKinds, PageKinds
  <2>6. UpdatesFit(NewTransaction(M, "GetUpdates"), 0)
    BY <1>0, <2>2, <2>3, <2>4, <2>5, NewTransactionFits
  <2> QED BY <1>4, <2>1, <2>6
<1> QED BY <1>2, <1>3, <1>4

LEMMA SettledFails ==
  ASSUME NEW S, NEW i \in 1 .. Len(S.tx), UpdatesFit(S, i), ~Updating(S.tx[i].kind)
  PROVE  LET N == Settled(S, i, FALSE, FALSE, FALSE) IN UpdatesFit(N, 0) /\ Len(N.tx) = Len(S.tx)
<1>1. \A ok, more, available \in BOOLEAN :
        LET N == Settled(S, i, ok, more, available) IN
        UpdatesFit(N, 0) /\ (~ok => Len(N.tx) = Len(S.tx))
  BY SettledFits
<1>2. FALSE \in BOOLEAN
  OBVIOUS
<1> QED BY <1>1, <1>2, Zenon

LEMMA CallFailedFits ==
  ASSUME NEW S, UpdatesFit(S, 0), NEW i \in 1 .. Len(S.tx)
  PROVE  UpdatesFit(CallFailed(S, i), 0) /\ Len(CallFailed(S, i).tx) = Len(S.tx)
<1> DEFINE N == [S EXCEPT !.tx[i].phase = "over"]
<1>1. UpdatesFit(N, i) /\ Len(N.tx) = Len(S.tx) /\ N.tx[i].kind = S.tx[i].kind
  BY OverFits
<1>2. CASE Updating(S.tx[i].kind)
  <2>1. CallFailed(S, i) = UpdateFinished(N, "failed")
    BY <1>2 DEF CallFailed, Updating, UpdateFinished
  <2> HIDE DEF N
  <2> QED BY <1>1, <1>2, <2>1, UpdateFinishedFits
<1>3. CASE ~Updating(S.tx[i].kind)
  <2>1. CallFailed(S, i) = Settled(N, i, FALSE, FALSE, FALSE)
    BY <1>3 DEF CallFailed, Updating
  <2> HIDE DEF N
  <2> QED BY <1>1, <1>3, <2>1, SettledFails
<1> QED BY <1>2, <1>3

LEMMA NameClosedFits ==
  ASSUME NEW S, UpdatesFit(S, 0), NEW i \in 1 .. Len(S.tx)
  PROVE  UpdatesFit(NameClosed(S, i), 0) /\ Len(NameClosed(S, i).tx) = Len(S.tx)
<1> DEFINE N == [S EXCEPT !.tx[i].phase = "over"]
<1>1. UpdatesFit(N, i) /\ Len(N.tx) = Len(S.tx) /\ N.tx[i].kind = S.tx[i].kind
  BY OverFits
<1>2. S.tx[i].phase \in {"create", "watch", "call", "run", "over", "missed"}
  <2>1. S.tx[i] \in Transaction
    BY DEF UpdatesFit, UpdatesPage
  <2> QED BY <2>1 DEF Transaction
<1>3. CASE S.tx[i].phase \in {"create", "watch", "call"}
  BY <1>3, CallFailedFits DEF NameClosed
<1>4. CASE S.tx[i].phase \in {"run", "missed"} /\ Updating(S.tx[i].kind)
  <2>1. NameClosed(S, i) = UpdateFinished(N, "failed")
    BY <1>4 DEF NameClosed
  <2> HIDE DEF N
  <2> QED BY <1>1, <1>4, <2>1, UpdateFinishedFits
<1>5. CASE S.tx[i].phase \in {"run", "missed"} /\ ~Updating(S.tx[i].kind)
  <2>1. NameClosed(S, i) = Settled(N, i, FALSE, FALSE, FALSE)
    BY <1>5 DEF NameClosed
  <2> HIDE DEF N
  <2> QED BY <1>1, <1>5, <2>1, SettledFails
<1>6. CASE S.tx[i].phase = "over"
  BY <1>6 DEF NameClosed
<1> QED BY <1>2, <1>3, <1>4, <1>5, <1>6

LEMMA ChangedFits ==
  ASSUME NEW S, UpdatesFit(S, 0), NEW i \in 1 .. Len(S.tx), NEW waiting \in BOOLEAN, NEW allow \in BOOLEAN
  PROVE  UpdatesFit(Changed(S, i, waiting, allow), 0)
<1> DEFINE N == Changed(S, i, waiting, allow)
           c == IF allow THEN i ELSE 0
<1>1. S \in UpdatesPage /\ S.tx[i] \in Transaction /\ TransactionFits(S.tx[i], i, 0) /\ Len(S.tx) \in Nat
  BY DEF UpdatesFit, UpdatesPage
<1>2. CASE ~S.tx[i].progress
  BY <1>2 DEF Changed
<1>3. ASSUME S.tx[i].progress PROVE /\ ~S.tx[i].settled /\ S.tx[i].phase # "over"
                                    /\ S.tx[i].kind \in {"GetUpdates", "RefreshCache", "install"} \cup CheckKinds
  <2>1. S.tx[i].kind \in PageKinds \cup CheckKinds \cup {"install", "UpdatePackages", "found"}
    BY <1>1 DEF Transaction
  <2> QED BY <1>1, <1>3, <2>1 DEF TransactionFits, Updating, PageKinds
<1>4. c \in Nat
  BY <1>1
<1>5. ASSUME NEW K, S.tx[i].progress, S.tx[i].kind \in K PROVE Waits(S, 0, K)
  BY <1>3, <1>5 DEF Waits
<1>6. CASE S.tx[i].progress /\ S.tx[i].kind = "GetUpdates"
  <2> DEFINE s == IF waiting /\ ~S.tx[i].timer THEN "locked" ELSE "loading"
  <2>1. N = [S EXCEPT !.state = s]
    BY <1>6 DEF Changed, CheckKinds
  <2>2. s \in Loading /\ s \in PageStates /\ s # "applying"
    BY DEF Loading, PageStates
  <2> HIDE DEF s, N
  <2>3. N \in UpdatesPage /\ N.tx = S.tx
    BY <1>1, <2>1, <2>2 DEF UpdatesPage
  <2>4. N.state = s /\ N.message = S.message /\ N.dialog = S.dialog
    BY <1>1, <2>1 DEF UpdatesPage
  <2>5. \A K : Waits(S, 0, K) => Waits(N, 0, K)
    BY <2>3 DEF Waits
  <2>6. Waits(S, 0, PageKinds)
    BY <1>5, <1>6 DEF PageKinds
  <2>7. UpdatesFit(N, 0)
    BY <2>2, <2>3, <2>4, <2>5, <2>6 DEF UpdatesFit
  <2> QED BY <2>7 DEF N
<1>7. CASE S.tx[i].progress /\ S.tx[i].kind = "RefreshCache"
  BY <1>7 DEF Changed, CheckKinds
<1>8. CASE S.tx[i].progress /\ S.tx[i].kind \in CheckKinds
  <2>1. N = [S EXCEPT !.message = TRUE, !.cancel = c]
    BY <1>8 DEF Changed, CheckKinds
  <2> HIDE DEF c, N
  <2>3. N \in UpdatesPage /\ N.tx = S.tx
    BY <1>1, <1>4, <2>1 DEF UpdatesPage
  <2>4. N.state = S.state /\ N.boot = S.boot /\ N.dialog = S.dialog
    BY <1>1, <2>1 DEF UpdatesPage
  <2>5. \A K : Waits(S, 0, K) => Waits(N, 0, K)
    BY <2>3 DEF Waits
  <2>6. Waits(S, 0, CheckKinds)
    BY <1>5, <1>8
  <2>7. UpdatesFit(N, 0)
    BY <2>3, <2>4, <2>5, <2>6 DEF UpdatesFit
  <2> QED BY <2>7 DEF N
<1>9. CASE S.tx[i].progress /\ S.tx[i].kind = "install"
  <2>1. N = [S EXCEPT !.cancel = c]
    BY <1>9 DEF Changed, CheckKinds
  <2> HIDE DEF c, N
  <2>3. N \in UpdatesPage /\ N.tx = S.tx
    BY <1>1, <1>4, <2>1 DEF UpdatesPage
  <2>4. N.state = S.state /\ N.boot = S.boot /\ N.message = S.message /\ N.dialog = S.dialog
    BY <1>1, <2>1 DEF UpdatesPage
  <2>5. \A K : Waits(S, 0, K) => Waits(N, 0, K)
    BY <2>3 DEF Waits
  <2>7. UpdatesFit(N, 0)
    BY <2>3, <2>4, <2>5 DEF UpdatesFit
  <2> QED BY <2>7 DEF N
<1> QED BY <1>2, <1>3, <1>6, <1>7, <1>8, <1>9

LEMMA LeastNumber ==
  ASSUME NEW N \in SUBSET Nat, N # {}
  PROVE  \E n \in N : \A k \in N : n <= k
<1>1. PICK n \in N : \A k \in N : ~(<<k, n>> \in OpToRel(<, Nat))
  BY WFMin, NatLessThanWellFounded
<1>2. \A k \in N : ~(k < n)
  BY <1>1 DEF OpToRel
<1> QED BY <1>2

\* g[i] is the page after the first i transactions have heard that the client closed.
ClosesAll(S, n, g) == g = [i \in 0 .. n |-> IF i = 0 THEN S ELSE NameClosed(g[i - 1], i)]

LEMMA ClosesAllExists ==
  ASSUME NEW S, NEW n \in Nat
  PROVE  \E g : ClosesAll(S, n, g)
<1> DEFINE N == {k \in Nat : ~\E g : ClosesAll(S, k, g)}
<1> SUFFICES ASSUME N # {} PROVE FALSE
  OBVIOUS
<1>1. PICK m \in N : \A k \in N : m <= k
  BY LeastNumber
<1>2. CASE m = 0
  <2>1. ClosesAll(S, m, [i \in 0 .. m |-> S])
    BY <1>2 DEF ClosesAll
  <2> QED BY <1>1, <2>1
<1>3. CASE m # 0
  <2>1. m - 1 \in Nat /\ ~(m <= m - 1)
    BY <1>3
  <2>2. PICK g : ClosesAll(S, m - 1, g)
    BY <1>1, <2>1
  <2> DEFINE h == [i \in 0 .. m |-> IF i < m THEN g[i] ELSE NameClosed(g[m - 1], m)]
  <2>3. \A i \in 0 .. m - 1 : h[i] = g[i]
    BY <2>1
  <2>4. \A i \in 0 .. m - 1 : g[i] = IF i = 0 THEN S ELSE NameClosed(g[i - 1], i)
    BY <2>2 DEF ClosesAll
  <2>5. h[m] = NameClosed(g[m - 1], m)
    OBVIOUS
  <2>6. h = [i \in 0 .. m |-> h[i]]
    OBVIOUS
  <2> HIDE DEF h
  <2>7. ASSUME NEW i \in 0 .. m
        PROVE  h[i] = IF i = 0 THEN S ELSE NameClosed(h[i - 1], i)
    <3>1. CASE i = m
      BY <1>3, <2>3, <2>5, <3>1
    <3>2. CASE i # m
      <4>1. i \in 0 .. m - 1 /\ (i # 0 => i - 1 \in 0 .. m - 1)
        BY <3>2
      <4> QED BY <2>3, <2>4, <4>1
    <3> QED BY <3>1, <3>2
  <2>8. ClosesAll(S, m, h)
    BY <2>6, <2>7 DEF ClosesAll
  <2> QED BY <1>1, <2>8
<1> QED BY <1>2, <1>3

LEMMA ClosesAllFits ==
  ASSUME NEW S, UpdatesFit(S, 0), NEW n \in 0 .. Len(S.tx), NEW g, ClosesAll(S, n, g)
  PROVE  UpdatesFit(g[n], 0)
<1> DEFINE Fine(i) == UpdatesFit(g[i], 0) /\ Len(g[i].tx) = Len(S.tx)
           N == {i \in 0 .. n : ~Fine(i)}
<1>0. Len(S.tx) \in Nat
  BY DEF UpdatesFit, UpdatesPage
<1>1. \A i \in 0 .. n : g[i] = IF i = 0 THEN S ELSE NameClosed(g[i - 1], i)
  BY DEF ClosesAll
<1>2. N = {}
  <2> SUFFICES ASSUME N # {} PROVE FALSE
    OBVIOUS
  <2>1. N \in SUBSET Nat
    BY <1>0
  <2>2. PICK i \in N : \A k \in N : i <= k
    <3> HIDE DEF N
    <3> QED BY <2>1, LeastNumber
  <2>3. CASE i = 0
    BY <1>0, <1>1, <2>2, <2>3
  <2>4. CASE i # 0
    <3>1. i \in 1 .. Len(S.tx) /\ i - 1 \in 0 .. n /\ ~(i <= i - 1) /\ i \in 0 .. n
      BY <1>0, <2>2, <2>4
    <3>2. Fine(i - 1)
      BY <2>2, <3>1
    <3>3. g[i] = NameClosed(g[i - 1], i)
      BY <1>1, <2>4, <3>1
    <3>4. Fine(i)
      BY <3>1, <3>2, <3>3, NameClosedFits
    <3> QED BY <2>2, <3>4
  <2> QED BY <2>3, <2>4
<1>3. n \in 0 .. n
  BY <1>0
<1> QED BY <1>2, <1>3

\* Transaction i goes on.
LEMMA PutFits ==
  ASSUME NEW S, UpdatesFit(S, 0), NEW i \in 1 .. Len(S.tx), NEW t \in Transaction,
         t.kind = S.tx[i].kind, t.settled = S.tx[i].settled, t.progress = S.tx[i].progress,
         t.phase = "over" <=> S.tx[i].phase = "over", t.phase = "missed" => Updating(t.kind)
  PROVE  LET N == [S EXCEPT !.tx = [S.tx EXCEPT ![i] = t]] IN
         UpdatesFit(N, 0) /\ Len(N.tx) = Len(S.tx) /\ N.tx[i] = t
<1> DEFINE q == [S.tx EXCEPT ![i] = t]
           N == [S EXCEPT !.tx = q]
<1>1. S \in UpdatesPage /\ S.tx \in Seq(Transaction) /\ Len(S.tx) \in Nat
  BY DEF UpdatesFit, UpdatesPage
<1>2. /\ q \in Seq(Transaction) /\ Len(q) = Len(S.tx) /\ q[i] = t
      /\ \A k \in 1 .. Len(S.tx) : k # i => q[k] = S.tx[k]
  BY <1>1
<1> HIDE DEF q
<1>3. N \in UpdatesPage /\ N.tx = q
  BY <1>1, <1>2 DEF UpdatesPage
<1>4. N.state = S.state /\ N.boot = S.boot /\ N.message = S.message /\ N.dialog = S.dialog
  BY <1>1, <1>2 DEF UpdatesPage
<1> HIDE DEF N
<1>5. ASSUME NEW K, Waits(S, 0, K) PROVE Waits(N, 0, K)
  BY <1>1, <1>2, <1>3, <1>5 DEF Waits
<1>6. \A k \in 1 .. Len(N.tx) : TransactionFits(N.tx[k], k, 0)
  <2> TAKE k \in 1 .. Len(N.tx)
  <2>1. TransactionFits(S.tx[k], k, 0)
    BY <1>2, <1>3 DEF UpdatesFit
  <2>2. CASE k = i
    BY <2>1, <2>2, <1>2, <1>3 DEF TransactionFits
  <2>3. CASE k # i
    BY <2>1, <2>3, <1>2, <1>3
  <2> QED BY <2>2, <2>3
<1>7. UpdatesFit(N, 0)
  BY <1>3, <1>4, <1>5, <1>6 DEF UpdatesFit
<1> QED BY <1>2, <1>3, <1>7 DEF N, q

LEMMA UpdatesStarts == UpdatesInit => UpdatesInv
<1> SUFFICES ASSUME UpdatesInit PROVE UpdatesInv
  OBVIOUS
<1>1. U \in [state : {"loading"}, boot : {"list", "dialog"}, tx : {<<>>},
             dialog : {"closed"}, message : {FALSE}, data : {"null"}, cancel : {0}]
  BY DEF UpdatesInit
<1>2. U.state = "loading" /\ U.boot \in {"list", "dialog"} /\ U.tx = <<>> /\ U.dialog = "closed" /\ ~U.message
  BY <1>1
<1>3. U \in UpdatesPage
  <2>1. "loading" \in PageStates
    BY DEF PageStates
  <2>2. <<>> \in Seq(Transaction)
    OBVIOUS
  <2>3. PICK b \in {"list", "dialog"} :
          U = [state |-> "loading", boot |-> b, tx |-> <<>>, dialog |-> "closed",
               message |-> FALSE, data |-> "null", cancel |-> 0]
    BY <1>1
  <2> QED BY <2>1, <2>2, <2>3 DEF UpdatesPage
<1> QED BY <1>2, <1>3 DEF UpdatesInv, UpdatesFit

LEMMA UpdatesGoal == UpdatesInv => BusyHasTransaction
<1> SUFFICES ASSUME UpdatesInv PROVE BusyHasTransaction
  OBVIOUS
<1>1. Len(U.tx) \in Nat
  BY DEF UpdatesInv, UpdatesFit, UpdatesPage
<1>2. \A K : Waits(U, 0, K) => Live(K) \/ \E i \in Transactions : U.tx[i].kind \in K /\ Phase(i) = "missed"
  BY <1>1 DEF Waits, Live, Transactions, Phase
<1>3. \A i \in Transactions : Phase(i) = "missed" => U.tx[i].kind \in UpdateKinds
  BY DEF UpdatesInv, UpdatesFit, TransactionFits, Transactions, Phase, Updating, UpdateKinds
<1>4. \A K : K \cap UpdateKinds = {} => (Waits(U, 0, K) => Live(K))
  BY <1>2, <1>3
<1>5. PageKinds \cap UpdateKinds = {} /\ CheckKinds \cap UpdateKinds = {} /\ {"install"} \cap UpdateKinds = {}
  BY DEF PageKinds, CheckKinds, UpdateKinds
<1> QED BY <1>2, <1>4, <1>5 DEF UpdatesInv, UpdatesFit, BusyHasTransaction, Loading, UpdateKinds

\* Page and dialog change, then there is a transaction.
LEMMA ShowAndRun ==
  ASSUME NEW N, NEW kind \in TransactionKinds, UpdatesInv, N \in UpdatesPage, N.tx = U.tx,
         N.message = U.message,
         kind \in PageKinds \/ (N.state = U.state /\ N.boot = U.boot),
         N.state # "applying" \/ N.state = U.state,
         kind = "install" \/ N.dialog # "installing" \/ N.dialog = U.dialog
  PROVE  UpdatesFit(NewTransaction(N, kind), 0)
<1>1. \A K : Waits(U, 0, K) => Waits(N, 0, K)
  BY DEF Waits
<1>2. TransactionsFit(N, 0)
  BY DEF UpdatesInv, UpdatesFit, TransactionsFit
<1>3. /\ N.boot = "done" /\ N.state \in Loading => kind \in PageKinds \/ Waits(N, 0, PageKinds)
      /\ N.state = "applying" => Waits(N, 0, UpdateKinds)
      /\ N.message => kind \in CheckKinds \/ Waits(N, 0, CheckKinds)
      /\ N.dialog = "installing" => kind = "install" \/ Waits(N, 0, {"install"})
  BY <1>1 DEF UpdatesInv, UpdatesFit
<1> QED BY <1>2, <1>3, NewTransactionFits

LEMMA ReplyKeeps ==
  ASSUME UpdatesInv, NEW i \in Transactions, Reply(i)
  PROVE  UpdatesInv'
<1> DEFINE Put(p) == [U EXCEPT !.tx = [U.tx EXCEPT ![i] = [U.tx[i] EXCEPT !.phase = p]]]
<1>1. U \in UpdatesPage /\ U.tx[i] \in Transaction /\ i \in 1 .. Len(U.tx) /\ Len(U.tx) \in Nat
  BY DEF UpdatesInv, UpdatesFit, UpdatesPage, Transactions
<1>2. ASSUME NEW p \in {"watch", "call", "run"}, U.tx[i].phase \notin {"over", "missed"}
      PROVE  /\ UpdatesFit(Put(p), 0) /\ Put(p).tx[i].phase = p /\ Put(p).tx[i].kind = U.tx[i].kind
             /\ Put(p).tx[i].settled = U.tx[i].settled /\ Len(Put(p).tx) = Len(U.tx)
  <2> DEFINE t == [U.tx[i] EXCEPT !.phase = p]
  <2>1. /\ t \in Transaction /\ t.kind = U.tx[i].kind /\ t.settled = U.tx[i].settled
        /\ t.progress = U.tx[i].progress /\ t.phase = p
    BY <1>1, <1>2 DEF Transaction
  <2> HIDE DEF t
  <2>2. t.phase = "over" <=> U.tx[i].phase = "over"
    BY <2>1, <1>2
  <2>3. LET N == [U EXCEPT !.tx = [U.tx EXCEPT ![i] = t]] IN
        UpdatesFit(N, 0) /\ Len(N.tx) = Len(U.tx) /\ N.tx[i] = t
    BY <1>1, <2>1, <2>2, PutFits DEF UpdatesInv
  <2> QED BY <2>1, <2>3 DEF t
<1>3. CASE Phase(i) \in {"run", "over", "missed"}
  <2>1. U' = U
    BY <1>3 DEF Reply
  <2> QED BY <2>1 DEF UpdatesInv
<1>4. CASE Phase(i) = "create" /\ Updating(U.tx[i].kind)
  <2> DEFINE N == [Put("watch") EXCEPT !.state = "applying"]
             P == Put("watch")
  <2>1. U' = N
    BY <1>1, <1>4 DEF Reply, UpdatesPage
  <2>2. /\ UpdatesFit(P, 0) /\ P.tx[i].phase = "watch" /\ P.tx[i].kind = U.tx[i].kind
        /\ P.tx[i].settled = U.tx[i].settled /\ Len(P.tx) = Len(U.tx)
    BY <1>2, <1>4 DEF Phase
  <2>3. ~U.tx[i].settled
    BY <1>1, <1>4 DEF UpdatesInv, UpdatesFit, TransactionFits
  <2>4. N = [P EXCEPT !.state = "applying"]
    OBVIOUS
  <2> HIDE DEF N, P, Put
  <2>5. N \in UpdatesPage /\ N.tx = P.tx /\ N.state = "applying"
    BY <2>2, <2>4 DEF UpdatesFit, UpdatesPage, PageStates
  <2>6. N.message = P.message /\ N.dialog = P.dialog
    BY <2>2, <2>4 DEF UpdatesFit, UpdatesPage
  <2>7. \A K : Waits(P, 0, K) => Waits(N, 0, K)
    BY <2>5 DEF Waits
  <2>8. Waits(N, 0, UpdateKinds)
    BY <1>1, <1>4, <2>2, <2>3, <2>5 DEF Waits, UpdateKinds, Updating
  <2>9. UpdatesFit(N, 0)
    BY <2>2, <2>5, <2>6, <2>7, <2>8 DEF UpdatesFit, Loading
  <2> QED BY <2>1, <2>9 DEF UpdatesInv
<1>5. CASE (Phase(i) = "create" /\ ~Updating(U.tx[i].kind)) \/ Phase(i) \in {"watch", "call"}
  <2>1. \E p \in {"watch", "call", "run"} : U' = [U EXCEPT !.tx[i].phase = p]
    BY <1>5 DEF Reply
  <2>2. PICK p \in {"watch", "call", "run"} : U' = [U EXCEPT !.tx[i].phase = p]
    BY <2>1
  <2>3. U' = Put(p)
    BY <1>1, <2>2 DEF UpdatesPage
  <2>4. UpdatesFit(Put(p), 0)
    BY <1>2, <1>5 DEF Phase
  <2> HIDE DEF Put
  <2> QED BY <2>3, <2>4 DEF UpdatesInv
<1>6. Phase(i) \in {"create", "watch", "call", "run", "over", "missed"}
  BY <1>1 DEF Transaction, Phase
<1> QED BY <1>3, <1>4, <1>5, <1>6

LEMMA WaitTimeoutKeeps ==
  ASSUME UpdatesInv, NEW i \in Transactions, NEW waiting \in BOOLEAN, WaitTimeout(i, waiting)
  PROVE  UpdatesInv'
<1> DEFINE t == [U.tx[i] EXCEPT !.timer = FALSE]
           N == [U EXCEPT !.tx = [U.tx EXCEPT ![i] = t]]
<1>1. U \in UpdatesPage /\ U.tx[i] \in Transaction /\ i \in 1 .. Len(U.tx) /\ Len(U.tx) \in Nat
  BY DEF UpdatesInv, UpdatesFit, UpdatesPage, Transactions
<1>2. /\ t \in Transaction /\ t.kind = U.tx[i].kind /\ t.settled = U.tx[i].settled
      /\ t.progress = U.tx[i].progress /\ t.phase = U.tx[i].phase
  BY <1>1 DEF Transaction
<1>3. [U EXCEPT !.tx[i].timer = FALSE] = N
  BY <1>1 DEF UpdatesPage
<1>4. U' = Changed(N, i, waiting, FALSE)
  BY <1>3 DEF WaitTimeout
<1> HIDE DEF t
<1>k. t.phase = "missed" => Updating(t.kind)
  BY <1>1, <1>2 DEF UpdatesInv, UpdatesFit, TransactionFits
<1>5. UpdatesFit(N, 0) /\ Len(N.tx) = Len(U.tx)
  BY <1>1, <1>2, <1>k, PutFits DEF UpdatesInv
<1> HIDE DEF N
<1>6. i \in 1 .. Len(N.tx)
  BY <1>1, <1>5
<1>7. \A allow \in BOOLEAN : UpdatesFit(Changed(N, i, waiting, allow), 0)
  BY <1>5, <1>6, ChangedFits
<1>8. FALSE \in BOOLEAN
  OBVIOUS
<1>9. UpdatesFit(Changed(N, i, waiting, FALSE), 0)
  BY <1>7, <1>8, Zenon
<1> QED BY <1>4, <1>9 DEF UpdatesInv

LEMMA FoundEndsKeeps ==
  ASSUME UpdatesInv, NEW i \in Transactions, FoundEnds(i)
  PROVE  UpdatesInv'
<1> DEFINE t == [U.tx[i] EXCEPT !.phase = "missed"]
           N == [U EXCEPT !.tx = [U.tx EXCEPT ![i] = t]]
<1>1. U \in UpdatesPage /\ U.tx[i] \in Transaction /\ i \in 1 .. Len(U.tx) /\ Len(U.tx) \in Nat
  BY DEF UpdatesInv, UpdatesFit, UpdatesPage, Transactions
<1>2. /\ t \in Transaction /\ t.kind = U.tx[i].kind /\ t.settled = U.tx[i].settled
      /\ t.progress = U.tx[i].progress /\ t.phase = "missed"
  BY <1>1 DEF Transaction
<1>3. U' = N
  BY <1>1 DEF FoundEnds, UpdatesPage
<1>4. Updating(t.kind) /\ U.tx[i].phase # "over"
  BY <1>2 DEF FoundEnds, Phase, Updating
<1> HIDE DEF t
<1>5. UpdatesFit(N, 0)
  BY <1>1, <1>2, <1>4, PutFits DEF UpdatesInv
<1> QED BY <1>3, <1>5 DEF UpdatesInv

LEMMA FinishedKeeps ==
  ASSUME UpdatesInv, NEW i \in Transactions, NEW exit \in {"success", "cancelled", "failed"},
         NEW more \in BOOLEAN, NEW available \in BOOLEAN, TransactionFinished(i, exit, more, available)
  PROVE  UpdatesInv'
<1> DEFINE N == [U EXCEPT !.tx[i].phase = "over"]
<1>1. i \in 1 .. Len(U.tx)
  BY DEF Transactions
<1>2. UpdatesFit(N, i) /\ Len(N.tx) = Len(U.tx) /\ N.tx[i].kind = U.tx[i].kind
  BY <1>1, OverFits DEF UpdatesInv
<1>3. CASE Updating(U.tx[i].kind)
  <2>1. U' = UpdateFinished(N, exit)
    BY <1>3 DEF TransactionFinished
  <2> HIDE DEF N
  <2> QED BY <1>1, <1>2, <1>3, <2>1, UpdateFinishedFits DEF UpdatesInv
<1>4. CASE ~Updating(U.tx[i].kind)
  <2>1. U' = Settled(N, i, TRUE, more, available)
    BY <1>4 DEF TransactionFinished
  <2> HIDE DEF N
  <2>2. \A ok \in BOOLEAN : UpdatesFit(Settled(N, i, ok, more, available), 0)
    BY <1>1, <1>2, <1>4, SettledFits
  <2>3. TRUE \in BOOLEAN
    OBVIOUS
  <2>4. UpdatesFit(Settled(N, i, TRUE, more, available), 0)
    BY <2>2, <2>3, Zenon
  <2> QED BY <2>1, <2>4 DEF UpdatesInv
<1> QED BY <1>3, <1>4

LEMMA CrashKeeps ==
  ASSUME UpdatesInv, Crash
  PROVE  UpdatesInv'
<1> DEFINE G == CHOOSE g : g = [i \in 0 .. Len(U.tx) |-> IF i = 0 THEN U ELSE NameClosed(g[i - 1], i)]
<1>1. Len(U.tx) \in Nat
  BY DEF UpdatesInv, UpdatesFit, UpdatesPage
<1>2. U' = G[Len(U.tx)]
  BY Zenon DEF Crash
<1>3. \E g : ClosesAll(U, Len(U.tx), g)
  BY <1>1, ClosesAllExists
<1>4. ClosesAll(U, Len(U.tx), G)
  BY <1>3 DEF ClosesAll
<1> HIDE DEF G
<1>5. Len(U.tx) \in 0 .. Len(U.tx)
  BY <1>1
<1>6. UpdatesFit(G[Len(U.tx)], 0)
  BY <1>4, <1>5, ClosesAllFits DEF UpdatesInv
<1> QED BY <1>2, <1>6 DEF UpdatesInv

LEMMA MountKeeps ==
  ASSUME UpdatesInv,
         \/ MountRoles \/ (\E gone \in {"update", "other"} : MountRolesFail(gone))
         \/ (\E old \in BOOLEAN : MountTime(old)) \/ MountFails
  PROVE  UpdatesInv'
<1>0. U \in UpdatesPage /\ U.tx \in Seq(Transaction) /\ Len(U.tx) \in Nat
  BY DEF UpdatesInv, UpdatesFit, UpdatesPage
<1>k. /\ {"RefreshCache", "GetUpdates"} \subseteq TransactionKinds
      /\ {"RefreshCache", "GetUpdates"} \subseteq PageKinds
  BY DEF TransactionKinds, PageKinds
<1>1. CASE MountRoles /\ foreign # <<>> /\ Head(foreign) = "update"
  <2> DEFINE t == [kind |-> "found", phase |-> "watch", settled |-> FALSE, progress |-> FALSE, timer |-> FALSE]
             q == Append(U.tx, t)
             N == [U EXCEPT !.state = "applying", !.boot = "done", !.tx = q]
  <2>1. U' = N
    BY <1>1 DEF MountRoles
  <2>2. t \in Transaction /\ t.kind = "found" /\ t.phase = "watch" /\ ~t.settled /\ ~t.progress
    BY DEF Transaction
  <2> HIDE DEF t
  <2>3. /\ q \in Seq(Transaction) /\ Len(q) = Len(U.tx) + 1 /\ q[Len(U.tx) + 1] = t
        /\ \A i \in 1 .. Len(U.tx) : q[i] = U.tx[i]
    BY <1>0, <2>2
  <2> HIDE DEF q
  <2>4. N \in UpdatesPage /\ N.tx = q
    BY <1>0, <2>3 DEF UpdatesPage, PageStates
  <2>5. N.state = "applying" /\ N.message = U.message /\ N.dialog = U.dialog
    BY <1>0, <2>3 DEF UpdatesPage, PageStates
  <2> HIDE DEF N
  <2>6. \A K : Waits(U, 0, K) => Waits(N, 0, K)
    BY <1>0, <2>3, <2>4 DEF Waits
  <2>7. Waits(N, 0, UpdateKinds)
    BY <1>0, <2>2, <2>3, <2>4 DEF Waits, UpdateKinds
  <2>8. \A i \in 1 .. Len(N.tx) : TransactionFits(N.tx[i], i, 0)
    <3> TAKE i \in 1 .. Len(N.tx)
    <3>1. CASE i = Len(U.tx) + 1
      BY <3>1, <2>2, <2>3, <2>4 DEF TransactionFits, Updating
    <3>2. CASE i \in 1 .. Len(U.tx)
      BY <3>2, <2>3, <2>4 DEF UpdatesInv, UpdatesFit
    <3> QED BY <3>1, <3>2, <1>0, <2>3, <2>4
  <2>9. UpdatesFit(N, 0)
    BY <2>4, <2>5, <2>6, <2>7, <2>8 DEF UpdatesInv, UpdatesFit, Loading
  <2> QED BY <2>1, <2>9 DEF UpdatesInv
<1>2. CASE \/ MountRoles /\ ~(foreign # <<>> /\ Head(foreign) = "update")
           \/ \E gone \in {"update", "other"} : MountRolesFail(gone)
  <2>1. U' = [U EXCEPT !.boot = "time"]
    BY <1>2 DEF MountRoles, MountRolesFail
  <2>2. U' \in UpdatesPage /\ U'.tx = U.tx
    BY <1>0, <2>1 DEF UpdatesPage
  <2>3. U'.boot = "time" /\ U'.state = U.state /\ U'.message = U.message /\ U'.dialog = U.dialog
    BY <1>0, <2>1 DEF UpdatesPage
  <2>4. \A K : Waits(U, 0, K) => Waits(U', 0, K)
    BY <2>2 DEF Waits
  <2>5. UpdatesFit(U', 0)
    BY <2>2, <2>3, <2>4 DEF UpdatesInv, UpdatesFit
  <2> QED BY <2>5 DEF UpdatesInv
<1>3. ASSUME NEW old \in BOOLEAN, MountTime(old) PROVE UpdatesInv'
  <2>1. CASE old
    <3> DEFINE N == [U EXCEPT !.boot = "done", !.state = "refreshing"]
    <3>1. U' = NewTransaction(N, "RefreshCache")
      BY <1>3, <2>1 DEF MountTime
    <3>2. N \in UpdatesPage /\ N.tx = U.tx /\ N.message = U.message /\ N.dialog = U.dialog /\ N.state = "refreshing"
      BY <1>0 DEF UpdatesPage, PageStates
    <3> HIDE DEF N
    <3>3. UpdatesFit(NewTransaction(N, "RefreshCache"), 0)
      BY <1>k, <3>2, ShowAndRun
    <3> QED BY <3>1, <3>3 DEF UpdatesInv
  <2>2. CASE ~old
    <3> DEFINE N == [U EXCEPT !.boot = "done"]
    <3>1. U' = NewTransaction(N, "GetUpdates")
      BY <1>3, <2>2 DEF MountTime
    <3>2. N \in UpdatesPage /\ N.tx = U.tx /\ N.message = U.message /\ N.dialog = U.dialog /\ N.state = U.state
      BY <1>0 DEF UpdatesPage, PageStates
    <3> HIDE DEF N
    <3>3. UpdatesFit(NewTransaction(N, "GetUpdates"), 0)
      BY <1>k, <3>2, ShowAndRun
    <3> QED BY <3>1, <3>3 DEF UpdatesInv
  <2> QED BY <2>1, <2>2
<1>4. CASE MountFails
  <2>1. U' = [U EXCEPT !.boot = "done", !.state = "loadError"]
    BY <1>4 DEF MountFails
  <2>2. U' \in UpdatesPage /\ U'.tx = U.tx
    BY <1>0, <2>1 DEF UpdatesPage, PageStates
  <2>3. U'.state = "loadError" /\ U'.message = U.message /\ U'.dialog = U.dialog
    BY <1>0, <2>1 DEF UpdatesPage
  <2>4. \A K : Waits(U, 0, K) => Waits(U', 0, K)
    BY <2>2 DEF Waits
  <2>5. UpdatesFit(U', 0)
    BY <2>2, <2>3, <2>4 DEF UpdatesInv, UpdatesFit, Loading
  <2> QED BY <2>5 DEF UpdatesInv
<1> QED BY <1>1, <1>2, <1>3, <1>4

LEMMA ButtonsKeep ==
  ASSUME UpdatesInv, Refresh \/ ApplyUpdates \/ Ignore \/ Restart \/ RestartFails \/ OpenDialog \/ Install \/ CancelDialog
  PROVE  UpdatesInv'
<1>0. U \in UpdatesPage
  BY DEF UpdatesInv, UpdatesFit
<1>k. /\ {"RefreshCache", "GetUpdates"} \subseteq PageKinds
      /\ {"RefreshCache", "GetUpdates", "UpdatePackages", "dialog-refresh", "install"} \subseteq TransactionKinds
  BY DEF TransactionKinds, PageKinds, CheckKinds, UpdateKinds
<1>1. CASE Refresh
  <2> DEFINE N == [U EXCEPT !.state = "refreshing"]
  <2>1. U' = NewTransaction(N, "RefreshCache")
    BY <1>1 DEF Refresh
  <2>2. N \in UpdatesPage /\ N.tx = U.tx /\ N.message = U.message /\ N.dialog = U.dialog /\ N.state = "refreshing"
    BY <1>0 DEF UpdatesPage, PageStates
  <2> HIDE DEF N
  <2>3. UpdatesFit(NewTransaction(N, "RefreshCache"), 0)
    BY <1>k, <2>2, ShowAndRun
  <2> QED BY <2>1, <2>3 DEF UpdatesInv
<1>2. CASE ApplyUpdates \/ Ignore
  <2>1. \E kind \in {"UpdatePackages", "GetUpdates"} : U' = NewTransaction(U, kind)
    BY <1>2 DEF ApplyUpdates, Ignore
  <2>2. \A kind \in {"UpdatePackages", "GetUpdates"} : UpdatesFit(NewTransaction(U, kind), 0)
    BY <1>0, <1>k, ShowAndRun
  <2> QED BY <2>1, <2>2 DEF UpdatesInv
<1>3. CASE Restart \/ RestartFails
  <2>1. \E s \in {"restart", "updateError"} : U' = [U EXCEPT !.state = s]
    BY <1>3 DEF Restart, RestartFails
  <2>2. \A s \in {"restart", "updateError"} : s \in PageStates \ (Loading \cup {"applying"})
    BY DEF PageStates, Loading
  <2>3. /\ TransactionsFit(U, 0) /\ (U.message => Waits(U, 0, CheckKinds))
        /\ U.dialog = "installing" => Waits(U, 0, {"install"})
    BY DEF UpdatesInv, UpdatesFit, TransactionsFit
  <2>4. \A s \in {"restart", "updateError"} : UpdatesFit([U EXCEPT !.state = s], 0)
    BY <2>2, <2>3, StateFits
  <2> QED BY <2>1, <2>4 DEF UpdatesInv
<1>4. CASE OpenDialog
  <2> DEFINE N == [U EXCEPT !.dialog = "open"]
  <2>1. U' = NewTransaction(N, "dialog-refresh")
    BY <1>4 DEF OpenDialog
  <2>2. /\ N \in UpdatesPage /\ N.tx = U.tx /\ N.message = U.message /\ N.dialog = "open" /\ N.state = U.state
        /\ N.boot = U.boot
    BY <1>0 DEF UpdatesPage
  <2> HIDE DEF N
  <2>3. UpdatesFit(NewTransaction(N, "dialog-refresh"), 0)
    BY <1>k, <2>2, ShowAndRun
  <2> QED BY <2>1, <2>3 DEF UpdatesInv
<1>5. CASE Install /\ U.data # "nothing"
  <2> DEFINE N == [U EXCEPT !.dialog = "installing"]
  <2>1. U' = NewTransaction(N, "install")
    BY <1>5 DEF Install
  <2>2. N \in UpdatesPage /\ N.tx = U.tx /\ N.message = U.message /\ N.state = U.state /\ N.boot = U.boot
    BY <1>0 DEF UpdatesPage
  <2> HIDE DEF N
  <2>3. UpdatesFit(NewTransaction(N, "install"), 0)
    BY <1>k, <2>2, ShowAndRun
  <2> QED BY <2>1, <2>3 DEF UpdatesInv
<1>6. CASE CancelDialog \/ (Install /\ U.data = "nothing")
  <2>1. U' = [U EXCEPT !.dialog = "closed"]
    BY <1>6 DEF CancelDialog, Install
  <2>2. U' \in UpdatesPage /\ U'.tx = U.tx
    BY <1>0, <2>1 DEF UpdatesPage
  <2>3. U'.state = U.state /\ U'.boot = U.boot /\ U'.message = U.message /\ U'.dialog = "closed"
    BY <1>0, <2>1 DEF UpdatesPage
  <2>4. \A K : Waits(U, 0, K) => Waits(U', 0, K)
    BY <2>2 DEF Waits
  <2>5. UpdatesFit(U', 0)
    BY <2>2, <2>3, <2>4 DEF UpdatesInv, UpdatesFit
  <2> QED BY <2>5 DEF UpdatesInv
<1> QED BY <1>1, <1>2, <1>3, <1>4, <1>5, <1>6

LEMMA UpdatesKeeps ==
  ASSUME UpdatesInv, [UpdatesNext]_updatevars
  PROVE  UpdatesInv'
<1>1. ASSUME NEW i \in Transactions, CallFails(i) PROVE UpdatesInv'
  BY <1>1, CallFailedFits DEF CallFails, UpdatesInv, Transactions
<1>2. ASSUME NEW i \in Transactions, ErrorCode(i) PROVE UpdatesInv'
  <2>0. i \in 1 .. Len(U.tx) /\ U' = Settled(U, i, FALSE, FALSE, FALSE)
    BY <1>2 DEF ErrorCode, Transactions
  <2>1. CASE Updating(U.tx[i].kind)
    BY <2>0, <2>1 DEF Settled, UpdatesInv, Updating, PageKinds
  <2>2. CASE ~Updating(U.tx[i].kind)
    <3>1. ASSUME NEW K, Waits(U, 0, K) PROVE Waits(U, i, K)
      BY <3>1 DEF Waits
    <3>2. \A k \in 1 .. Len(U.tx) : TransactionFits(U.tx[k], k, i)
      <4> TAKE k \in 1 .. Len(U.tx)
      <4>1. TransactionFits(U.tx[k], k, 0) /\ k # 0
        BY DEF UpdatesInv, UpdatesFit
      <4> QED BY <4>1 DEF TransactionFits
    <3>3. UpdatesFit(U, i)
      BY <3>1, <3>2 DEF UpdatesInv, UpdatesFit
    <3> QED BY <2>0, <2>2, <3>3, SettledFails DEF UpdatesInv
  <2> QED BY <2>1, <2>2
<1>3. ASSUME NEW i \in Transactions, NEW waiting \in BOOLEAN, NEW allow \in BOOLEAN,
             TransactionNotify(i, waiting, allow)
      PROVE  UpdatesInv'
  BY <1>3, ChangedFits DEF TransactionNotify, UpdatesInv, Transactions
<1>4. CASE UNCHANGED updatevars
  BY <1>4 DEF updatevars, UpdatesInv
<1> QED BY <1>1, <1>2, <1>3, <1>4, ReplyKeeps, WaitTimeoutKeeps, FoundEndsKeeps, FinishedKeeps, CrashKeeps, MountKeeps,
           ButtonsKeep DEF UpdatesNext

----
(* The proxy of a systemd unit.  The invariant is about systemd D, the     *)
(* pending jobs P, the calls C, the requests T to and the messages F from  *)
(* systemd, so that a step can be taken in parts.                          *)

EndKinds == {"done", "failed", "canceled"}
AnswerKinds == {"installed", "ok", "noreply", "error"}
NoiseKinds == {"loaded", "notloaded", "new", "reloaded", "props", "active"}

Tells ==
  [what : {"props"}, call : {0}, arg : [active : BOOLEAN, file : BOOLEAN]]
    \cup [what : {"active"}, call : {0}, arg : BOOLEAN]
    \cup [what : {"loaded", "notloaded", "new", "reloaded"} \cup EndKinds, call : {0}, arg : Nat]
    \cup [what : {"job"} \cup AnswerKinds, call : Nat, arg : Nat]

Asks == [what : {"load", "watch", "getall", "reload"} \cup JobKinds \cup FileKinds, call : Nat]

Calls == [kind : JobKinds \cup FileKinds, status : {"called", "resolved", "rejected"}]

Sysd == [active : BOOLEAN, file : BOOLEAN, job : Nat, kind : {"none"} \cup JobKinds, jobs : Nat,
         watched : BOOLEAN, unreloaded : BOOLEAN]

ProxyTypes(D, P, C, T, F) ==
  /\ D \in Sysd /\ D.job <= D.jobs
  /\ DOMAIN P \subseteq 1 .. D.jobs /\ \A p \in DOMAIN P : P[p] \in Nat
  /\ C \in Seq(Calls) /\ T \in Seq(Asks) /\ F \in Seq(Tells)

IsCalled(C, n) == n \in 1 .. Len(C) /\ C[n].status = "called"

\* A request or message about a call is about one that is not settled.
AskFits(C, r) ==
  \/ r.what \in {"load", "watch", "getall"} /\ r.call = 0
  \/ r.what \in JobKinds \cup FileKinds /\ IsCalled(C, r.call) /\ C[r.call].kind = r.what
  \/ r.what = "reload" /\ IsCalled(C, r.call)

TellFits(D, P, C, m) ==
  /\ m.call # 0 => IsCalled(C, m.call)
  /\ m.what \in {"job"} \cup AnswerKinds => m.call # 0
  /\ m.what \notin {"job"} \cup AnswerKinds => m.call = 0
  /\ m.what = "job" => m.arg \in (1 .. D.jobs) \ DOMAIN P
  /\ m.what \in EndKinds => m.arg \in (1 .. D.jobs) \ {D.job}

AsksFit(C, T) == \A i \in 1 .. Len(T) : AskFits(C, T[i])
TellsFit(D, P, C, F) == \A i \in 1 .. Len(F) : TellFits(D, P, C, F[i])

\* There is a request or a message about call n; and at most one about each.
About(s, n) == \E i \in 1 .. Len(s) : s[i].call = n
OneAbout(s) == \A i, j \in 1 .. Len(s) : s[i].call = s[j].call /\ s[i].call # 0 => i = j

\* A call has at most one request, message or job at a time.
OneToken(P, T, F) ==
  /\ OneAbout(T) /\ OneAbout(F)
  /\ \A p, q \in DOMAIN P : P[p] = P[q] /\ P[p] # 0 => p = q
  /\ \A n : n # 0 => ~(About(T, n) /\ About(F, n))
  /\ \A p \in DOMAIN P : P[p] # 0 => ~About(T, P[p]) /\ ~About(F, P[p])

\* It has one until it is settled.
HasToken(P, C, T, F) ==
  \A n \in 1 .. Len(C) : C[n].status = "called" =>
    About(T, n) \/ About(F, n) \/ \E p \in DOMAIN P : P[p] = n

\* The end of job p comes after message i.
EndAfter(F, i, p) == \E j \in 1 .. Len(F) : i < j /\ F[j].what \in EndKinds /\ F[j].arg = p

\* A job that is waited for runs, or its end is on its way.
PendingEnds(D, P, C, F) ==
  \A p \in DOMAIN P : P[p] # 0 => IsCalled(C, P[p]) /\ (D.job = p \/ EndAfter(F, 0, p))

ToldEnds(D, F) ==
  \A i \in 1 .. Len(F) : F[i].what = "job" => D.job = F[i].arg \/ EndAfter(F, i, F[i].arg)

\* A job is told of once.
ToldOnce(F) ==
  \A i, j \in 1 .. Len(F) : F[i].what = "job" /\ F[j].what = "job" /\ F[i].arg = F[j].arg => i = j

\* Call n is told that it waits for job p.
JobTold(F, n, p) == \E i \in 1 .. Len(F) : F[i].what = "job" /\ F[i].call = n /\ F[i].arg = p

\* The job that runs is that of a call.
JobOwner(D, P, C, F, n) ==
  /\ IsCalled(C, n) /\ C[n].kind = D.kind
  /\ JobTold(F, n, D.job) \/ (D.job \in DOMAIN P /\ P[D.job] = n)

JobOwned(D, P, C, F) == D.job # 0 => \E n : JobOwner(D, P, C, F, n)

OneOfKind(C) == \A m, n : IsCalled(C, m) /\ IsCalled(C, n) /\ C[m].kind = C[n].kind => m = n

ProxyFits(D, P, C, T, F) ==
  /\ ProxyTypes(D, P, C, T, F) /\ AsksFit(C, T) /\ TellsFit(D, P, C, F)
  /\ OneToken(P, T, F) /\ HasToken(P, C, T, F)
  /\ PendingEnds(D, P, C, F) /\ ToldEnds(D, F) /\ ToldOnce(F)
  /\ JobOwned(D, P, C, F) /\ OneOfKind(C)

ProxyInv ==
  /\ DOMAIN sproxy = {"exists", "known", "data", "pending"}
  /\ ProxyFits(sysd, sproxy.pending, scall, toSystemd, fromSystemd)

LEMMA AppendFacts ==
  ASSUME NEW X, NEW s \in Seq(X), NEW e \in X
  PROVE  LET q == Append(s, e) IN
         /\ q \in Seq(X) /\ Len(s) \in Nat /\ Len(q) = Len(s) + 1 /\ q[Len(s) + 1] = e
         /\ \A i \in 1 .. Len(s) : q[i] = s[i]
OBVIOUS

LEMMA TailFacts ==
  ASSUME NEW X, NEW s \in Seq(X), s # <<>>
  PROVE  LET q == Tail(s) IN
         /\ q \in Seq(X) /\ Len(s) \in Nat \ {0} /\ Len(q) = Len(s) - 1
         /\ \A i \in 1 .. Len(q) : q[i] = s[i + 1]
         /\ Head(s) = s[1] /\ s[1] \in X
OBVIOUS

LEMMA AboutAppended ==
  ASSUME NEW X, NEW s \in Seq(X), NEW e \in X
  PROVE  LET q == Append(s, e) IN
         /\ \A n : About(q, n) <=> About(s, n) \/ e.call = n
         /\ OneAbout(s) /\ (e.call = 0 \/ ~About(s, e.call)) => OneAbout(q)
<1> DEFINE q == Append(s, e)
<1>1. /\ q \in Seq(X) /\ Len(s) \in Nat /\ Len(q) = Len(s) + 1 /\ q[Len(s) + 1] = e
      /\ \A i \in 1 .. Len(s) : q[i] = s[i]
  BY AppendFacts
<1> HIDE DEF q
<1>2. ASSUME NEW n, About(q, n) PROVE About(s, n) \/ e.call = n
  BY <1>1, <1>2 DEF About
<1>3. ASSUME NEW n, About(s, n) PROVE About(q, n)
  BY <1>1, <1>3 DEF About
<1>4. About(q, e.call)
  BY <1>1 DEF About
<1>5. ASSUME OneAbout(s), e.call = 0 \/ ~About(s, e.call) PROVE OneAbout(q)
  BY <1>1, <1>5 DEF OneAbout, About
<1>6. \A n : About(q, n) <=> About(s, n) \/ e.call = n
  BY <1>2, <1>3, <1>4
<1> QED BY <1>5, <1>6 DEF q

LEMMA AboutTail ==
  ASSUME NEW X, NEW s \in Seq(X), s # <<>>
  PROVE  LET q == Tail(s) IN
         /\ \A n : About(s, n) <=> About(q, n) \/ s[1].call = n
         /\ OneAbout(s) => OneAbout(q) /\ (s[1].call # 0 => ~About(q, s[1].call))
<1> DEFINE q == Tail(s)
<1>1. /\ q \in Seq(X) /\ Len(s) \in Nat \ {0} /\ Len(q) = Len(s) - 1
      /\ \A i \in 1 .. Len(q) : q[i] = s[i + 1]
  BY TailFacts
<1> HIDE DEF q
<1>2. ASSUME NEW n, About(q, n) PROVE About(s, n)
  <2>1. PICK i \in 1 .. Len(q) : q[i].call = n
    BY <1>2 DEF About
  <2>2. i + 1 \in 1 .. Len(s) /\ s[i + 1].call = n
    BY <1>1, <2>1
  <2> QED BY <2>2 DEF About
<1>3. ASSUME NEW n, About(s, n), s[1].call # n PROVE About(q, n)
  <2>1. PICK i \in 1 .. Len(s) : s[i].call = n
    BY <1>3 DEF About
  <2>2. i - 1 \in 1 .. Len(q) /\ q[i - 1] = s[i]
    BY <1>1, <1>3, <2>1
  <2> QED BY <2>1, <2>2 DEF About
<1>4. About(s, s[1].call)
  BY <1>1 DEF About
<1>5. ASSUME OneAbout(s) PROVE OneAbout(q)
  <2> SUFFICES ASSUME NEW i \in 1 .. Len(q), NEW j \in 1 .. Len(q), q[i].call = q[j].call, q[i].call # 0
               PROVE  i = j
    BY DEF OneAbout
  <2>1. i + 1 \in 1 .. Len(s) /\ j + 1 \in 1 .. Len(s) /\ s[i + 1].call = s[j + 1].call /\ s[i + 1].call # 0
    BY <1>1
  <2>2. i + 1 = j + 1
    BY <1>5, <2>1 DEF OneAbout
  <2> QED BY <1>1, <2>2
<1>6. ASSUME OneAbout(s), s[1].call # 0, About(q, s[1].call) PROVE FALSE
  <2>1. PICK i \in 1 .. Len(q) : q[i].call = s[1].call
    BY <1>6 DEF About
  <2>2. i + 1 \in 1 .. Len(s) /\ s[i + 1].call = s[1].call /\ i + 1 # 1 /\ 1 \in 1 .. Len(s)
    BY <1>1, <2>1
  <2> QED BY <1>6, <2>2 DEF OneAbout
<1>7. \A n : About(s, n) <=> About(q, n) \/ s[1].call = n
  BY <1>2, <1>3, <1>4
<1> QED BY <1>5, <1>6, <1>7 DEF q

LEMMA TellAppended ==
  ASSUME NEW F \in Seq(Tells), NEW m \in Tells
  PROVE  LET G == Append(F, m) IN
         /\ \A i, p : EndAfter(F, i, p) => EndAfter(G, i, p)
         /\ m.what \in EndKinds => \A i \in 0 .. Len(F) : EndAfter(G, i, m.arg)
         /\ \A n, p : JobTold(F, n, p) => JobTold(G, n, p)
         /\ m.what = "job" => JobTold(G, m.call, m.arg)
         /\ ToldOnce(F) /\ (m.what # "job" \/ \A i \in 1 .. Len(F) : F[i].what = "job" => F[i].arg # m.arg)
              => ToldOnce(G)
<1> DEFINE G == Append(F, m)
<1>1. /\ G \in Seq(Tells) /\ Len(F) \in Nat /\ Len(G) = Len(F) + 1 /\ G[Len(F) + 1] = m
      /\ \A i \in 1 .. Len(F) : G[i] = F[i]
  BY AppendFacts
<1> HIDE DEF G
<1>2. ASSUME NEW i, NEW p, EndAfter(F, i, p) PROVE EndAfter(G, i, p)
  BY <1>1, <1>2 DEF EndAfter
<1>3. ASSUME m.what \in EndKinds, NEW i \in 0 .. Len(F) PROVE EndAfter(G, i, m.arg)
  BY <1>1, <1>3 DEF EndAfter
<1>4. ASSUME NEW n, NEW p, JobTold(F, n, p) PROVE JobTold(G, n, p)
  BY <1>1, <1>4 DEF JobTold
<1>5. ASSUME m.what = "job" PROVE JobTold(G, m.call, m.arg)
  BY <1>1, <1>5 DEF JobTold
<1>6. ASSUME ToldOnce(F), m.what # "job" \/ \A i \in 1 .. Len(F) : F[i].what = "job" => F[i].arg # m.arg
      PROVE  ToldOnce(G)
  BY <1>1, <1>6 DEF ToldOnce
<1> QED BY <1>2, <1>3, <1>4, <1>5, <1>6 DEF G

LEMMA TellTail ==
  ASSUME NEW F \in Seq(Tells), F # <<>>
  PROVE  LET G == Tail(F) IN
         /\ \A p : \A i \in Nat : EndAfter(F, i + 1, p) => EndAfter(G, i, p)
         /\ \A p : EndAfter(F, 0, p) => EndAfter(G, 0, p) \/ (F[1].what \in EndKinds /\ F[1].arg = p)
         /\ \A n, p : JobTold(F, n, p) => JobTold(G, n, p) \/ (F[1].what = "job" /\ F[1].call = n /\ F[1].arg = p)
         /\ ToldOnce(F) => ToldOnce(G)
         /\ ToldOnce(F) /\ F[1].what = "job" => \A i \in 1 .. Len(G) : G[i].what = "job" => G[i].arg # F[1].arg
<1> DEFINE G == Tail(F)
<1>1. /\ G \in Seq(Tells) /\ Len(F) \in Nat \ {0} /\ Len(G) = Len(F) - 1
      /\ \A i \in 1 .. Len(G) : G[i] = F[i + 1]
  BY TailFacts
<1> HIDE DEF G
<1>2. ASSUME NEW i \in Nat, NEW p, EndAfter(F, i + 1, p) PROVE EndAfter(G, i, p)
  <2>1. PICK j \in 1 .. Len(F) : i + 1 < j /\ F[j].what \in EndKinds /\ F[j].arg = p
    BY <1>2 DEF EndAfter
  <2>2. j - 1 \in 1 .. Len(G) /\ G[j - 1] = F[j] /\ i < j - 1
    BY <1>1, <2>1
  <2> QED BY <2>1, <2>2 DEF EndAfter
<1>3. ASSUME NEW p, EndAfter(F, 0, p), ~(F[1].what \in EndKinds /\ F[1].arg = p) PROVE EndAfter(G, 0, p)
  <2>1. PICK j \in 1 .. Len(F) : F[j].what \in EndKinds /\ F[j].arg = p
    BY <1>3 DEF EndAfter
  <2>2. j # 1
    BY <1>3, <2>1
  <2>3. j - 1 \in 1 .. Len(G) /\ G[j - 1] = F[j] /\ 0 < j - 1
    BY <1>1, <2>1, <2>2
  <2> QED BY <2>1, <2>3 DEF EndAfter
<1>4. ASSUME NEW n, NEW p, JobTold(F, n, p), ~(F[1].what = "job" /\ F[1].call = n /\ F[1].arg = p)
      PROVE  JobTold(G, n, p)
  <2>1. PICK j \in 1 .. Len(F) : F[j].what = "job" /\ F[j].call = n /\ F[j].arg = p
    BY <1>4 DEF JobTold
  <2>2. j # 1
    BY <1>4, <2>1
  <2>3. j - 1 \in 1 .. Len(G) /\ G[j - 1] = F[j]
    BY <1>1, <2>1, <2>2
  <2> QED BY <2>1, <2>3 DEF JobTold
<1>5. ASSUME ToldOnce(F) PROVE ToldOnce(G)
  <2> SUFFICES ASSUME NEW i \in 1 .. Len(G), NEW j \in 1 .. Len(G), G[i].what = "job", G[j].what = "job",
                      G[i].arg = G[j].arg
               PROVE  i = j
    BY DEF ToldOnce
  <2>1. i + 1 \in 1 .. Len(F) /\ j + 1 \in 1 .. Len(F) /\ G[i] = F[i + 1] /\ G[j] = F[j + 1]
    BY <1>1
  <2>2. i + 1 = j + 1
    BY <1>5, <2>1 DEF ToldOnce
  <2> QED BY <1>1, <2>2
<1>6. ASSUME ToldOnce(F), F[1].what = "job", NEW i \in 1 .. Len(G), G[i].what = "job" PROVE G[i].arg # F[1].arg
  <2>1. i + 1 \in 1 .. Len(F) /\ G[i] = F[i + 1] /\ i + 1 # 1 /\ 1 \in 1 .. Len(F)
    BY <1>1
  <2> QED BY <1>6, <2>1 DEF ToldOnce
<1> QED BY <1>2, <1>3, <1>4, <1>5, <1>6 DEF G

\* A message that is about no call and no job.
LEMMA NoiseTold ==
  ASSUME NEW D, NEW P, NEW C, NEW T, NEW F, NEW m \in Tells, ProxyFits(D, P, C, T, F),
         m.what \in NoiseKinds
  PROVE  ProxyFits(D, P, C, T, Append(F, m))
<1> DEFINE G == Append(F, m)
<1>0. /\ ProxyTypes(D, P, C, T, F) /\ AsksFit(C, T) /\ TellsFit(D, P, C, F) /\ OneToken(P, T, F)
      /\ HasToken(P, C, T, F) /\ PendingEnds(D, P, C, F) /\ ToldEnds(D, F) /\ ToldOnce(F)
      /\ JobOwned(D, P, C, F) /\ OneOfKind(C)
  BY DEF ProxyFits
<1>m. m \in Tells /\ m.call = 0 /\ m.what \notin {"job"} \cup AnswerKinds \cup EndKinds /\ TellFits(D, P, C, m)
  BY DEF NoiseKinds, AnswerKinds, EndKinds, Tells, TellFits
<1>f. /\ F \in Seq(Tells) /\ G \in Seq(Tells) /\ Len(F) \in Nat /\ Len(G) = Len(F) + 1 /\ G[Len(F) + 1] = m
      /\ \A i \in 1 .. Len(F) : G[i] = F[i]
  BY <1>0, <1>m, AppendFacts DEF ProxyTypes
<1>a. /\ \A n : About(G, n) <=> About(F, n) \/ m.call = n
      /\ OneAbout(F) /\ (m.call = 0 \/ ~About(F, m.call)) => OneAbout(G)
  BY <1>m, <1>f, AboutAppended
<1>e. /\ \A i, p : EndAfter(F, i, p) => EndAfter(G, i, p)
      /\ m.what \in EndKinds => \A i \in 0 .. Len(F) : EndAfter(G, i, m.arg)
      /\ \A n, p : JobTold(F, n, p) => JobTold(G, n, p)
      /\ m.what = "job" => JobTold(G, m.call, m.arg)
      /\ ToldOnce(F) /\ (m.what # "job" \/ \A i \in 1 .. Len(F) : F[i].what = "job" => F[i].arg # m.arg) => ToldOnce(G)
  BY <1>m, <1>f, TellAppended
<1> HIDE DEF G
<1>t. ProxyTypes(D, P, C, T, G)
  BY <1>0, <1>m, <1>f, <1>a, <1>e DEF ProxyTypes
<1>p0. AsksFit(C, T)
  BY <1>0
<1>p1. TellsFit(D, P, C, G)
  BY <1>0, <1>m, <1>f, <1>a, <1>e DEF TellsFit
<1>p2. OneToken(P, T, G)
  BY <1>0, <1>m, <1>f, <1>a, <1>e DEF OneToken
<1>p3. HasToken(P, C, T, G)
  BY <1>0, <1>m, <1>f, <1>a, <1>e DEF HasToken
<1>p4. PendingEnds(D, P, C, G)
  BY <1>0, <1>m, <1>f, <1>a, <1>e DEF PendingEnds
<1>p5. ToldEnds(D, G)
  BY <1>0, <1>m, <1>f, <1>a, <1>e DEF ToldEnds
<1>p6. ToldOnce(G)
  BY <1>0, <1>m, <1>f, <1>a, <1>e
<1>p7. JobOwned(D, P, C, G)
  BY <1>0, <1>m, <1>f, <1>a, <1>e DEF JobOwned, JobOwner
<1>p8. OneOfKind(C)
  BY <1>0
<1>q. ProxyFits(D, P, C, T, G)
  BY <1>t, <1>p0, <1>p1, <1>p2, <1>p3, <1>p4, <1>p5, <1>p6, <1>p7, <1>p8 DEF ProxyFits
<1> QED BY <1>q DEF G

LEMMA NoiseHeard ==
  ASSUME NEW D, NEW P, NEW C, NEW T, NEW F, ProxyFits(D, P, C, T, F),
         F # <<>>,
         Head(F).what \in NoiseKinds
  PROVE  ProxyFits(D, P, C, T, Tail(F))
<1> DEFINE G == Tail(F)
<1>0. /\ ProxyTypes(D, P, C, T, F) /\ AsksFit(C, T) /\ TellsFit(D, P, C, F) /\ OneToken(P, T, F)
      /\ HasToken(P, C, T, F) /\ PendingEnds(D, P, C, F) /\ ToldEnds(D, F) /\ ToldOnce(F)
      /\ JobOwned(D, P, C, F) /\ OneOfKind(C)
  BY DEF ProxyFits
<1>f. /\ F \in Seq(Tells) /\ G \in Seq(Tells) /\ Len(F) \in Nat \ {0} /\ Len(G) = Len(F) - 1
      /\ \A i \in 1 .. Len(G) : G[i] = F[i + 1]
      /\ F[1] \in Tells /\ Head(F) = F[1]
  BY <1>0, TailFacts DEF ProxyTypes
<1>a. /\ \A n : About(F, n) <=> About(G, n) \/ F[1].call = n
      /\ OneAbout(F) => OneAbout(G) /\ (F[1].call # 0 => ~About(G, F[1].call))
  BY <1>f, AboutTail
<1>e. /\ \A p : \A i \in Nat : EndAfter(F, i + 1, p) => EndAfter(G, i, p)
      /\ \A p : EndAfter(F, 0, p) => EndAfter(G, 0, p) \/ (F[1].what \in EndKinds /\ F[1].arg = p)
      /\ \A n, p : JobTold(F, n, p) => JobTold(G, n, p) \/ (F[1].what = "job" /\ F[1].call = n /\ F[1].arg = p)
      /\ ToldOnce(F) => ToldOnce(G)
      /\ ToldOnce(F) /\ F[1].what = "job" => \A i \in 1 .. Len(G) : G[i].what = "job" => G[i].arg # F[1].arg
  BY <1>f, TellTail
<1>x. TellFits(D, P, C, F[1])
  BY <1>0, <1>f DEF TellsFit
<1>z. F[1].call = 0 /\ F[1].what # "job" /\ F[1].what \notin EndKinds
  BY <1>f, <1>x DEF NoiseKinds, AnswerKinds, EndKinds, TellFits
<1> HIDE DEF G
<1>t. ProxyTypes(D, P, C, T, G)
  BY <1>0, <1>f, <1>a, <1>e, <1>x, <1>z DEF ProxyTypes
<1>p0. AsksFit(C, T)
  BY <1>0
<1>p1. TellsFit(D, P, C, G)
  BY <1>0, <1>f, <1>a, <1>e, <1>x, <1>z DEF TellsFit
<1>p2. OneToken(P, T, G)
  BY <1>0, <1>f, <1>a, <1>e, <1>x, <1>z DEF OneToken
<1>p3. HasToken(P, C, T, G)
  BY <1>0, <1>f, <1>a, <1>e, <1>x, <1>z DEF HasToken
<1>p4. PendingEnds(D, P, C, G)
  BY <1>0, <1>f, <1>a, <1>e, <1>x, <1>z DEF PendingEnds
<1>p5. ToldEnds(D, G)
  <2> SUFFICES ASSUME NEW i \in 1 .. Len(G), G[i].what = "job"
               PROVE  D.job = G[i].arg \/ EndAfter(G, i, G[i].arg)
    BY DEF ToldEnds
  <2>1. i \in Nat /\ i + 1 \in 1 .. Len(F) /\ G[i] = F[i + 1]
    BY <1>f
  <2>2. D.job = G[i].arg \/ EndAfter(F, i + 1, G[i].arg)
    BY <1>0, <2>1 DEF ToldEnds
  <2> QED BY <1>e, <2>1, <2>2
<1>p6. ToldOnce(G)
  BY <1>0, <1>e
<1>p7. JobOwned(D, P, C, G)
  BY <1>0, <1>f, <1>a, <1>e, <1>x, <1>z DEF JobOwned, JobOwner
<1>p8. OneOfKind(C)
  BY <1>0
<1>q. ProxyFits(D, P, C, T, G)
  BY <1>t, <1>p0, <1>p1, <1>p2, <1>p3, <1>p4, <1>p5, <1>p6, <1>p7, <1>p8 DEF ProxyFits
<1> QED BY <1>q DEF G

\* A request that is about no call.
LEMMA NoiseAsked ==
  ASSUME NEW D, NEW P, NEW C, NEW T, NEW F, NEW r \in Asks, ProxyFits(D, P, C, T, F),
         r.what \in {"load", "watch", "getall"},
         r.call = 0
  PROVE  ProxyFits(D, P, C, Append(T, r), F)
<1> DEFINE S == Append(T, r)
<1>0. /\ ProxyTypes(D, P, C, T, F) /\ AsksFit(C, T) /\ TellsFit(D, P, C, F) /\ OneToken(P, T, F)
      /\ HasToken(P, C, T, F) /\ PendingEnds(D, P, C, F) /\ ToldEnds(D, F) /\ ToldOnce(F)
      /\ JobOwned(D, P, C, F) /\ OneOfKind(C)
  BY DEF ProxyFits
<1>r. r \in Asks /\ r.call = 0 /\ AskFits(C, r)
  BY DEF AskFits
<1>s. /\ T \in Seq(Asks) /\ S \in Seq(Asks) /\ Len(T) \in Nat /\ Len(S) = Len(T) + 1 /\ S[Len(T) + 1] = r
      /\ \A i \in 1 .. Len(T) : S[i] = T[i]
  BY <1>0, <1>r, AppendFacts DEF ProxyTypes
<1>b. /\ \A n : About(S, n) <=> About(T, n) \/ r.call = n
      /\ OneAbout(T) /\ (r.call = 0 \/ ~About(T, r.call)) => OneAbout(S)
  BY <1>r, <1>s, AboutAppended
<1> HIDE DEF S
<1>t. ProxyTypes(D, P, C, S, F)
  BY <1>0, <1>r, <1>s, <1>b DEF ProxyTypes
<1>p0. AsksFit(C, S)
  BY <1>0, <1>r, <1>s, <1>b DEF AsksFit
<1>p1. TellsFit(D, P, C, F)
  BY <1>0
<1>p2. OneToken(P, S, F)
  BY <1>0, <1>r, <1>s, <1>b DEF OneToken
<1>p3. HasToken(P, C, S, F)
  BY <1>0, <1>r, <1>s, <1>b DEF HasToken
<1>p4. PendingEnds(D, P, C, F)
  BY <1>0
<1>p5. ToldEnds(D, F)
  BY <1>0
<1>p6. ToldOnce(F)
  BY <1>0
<1>p7. JobOwned(D, P, C, F)
  BY <1>0
<1>p8. OneOfKind(C)
  BY <1>0
<1>q. ProxyFits(D, P, C, S, F)
  BY <1>t, <1>p0, <1>p1, <1>p2, <1>p3, <1>p4, <1>p5, <1>p6, <1>p7, <1>p8 DEF ProxyFits
<1> QED BY <1>q DEF S

LEMMA NoiseAnswered ==
  ASSUME NEW D, NEW P, NEW C, NEW T, NEW F, ProxyFits(D, P, C, T, F),
         T # <<>>,
         Head(T).what \in {"load", "watch", "getall"}
  PROVE  ProxyFits(D, P, C, Tail(T), F)
<1> DEFINE S == Tail(T)
<1>0. /\ ProxyTypes(D, P, C, T, F) /\ AsksFit(C, T) /\ TellsFit(D, P, C, F) /\ OneToken(P, T, F)
      /\ HasToken(P, C, T, F) /\ PendingEnds(D, P, C, F) /\ ToldEnds(D, F) /\ ToldOnce(F)
      /\ JobOwned(D, P, C, F) /\ OneOfKind(C)
  BY DEF ProxyFits
<1>s. /\ T \in Seq(Asks) /\ S \in Seq(Asks) /\ Len(T) \in Nat \ {0} /\ Len(S) = Len(T) - 1
      /\ \A i \in 1 .. Len(S) : S[i] = T[i + 1]
      /\ T[1] \in Asks /\ Head(T) = T[1]
  BY <1>0, TailFacts DEF ProxyTypes
<1>b. /\ \A n : About(T, n) <=> About(S, n) \/ T[1].call = n
      /\ OneAbout(T) => OneAbout(S) /\ (T[1].call # 0 => ~About(S, T[1].call))
  BY <1>s, AboutTail
<1>y. AskFits(C, T[1])
  BY <1>0, <1>s DEF AsksFit
<1>z. T[1].call = 0
  BY <1>s, <1>y DEF AskFits, JobKinds, FileKinds
<1> HIDE DEF S
<1>t. ProxyTypes(D, P, C, S, F)
  BY <1>0, <1>s, <1>b, <1>y, <1>z DEF ProxyTypes
<1>p0. AsksFit(C, S)
  BY <1>0, <1>s, <1>b, <1>y, <1>z DEF AsksFit
<1>p1. TellsFit(D, P, C, F)
  BY <1>0
<1>p2. OneToken(P, S, F)
  BY <1>0, <1>s, <1>b, <1>y, <1>z DEF OneToken
<1>p3. HasToken(P, C, S, F)
  BY <1>0, <1>s, <1>b, <1>y, <1>z DEF HasToken
<1>p4. PendingEnds(D, P, C, F)
  BY <1>0
<1>p5. ToldEnds(D, F)
  BY <1>0
<1>p6. ToldOnce(F)
  BY <1>0
<1>p7. JobOwned(D, P, C, F)
  BY <1>0
<1>p8. OneOfKind(C)
  BY <1>0
<1>q. ProxyFits(D, P, C, S, F)
  BY <1>t, <1>p0, <1>p1, <1>p2, <1>p3, <1>p4, <1>p5, <1>p6, <1>p7, <1>p8 DEF ProxyFits
<1> QED BY <1>q DEF S

\* The unit or its file changes.
LEMMA UnitChanges ==
  ASSUME NEW D, NEW P, NEW C, NEW T, NEW F, NEW E \in Sysd, ProxyFits(D, P, C, T, F),
         E.job = D.job,
         E.jobs = D.jobs,
         E.kind = D.kind
  PROVE  ProxyFits(E, P, C, T, F)
<1>0. /\ ProxyTypes(D, P, C, T, F) /\ AsksFit(C, T) /\ TellsFit(D, P, C, F) /\ OneToken(P, T, F)
      /\ HasToken(P, C, T, F) /\ PendingEnds(D, P, C, F) /\ ToldEnds(D, F) /\ ToldOnce(F)
      /\ JobOwned(D, P, C, F) /\ OneOfKind(C)
  BY DEF ProxyFits
<1>t. ProxyTypes(E, P, C, T, F)
  BY <1>0 DEF ProxyTypes
<1>p0. AsksFit(C, T)
  BY <1>0
<1>p1. TellsFit(E, P, C, F)
  BY <1>0 DEF TellsFit, TellFits
<1>p2. OneToken(P, T, F)
  BY <1>0
<1>p3. HasToken(P, C, T, F)
  BY <1>0
<1>p4. PendingEnds(E, P, C, F)
  BY <1>0 DEF PendingEnds
<1>p5. ToldEnds(E, F)
  BY <1>0 DEF ToldEnds
<1>p6. ToldOnce(F)
  BY <1>0
<1>p7. JobOwned(E, P, C, F)
  BY <1>0 DEF JobOwned, JobOwner
<1>p8. OneOfKind(C)
  BY <1>0
<1>q. ProxyFits(E, P, C, T, F)
  BY <1>t, <1>p0, <1>p1, <1>p2, <1>p3, <1>p4, <1>p5, <1>p6, <1>p7, <1>p8 DEF ProxyFits
<1> QED BY <1>q

\* The job ends or is replaced.
LEMMA JobIsOver ==
  ASSUME NEW D, NEW P, NEW C, NEW T, NEW F, NEW m \in Tells, NEW E \in Sysd, ProxyFits(D, P, C, T, F),
         m.what \in EndKinds,
         m.arg = D.job,
         D.job # 0,
         E.job = 0,
         E.jobs = D.jobs
  PROVE  ProxyFits(E, P, C, T, Append(F, m))
<1> DEFINE G == Append(F, m)
<1>0. /\ ProxyTypes(D, P, C, T, F) /\ AsksFit(C, T) /\ TellsFit(D, P, C, F) /\ OneToken(P, T, F)
      /\ HasToken(P, C, T, F) /\ PendingEnds(D, P, C, F) /\ ToldEnds(D, F) /\ ToldOnce(F)
      /\ JobOwned(D, P, C, F) /\ OneOfKind(C)
  BY DEF ProxyFits
<1>m. m \in Tells /\ m.call = 0 /\ m.what \in EndKinds /\ m.what \notin {"job"} \cup AnswerKinds /\ m.arg = D.job
  BY DEF AnswerKinds, EndKinds, Tells
<1>f. /\ F \in Seq(Tells) /\ G \in Seq(Tells) /\ Len(F) \in Nat /\ Len(G) = Len(F) + 1 /\ G[Len(F) + 1] = m
      /\ \A i \in 1 .. Len(F) : G[i] = F[i]
  BY <1>0, <1>m, AppendFacts DEF ProxyTypes
<1>a. /\ \A n : About(G, n) <=> About(F, n) \/ m.call = n
      /\ OneAbout(F) /\ (m.call = 0 \/ ~About(F, m.call)) => OneAbout(G)
  BY <1>m, <1>f, AboutAppended
<1>e. /\ \A i, p : EndAfter(F, i, p) => EndAfter(G, i, p)
      /\ m.what \in EndKinds => \A i \in 0 .. Len(F) : EndAfter(G, i, m.arg)
      /\ \A n, p : JobTold(F, n, p) => JobTold(G, n, p)
      /\ m.what = "job" => JobTold(G, m.call, m.arg)
      /\ ToldOnce(F) /\ (m.what # "job" \/ \A i \in 1 .. Len(F) : F[i].what = "job" => F[i].arg # m.arg) => ToldOnce(G)
  BY <1>m, <1>f, TellAppended
<1>d. D.job \in 1 .. D.jobs /\ D.jobs \in Nat
  BY <1>0 DEF ProxyTypes, Sysd
<1> HIDE DEF G
<1>t. ProxyTypes(E, P, C, T, G)
  BY <1>0, <1>m, <1>f, <1>a, <1>e, <1>d DEF ProxyTypes
<1>p0. AsksFit(C, T)
  BY <1>0
<1>p1. TellsFit(E, P, C, G)
  BY <1>0, <1>m, <1>f, <1>a, <1>e, <1>d DEF TellsFit, TellFits
<1>p2. OneToken(P, T, G)
  BY <1>0, <1>m, <1>f, <1>a, <1>e, <1>d DEF OneToken
<1>p3. HasToken(P, C, T, G)
  BY <1>0, <1>m, <1>f, <1>a, <1>e, <1>d DEF HasToken
<1>p4. PendingEnds(E, P, C, G)
  BY <1>0, <1>m, <1>f, <1>a, <1>e, <1>d DEF PendingEnds
<1>p5. ToldEnds(E, G)
  BY <1>0, <1>m, <1>f, <1>a, <1>e, <1>d DEF ToldEnds
<1>p6. ToldOnce(G)
  BY <1>0, <1>m, <1>f, <1>a, <1>e, <1>d
<1>p7. JobOwned(E, P, C, G)
  BY <1>0, <1>m, <1>f, <1>a, <1>e, <1>d DEF JobOwned, JobOwner
<1>p8. OneOfKind(C)
  BY <1>0
<1>q. ProxyFits(E, P, C, T, G)
  BY <1>t, <1>p0, <1>p1, <1>p2, <1>p3, <1>p4, <1>p5, <1>p6, <1>p7, <1>p8 DEF ProxyFits
<1> QED BY <1>q DEF G

\* Systemd makes a job for a request.
LEMMA JobStarts ==
  ASSUME NEW D, NEW P, NEW C, NEW T, NEW F, NEW m \in Tells, NEW E \in Sysd, ProxyFits(D, P, C, T, F),
         T # <<>>,
         Head(T).what \in JobKinds,
         m.what = "job",
         m.call = Head(T).call,
         m.arg = D.jobs + 1,
         D.job = 0,
         E.job = D.jobs + 1,
         E.jobs = D.jobs + 1,
         E.kind = Head(T).what
  PROVE  ProxyFits(E, P, C, Tail(T), Append(F, m))
<1> DEFINE S == Tail(T)
           G == Append(F, m)
<1>0. /\ ProxyTypes(D, P, C, T, F) /\ AsksFit(C, T) /\ TellsFit(D, P, C, F) /\ OneToken(P, T, F)
      /\ HasToken(P, C, T, F) /\ PendingEnds(D, P, C, F) /\ ToldEnds(D, F) /\ ToldOnce(F)
      /\ JobOwned(D, P, C, F) /\ OneOfKind(C)
  BY DEF ProxyFits
<1>s. /\ T \in Seq(Asks) /\ S \in Seq(Asks) /\ Len(T) \in Nat \ {0} /\ Len(S) = Len(T) - 1
      /\ \A i \in 1 .. Len(S) : S[i] = T[i + 1]
      /\ T[1] \in Asks /\ Head(T) = T[1]
  BY <1>0, TailFacts DEF ProxyTypes
<1>b. /\ \A n : About(T, n) <=> About(S, n) \/ T[1].call = n
      /\ OneAbout(T) => OneAbout(S) /\ (T[1].call # 0 => ~About(S, T[1].call))
  BY <1>s, AboutTail
<1>y. AskFits(C, T[1])
  BY <1>0, <1>s DEF AsksFit
<1>z. /\ IsCalled(C, T[1].call) /\ C[T[1].call].kind = E.kind /\ T[1].call \in Nat \ {0}
      /\ D.jobs \in Nat /\ "job" \notin EndKinds /\ About(T, T[1].call)
  BY <1>0, <1>s, <1>b, <1>y DEF AskFits, JobKinds, IsCalled, ProxyTypes, Sysd, EndKinds
<1>m. m \in Tells /\ m.what = "job" /\ m.call = T[1].call /\ m.arg = D.jobs + 1
  BY <1>s
<1>f. /\ F \in Seq(Tells) /\ G \in Seq(Tells) /\ Len(F) \in Nat /\ Len(G) = Len(F) + 1 /\ G[Len(F) + 1] = m
      /\ \A i \in 1 .. Len(F) : G[i] = F[i]
  BY <1>0, <1>m, AppendFacts DEF ProxyTypes
<1>a. /\ \A n : About(G, n) <=> About(F, n) \/ m.call = n
      /\ OneAbout(F) /\ (m.call = 0 \/ ~About(F, m.call)) => OneAbout(G)
  BY <1>m, <1>f, AboutAppended
<1>e. /\ \A i, p : EndAfter(F, i, p) => EndAfter(G, i, p)
      /\ m.what \in EndKinds => \A i \in 0 .. Len(F) : EndAfter(G, i, m.arg)
      /\ \A n, p : JobTold(F, n, p) => JobTold(G, n, p)
      /\ m.what = "job" => JobTold(G, m.call, m.arg)
      /\ ToldOnce(F) /\ (m.what # "job" \/ \A i \in 1 .. Len(F) : F[i].what = "job" => F[i].arg # m.arg) => ToldOnce(G)
  BY <1>m, <1>f, TellAppended
<1> HIDE DEF S, G
<1>t. ProxyTypes(E, P, C, S, G)
  BY <1>0, <1>s, <1>b, <1>y, <1>z, <1>m, <1>f, <1>a, <1>e DEF ProxyTypes
<1>p0. AsksFit(C, S)
  <2> SUFFICES ASSUME NEW i \in 1 .. Len(S) PROVE AskFits(C, S[i])
    BY DEF AsksFit
  <2>1. i + 1 \in 1 .. Len(T) /\ S[i] = T[i + 1]
    BY <1>s
  <2> QED BY <1>0, <2>1 DEF AsksFit
<1>p1. TellsFit(E, P, C, G)
  <2> SUFFICES ASSUME NEW i \in 1 .. Len(G) PROVE TellFits(E, P, C, G[i])
    BY DEF TellsFit
  <2>1. CASE i = Len(F) + 1
    <3>1. m.arg \in 1 .. E.jobs /\ m.arg \notin DOMAIN P
      BY <1>0, <1>m, <1>z DEF ProxyTypes
    <3>2. G[i] = m /\ m.call # 0 /\ IsCalled(C, m.call)
      BY <1>f, <1>m, <1>z, <2>1
    <3> QED BY <1>m, <1>z, <3>1, <3>2 DEF TellFits
  <2>2. CASE i \in 1 .. Len(F)
    <3>1. G[i] = F[i] /\ TellFits(D, P, C, F[i])
      BY <1>0, <1>f, <2>2 DEF TellsFit
    <3>2. 1 .. D.jobs \subseteq 1 .. E.jobs /\ E.job \notin 1 .. D.jobs
      BY <1>z
    <3> QED BY <3>1, <3>2 DEF TellFits
  <2> QED BY <1>f, <2>1, <2>2
<1>p2. OneToken(P, S, G)
  BY <1>0, <1>s, <1>b, <1>y, <1>z, <1>m, <1>f, <1>a, <1>e DEF OneToken
<1>p3. HasToken(P, C, S, G)
  BY <1>0, <1>s, <1>b, <1>y, <1>z, <1>m, <1>f, <1>a, <1>e DEF HasToken
<1>p4. PendingEnds(E, P, C, G)
  <2> SUFFICES ASSUME NEW p \in DOMAIN P, P[p] # 0
               PROVE  IsCalled(C, P[p]) /\ (E.job = p \/ EndAfter(G, 0, p))
    BY DEF PendingEnds
  <2>1. p # 0
    BY <1>0, <1>z DEF ProxyTypes
  <2>2. IsCalled(C, P[p]) /\ EndAfter(F, 0, p)
    BY <1>0, <2>1 DEF PendingEnds
  <2> QED BY <1>e, <2>2
<1>p5. ToldEnds(E, G)
  <2> SUFFICES ASSUME NEW i \in 1 .. Len(G), G[i].what = "job"
               PROVE  E.job = G[i].arg \/ EndAfter(G, i, G[i].arg)
    BY DEF ToldEnds
  <2>1. CASE i = Len(F) + 1
    BY <1>f, <1>m, <2>1
  <2>2. CASE i \in 1 .. Len(F)
    <3>1. G[i] = F[i] /\ TellFits(D, P, C, F[i])
      BY <1>0, <1>f, <2>2 DEF TellsFit
    <3>2. F[i].arg # 0
      BY <1>z, <3>1 DEF TellFits
    <3>3. EndAfter(F, i, F[i].arg)
      BY <1>0, <2>2, <3>1, <3>2 DEF ToldEnds
    <3> QED BY <1>e, <3>1, <3>3
  <2> QED BY <1>f, <2>1, <2>2
<1>p6. ToldOnce(G)
  BY <1>0, <1>s, <1>b, <1>y, <1>z, <1>m, <1>f, <1>a, <1>e DEF TellsFit, TellFits
<1>p7. JobOwned(E, P, C, G)
  BY <1>0, <1>s, <1>b, <1>y, <1>z, <1>m, <1>f, <1>a, <1>e DEF JobOwned, JobOwner
<1>p8. OneOfKind(C)
  BY <1>0
<1>q. ProxyFits(E, P, C, S, G)
  BY <1>t, <1>p0, <1>p1, <1>p2, <1>p3, <1>p4, <1>p5, <1>p6, <1>p7, <1>p8 DEF ProxyFits
<1> QED BY <1>q DEF S, G

\* Systemd answers the request of a call.
LEMMA AskAnswered ==
  ASSUME NEW D, NEW P, NEW C, NEW T, NEW F, NEW m \in Tells, ProxyFits(D, P, C, T, F),
         T # <<>>,
         m.what \in AnswerKinds,
         m.call = Head(T).call,
         m.call # 0
  PROVE  ProxyFits(D, P, C, Tail(T), Append(F, m))
<1> DEFINE S == Tail(T)
           G == Append(F, m)
<1>0. /\ ProxyTypes(D, P, C, T, F) /\ AsksFit(C, T) /\ TellsFit(D, P, C, F) /\ OneToken(P, T, F)
      /\ HasToken(P, C, T, F) /\ PendingEnds(D, P, C, F) /\ ToldEnds(D, F) /\ ToldOnce(F)
      /\ JobOwned(D, P, C, F) /\ OneOfKind(C)
  BY DEF ProxyFits
<1>s. /\ T \in Seq(Asks) /\ S \in Seq(Asks) /\ Len(T) \in Nat \ {0} /\ Len(S) = Len(T) - 1
      /\ \A i \in 1 .. Len(S) : S[i] = T[i + 1]
      /\ T[1] \in Asks /\ Head(T) = T[1]
  BY <1>0, TailFacts DEF ProxyTypes
<1>b. /\ \A n : About(T, n) <=> About(S, n) \/ T[1].call = n
      /\ OneAbout(T) => OneAbout(S) /\ (T[1].call # 0 => ~About(S, T[1].call))
  BY <1>s, AboutTail
<1>y. AskFits(C, T[1])
  BY <1>0, <1>s DEF AsksFit
<1>z. IsCalled(C, T[1].call) /\ T[1].call # 0 /\ About(T, T[1].call)
  BY <1>s, <1>b, <1>y DEF AskFits
<1>m. m \in Tells /\ m.what \in AnswerKinds /\ m.what # "job" /\ m.what \notin EndKinds /\ m.call = T[1].call
  BY <1>s DEF AnswerKinds, EndKinds
<1>f. /\ F \in Seq(Tells) /\ G \in Seq(Tells) /\ Len(F) \in Nat /\ Len(G) = Len(F) + 1 /\ G[Len(F) + 1] = m
      /\ \A i \in 1 .. Len(F) : G[i] = F[i]
  BY <1>0, <1>m, AppendFacts DEF ProxyTypes
<1>a. /\ \A n : About(G, n) <=> About(F, n) \/ m.call = n
      /\ OneAbout(F) /\ (m.call = 0 \/ ~About(F, m.call)) => OneAbout(G)
  BY <1>m, <1>f, AboutAppended
<1>e. /\ \A i, p : EndAfter(F, i, p) => EndAfter(G, i, p)
      /\ m.what \in EndKinds => \A i \in 0 .. Len(F) : EndAfter(G, i, m.arg)
      /\ \A n, p : JobTold(F, n, p) => JobTold(G, n, p)
      /\ m.what = "job" => JobTold(G, m.call, m.arg)
      /\ ToldOnce(F) /\ (m.what # "job" \/ \A i \in 1 .. Len(F) : F[i].what = "job" => F[i].arg # m.arg) => ToldOnce(G)
  BY <1>m, <1>f, TellAppended
<1> HIDE DEF S, G
<1>t. ProxyTypes(D, P, C, S, G)
  BY <1>0, <1>s, <1>b, <1>y, <1>z, <1>m, <1>f, <1>a, <1>e DEF ProxyTypes
<1>p0. AsksFit(C, S)
  <2> SUFFICES ASSUME NEW i \in 1 .. Len(S) PROVE AskFits(C, S[i])
    BY DEF AsksFit
  <2>1. i + 1 \in 1 .. Len(T) /\ S[i] = T[i + 1]
    BY <1>s
  <2> QED BY <1>0, <2>1 DEF AsksFit
<1>p1. TellsFit(D, P, C, G)
  BY <1>0, <1>s, <1>b, <1>y, <1>z, <1>m, <1>f, <1>a, <1>e DEF TellsFit, TellFits
<1>p2. OneToken(P, S, G)
  BY <1>0, <1>s, <1>b, <1>y, <1>z, <1>m, <1>f, <1>a, <1>e DEF OneToken
<1>p3. HasToken(P, C, S, G)
  BY <1>0, <1>s, <1>b, <1>y, <1>z, <1>m, <1>f, <1>a, <1>e DEF HasToken
<1>p4. PendingEnds(D, P, C, G)
  BY <1>0, <1>s, <1>b, <1>y, <1>z, <1>m, <1>f, <1>a, <1>e DEF PendingEnds
<1>p5. ToldEnds(D, G)
  <2> SUFFICES ASSUME NEW i \in 1 .. Len(G), G[i].what = "job"
               PROVE  D.job = G[i].arg \/ EndAfter(G, i, G[i].arg)
    BY DEF ToldEnds
  <2>1. i \in 1 .. Len(F) /\ G[i] = F[i]
    BY <1>f, <1>m
  <2>2. D.job = F[i].arg \/ EndAfter(F, i, F[i].arg)
    BY <1>0, <2>1 DEF ToldEnds
  <2> QED BY <1>e, <2>1, <2>2
<1>p6. ToldOnce(G)
  BY <1>0, <1>s, <1>b, <1>y, <1>z, <1>m, <1>f, <1>a, <1>e
<1>p7. JobOwned(D, P, C, G)
  BY <1>0, <1>s, <1>b, <1>y, <1>z, <1>m, <1>f, <1>a, <1>e DEF JobOwned, JobOwner
<1>p8. OneOfKind(C)
  BY <1>0
<1>q. ProxyFits(D, P, C, S, G)
  BY <1>t, <1>p0, <1>p1, <1>p2, <1>p3, <1>p4, <1>p5, <1>p6, <1>p7, <1>p8 DEF ProxyFits
<1> QED BY <1>q DEF S, G

\* enable() and disable() go on to reload systemd.
LEMMA InstalledHeard ==
  ASSUME NEW D, NEW P, NEW C, NEW T, NEW F, NEW r \in Asks, ProxyFits(D, P, C, T, F),
         F # <<>>,
         Head(F).what = "installed",
         r.what = "reload",
         r.call = Head(F).call
  PROVE  ProxyFits(D, P, C, Append(T, r), Tail(F))
<1> DEFINE S == Append(T, r)
           G == Tail(F)
<1>0. /\ ProxyTypes(D, P, C, T, F) /\ AsksFit(C, T) /\ TellsFit(D, P, C, F) /\ OneToken(P, T, F)
      /\ HasToken(P, C, T, F) /\ PendingEnds(D, P, C, F) /\ ToldEnds(D, F) /\ ToldOnce(F)
      /\ JobOwned(D, P, C, F) /\ OneOfKind(C)
  BY DEF ProxyFits
<1>f. /\ F \in Seq(Tells) /\ G \in Seq(Tells) /\ Len(F) \in Nat \ {0} /\ Len(G) = Len(F) - 1
      /\ \A i \in 1 .. Len(G) : G[i] = F[i + 1]
      /\ F[1] \in Tells /\ Head(F) = F[1]
  BY <1>0, TailFacts DEF ProxyTypes
<1>a. /\ \A n : About(F, n) <=> About(G, n) \/ F[1].call = n
      /\ OneAbout(F) => OneAbout(G) /\ (F[1].call # 0 => ~About(G, F[1].call))
  BY <1>f, AboutTail
<1>e. /\ \A p : \A i \in Nat : EndAfter(F, i + 1, p) => EndAfter(G, i, p)
      /\ \A p : EndAfter(F, 0, p) => EndAfter(G, 0, p) \/ (F[1].what \in EndKinds /\ F[1].arg = p)
      /\ \A n, p : JobTold(F, n, p) => JobTold(G, n, p) \/ (F[1].what = "job" /\ F[1].call = n /\ F[1].arg = p)
      /\ ToldOnce(F) => ToldOnce(G)
      /\ ToldOnce(F) /\ F[1].what = "job" => \A i \in 1 .. Len(G) : G[i].what = "job" => G[i].arg # F[1].arg
  BY <1>f, TellTail
<1>x. TellFits(D, P, C, F[1])
  BY <1>0, <1>f DEF TellsFit
<1>z. IsCalled(C, F[1].call) /\ F[1].call # 0 /\ F[1].what \notin EndKinds /\ F[1].what # "job" /\ About(F, F[1].call)
  BY <1>f, <1>a, <1>x DEF TellFits, AnswerKinds, EndKinds
<1>r. r \in Asks /\ r.call = F[1].call /\ AskFits(C, r)
  BY <1>f, <1>z DEF AskFits
<1>s. /\ T \in Seq(Asks) /\ S \in Seq(Asks) /\ Len(T) \in Nat /\ Len(S) = Len(T) + 1 /\ S[Len(T) + 1] = r
      /\ \A i \in 1 .. Len(T) : S[i] = T[i]
  BY <1>0, <1>r, AppendFacts DEF ProxyTypes
<1>b. /\ \A n : About(S, n) <=> About(T, n) \/ r.call = n
      /\ OneAbout(T) /\ (r.call = 0 \/ ~About(T, r.call)) => OneAbout(S)
  BY <1>r, <1>s, AboutAppended
<1> HIDE DEF S, G
<1>t. ProxyTypes(D, P, C, S, G)
  BY <1>0, <1>f, <1>a, <1>e, <1>x, <1>z, <1>r, <1>s, <1>b DEF ProxyTypes
<1>p0. AsksFit(C, S)
  <2> SUFFICES ASSUME NEW i \in 1 .. Len(S) PROVE AskFits(C, S[i])
    BY DEF AsksFit
  <2>1. CASE i = Len(T) + 1
    BY <1>r, <1>s, <2>1
  <2>2. CASE i \in 1 .. Len(T)
    BY <1>0, <1>s, <2>2 DEF AsksFit
  <2> QED BY <1>s, <2>1, <2>2
<1>p1. TellsFit(D, P, C, G)
  BY <1>0, <1>f, <1>a, <1>e, <1>x, <1>z, <1>r, <1>s, <1>b DEF TellsFit
<1>p2. OneToken(P, S, G)
  BY <1>0, <1>f, <1>a, <1>e, <1>x, <1>z, <1>r, <1>s, <1>b DEF OneToken
<1>p3. HasToken(P, C, S, G)
  BY <1>0, <1>f, <1>a, <1>e, <1>x, <1>z, <1>r, <1>s, <1>b DEF HasToken
<1>p4. PendingEnds(D, P, C, G)
  BY <1>0, <1>f, <1>a, <1>e, <1>x, <1>z, <1>r, <1>s, <1>b DEF PendingEnds
<1>p5. ToldEnds(D, G)
  <2> SUFFICES ASSUME NEW i \in 1 .. Len(G), G[i].what = "job"
               PROVE  D.job = G[i].arg \/ EndAfter(G, i, G[i].arg)
    BY DEF ToldEnds
  <2>1. i \in Nat /\ i + 1 \in 1 .. Len(F) /\ G[i] = F[i + 1]
    BY <1>f
  <2>2. D.job = G[i].arg \/ EndAfter(F, i + 1, G[i].arg)
    BY <1>0, <2>1 DEF ToldEnds
  <2> QED BY <1>e, <2>1, <2>2
<1>p6. ToldOnce(G)
  BY <1>0, <1>e
<1>p7. JobOwned(D, P, C, G)
  BY <1>0, <1>f, <1>a, <1>e, <1>x, <1>z, <1>r, <1>s, <1>b DEF JobOwned, JobOwner
<1>p8. OneOfKind(C)
  BY <1>0
<1>q. ProxyFits(D, P, C, S, G)
  BY <1>t, <1>p0, <1>p1, <1>p2, <1>p3, <1>p4, <1>p5, <1>p6, <1>p7, <1>p8 DEF ProxyFits
<1> QED BY <1>q DEF S, G

\* An answer settles its call.
LEMMA AnswerHeard ==
  ASSUME NEW D, NEW P, NEW C, NEW T, NEW F, NEW status \in {"resolved", "rejected"}, ProxyFits(D, P, C, T, F),
         F # <<>>,
         Head(F).what \in AnswerKinds
  PROVE  ProxyFits(D, P, [C EXCEPT ![Head(F).call].status = status], T, Tail(F))
<1> DEFINE B == [C EXCEPT ![Head(F).call].status = status]
           G == Tail(F)
<1>0. /\ ProxyTypes(D, P, C, T, F) /\ AsksFit(C, T) /\ TellsFit(D, P, C, F) /\ OneToken(P, T, F)
      /\ HasToken(P, C, T, F) /\ PendingEnds(D, P, C, F) /\ ToldEnds(D, F) /\ ToldOnce(F)
      /\ JobOwned(D, P, C, F) /\ OneOfKind(C)
  BY DEF ProxyFits
<1>f. /\ F \in Seq(Tells) /\ G \in Seq(Tells) /\ Len(F) \in Nat \ {0} /\ Len(G) = Len(F) - 1
      /\ \A i \in 1 .. Len(G) : G[i] = F[i + 1]
      /\ F[1] \in Tells /\ Head(F) = F[1]
  BY <1>0, TailFacts DEF ProxyTypes
<1>a. /\ \A n : About(F, n) <=> About(G, n) \/ F[1].call = n
      /\ OneAbout(F) => OneAbout(G) /\ (F[1].call # 0 => ~About(G, F[1].call))
  BY <1>f, AboutTail
<1>e. /\ \A p : \A i \in Nat : EndAfter(F, i + 1, p) => EndAfter(G, i, p)
      /\ \A p : EndAfter(F, 0, p) => EndAfter(G, 0, p) \/ (F[1].what \in EndKinds /\ F[1].arg = p)
      /\ \A n, p : JobTold(F, n, p) => JobTold(G, n, p) \/ (F[1].what = "job" /\ F[1].call = n /\ F[1].arg = p)
      /\ ToldOnce(F) => ToldOnce(G)
      /\ ToldOnce(F) /\ F[1].what = "job" => \A i \in 1 .. Len(G) : G[i].what = "job" => G[i].arg # F[1].arg
  BY <1>f, TellTail
<1>x. TellFits(D, P, C, F[1])
  BY <1>0, <1>f DEF TellsFit
<1>z. IsCalled(C, F[1].call) /\ F[1].call # 0 /\ F[1].what \notin EndKinds /\ F[1].what # "job" /\ About(F, F[1].call)
  BY <1>f, <1>a, <1>x DEF TellFits, AnswerKinds, EndKinds
<1>c. /\ B \in Seq(Calls) /\ Len(B) = Len(C) /\ Len(C) \in Nat /\ B[F[1].call].status # "called"
      /\ \A k \in 1 .. Len(C) : B[k].kind = C[k].kind /\ (k # F[1].call => B[k] = C[k])
  <2>1. C \in Seq(Calls) /\ C[F[1].call] \in Calls /\ F[1].call \in 1 .. Len(C)
    BY <1>0, <1>z DEF ProxyTypes, IsCalled
  <2> DEFINE c == [C[F[1].call] EXCEPT !.status = status]
  <2>2. c \in Calls /\ c.status = status /\ c.kind = C[F[1].call].kind
    BY <2>1 DEF Calls
  <2>3. B = [C EXCEPT ![F[1].call] = c]
    BY <1>f, <2>1
  <2> HIDE DEF c, B
  <2> QED BY <2>1, <2>2, <2>3
<1>d. /\ ~IsCalled(B, F[1].call)
      /\ \A k : k # F[1].call => (IsCalled(B, k) <=> IsCalled(C, k)) /\ (IsCalled(C, k) => B[k] = C[k])
  <2> HIDE DEF B
  <2> QED BY <1>c DEF IsCalled
<1> HIDE DEF B, G
<1>t. ProxyTypes(D, P, B, T, G)
  BY <1>0, <1>f, <1>a, <1>e, <1>x, <1>z, <1>c, <1>d DEF ProxyTypes
<1>p0. AsksFit(B, T)
  <2> SUFFICES ASSUME NEW i \in 1 .. Len(T) PROVE AskFits(B, T[i])
    BY DEF AsksFit
  <2>1. AskFits(C, T[i]) /\ About(T, T[i].call)
    BY <1>0 DEF AsksFit, About
  <2>2. T[i].call # F[1].call
    BY <1>0, <1>z, <2>1 DEF OneToken
  <2> QED BY <1>d, <2>1, <2>2 DEF AskFits
<1>p1. TellsFit(D, P, B, G)
  <2> SUFFICES ASSUME NEW i \in 1 .. Len(G) PROVE TellFits(D, P, B, G[i])
    BY DEF TellsFit
  <2>1. i + 1 \in 1 .. Len(F) /\ G[i] = F[i + 1]
    BY <1>f
  <2>2. TellFits(D, P, C, G[i]) /\ About(F, G[i].call) /\ About(G, G[i].call)
    BY <1>0, <2>1 DEF TellsFit, About
  <2>3. G[i].call # 0 => G[i].call # F[1].call
    BY <1>0, <1>a, <1>z, <2>2 DEF OneToken
  <2> QED BY <1>d, <2>2, <2>3 DEF TellFits
<1>p2. OneToken(P, T, G)
  BY <1>0, <1>f, <1>a, <1>e, <1>x, <1>z, <1>c, <1>d DEF OneToken
<1>p3. HasToken(P, B, T, G)
  BY <1>0, <1>a, <1>z, <1>c, <1>d DEF HasToken, IsCalled
<1>p4. PendingEnds(D, P, B, G)
  <2> SUFFICES ASSUME NEW p \in DOMAIN P, P[p] # 0 PROVE IsCalled(B, P[p]) /\ (D.job = p \/ EndAfter(G, 0, p))
    BY DEF PendingEnds
  <2>1. IsCalled(C, P[p]) /\ (D.job = p \/ EndAfter(F, 0, p))
    BY <1>0 DEF PendingEnds
  <2>2. P[p] # F[1].call
    BY <1>0, <1>z DEF OneToken
  <2> QED BY <1>d, <1>e, <1>z, <2>1, <2>2
<1>p5. ToldEnds(D, G)
  <2> SUFFICES ASSUME NEW i \in 1 .. Len(G), G[i].what = "job"
               PROVE  D.job = G[i].arg \/ EndAfter(G, i, G[i].arg)
    BY DEF ToldEnds
  <2>1. i \in Nat /\ i + 1 \in 1 .. Len(F) /\ G[i] = F[i + 1]
    BY <1>f
  <2>2. D.job = G[i].arg \/ EndAfter(F, i + 1, G[i].arg)
    BY <1>0, <2>1 DEF ToldEnds
  <2> QED BY <1>e, <2>1, <2>2
<1>p6. ToldOnce(G)
  BY <1>0, <1>e
<1>p7. JobOwned(D, P, B, G)
  <2> SUFFICES ASSUME D.job # 0 PROVE \E n : JobOwner(D, P, B, G, n)
    BY DEF JobOwned
  <2>1. PICK n : JobOwner(D, P, C, F, n)
    BY <1>0 DEF JobOwned
  <2>2. n # F[1].call
    <3>1. CASE D.job \in DOMAIN P /\ P[D.job] = n
      BY <1>0, <1>z, <3>1 DEF OneToken
    <3>2. CASE JobTold(F, n, D.job)
      <4>1. PICK i \in 1 .. Len(F) : F[i].what = "job" /\ F[i].call = n
        BY <3>2 DEF JobTold
      <4>2. i # 1
        BY <1>z, <4>1
      <4> QED BY <1>0, <1>f, <1>z, <4>1, <4>2 DEF OneToken, OneAbout
    <3> QED BY <2>1, <3>1, <3>2 DEF JobOwner
  <2>3. JobOwner(D, P, B, G, n)
    BY <1>d, <1>e, <1>z, <2>1, <2>2 DEF JobOwner
  <2> QED BY <2>3
<1>p8. OneOfKind(B)
  <2> SUFFICES ASSUME NEW k, NEW l, IsCalled(B, k), IsCalled(B, l), B[k].kind = B[l].kind PROVE k = l
    BY DEF OneOfKind
  <2>1. IsCalled(C, k) /\ IsCalled(C, l) /\ B[k] = C[k] /\ B[l] = C[l]
    BY <1>d
  <2> QED BY <1>0, <2>1 DEF OneOfKind
<1>q. ProxyFits(D, P, B, T, G)
  BY <1>t, <1>p0, <1>p1, <1>p2, <1>p3, <1>p4, <1>p5, <1>p6, <1>p7, <1>p8 DEF ProxyFits
<1> QED BY <1>q DEF B, G

\* The path of the job of a call is remembered.
LEMMA JobHeard ==
  ASSUME NEW D, NEW P, NEW C, NEW T, NEW F, ProxyFits(D, P, C, T, F),
         F # <<>>,
         Head(F).what = "job"
  PROVE  ProxyFits(D, [p \in DOMAIN P \cup {Head(F).arg} |-> IF p = Head(F).arg THEN Head(F).call ELSE P[p]], C, T, Tail(F))
<1> DEFINE Q == [p \in DOMAIN P \cup {Head(F).arg} |-> IF p = Head(F).arg THEN Head(F).call ELSE P[p]]
           G == Tail(F)
<1>0. /\ ProxyTypes(D, P, C, T, F) /\ AsksFit(C, T) /\ TellsFit(D, P, C, F) /\ OneToken(P, T, F)
      /\ HasToken(P, C, T, F) /\ PendingEnds(D, P, C, F) /\ ToldEnds(D, F) /\ ToldOnce(F)
      /\ JobOwned(D, P, C, F) /\ OneOfKind(C)
  BY DEF ProxyFits
<1>f. /\ F \in Seq(Tells) /\ G \in Seq(Tells) /\ Len(F) \in Nat \ {0} /\ Len(G) = Len(F) - 1
      /\ \A i \in 1 .. Len(G) : G[i] = F[i + 1]
      /\ F[1] \in Tells /\ Head(F) = F[1]
  BY <1>0, TailFacts DEF ProxyTypes
<1>a. /\ \A n : About(F, n) <=> About(G, n) \/ F[1].call = n
      /\ OneAbout(F) => OneAbout(G) /\ (F[1].call # 0 => ~About(G, F[1].call))
  BY <1>f, AboutTail
<1>e. /\ \A p : \A i \in Nat : EndAfter(F, i + 1, p) => EndAfter(G, i, p)
      /\ \A p : EndAfter(F, 0, p) => EndAfter(G, 0, p) \/ (F[1].what \in EndKinds /\ F[1].arg = p)
      /\ \A n, p : JobTold(F, n, p) => JobTold(G, n, p) \/ (F[1].what = "job" /\ F[1].call = n /\ F[1].arg = p)
      /\ ToldOnce(F) => ToldOnce(G)
      /\ ToldOnce(F) /\ F[1].what = "job" => \A i \in 1 .. Len(G) : G[i].what = "job" => G[i].arg # F[1].arg
  BY <1>f, TellTail
<1>x. TellFits(D, P, C, F[1])
  BY <1>0, <1>f DEF TellsFit
<1>z. /\ IsCalled(C, F[1].call) /\ F[1].call \in Nat \ {0} /\ F[1].what = "job" /\ F[1].what \notin EndKinds
      /\ About(F, F[1].call) /\ F[1].arg \in 1 .. D.jobs /\ F[1].arg \notin DOMAIN P
  BY <1>f, <1>a, <1>x DEF TellFits, IsCalled, EndKinds
<1>g. DOMAIN Q = DOMAIN P \cup {F[1].arg} /\ Q[F[1].arg] = F[1].call /\ \A p \in DOMAIN P : Q[p] = P[p]
  BY <1>f, <1>z
<1> HIDE DEF Q, G
<1>t. ProxyTypes(D, Q, C, T, G)
  BY <1>0, <1>f, <1>a, <1>e, <1>x, <1>z, <1>g DEF ProxyTypes
<1>p0. AsksFit(C, T)
  BY <1>0
<1>p1. TellsFit(D, Q, C, G)
  <2> SUFFICES ASSUME NEW i \in 1 .. Len(G) PROVE TellFits(D, Q, C, G[i])
    BY DEF TellsFit
  <2>1. i + 1 \in 1 .. Len(F) /\ G[i] = F[i + 1]
    BY <1>f
  <2>2. TellFits(D, P, C, G[i])
    BY <1>0, <2>1 DEF TellsFit
  <2>3. G[i].what = "job" => G[i].arg # F[1].arg
    BY <1>0, <1>e, <1>z
  <2> QED BY <1>g, <2>2, <2>3 DEF TellFits
<1>p2. OneToken(Q, T, G)
  <2>1. OneAbout(G) /\ ~About(G, F[1].call) /\ \A n : About(G, n) => About(F, n)
    BY <1>0, <1>a, <1>z DEF OneToken
  <2>2. \A p, q \in DOMAIN Q : Q[p] = Q[q] /\ Q[p] # 0 => p = q
    BY <1>0, <1>g, <1>z DEF OneToken
  <2>3. \A p \in DOMAIN Q : Q[p] # 0 => ~About(T, Q[p]) /\ ~About(G, Q[p])
    BY <1>0, <1>g, <1>z, <2>1 DEF OneToken
  <2> QED BY <1>0, <2>1, <2>2, <2>3 DEF OneToken
<1>p3. HasToken(Q, C, T, G)
  BY <1>0, <1>f, <1>a, <1>e, <1>x, <1>z, <1>g DEF HasToken
<1>p4. PendingEnds(D, Q, C, G)
  <2> SUFFICES ASSUME NEW p \in DOMAIN Q, Q[p] # 0 PROVE IsCalled(C, Q[p]) /\ (D.job = p \/ EndAfter(G, 0, p))
    BY DEF PendingEnds
  <2>1. CASE p = F[1].arg
    <3>1. 1 \in 1 .. Len(F) /\ 0 \in Nat /\ 0 + 1 = 1
      BY <1>f
    <3>2. D.job = p \/ EndAfter(F, 1, p)
      BY <1>0, <1>z, <2>1, <3>1 DEF ToldEnds
    <3>3. D.job = p \/ EndAfter(G, 0, p)
      BY <1>e, <3>1, <3>2
    <3> QED BY <1>z, <1>g, <2>1, <3>3
  <2>2. CASE p # F[1].arg
    BY <1>0, <1>e, <1>g, <1>z, <2>2 DEF PendingEnds
  <2> QED BY <2>1, <2>2
<1>p5. ToldEnds(D, G)
  <2> SUFFICES ASSUME NEW i \in 1 .. Len(G), G[i].what = "job"
               PROVE  D.job = G[i].arg \/ EndAfter(G, i, G[i].arg)
    BY DEF ToldEnds
  <2>1. i \in Nat /\ i + 1 \in 1 .. Len(F) /\ G[i] = F[i + 1]
    BY <1>f
  <2>2. D.job = G[i].arg \/ EndAfter(F, i + 1, G[i].arg)
    BY <1>0, <2>1 DEF ToldEnds
  <2> QED BY <1>e, <2>1, <2>2
<1>p6. ToldOnce(G)
  BY <1>0, <1>e
<1>p7. JobOwned(D, Q, C, G)
  <2> SUFFICES ASSUME D.job # 0 PROVE \E n : JobOwner(D, Q, C, G, n)
    BY DEF JobOwned
  <2>1. PICK n : JobOwner(D, P, C, F, n)
    BY <1>0 DEF JobOwned
  <2>2. JobOwner(D, Q, C, G, n)
    BY <1>e, <1>g, <2>1 DEF JobOwner
  <2> QED BY <2>2
<1>p8. OneOfKind(C)
  BY <1>0
<1>q. ProxyFits(D, Q, C, T, G)
  BY <1>t, <1>p0, <1>p1, <1>p2, <1>p3, <1>p4, <1>p5, <1>p6, <1>p7, <1>p8 DEF ProxyFits
<1> QED BY <1>q DEF Q, G

\* The end of a job settles the call that waits for it.
LEMMA EndHeard ==
  ASSUME NEW D, NEW P, NEW C, NEW T, NEW F, NEW status \in {"resolved", "rejected"}, ProxyFits(D, P, C, T, F),
         F # <<>>,
         Head(F).what \in EndKinds,
         Head(F).arg \in DOMAIN P,
         P[Head(F).arg] # 0
  PROVE  ProxyFits(D, [P EXCEPT ![Head(F).arg] = 0], [C EXCEPT ![P[Head(F).arg]].status = status], T, Tail(F))
<1> DEFINE Q == [P EXCEPT ![Head(F).arg] = 0]
           B == [C EXCEPT ![P[Head(F).arg]].status = status]
           G == Tail(F)
<1>0. /\ ProxyTypes(D, P, C, T, F) /\ AsksFit(C, T) /\ TellsFit(D, P, C, F) /\ OneToken(P, T, F)
      /\ HasToken(P, C, T, F) /\ PendingEnds(D, P, C, F) /\ ToldEnds(D, F) /\ ToldOnce(F)
      /\ JobOwned(D, P, C, F) /\ OneOfKind(C)
  BY DEF ProxyFits
<1>f. /\ F \in Seq(Tells) /\ G \in Seq(Tells) /\ Len(F) \in Nat \ {0} /\ Len(G) = Len(F) - 1
      /\ \A i \in 1 .. Len(G) : G[i] = F[i + 1]
      /\ F[1] \in Tells /\ Head(F) = F[1]
  BY <1>0, TailFacts DEF ProxyTypes
<1>a. /\ \A n : About(F, n) <=> About(G, n) \/ F[1].call = n
      /\ OneAbout(F) => OneAbout(G) /\ (F[1].call # 0 => ~About(G, F[1].call))
  BY <1>f, AboutTail
<1>e. /\ \A p : \A i \in Nat : EndAfter(F, i + 1, p) => EndAfter(G, i, p)
      /\ \A p : EndAfter(F, 0, p) => EndAfter(G, 0, p) \/ (F[1].what \in EndKinds /\ F[1].arg = p)
      /\ \A n, p : JobTold(F, n, p) => JobTold(G, n, p) \/ (F[1].what = "job" /\ F[1].call = n /\ F[1].arg = p)
      /\ ToldOnce(F) => ToldOnce(G)
      /\ ToldOnce(F) /\ F[1].what = "job" => \A i \in 1 .. Len(G) : G[i].what = "job" => G[i].arg # F[1].arg
  BY <1>f, TellTail
<1>x. TellFits(D, P, C, F[1])
  BY <1>0, <1>f DEF TellsFit
<1>z. /\ IsCalled(C, P[F[1].arg]) /\ P[F[1].arg] # 0 /\ F[1].call = 0 /\ F[1].what # "job"
      /\ F[1].arg # D.job /\ F[1].arg \in DOMAIN P
  <2>1. F[1].call = 0 /\ F[1].what # "job" /\ F[1].arg # D.job
    BY <1>f, <1>x DEF TellFits, EndKinds, AnswerKinds
  <2> QED BY <1>0, <1>f, <2>1 DEF PendingEnds
<1>c. /\ B \in Seq(Calls) /\ Len(B) = Len(C) /\ Len(C) \in Nat /\ B[P[F[1].arg]].status # "called"
      /\ \A k \in 1 .. Len(C) : B[k].kind = C[k].kind /\ (k # P[F[1].arg] => B[k] = C[k])
  <2>1. C \in Seq(Calls) /\ C[P[F[1].arg]] \in Calls /\ P[F[1].arg] \in 1 .. Len(C)
    BY <1>0, <1>z DEF ProxyTypes, IsCalled
  <2> DEFINE c == [C[P[F[1].arg]] EXCEPT !.status = status]
  <2>2. c \in Calls /\ c.status = status /\ c.kind = C[P[F[1].arg]].kind
    BY <2>1 DEF Calls
  <2>3. B = [C EXCEPT ![P[F[1].arg]] = c]
    BY <1>f, <2>1
  <2> HIDE DEF c, B
  <2> QED BY <2>1, <2>2, <2>3
<1>d. /\ ~IsCalled(B, P[F[1].arg])
      /\ \A k : k # P[F[1].arg] => (IsCalled(B, k) <=> IsCalled(C, k)) /\ (IsCalled(C, k) => B[k] = C[k])
  <2> HIDE DEF B
  <2> QED BY <1>c DEF IsCalled
<1>g. DOMAIN Q = DOMAIN P /\ Q[F[1].arg] = 0 /\ \A p \in DOMAIN P : p # F[1].arg => Q[p] = P[p] /\ P[p] # P[F[1].arg]
  <2>1. \A p \in DOMAIN P : p # F[1].arg => P[p] # P[F[1].arg]
    BY <1>0, <1>z DEF OneToken
  <2> QED BY <1>f, <1>z, <2>1
<1> HIDE DEF Q, B, G
<1>t. ProxyTypes(D, Q, B, T, G)
  BY <1>0, <1>c, <1>f, <1>g DEF ProxyTypes
<1>p0. AsksFit(B, T)
  <2> SUFFICES ASSUME NEW i \in 1 .. Len(T) PROVE AskFits(B, T[i])
    BY DEF AsksFit
  <2>1. AskFits(C, T[i]) /\ About(T, T[i].call)
    BY <1>0 DEF AsksFit, About
  <2>2. T[i].call # P[F[1].arg]
    BY <1>0, <1>z, <2>1 DEF OneToken
  <2> QED BY <1>d, <2>1, <2>2 DEF AskFits
<1>p1. TellsFit(D, Q, B, G)
  <2> SUFFICES ASSUME NEW i \in 1 .. Len(G) PROVE TellFits(D, Q, B, G[i])
    BY DEF TellsFit
  <2>1. i + 1 \in 1 .. Len(F) /\ G[i] = F[i + 1]
    BY <1>f
  <2>2. TellFits(D, P, C, G[i]) /\ About(F, G[i].call) /\ About(G, G[i].call)
    BY <1>0, <2>1 DEF TellsFit, About
  <2>3. G[i].call # 0 => G[i].call # P[F[1].arg]
    BY <1>0, <1>a, <1>z, <2>2 DEF OneToken
  <2> QED BY <1>d, <2>2, <2>3, <1>g DEF TellFits
<1>p2. OneToken(Q, T, G)
  <2>1. OneAbout(G) /\ \A n : About(G, n) => About(F, n)
    BY <1>0, <1>a DEF OneToken
  <2> QED BY <1>0, <1>g, <2>1 DEF OneToken
<1>p3. HasToken(Q, B, T, G)
  BY <1>0, <1>a, <1>z, <1>c, <1>d, <1>g DEF HasToken, IsCalled
<1>p4. PendingEnds(D, Q, B, G)
  <2> SUFFICES ASSUME NEW p \in DOMAIN Q, Q[p] # 0 PROVE IsCalled(B, Q[p]) /\ (D.job = p \/ EndAfter(G, 0, p))
    BY DEF PendingEnds
  <2>1. p # F[1].arg /\ p \in DOMAIN P /\ Q[p] = P[p] /\ P[p] # P[F[1].arg]
    BY <1>g
  <2>2. IsCalled(C, P[p]) /\ (D.job = p \/ EndAfter(F, 0, p))
    BY <1>0, <2>1 DEF PendingEnds
  <2> QED BY <1>d, <1>e, <2>1, <2>2
<1>p5. ToldEnds(D, G)
  <2> SUFFICES ASSUME NEW i \in 1 .. Len(G), G[i].what = "job"
               PROVE  D.job = G[i].arg \/ EndAfter(G, i, G[i].arg)
    BY DEF ToldEnds
  <2>1. i \in Nat /\ i + 1 \in 1 .. Len(F) /\ G[i] = F[i + 1]
    BY <1>f
  <2>2. D.job = G[i].arg \/ EndAfter(F, i + 1, G[i].arg)
    BY <1>0, <2>1 DEF ToldEnds
  <2> QED BY <1>e, <2>1, <2>2
<1>p6. ToldOnce(G)
  BY <1>0, <1>e
<1>p7. JobOwned(D, Q, B, G)
  <2> SUFFICES ASSUME D.job # 0 PROVE \E n : JobOwner(D, Q, B, G, n)
    BY DEF JobOwned
  <2>1. PICK n : JobOwner(D, P, C, F, n)
    BY <1>0 DEF JobOwned
  <2>2. n # P[F[1].arg]
    <3>1. CASE D.job \in DOMAIN P /\ P[D.job] = n
      BY <1>g, <1>z, <3>1
    <3>2. CASE JobTold(F, n, D.job)
      <4>1. About(F, n)
        BY <3>2 DEF JobTold, About
      <4> QED BY <1>0, <1>z, <4>1 DEF OneToken
    <3> QED BY <2>1, <3>1, <3>2 DEF JobOwner
  <2>3. JobOwner(D, Q, B, G, n)
    BY <1>d, <1>e, <1>g, <1>z, <2>1, <2>2 DEF JobOwner
  <2> QED BY <2>3
<1>p8. OneOfKind(B)
  <2> SUFFICES ASSUME NEW k, NEW l, IsCalled(B, k), IsCalled(B, l), B[k].kind = B[l].kind PROVE k = l
    BY DEF OneOfKind
  <2>1. IsCalled(C, k) /\ IsCalled(C, l) /\ B[k] = C[k] /\ B[l] = C[l]
    BY <1>d
  <2> QED BY <1>0, <2>1 DEF OneOfKind
<1>q. ProxyFits(D, Q, B, T, G)
  BY <1>t, <1>p0, <1>p1, <1>p2, <1>p3, <1>p4, <1>p5, <1>p6, <1>p7, <1>p8 DEF ProxyFits
<1> QED BY <1>q DEF Q, B, G

LEMMA EndIgnored ==
  ASSUME NEW D, NEW P, NEW C, NEW T, NEW F, ProxyFits(D, P, C, T, F),
         F # <<>>,
         Head(F).what \in EndKinds,
         Head(F).arg \notin DOMAIN P \/ P[Head(F).arg] = 0
  PROVE  ProxyFits(D, P, C, T, Tail(F))
<1> DEFINE G == Tail(F)
<1>0. /\ ProxyTypes(D, P, C, T, F) /\ AsksFit(C, T) /\ TellsFit(D, P, C, F) /\ OneToken(P, T, F)
      /\ HasToken(P, C, T, F) /\ PendingEnds(D, P, C, F) /\ ToldEnds(D, F) /\ ToldOnce(F)
      /\ JobOwned(D, P, C, F) /\ OneOfKind(C)
  BY DEF ProxyFits
<1>f. /\ F \in Seq(Tells) /\ G \in Seq(Tells) /\ Len(F) \in Nat \ {0} /\ Len(G) = Len(F) - 1
      /\ \A i \in 1 .. Len(G) : G[i] = F[i + 1]
      /\ F[1] \in Tells /\ Head(F) = F[1]
  BY <1>0, TailFacts DEF ProxyTypes
<1>a. /\ \A n : About(F, n) <=> About(G, n) \/ F[1].call = n
      /\ OneAbout(F) => OneAbout(G) /\ (F[1].call # 0 => ~About(G, F[1].call))
  BY <1>f, AboutTail
<1>e. /\ \A p : \A i \in Nat : EndAfter(F, i + 1, p) => EndAfter(G, i, p)
      /\ \A p : EndAfter(F, 0, p) => EndAfter(G, 0, p) \/ (F[1].what \in EndKinds /\ F[1].arg = p)
      /\ \A n, p : JobTold(F, n, p) => JobTold(G, n, p) \/ (F[1].what = "job" /\ F[1].call = n /\ F[1].arg = p)
      /\ ToldOnce(F) => ToldOnce(G)
      /\ ToldOnce(F) /\ F[1].what = "job" => \A i \in 1 .. Len(G) : G[i].what = "job" => G[i].arg # F[1].arg
  BY <1>f, TellTail
<1>x. TellFits(D, P, C, F[1])
  BY <1>0, <1>f DEF TellsFit
<1>z. /\ F[1].call = 0 /\ F[1].what # "job" /\ F[1].arg # D.job
      /\ F[1].arg \notin DOMAIN P \/ P[F[1].arg] = 0
  BY <1>f, <1>x DEF TellFits, EndKinds, AnswerKinds
<1> HIDE DEF G
<1>t. ProxyTypes(D, P, C, T, G)
  BY <1>0, <1>f, <1>a, <1>e, <1>x, <1>z DEF ProxyTypes
<1>p0. AsksFit(C, T)
  BY <1>0
<1>p1. TellsFit(D, P, C, G)
  BY <1>0, <1>f, <1>a, <1>e, <1>x, <1>z DEF TellsFit
<1>p2. OneToken(P, T, G)
  BY <1>0, <1>f, <1>a, <1>e, <1>x, <1>z DEF OneToken
<1>p3. HasToken(P, C, T, G)
  BY <1>0, <1>f, <1>a, <1>e, <1>x, <1>z DEF HasToken
<1>p4. PendingEnds(D, P, C, G)
  BY <1>0, <1>f, <1>a, <1>e, <1>x, <1>z DEF PendingEnds
<1>p5. ToldEnds(D, G)
  <2> SUFFICES ASSUME NEW i \in 1 .. Len(G), G[i].what = "job"
               PROVE  D.job = G[i].arg \/ EndAfter(G, i, G[i].arg)
    BY DEF ToldEnds
  <2>1. i \in Nat /\ i + 1 \in 1 .. Len(F) /\ G[i] = F[i + 1]
    BY <1>f
  <2>2. D.job = G[i].arg \/ EndAfter(F, i + 1, G[i].arg)
    BY <1>0, <2>1 DEF ToldEnds
  <2> QED BY <1>e, <2>1, <2>2
<1>p6. ToldOnce(G)
  BY <1>0, <1>e
<1>p7. JobOwned(D, P, C, G)
  BY <1>0, <1>f, <1>a, <1>e, <1>x, <1>z DEF JobOwned, JobOwner
<1>p8. OneOfKind(C)
  BY <1>0
<1>q. ProxyFits(D, P, C, T, G)
  BY <1>t, <1>p0, <1>p1, <1>p2, <1>p3, <1>p4, <1>p5, <1>p6, <1>p7, <1>p8 DEF ProxyFits
<1> QED BY <1>q DEF G

\* A new call, of a kind of which none is waited for.
LEMMA CallMade ==
  ASSUME NEW D, NEW P, NEW C, NEW T, NEW F, NEW r \in Asks, NEW c \in Calls, ProxyFits(D, P, C, T, F),
         c.status = "called",
         r.what = c.kind,
         r.call = Len(C) + 1,
         ~\E n \in 1 .. Len(C) : C[n] = c
  PROVE  ProxyFits(D, P, Append(C, c), Append(T, r), F)
<1> DEFINE B == Append(C, c)
           S == Append(T, r)
<1>0. /\ ProxyTypes(D, P, C, T, F) /\ AsksFit(C, T) /\ TellsFit(D, P, C, F) /\ OneToken(P, T, F)
      /\ HasToken(P, C, T, F) /\ PendingEnds(D, P, C, F) /\ ToldEnds(D, F) /\ ToldOnce(F)
      /\ JobOwned(D, P, C, F) /\ OneOfKind(C)
  BY DEF ProxyFits
<1>r. r \in Asks /\ r.call = Len(C) + 1 /\ Len(C) \in Nat
  BY <1>0 DEF ProxyTypes
<1>s. /\ T \in Seq(Asks) /\ S \in Seq(Asks) /\ Len(T) \in Nat /\ Len(S) = Len(T) + 1 /\ S[Len(T) + 1] = r
      /\ \A i \in 1 .. Len(T) : S[i] = T[i]
  BY <1>0, <1>r, AppendFacts DEF ProxyTypes
<1>b. /\ \A n : About(S, n) <=> About(T, n) \/ r.call = n
      /\ OneAbout(T) /\ (r.call = 0 \/ ~About(T, r.call)) => OneAbout(S)
  BY <1>r, <1>s, AboutAppended
<1>c. /\ B \in Seq(Calls) /\ Len(B) = Len(C) + 1 /\ B[Len(C) + 1] = c
      /\ \A k \in 1 .. Len(C) : B[k] = C[k]
  BY <1>0, AppendFacts DEF ProxyTypes
<1>d. /\ IsCalled(B, Len(C) + 1)
      /\ \A k : IsCalled(B, k) <=> IsCalled(C, k) \/ k = Len(C) + 1
      /\ \A k : IsCalled(C, k) => B[k] = C[k] /\ k # Len(C) + 1 /\ C[k].kind # c.kind
  <2>1. ASSUME NEW k \in 1 .. Len(C), C[k].status = "called", C[k].kind = c.kind PROVE FALSE
    <3>1. C[k] \in Calls
      BY <1>0 DEF ProxyTypes
    <3>2. C[k] = c
      BY <2>1, <3>1 DEF Calls
    <3> QED BY <3>2
  <2> HIDE DEF B
  <2> QED BY <1>r, <1>c, <2>1 DEF IsCalled
<1>h. /\ ~About(T, Len(C) + 1) /\ ~About(F, Len(C) + 1) /\ \A p \in DOMAIN P : P[p] # Len(C) + 1
  <2>1. \A i \in 1 .. Len(T) : T[i].call # Len(C) + 1
    BY <1>0, <1>r DEF AsksFit, AskFits, IsCalled
  <2>2. \A i \in 1 .. Len(F) : F[i].call # Len(C) + 1
    BY <1>0, <1>r DEF TellsFit, TellFits, IsCalled
  <2>3. \A p \in DOMAIN P : P[p] # Len(C) + 1
    BY <1>0, <1>r DEF PendingEnds, IsCalled
  <2> QED BY <2>1, <2>2, <2>3 DEF About
<1> HIDE DEF B, S
<1>t. ProxyTypes(D, P, B, S, F)
  BY <1>0, <1>r, <1>s, <1>b, <1>c, <1>d, <1>h DEF ProxyTypes
<1>p0. AsksFit(B, S)
  <2> SUFFICES ASSUME NEW i \in 1 .. Len(S) PROVE AskFits(B, S[i])
    BY DEF AsksFit
  <2>1. CASE i = Len(T) + 1
    <3>1. r.what \in JobKinds \cup FileKinds /\ B[r.call].kind = r.what
      BY <1>c, <1>r DEF Calls
    <3> QED BY <1>d, <1>r, <1>s, <2>1, <3>1 DEF AskFits
  <2>2. CASE i \in 1 .. Len(T)
    <3>1. S[i] = T[i] /\ AskFits(C, T[i])
      BY <1>0, <1>s, <2>2 DEF AsksFit
    <3> QED BY <1>d, <3>1 DEF AskFits
  <2> QED BY <1>s, <2>1, <2>2
<1>p1. TellsFit(D, P, B, F)
  <2> SUFFICES ASSUME NEW i \in 1 .. Len(F) PROVE TellFits(D, P, B, F[i])
    BY DEF TellsFit
  <2>1. TellFits(D, P, C, F[i])
    BY <1>0 DEF TellsFit
  <2> QED BY <1>d, <2>1 DEF TellFits
<1>p2. OneToken(P, S, F)
  BY <1>0, <1>b, <1>h, <1>r DEF OneToken
<1>p3. HasToken(P, B, S, F)
  BY <1>0, <1>r, <1>b, <1>c DEF HasToken
<1>p4. PendingEnds(D, P, B, F)
  BY <1>0, <1>d DEF PendingEnds
<1>p5. ToldEnds(D, F)
  BY <1>0
<1>p6. ToldOnce(F)
  BY <1>0
<1>p7. JobOwned(D, P, B, F)
  BY <1>0, <1>r, <1>s, <1>b, <1>c, <1>d, <1>h DEF JobOwned, JobOwner
<1>p8. OneOfKind(B)
  BY <1>0, <1>r, <1>s, <1>b, <1>c, <1>d, <1>h DEF OneOfKind
<1>q. ProxyFits(D, P, B, S, F)
  BY <1>t, <1>p0, <1>p1, <1>p2, <1>p3, <1>p4, <1>p5, <1>p6, <1>p7, <1>p8 DEF ProxyFits
<1> QED BY <1>q DEF B, S

LEMMA ProxyStarts ==
  ASSUME ServiceProxyInit PROVE ProxyInv
<1>1. /\ sysd \in Sysd /\ sysd.job = 0 /\ sysd.jobs = 0
      /\ sproxy.pending = <<>> /\ scall = <<>> /\ fromSystemd = <<>>
      /\ toSystemd = <<AskSystemd("load", 0)>>
  BY DEF ServiceProxyInit, Sysd, JobKinds
<1>2. /\ toSystemd \in Seq(Asks) /\ Len(toSystemd) = 1 /\ toSystemd[1] = AskSystemd("load", 0)
      /\ toSystemd[1].what = "load" /\ toSystemd[1].call = 0
  BY <1>1 DEF AskSystemd, Asks
<1>3. ProxyTypes(sysd, sproxy.pending, scall, toSystemd, fromSystemd)
  BY <1>1, <1>2 DEF ProxyTypes
<1>4. AsksFit(scall, toSystemd)
  BY <1>2 DEF AsksFit, AskFits
<1>5. OneToken(sproxy.pending, toSystemd, fromSystemd)
  BY <1>1, <1>2 DEF OneToken, OneAbout, About
<1>6. /\ TellsFit(sysd, sproxy.pending, scall, fromSystemd)
      /\ HasToken(sproxy.pending, scall, toSystemd, fromSystemd)
      /\ PendingEnds(sysd, sproxy.pending, scall, fromSystemd)
      /\ ToldEnds(sysd, fromSystemd) /\ ToldOnce(fromSystemd)
      /\ JobOwned(sysd, sproxy.pending, scall, fromSystemd) /\ OneOfKind(scall)
  BY <1>1 DEF TellsFit, HasToken, PendingEnds, ToldEnds, ToldOnce, JobOwned, OneOfKind, IsCalled
<1>7. DOMAIN sproxy = {"exists", "known", "data", "pending"}
  BY DEF ServiceProxyInit
<1> QED BY <1>3, <1>4, <1>5, <1>6, <1>7 DEF ProxyInv, ProxyFits

LEMMA ProxyCalls ==
  ASSUME ~Overlap, ProxyInv, NEW kind \in JobKinds \cup FileKinds, CallProxy(kind)
  PROVE  ProxyInv'
<1> DEFINE c == [kind |-> kind, status |-> "called"]
           r == AskSystemd(kind, Len(scall) + 1)
<1>1. scall \in Seq(Calls) /\ Len(scall) \in Nat /\ DOMAIN scall = 1 .. Len(scall)
  BY DEF ProxyInv, ProxyFits, ProxyTypes
<1>2. c \in Calls /\ c.status = "called" /\ c.kind = kind
  BY DEF Calls
<1>3. r \in Asks /\ r.what = c.kind /\ r.call = Len(scall) + 1
  BY <1>1 DEF AskSystemd, Asks
<1>4. /\ ~\E n \in 1 .. Len(scall) : scall[n] = c
      /\ scall' = Append(scall, c) /\ toSystemd' = Append(toSystemd, r)
      /\ sysd' = sysd /\ sproxy' = sproxy /\ fromSystemd' = fromSystemd
  BY <1>1 DEF CallProxy
<1> HIDE DEF c, r
<1>5. ProxyFits(sysd, sproxy.pending, Append(scall, c), Append(toSystemd, r), fromSystemd)
  BY <1>2, <1>3, <1>4, CallMade DEF ProxyInv
<1> QED BY <1>4, <1>5 DEF ProxyInv

\* refresh() asks for all properties, or does nothing.
LEMMA Refreshed ==
  ASSUME NEW D, NEW P, NEW C, NEW F, ProxyFits(D, P, C, toSystemd, F)
  PROVE  ProxyFits(D, P, C, toSystemd \o RefreshProxy, F)
<1> DEFINE r == AskSystemd("getall", 0)
<1>1. r \in Asks /\ r.what = "getall" /\ r.call = 0
  BY DEF AskSystemd, Asks
<1>2. toSystemd \in Seq(Asks)
  BY DEF ProxyFits, ProxyTypes
<1>3. CASE sproxy.exists = "yes"
  <2>1. RefreshProxy = <<r>>
    BY <1>3 DEF RefreshProxy
  <2> HIDE DEF r
  <2>2. toSystemd \o RefreshProxy = Append(toSystemd, r)
    BY <1>1, <1>2, <2>1, AppendIsConcat
  <2>3. ProxyFits(D, P, C, Append(toSystemd, r), F)
    BY <1>1, NoiseAsked
  <2> QED BY <2>2, <2>3
<1>4. CASE sproxy.exists # "yes"
  <2>1. toSystemd \o RefreshProxy = toSystemd
    BY <1>2, <1>4, ConcatEmptySeq DEF RefreshProxy
  <2> QED BY <2>1
<1> QED BY <1>3, <1>4

LEMMA ProxyHears ==
  ASSUME ProxyInv, ProxyReceives PROVE ProxyInv'
<1> DEFINE m == Head(fromSystemd)
           n == m.call
           P == sproxy.pending
           G == Tail(fromSystemd)
<1>1. ProxyFits(sysd, P, scall, toSystemd, fromSystemd) /\ fromSystemd # <<>> /\ fromSystemd' = G /\ sysd' = sysd
  BY DEF ProxyInv, ProxyReceives
<1>d. DOMAIN sproxy = {"exists", "known", "data", "pending"}
  BY DEF ProxyInv
<1>2. m \in Tells /\ TellFits(sysd, P, scall, m)
  <2>1. fromSystemd \in Seq(Tells) /\ TellsFit(sysd, P, scall, fromSystemd)
    BY <1>1 DEF ProxyFits, ProxyTypes
  <2>2. m = fromSystemd[1] /\ 1 \in 1 .. Len(fromSystemd) /\ fromSystemd[1] \in Tells
    BY <1>1, <2>1
  <2> QED BY <2>1, <2>2 DEF TellsFit
<1>8. m.what \in NoiseKinds \cup EndKinds \cup {"job", "installed", "ok", "noreply", "error"}
  BY <1>2 DEF Tells, NoiseKinds, EndKinds, AnswerKinds
<1>e. DOMAIN sproxy' = DOMAIN sproxy
  BY <1>d, <1>8 DEF ProxyReceives, UpdateFromUnit, RememberJob, JobRemoved, NoiseKinds, EndKinds
<1>3. CASE m.what \in NoiseKinds
  <2>1. ProxyFits(sysd, P, scall, toSystemd, G)
    BY <1>1, <1>3, NoiseHeard
  <2>2. sproxy'.pending = P /\ scall' = scall
    <3>1. CASE m.what = "loaded"
      BY <1>d, <3>1 DEF ProxyReceives
    <3>2. CASE m.what = "notloaded"
      BY <1>d, <3>2 DEF ProxyReceives
    <3>3. CASE m.what = "props"
      BY <1>d, <3>3 DEF ProxyReceives, UpdateFromUnit
    <3>4. CASE m.what = "active"
      BY <1>d, <3>4 DEF ProxyReceives, UpdateFromUnit
    <3>5. CASE m.what \in {"new", "reloaded"}
      BY <3>5 DEF ProxyReceives
    <3> QED BY <1>3, <3>1, <3>2, <3>3, <3>4, <3>5 DEF NoiseKinds
  <2>3. \/ toSystemd' = toSystemd \/ toSystemd' = toSystemd \o RefreshProxy
        \/ toSystemd' = Append(toSystemd, AskSystemd("watch", 0))
    BY <1>3 DEF ProxyReceives, NoiseKinds
  <2>4. ProxyFits(sysd, P, scall, toSystemd \o RefreshProxy, G)
    BY <2>1, Refreshed
  <2>5. ProxyFits(sysd, P, scall, Append(toSystemd, AskSystemd("watch", 0)), G)
    <3> DEFINE r == AskSystemd("watch", 0)
    <3>1. r \in Asks /\ r.what = "watch" /\ r.call = 0
      BY DEF AskSystemd, Asks
    <3> HIDE DEF r
    <3>2. ProxyFits(sysd, P, scall, Append(toSystemd, r), G)
      BY <2>1, <3>1, NoiseAsked
    <3> QED BY <3>2 DEF r
  <2> QED BY <1>1, <1>d, <1>e, <2>1, <2>2, <2>3, <2>4, <2>5 DEF ProxyInv
<1>4. CASE m.what \in EndKinds
  <2>1. toSystemd' = toSystemd \o RefreshProxy /\ JobRemoved(m)
    BY <1>4 DEF ProxyReceives, EndKinds
  <2>2. CASE m.arg \in DOMAIN P /\ P[m.arg] # 0
    <3> DEFINE status == IF m.what = "done" THEN "resolved" ELSE "rejected"
    <3>1. scall' = [scall EXCEPT ![P[m.arg]].status = status] /\ sproxy' = [sproxy EXCEPT !.pending[m.arg] = 0]
      BY <2>1, <2>2 DEF JobRemoved, SettleCall
    <3>2. sproxy'.pending = [P EXCEPT ![m.arg] = 0]
      BY <3>1
    <3>3. status \in {"resolved", "rejected"}
      OBVIOUS
    <3> HIDE DEF status
    <3>4. ProxyFits(sysd, [P EXCEPT ![m.arg] = 0], [scall EXCEPT ![P[m.arg]].status = status], toSystemd, G)
      BY <1>1, <1>4, <2>2, <3>3, EndHeard
    <3>5. ProxyFits(sysd, sproxy'.pending, scall', toSystemd \o RefreshProxy, G)
      BY <3>1, <3>2, <3>4, Refreshed
    <3> QED BY <1>1, <1>d, <1>e, <2>1, <3>5 DEF ProxyInv
  <2>3. CASE ~(m.arg \in DOMAIN P /\ P[m.arg] # 0)
    <3>1. scall' = scall /\ sproxy' = sproxy
      BY <2>1, <2>3 DEF JobRemoved
    <3>2. ProxyFits(sysd, P, scall, toSystemd, G)
      BY <1>1, <1>4, <2>3, EndIgnored
    <3>3. ProxyFits(sysd, P, scall, toSystemd \o RefreshProxy, G)
      BY <3>2, Refreshed
    <3> QED BY <1>1, <1>d, <1>e, <2>1, <3>1, <3>3 DEF ProxyInv
  <2> QED BY <2>2, <2>3
<1>5. CASE m.what = "job"
  <2>1. sproxy' = RememberJob(n, m.arg) /\ scall' = scall /\ toSystemd' = toSystemd
    BY <1>5 DEF ProxyReceives
  <2>2. sproxy'.pending = [p \in DOMAIN P \cup {m.arg} |-> IF p = m.arg THEN n ELSE P[p]]
    BY <2>1 DEF RememberJob
  <2>3. ProxyFits(sysd, [p \in DOMAIN P \cup {m.arg} |-> IF p = m.arg THEN n ELSE P[p]], scall, toSystemd, G)
    BY <1>1, <1>5, JobHeard
  <2> QED BY <1>1, <1>d, <1>e, <2>1, <2>2, <2>3 DEF ProxyInv
<1>6. CASE m.what = "installed"
  <2> DEFINE r == AskSystemd("reload", n)
  <2>1. toSystemd' = Append(toSystemd, r) /\ scall' = scall /\ sproxy' = sproxy
    BY <1>6 DEF ProxyReceives
  <2>2. n \in Nat
    BY <1>2 DEF Tells
  <2>3. r \in Asks /\ r.what = "reload" /\ r.call = n
    BY <2>2 DEF AskSystemd, Asks
  <2> HIDE DEF r
  <2>4. ProxyFits(sysd, P, scall, Append(toSystemd, r), G)
    BY <1>1, <1>6, <2>3, InstalledHeard
  <2> QED BY <1>1, <1>d, <1>e, <2>1, <2>4 DEF ProxyInv
<1>7. CASE m.what \in {"ok", "noreply", "error"}
  <2> DEFINE status == IF m.what = "error" THEN "rejected" ELSE "resolved"
  <2>1. /\ scall' = [scall EXCEPT ![n].status = status] /\ sproxy' = sproxy
        /\ toSystemd' = toSystemd \/ toSystemd' = toSystemd \o RefreshProxy
    BY <1>7 DEF ProxyReceives, SettleCall
  <2>2. status \in {"resolved", "rejected"}
    OBVIOUS
  <2> HIDE DEF status
  <2>3. ProxyFits(sysd, P, [scall EXCEPT ![n].status = status], toSystemd, G)
    <3>1. m.what \in AnswerKinds
      BY <1>7 DEF AnswerKinds
    <3> QED BY <1>1, <2>2, <3>1, AnswerHeard
  <2>4. ProxyFits(sysd, P, [scall EXCEPT ![n].status = status], toSystemd \o RefreshProxy, G)
    BY <2>3, Refreshed
  <2> QED BY <1>1, <1>d, <1>e, <2>1, <2>3, <2>4 DEF ProxyInv
<1> QED BY <1>3, <1>4, <1>5, <1>6, <1>7, <1>8
\* Systemd answers a request that is about no call.
LEMMA ProxyIsTold ==
  ASSUME NEW D, NEW P, NEW C, NEW T, NEW F, ProxyFits(D, P, C, T, F), NEW m \in Tells, m.what \in NoiseKinds
  PROVE  ProxyFits(D, P, C, T, F \o <<m>>)
<1>1. F \in Seq(Tells)
  BY DEF ProxyFits, ProxyTypes
<1>2. F \o <<m>> = Append(F, m)
  BY <1>1, AppendIsConcat
<1> QED BY <1>2, NoiseTold

LEMMA AppendedTwo ==
  ASSUME NEW X, NEW s \in Seq(X), NEW a \in X, NEW b \in X
  PROVE  s \o <<a, b>> = Append(Append(s, a), b)
<1>1. <<a, b>> \in Seq(X) /\ s \o <<a, b>> \in Seq(X) /\ Append(Append(s, a), b) \in Seq(X)
  OBVIOUS
<1>2. Len(s \o <<a, b>>) = Len(s) + 2 /\ Len(Append(Append(s, a), b)) = Len(s) + 2 /\ Len(s) \in Nat
  OBVIOUS
<1>3. \A i \in 1 .. Len(s) + 2 : (s \o <<a, b>>)[i] = Append(Append(s, a), b)[i]
  OBVIOUS
<1> QED BY <1>1, <1>2, <1>3, SeqEqual

LEMMA AppendedThree ==
  ASSUME NEW X, NEW s \in Seq(X), NEW a \in X, NEW b \in X, NEW c \in X
  PROVE  s \o (<<a>> \o <<b, c>>) = Append(Append(Append(s, a), b), c)
<1>1. s \o (<<a>> \o <<b, c>>) = (s \o <<a>>) \o <<b, c>>
  <2>1. <<a>> \in Seq(X) /\ <<b, c>> \in Seq(X)
    OBVIOUS
  <2> QED BY <2>1, ConcatAssociative
<1>2. s \o <<a>> = Append(s, a) /\ Append(s, a) \in Seq(X)
  BY AppendIsConcat
<1> QED BY <1>1, <1>2, AppendedTwo

\* A message of systemd that is about no call and no job.
LEMMA NoiseIsTold ==
  ASSUME NEW what \in NoiseKinds, NEW arg,
         \/ what = "props" /\ arg \in [active : BOOLEAN, file : BOOLEAN]
         \/ what = "active" /\ arg \in BOOLEAN
         \/ what \notin {"props", "active"} /\ arg \in Nat
  PROVE  FromSystemd(what, 0, arg) \in Tells /\ FromSystemd(what, 0, arg).what = what
  BY DEF FromSystemd, Tells, NoiseKinds

LEMMA SystemdTells ==
  ASSUME ProxyInv, SystemdReceives, Head(toSystemd).what \in {"load", "watch", "getall"} PROVE ProxyInv'
<1> DEFINE r == Head(toSystemd)
           P == sproxy.pending
           S == Tail(toSystemd)
<1>1. /\ ProxyFits(sysd, P, scall, toSystemd, fromSystemd) /\ toSystemd # <<>> /\ toSystemd' = S
      /\ sproxy' = sproxy /\ scall' = scall /\ SystemdReplies(r)
      /\ DOMAIN sproxy = {"exists", "known", "data", "pending"}
  BY DEF ProxyInv, SystemdReceives
<1>2. ProxyFits(sysd, P, scall, S, fromSystemd)
  BY <1>1, NoiseAnswered
<1>3. sysd \in Sysd
  BY <1>1 DEF ProxyFits, ProxyTypes
<1>4. PICK E, what, arg :
        /\ what \in NoiseKinds /\ Says(E, <<FromSystemd(what, 0, arg)>>)
        /\ E \in Sysd /\ E.job = sysd.job /\ E.jobs = sysd.jobs /\ E.kind = sysd.kind
        /\ \/ what = "props" /\ arg \in [active : BOOLEAN, file : BOOLEAN]
           \/ what = "active" /\ arg \in BOOLEAN
           \/ what \notin {"props", "active"} /\ arg \in Nat
  <2>1. CASE r.what = "load"
    <3>1. PICK w \in {"loaded", "notloaded"} : Says(sysd, <<FromSystemd(w, 0, 0)>>)
      BY <1>1, <2>1 DEF SystemdReplies, JobKinds, FileKinds
    <3>2. w \in NoiseKinds /\ w \notin {"props", "active"} /\ 0 \in Nat
      BY DEF NoiseKinds
    <3> WITNESS sysd, w, 0
    <3> QED BY <1>3, <3>1, <3>2
  <2>2. CASE r.what \in {"watch", "getall"}
    <3>1. PICK Z \in {sysd, [sysd EXCEPT !.watched = TRUE]} : Says(Z, <<FromSystemd("props", 0, Props(sysd))>>)
      BY <1>1, <2>2 DEF SystemdReplies, JobKinds, FileKinds
    <3>2. /\ "props" \in NoiseKinds /\ Props(sysd) \in [active : BOOLEAN, file : BOOLEAN]
          /\ Z \in Sysd /\ Z.job = sysd.job /\ Z.jobs = sysd.jobs /\ Z.kind = sysd.kind
      BY <1>3 DEF NoiseKinds, Props, Sysd
    <3> WITNESS Z, "props", Props(sysd)
    <3> QED BY <3>1, <3>2
  <2> QED BY <2>1, <2>2
<1>5. ProxyFits(E, P, scall, S, fromSystemd)
  BY <1>2, <1>4, UnitChanges
<1>6. ProxyFits(E, P, scall, S, fromSystemd \o <<FromSystemd(what, 0, arg)>>)
  BY <1>4, <1>5, ProxyIsTold, NoiseIsTold
<1> QED BY <1>1, <1>4, <1>6 DEF Says, ProxyInv

\* A call whose request arrives finds no job of its kind.
LEMMA JobIsOther ==
  ASSUME ProxyInv, toSystemd # <<>>, Head(toSystemd).what \in JobKinds, sysd.job # 0
  PROVE  sysd.kind # Head(toSystemd).what
<1> DEFINE r == Head(toSystemd)
           P == sproxy.pending
<1>1. /\ ProxyTypes(sysd, P, scall, toSystemd, fromSystemd) /\ AsksFit(scall, toSystemd)
      /\ OneToken(P, toSystemd, fromSystemd)
      /\ JobOwned(sysd, P, scall, fromSystemd) /\ OneOfKind(scall)
  BY DEF ProxyInv, ProxyFits
<1>2. r = toSystemd[1] /\ 1 \in 1 .. Len(toSystemd)
  <2>1. toSystemd \in Seq(Asks)
    BY <1>1 DEF ProxyTypes
  <2> QED BY <2>1
<1>3. About(toSystemd, r.call) /\ IsCalled(scall, r.call) /\ scall[r.call].kind = r.what
  BY <1>1, <1>2 DEF About, AsksFit, AskFits, JobKinds
<1>4. SUFFICES ASSUME sysd.kind = r.what PROVE FALSE
  OBVIOUS
<1>5. PICK n : JobOwner(sysd, P, scall, fromSystemd, n)
  BY <1>1 DEF JobOwned
<1>6. n = r.call
  BY <1>1, <1>3, <1>4, <1>5 DEF JobOwner, OneOfKind
<1>7. n # 0
  BY <1>3, <1>6 DEF IsCalled
<1>8. CASE JobTold(fromSystemd, n, sysd.job)
  <2>1. About(fromSystemd, n)
    BY <1>8 DEF JobTold, About
  <2> QED BY <1>1, <1>3, <1>6, <1>7, <2>1 DEF OneToken
<1>9. CASE sysd.job \in DOMAIN P /\ P[sysd.job] = n
  BY <1>1, <1>3, <1>6, <1>7, <1>9 DEF OneToken
<1> QED BY <1>5, <1>8, <1>9 DEF JobOwner

LEMMA SystemdQueues ==
  ASSUME ProxyInv, SystemdReceives, Head(toSystemd).what \in JobKinds,
         QueueJob(Head(toSystemd).call, Head(toSystemd).what)
  PROVE  ProxyInv'
<1> DEFINE r == Head(toSystemd)
           P == sproxy.pending
           S == Tail(toSystemd)
           F == fromSystemd
           path == sysd.jobs + 1
           E == [sysd EXCEPT !.job = path, !.kind = r.what, !.jobs = path]
           m == FromSystemd("job", r.call, path)
           e == FromSystemd("new", 0, path)
<1>1. /\ ProxyFits(sysd, P, scall, toSystemd, F) /\ toSystemd # <<>> /\ toSystemd' = S
      /\ sproxy' = sproxy /\ scall' = scall
      /\ DOMAIN sproxy = {"exists", "known", "data", "pending"}
  BY DEF ProxyInv, SystemdReceives
<1>2. sysd \in Sysd /\ sysd.jobs \in Nat /\ F \in Seq(Tells) /\ r.call \in Nat
  <2>1. toSystemd \in Seq(Asks) /\ sysd \in Sysd /\ F \in Seq(Tells)
    BY <1>1 DEF ProxyFits, ProxyTypes
  <2>2. r \in Asks
    BY <1>1, <2>1
  <2> QED BY <2>1, <2>2 DEF Sysd, Asks
<1>3. E \in Sysd /\ E.job = path /\ E.jobs = path /\ E.kind = r.what
  <2> DEFINE kind == r.what
  <2>1. path \in Nat /\ kind \in JobKinds
    BY <1>2
  <2>2. E = [sysd EXCEPT !.job = path, !.kind = kind, !.jobs = path]
    OBVIOUS
  <2> HIDE DEF path, kind, E
  <2>3. E \in Sysd /\ E.job = path /\ E.jobs = path /\ E.kind = kind
    BY <1>2, <2>1, <2>2 DEF Sysd
  <2> QED BY <2>3 DEF kind
<1>4. m \in Tells /\ m.what = "job" /\ m.call = r.call /\ m.arg = path
  BY <1>2 DEF FromSystemd, Tells
<1>5. e \in Tells /\ e.what \in NoiseKinds
  BY <1>2 DEF FromSystemd, Tells, NoiseKinds
<1>6. CASE sysd.job = 0
  <2>1. sysd' = E /\ fromSystemd' = F \o (<<>> \o <<m, e>>)
    BY <1>6 DEF QueueJob, Says
  <2> HIDE DEF E, m, e
  <2>2. fromSystemd' = Append(Append(F, m), e)
    <3>1. <<m, e>> \in Seq(Tells)
      BY <1>4, <1>5
    <3>2. <<>> \o <<m, e>> = <<m, e>>
      BY <3>1, ConcatEmptySeq
    <3> QED BY <1>2, <1>4, <1>5, <2>1, <3>2, AppendedTwo
  <2>3. ProxyFits(E, P, scall, S, Append(F, m))
    BY <1>1, <1>3, <1>4, <1>6, JobStarts
  <2>4. ProxyFits(E, P, scall, S, Append(Append(F, m), e))
    BY <1>5, <2>3, NoiseTold
  <2> QED BY <1>1, <2>1, <2>2, <2>4 DEF ProxyInv
<1>7. CASE sysd.job # 0
  <2> DEFINE c == FromSystemd("canceled", 0, sysd.job)
             Z == [sysd EXCEPT !.job = 0]
  <2>1. sysd' = E /\ fromSystemd' = F \o (<<c>> \o <<m, e>>)
    <3>1. sysd.kind # r.what
      BY <1>1, <1>7, JobIsOther
    <3> QED BY <1>7, <3>1 DEF QueueJob, Says
  <2>2. c \in Tells /\ c.what \in EndKinds /\ c.arg = sysd.job
    BY <1>2 DEF FromSystemd, Tells, EndKinds, Sysd
  <2>3. Z \in Sysd /\ Z.job = 0 /\ Z.jobs = sysd.jobs
    BY <1>2 DEF Sysd
  <2> HIDE DEF E, m, e, c, Z
  <2>4. fromSystemd' = Append(Append(Append(F, c), m), e)
    BY <1>2, <1>4, <1>5, <2>1, <2>2, AppendedThree
  <2>5. ProxyFits(Z, P, scall, toSystemd, Append(F, c))
    BY <1>1, <1>7, <2>2, <2>3, JobIsOver
  <2>6. ProxyFits(E, P, scall, S, Append(Append(F, c), m))
    BY <1>1, <1>3, <1>4, <2>3, <2>5, JobStarts
  <2>7. ProxyFits(E, P, scall, S, Append(Append(Append(F, c), m), e))
    BY <1>5, <2>6, NoiseTold
  <2> QED BY <1>1, <2>1, <2>4, <2>7 DEF ProxyInv
<1> QED BY <1>6, <1>7

LEMMA SystemdSettles ==
  ASSUME ProxyInv, SystemdReceives, Head(toSystemd).what \in JobKinds \cup FileKinds \cup {"reload"},
         NEW E \in Sysd, E.job = sysd.job, E.jobs = sysd.jobs, E.kind = sysd.kind,
         NEW what \in AnswerKinds,
         \/ Says(E, <<FromSystemd(what, Head(toSystemd).call, 0)>>)
         \/ Says(E, <<FromSystemd("reloaded", 0, 0), FromSystemd(what, Head(toSystemd).call, 0)>>)
  PROVE  ProxyInv'
<1> DEFINE r == Head(toSystemd)
           P == sproxy.pending
           S == Tail(toSystemd)
           F == fromSystemd
           m == FromSystemd(what, r.call, 0)
           e == FromSystemd("reloaded", 0, 0)
<1>1. /\ ProxyFits(sysd, P, scall, toSystemd, F) /\ toSystemd # <<>> /\ toSystemd' = S
      /\ sproxy' = sproxy /\ scall' = scall
      /\ DOMAIN sproxy = {"exists", "known", "data", "pending"}
  BY DEF ProxyInv, SystemdReceives
<1>2. F \in Seq(Tells) /\ r.call \in Nat /\ r.call # 0
  <2>1. toSystemd \in Seq(Asks) /\ F \in Seq(Tells) /\ AsksFit(scall, toSystemd)
    BY <1>1 DEF ProxyFits, ProxyTypes
  <2>2. r \in Asks /\ AskFits(scall, r)
    <3>1. r = toSystemd[1] /\ 1 \in 1 .. Len(toSystemd) /\ toSystemd[1] \in Asks
      BY <1>1, <2>1
    <3> QED BY <2>1, <3>1 DEF AsksFit
  <2>3. IsCalled(scall, r.call)
    BY <2>2 DEF AskFits, JobKinds, FileKinds
  <2> QED BY <2>1, <2>2, <2>3 DEF Asks, IsCalled
<1>3. m \in Tells /\ m.what \in AnswerKinds /\ m.call = r.call
  BY <1>2 DEF FromSystemd, Tells
<1>4. e \in Tells /\ e.what \in NoiseKinds
  BY DEF FromSystemd, Tells, NoiseKinds
<1>5. sysd' = E /\ (fromSystemd' = F \o <<m>> \/ fromSystemd' = F \o <<e, m>>)
  BY DEF Says
<1> HIDE DEF m, e
<1>6. ProxyFits(E, P, scall, toSystemd, F)
  BY <1>1, UnitChanges
<1>7. CASE fromSystemd' = F \o <<m>>
  <2>1. fromSystemd' = Append(F, m)
    BY <1>2, <1>3, <1>7, AppendIsConcat
  <2>2. ProxyFits(E, P, scall, S, Append(F, m))
    BY <1>1, <1>2, <1>3, <1>6, AskAnswered
  <2> QED BY <1>1, <1>5, <2>1, <2>2 DEF ProxyInv
<1>8. CASE fromSystemd' = F \o <<e, m>>
  <2>1. fromSystemd' = Append(Append(F, e), m)
    BY <1>2, <1>3, <1>4, <1>8, AppendedTwo
  <2>2. ProxyFits(E, P, scall, toSystemd, Append(F, e))
    BY <1>4, <1>6, NoiseTold
  <2>3. ProxyFits(E, P, scall, S, Append(Append(F, e), m))
    BY <1>1, <1>2, <1>3, <2>2, AskAnswered
  <2> QED BY <1>1, <1>5, <2>1, <2>3 DEF ProxyInv
<1> QED BY <1>5, <1>7, <1>8

LEMMA SystemdKeeps ==
  ASSUME ProxyInv, SystemdReceives PROVE ProxyInv'
<1> DEFINE r == Head(toSystemd)
<1>1. sysd \in Sysd /\ toSystemd \in Seq(Asks)
  BY DEF ProxyInv, ProxyFits, ProxyTypes
<1>2. r \in Asks /\ SystemdReplies(r)
  BY <1>1 DEF SystemdReceives
<1>3. CASE r.what \in {"load", "watch", "getall"}
  BY <1>3, SystemdTells
<1>4. CASE r.what \in JobKinds \cup FileKinds \cup {"reload"}
  <2>1. "installed" \in AnswerKinds /\ "error" \in AnswerKinds /\ "ok" \in AnswerKinds /\ "noreply" \in AnswerKinds
    BY DEF AnswerKinds
  <2>2. CASE r.what \in JobKinds /\ QueueJob(r.call, r.what)
    BY <2>2, SystemdQueues
  <2>3. CASE /\ r.what \in FileKinds
             /\ Says([sysd EXCEPT !.file = r.what = "enable"], <<FromSystemd("installed", r.call, 0)>>)
    <3> DEFINE E == [sysd EXCEPT !.file = r.what = "enable"]
    <3>1. E \in Sysd /\ E.job = sysd.job /\ E.jobs = sysd.jobs /\ E.kind = sysd.kind
      BY <1>1 DEF Sysd
    <3> HIDE DEF E
    <3> QED BY <1>4, <2>1, <2>3, <3>1, SystemdSettles DEF E
  <2>4. CASE Says(sysd, <<FromSystemd("error", r.call, 0)>>)
    BY <1>1, <1>4, <2>1, <2>4, SystemdSettles
  <2>5. CASE Says(sysd, <<FromSystemd("reloaded", 0, 0), FromSystemd("ok", r.call, 0)>>)
    BY <1>1, <1>4, <2>1, <2>5, SystemdSettles
  <2>6. CASE Says(sysd, <<FromSystemd("noreply", r.call, 0)>>)
    BY <1>1, <1>4, <2>1, <2>6, SystemdSettles
  <2>7. CASE Says([sysd EXCEPT !.unreloaded = TRUE], <<FromSystemd("error", r.call, 0)>>)
    <3> DEFINE E == [sysd EXCEPT !.unreloaded = TRUE]
    <3>1. E \in Sysd /\ E.job = sysd.job /\ E.jobs = sysd.jobs /\ E.kind = sysd.kind
      BY <1>1 DEF Sysd
    <3>2. Says(E, <<FromSystemd("error", r.call, 0)>>)
      BY <2>7
    <3> HIDE DEF E
    <3> QED BY <1>4, <2>1, <3>1, <3>2, SystemdSettles
  <2> QED BY <1>2, <1>4, <2>2, <2>3, <2>4, <2>5, <2>6, <2>7 DEF SystemdReplies, JobKinds, FileKinds
<1> QED BY <1>2, <1>3, <1>4 DEF Asks

\* Those who watch the unit are told of it.
LEMMA Notified ==
  ASSUME NEW D, NEW P, NEW C, NEW T, NEW F, ProxyFits(D, P, C, T, F), NEW active \in BOOLEAN
  PROVE  ProxyFits(D, P, C, T, F \o Notification(active))
<1> DEFINE m == FromSystemd("active", 0, active)
<1>1. m \in Tells /\ m.what \in NoiseKinds
  BY DEF FromSystemd, Tells, NoiseKinds
<1>2. F \in Seq(Tells)
  BY DEF ProxyFits, ProxyTypes
<1>3. Notification(active) = <<m>> \/ Notification(active) = <<>>
  BY DEF Notification
<1> HIDE DEF m
<1>4. ProxyFits(D, P, C, T, F \o <<m>>)
  BY <1>1, ProxyIsTold
<1>5. F \o <<>> = F
  BY <1>2, ConcatEmptySeq
<1> QED BY <1>3, <1>4, <1>5

LEMMA JobEndKeeps ==
  ASSUME ProxyInv, NEW ok \in BOOLEAN, JobEnds(ok) PROVE ProxyInv'
<1> DEFINE P == sproxy.pending
           F == fromSystemd
           active == IF ok THEN sysd.kind = "start" ELSE sysd.active
           E == [sysd EXCEPT !.job = 0, !.kind = "none", !.active = active]
           m == FromSystemd(IF ok THEN "done" ELSE "failed", 0, sysd.job)
<1>1. /\ ProxyFits(sysd, P, scall, toSystemd, F)
      /\ DOMAIN sproxy = {"exists", "known", "data", "pending"}
  BY DEF ProxyInv
<1>2. sysd \in Sysd /\ F \in Seq(Tells)
  BY <1>1 DEF ProxyFits, ProxyTypes
<1>3. active \in BOOLEAN /\ sysd.job \in Nat
  BY <1>2 DEF Sysd
<1>4. /\ sysd' = E /\ fromSystemd' = F \o (<<m>> \o Notification(active)) /\ sysd.job # 0
      /\ sproxy' = sproxy /\ scall' = scall /\ toSystemd' = toSystemd
  BY DEF JobEnds, Says
<1>5. m \in Tells /\ m.what \in EndKinds /\ m.arg = sysd.job
  BY <1>3 DEF FromSystemd, Tells, EndKinds
<1> HIDE DEF active
<1>6. E \in Sysd /\ E.job = 0 /\ E.jobs = sysd.jobs
  BY <1>2, <1>3 DEF Sysd
<1> HIDE DEF E, m
<1>7. ProxyFits(E, P, scall, toSystemd, Append(F, m))
  BY <1>1, <1>4, <1>5, <1>6, JobIsOver
<1>8. ProxyFits(E, P, scall, toSystemd, Append(F, m) \o Notification(active))
  BY <1>3, <1>7, Notified
<1>9. F \o (<<m>> \o Notification(active)) = Append(F, m) \o Notification(active)
  <2>1. Notification(active) \in Seq(Tells) /\ <<m>> \in Seq(Tells)
    <3> DEFINE a == FromSystemd("active", 0, active)
    <3>1. a \in Tells
      BY <1>3 DEF FromSystemd, Tells
    <3>2. Notification(active) = <<a>> \/ Notification(active) = <<>>
      BY DEF Notification
    <3> HIDE DEF a
    <3>3. <<a>> \in Seq(Tells) /\ <<>> \in Seq(Tells) /\ <<m>> \in Seq(Tells)
      BY <1>5, <3>1
    <3> QED BY <3>2, <3>3
  <2>2. Append(F, m) = F \o <<m>>
    BY <1>2, <1>5, AppendIsConcat
  <2> QED BY <1>2, <2>1, <2>2, ConcatAssociative
<1> QED BY <1>1, <1>4, <1>8, <1>9 DEF ProxyInv

LEMMA OutsideKeeps ==
  ASSUME ProxyInv, OutsideChange PROVE ProxyInv'
<1> DEFINE P == sproxy.pending
           F == fromSystemd
<1>1. /\ ProxyFits(sysd, P, scall, toSystemd, F)
      /\ DOMAIN sproxy = {"exists", "known", "data", "pending"}
  BY DEF ProxyInv
<1>2. sysd \in Sysd
  BY <1>1 DEF ProxyFits, ProxyTypes
<1>3. sproxy' = sproxy /\ scall' = scall /\ toSystemd' = toSystemd
  BY DEF OutsideChange
<1>4. CASE Says([sysd EXCEPT !.active = FALSE], Notification(FALSE))
  <2> DEFINE E == [sysd EXCEPT !.active = FALSE]
  <2>1. E \in Sysd /\ E.job = sysd.job /\ E.jobs = sysd.jobs /\ E.kind = sysd.kind
    BY <1>2 DEF Sysd
  <2>2. sysd' = E /\ fromSystemd' = F \o Notification(FALSE)
    BY <1>4 DEF Says
  <2> HIDE DEF E
  <2>3. ProxyFits(E, P, scall, toSystemd, F)
    BY <1>1, <2>1, UnitChanges
  <2>4. ProxyFits(E, P, scall, toSystemd, F \o Notification(FALSE))
    BY <2>3, Notified
  <2> QED BY <1>1, <1>3, <2>2, <2>4 DEF ProxyInv
<1>5. CASE Says([sysd EXCEPT !.file = ~@], <<FromSystemd("reloaded", 0, 0)>>)
  <2> DEFINE E == [sysd EXCEPT !.file = ~@]
             m == FromSystemd("reloaded", 0, 0)
  <2>1. E \in Sysd /\ E.job = sysd.job /\ E.jobs = sysd.jobs /\ E.kind = sysd.kind
    BY <1>2 DEF Sysd
  <2>2. sysd' = E /\ fromSystemd' = F \o <<m>>
    BY <1>5 DEF Says
  <2>3. m \in Tells /\ m.what \in NoiseKinds
    BY DEF FromSystemd, Tells, NoiseKinds
  <2> HIDE DEF E, m
  <2>4. ProxyFits(E, P, scall, toSystemd, F)
    BY <1>1, <2>1, UnitChanges
  <2>5. ProxyFits(E, P, scall, toSystemd, F \o <<m>>)
    BY <2>3, <2>4, ProxyIsTold
  <2> QED BY <1>1, <1>3, <2>2, <2>5 DEF ProxyInv
<1> QED BY <1>4, <1>5 DEF OutsideChange

LEMMA ProxyKeeps ==
  ASSUME ~Overlap, ProxyInv, [ServiceProxyNext]_proxyvars PROVE ProxyInv'
<1>1. CASE UNCHANGED proxyvars
  BY <1>1 DEF ProxyInv, proxyvars
<1>2. CASE ServiceProxyNext
  BY <1>2, ProxyCalls, ProxyHears, SystemdKeeps, JobEndKeeps, OutsideKeeps DEF ServiceProxyNext
<1> QED BY <1>1, <1>2

LEMMA ProxyGoal ==
  ASSUME ProxyInv PROVE JobsSettle
<1> DEFINE P == sproxy.pending
<1>1. /\ ProxyTypes(sysd, P, scall, toSystemd, fromSystemd) /\ HasToken(P, scall, toSystemd, fromSystemd)
      /\ PendingEnds(sysd, P, scall, fromSystemd)
  BY DEF ProxyInv, ProxyFits
<1>2. DOMAIN scall = 1 .. Len(scall) /\ DOMAIN toSystemd = 1 .. Len(toSystemd) /\ DOMAIN fromSystemd = 1 .. Len(fromSystemd)
  BY <1>1 DEF ProxyTypes
<1>3. SUFFICES ASSUME NEW n \in DOMAIN scall, scall[n].status = "called",
                      ~\E i \in DOMAIN toSystemd : toSystemd[i].call = n,
                      ~\E i \in DOMAIN fromSystemd : fromSystemd[i].call = n,
                      ~(sysd.job \in DOMAIN P /\ P[sysd.job] = n)
               PROVE  \E i \in DOMAIN fromSystemd :
                        /\ fromSystemd[i].what \in {"done", "failed", "canceled"}
                        /\ fromSystemd[i].arg \in DOMAIN P /\ P[fromSystemd[i].arg] = n
  BY DEF JobsSettle
<1>4. PICK p \in DOMAIN P : P[p] = n
  BY <1>1, <1>2, <1>3 DEF HasToken, About
<1>5. n # 0
  BY <1>2, <1>3
<1>6. EndAfter(fromSystemd, 0, p)
  BY <1>1, <1>3, <1>4, <1>5 DEF PendingEnds
<1> QED BY <1>2, <1>4, <1>6 DEF EndAfter, EndKinds

----
(* What the dialog to join a domain would join.                            *)

\* The last check is for the address, or the timeout will make one that is; once
\* it is answered the realm is that of the address.
RealmInv ==
  /\ DOMAIN checks = 1 .. MaxChecks
  /\ checking \in 1 .. MaxChecks /\ checks[checking].state # "none"
  /\ ~timeout => address = checks[checking].name
  /\ timeout \/ checks[checking].state = "discover" \/ realm \in {NoRealm, address}

LEMMA CheckFollows ==
  ASSUME RealmInv, NEW c, DOMAIN c = 1 .. MaxChecks, Check(c), UNCHANGED address
  PROVE  RealmInv'
<1>1. checking' = checking + 1 /\ checking' \in 1 .. MaxChecks
  BY RealmdAssumption DEF RealmInv, Check
<1>2. checks' = [c EXCEPT ![checking'] = [name |-> address, state |-> "discover"]]
  BY DEF Check
<1>3. DOMAIN checks' = 1 .. MaxChecks /\ checks'[checking'] = [name |-> address, state |-> "discover"]
  BY <1>1, <1>2
<1> QED BY <1>1, <1>3 DEF RealmInv

\* A check that is started stays started.
LEMMA CheckMovesOn ==
  ASSUME RealmInv, NEW i, NEW s, s \in {"wait", "resolved", "rejected"}
  PROVE  LET c == [checks EXCEPT ![i].state = s]
         IN /\ DOMAIN c = 1 .. MaxChecks /\ c[checking].state # "none"
            /\ i # checking => c[checking] = checks[checking]
  BY DEF RealmInv

\* An answer of realmd for another address is never used, in whatever order
\* the answers come (RealmOfAddress): operation.js compares the name of the
\* check with what is in the field, and checks again.
THEOREM RealmOfAddressAlways == RealmdSpec => []RealmOfAddress
<1>1. RealmdInit => RealmInv
  <2> SUFFICES ASSUME RealmdInit PROVE RealmInv
    OBVIOUS
  <2>1. checks = [i \in 1 .. MaxChecks |-> [name |-> "", state |-> IF i = 1 THEN "discover" ELSE "none"]]
    BY DEF RealmdInit
  <2>2. DOMAIN checks = 1 .. MaxChecks
    BY <2>1
  <2>3. 1 \in 1 .. MaxChecks
    BY RealmdAssumption
  <2>5. checking = 1 /\ address = ""
    BY DEF RealmdInit
  <2>6. checks[1].name = "" /\ checks[1].state = "discover" /\ checks[1].state # "none"
    <3>1. checks[1].name = ""
      BY <2>1, <2>3
    <3>2. checks[1].state = "discover"
      BY <2>1, <2>3
    <3> QED BY <3>1, <3>2
  <2>7. checking \in 1 .. MaxChecks /\ checks[checking].state # "none"
    BY <2>3, <2>5, <2>6
  <2>8. address = checks[checking].name /\ checks[checking].state = "discover"
    BY <2>5, <2>6
  <2> QED BY <2>2, <2>7, <2>8 DEF RealmInv
<1>2. RealmInv /\ [RealmdNext]_realmvars => RealmInv'
  <2> SUFFICES ASSUME RealmInv, [RealmdNext]_realmvars PROVE RealmInv'
    OBVIOUS
  <2>1. ASSUME NEW text, TypeAddress(text) PROVE RealmInv'
    BY <2>1 DEF TypeAddress, RealmInv
  <2>2. ASSUME CheckTimeout PROVE RealmInv'
    BY <2>2, CheckFollows DEF CheckTimeout, RealmInv
  <2>3. ASSUME NEW i \in 1 .. MaxChecks, NEW found \in BOOLEAN, Discovered(i, found) PROVE RealmInv'
    <3>1. checks[i].state = "discover" /\ DiscoverAnswer(i, found) /\ UNCHANGED <<address, timeout>>
      BY <2>3 DEF Discovered
    <3>2. CASE checks[i].name # address
      <4>1. DOMAIN [checks EXCEPT ![i].state = "rejected"] = 1 .. MaxChecks
        BY CheckMovesOn
      <4>2. Check([checks EXCEPT ![i].state = "rejected"])
        BY <3>1, <3>2 DEF DiscoverAnswer
      <4> QED BY <3>1, <4>1, <4>2, CheckFollows
    <3>3. CASE checks[i].name = address
      <4> DEFINE s == IF found THEN "wait" ELSE "rejected"
                 c == [checks EXCEPT ![i].state = s]
      <4>1. checks' = c /\ realm' \in {NoRealm, address} /\ checking' = checking
        BY <3>1, <3>3 DEF DiscoverAnswer
      <4>2. DOMAIN c = 1 .. MaxChecks /\ c[checking].state # "none" /\ c[checking].name = checks[checking].name
        BY DEF RealmInv
      <4> QED BY <3>1, <4>1, <4>2 DEF RealmInv
    <3> QED BY <3>2, <3>3
  <2>4. ASSUME NEW i \in 1 .. MaxChecks, RealmReady(i) PROVE RealmInv'
    <3> DEFINE c == [checks EXCEPT ![i].state = "resolved"]
    <3>1. checks' = c /\ UNCHANGED <<address, timeout, checking, realm>> /\ checks[i].state = "wait"
      BY <2>4 DEF RealmReady
    <3>2. DOMAIN c = 1 .. MaxChecks /\ c[checking].state # "none" /\ c[checking].name = checks[checking].name
      BY DEF RealmInv
    <3>3. checks[checking].state = "discover" => c[checking].state = "discover"
      BY <3>1 DEF RealmInv
    <3> QED BY <3>1, <3>2, <3>3 DEF RealmInv
  <2>5. ASSUME NEW p, Perform(p) PROVE RealmInv'
    <3>1. CASE address = checks[checking].name
      BY <2>5, <3>1 DEF Perform, RealmInv
    <3>2. CASE address # checks[checking].name
      BY <2>5, <3>2, CheckFollows DEF Perform, RealmInv
    <3> QED BY <3>1, <3>2
  <2>6. ASSUME UNCHANGED <<address, timeout, checks, checking, realm>> PROVE RealmInv'
    BY <2>6 DEF RealmInv
  <2>7. ASSUME NEW p, NEW b, EnsureFailed(p) \/ EnsureDone(p, b) \/ CallEnds(p, b) PROVE RealmInv'
    BY <2>6, <2>7 DEF EnsureFailed, EnsureDone, CallEnds
  <2>8. ASSUME Cancel \/ UNCHANGED realmvars PROVE RealmInv'
    BY <2>6, <2>8 DEF Cancel, realmvars
  <2> QED BY <2>1, <2>2, <2>3, <2>4, <2>5, <2>7, <2>8 DEF RealmdNext
<1>3. RealmInv => RealmOfAddress
  BY DEF RealmInv, RealmOfAddress, Started
<1> QED BY <1>1, <1>2, <1>3, PTL DEF RealmdSpec

----
(* What the page of rpm-ostree shows as running.                           *)

Watching == [client : {"none", "connecting", "ready"}, local_running : OsTransactions \cup {"none", "other"},
             active : OsTransactions \cup {"none", "other"}, timer : BOOLEAN, skipped : BOOLEAN,
             listening : BOOLEAN, runningMethod : OsTransactions \cup {"none", "other"}]

\* Nothing is shown before the page listens, and then nothing that is over,
\* unless the timer has an event to handle.
Shows(S) ==
  /\ S \in Watching
  /\ ~S.listening => S.runningMethod = "none"
  /\ S.client = "ready" /\ ~S.skipped /\ S.runningMethod # "none" => RunningMethod(S) # "none"

RunningInv ==
  /\ Shows(ost) /\ rpmostree \in OsTransactions \cup {"none", "other"}
  /\ ostnotices \in Seq(OsTransactions \cup {"none", "other"})

\* After the "changed" event, or once it is left to the timer, the page is right.
LEMMA TriggerShows ==
  ASSUME NEW S \in Watching, ~S.listening => S.runningMethod = "none"
  PROVE  /\ Shows(TriggerChanged(S)) /\ TriggerChanged(S).listening = S.listening
         /\ TriggerChanged(S).client = S.client
         /\ RunningMethod(TriggerChanged(S)) = RunningMethod(S)
  BY DEF TriggerChanged, SysrootChanged, Shows, Watching, RunningMethod

\* While connected, once the notifications are handled and none waits for the
\* timer, the page shows nothing as running that is not (RunningShown): every
\* change of local_running and of ActiveTransaction in client.js triggers the
\* event.
THEOREM RunningShownAlways == OSTreeSpec => []RunningShown
<1> USE OSTreeAssumption
<1> DEFINE Values == OsTransactions \cup {"none", "other"}
<1>1. OSTreeInit => RunningInv
  BY DEF OSTreeInit, RunningInv, Shows, Watching
<1>2. RunningInv /\ [OSTreeNext]_ostvars => RunningInv'
  <2> SUFFICES ASSUME RunningInv, [OSTreeNext]_ostvars PROVE RunningInv'
    OBVIOUS
  <2>0. /\ ost \in Watching /\ (~ost.listening => ost.runningMethod = "none")
        /\ rpmostree \in Values /\ ostnotices \in Seq(Values)
    BY DEF RunningInv, Shows
  <2>a. ASSUME NEW value \in Values, Tell(value) PROVE rpmostree' \in Values /\ ostnotices' \in Seq(Values)
    BY <2>0, <2>a DEF Tell
  <2>b. ASSUME NEW S \in Watching, ~S.listening => S.runningMethod = "none" PROVE Shows(Cleanup(S))
    <3> DEFINE Z == [S EXCEPT !.local_running = "none"]
    <3>1. Z \in Watching /\ (~Z.listening => Z.runningMethod = "none")
      BY <2>b DEF Watching
    <3> QED BY <3>1, TriggerShows DEF Cleanup
  <2>1. ASSUME TimerFires PROVE RunningInv'
    BY <2>0, <2>1 DEF TimerFires, RunningInv, Shows, Watching, SysrootChanged, RunningMethod
  <2>2. ASSUME Reconnect PROVE RunningInv'
    BY <2>0, <2>2 DEF Reconnect, GetClient, RunningInv, Shows, Watching
  <2>3. ASSUME ClientConnected PROVE RunningInv'
    <3> DEFINE S == [ost EXCEPT !.client = "ready", !.active = rpmostree]
    <3>1. S \in Watching /\ (~S.listening => S.runningMethod = "none") /\ S.listening = ost.listening
      BY <2>0 DEF Watching
    <3>2. ost' = IF S.listening THEN TriggerChanged(S) ELSE SysrootChanged([TriggerChanged(S) EXCEPT !.listening = TRUE])
      BY <2>3 DEF ClientConnected
    <3> HIDE DEF S
    <3>3. Shows(ost')
      <4>1. CASE S.listening
        BY <3>1, <3>2, <4>1, TriggerShows
      <4>2. CASE ~S.listening
        <5> DEFINE Z == TriggerChanged(S)
        <5>1. Z \in Watching
          BY <3>1, TriggerShows DEF Shows
        <5>2. ost' = SysrootChanged([Z EXCEPT !.listening = TRUE])
          BY <3>2, <4>2
        <5> HIDE DEF Z
        <5> QED BY <5>1, <5>2 DEF SysrootChanged, Shows, Watching, RunningMethod
      <4> QED BY <4>1, <4>2
    <3> QED BY <2>0, <2>3, <3>3 DEF ClientConnected, RunningInv
  <2>4. ASSUME ClientClosed PROVE RunningInv'
    <3> DEFINE S == [ost EXCEPT !.client = "none", !.active = "none"]
               T == IF ost.client = "connecting" THEN TriggerChanged(S) ELSE S
    <3>1. S \in Watching /\ (~S.listening => S.runningMethod = "none") /\ S.client = "none"
      BY <2>0 DEF Watching
    <3>2. ost' = T \/ ost' = Cleanup(T) \/ ost' = TriggerChanged(Cleanup(T))
      BY <2>4 DEF ClientClosed
    <3>3. Shows(T)
      <4>1. Shows(S)
        BY <3>1 DEF Shows
      <4> HIDE DEF S
      <4> QED BY <3>1, <4>1, TriggerShows
    <3> HIDE DEF T
    <3>4. Shows(Cleanup(T))
      BY <2>b, <3>3 DEF Shows
    <3>5. Shows(TriggerChanged(Cleanup(T)))
      BY <3>4, TriggerShows DEF Shows
    <3> QED BY <2>0, <2>4, <3>2, <3>3, <3>4, <3>5 DEF ClientClosed, RunningInv
  <2>5. ASSUME OnSysrootChanged PROVE RunningInv'
    <3> DEFINE S == [ost EXCEPT !.active = Head(ostnotices)]
    <3>1. ostnotices # <<>> /\ Head(ostnotices) \in Values /\ Tail(ostnotices) \in Seq(Values)
      BY <2>0, <2>5 DEF OnSysrootChanged
    <3>2. S \in Watching /\ (~S.listening => S.runningMethod = "none")
      BY <2>0, <3>1 DEF Watching
    <3>3. ost' = TriggerChanged(S)
      BY <2>5 DEF OnSysrootChanged
    <3> HIDE DEF S
    <3>4. Shows(ost')
      BY <3>2, <3>3, TriggerShows
    <3> QED BY <2>0, <2>5, <3>1, <3>4 DEF OnSysrootChanged, RunningInv
  <2>6. ASSUME OtherTransaction PROVE RunningInv'
    BY <2>0, <2>6, <2>a DEF OtherTransaction, RunningInv
  <2>7. ASSUME NEW t \in OsTransactions, RunTransaction(t) PROVE RunningInv'
    BY <2>0, <2>7 DEF RunTransaction, GetClient, RunningInv, Shows, Watching, RunningMethod
  <2>8. ASSUME NEW t \in OsTransactions, Failed(t) PROVE RunningInv'
    BY <2>0, <2>8, <2>b DEF Failed, RunningInv
  <2>9. ASSUME NEW t \in OsTransactions, RunFinished(t) PROVE RunningInv'
    <3> DEFINE Z == Cleanup(ost)
    <3>1. Shows(Z)
      BY <2>0, <2>b
    <3> HIDE DEF Z
    <3>2. Shows([Z EXCEPT !.local_running = t])
      BY <3>1 DEF Shows, Watching, RunningMethod
    <3>3. ost' = Z \/ ost' = [Z EXCEPT !.local_running = t]
      BY <2>9 DEF RunFinished, Z
    <3>4. rpmostree' \in Values /\ ostnotices' \in Seq(Values)
      BY <2>9, <2>a DEF RunFinished
    <3> QED BY <3>1, <3>2, <3>3, <3>4 DEF RunningInv
  <2>10. ASSUME NEW t \in OsTransactions, TransactionFailed(t) PROVE RunningInv'
    BY <2>0, <2>10, <2>a, <2>b DEF TransactionFailed, RunningInv
  <2>11. ASSUME NEW t \in OsTransactions, Cached(t) PROVE RunningInv'
    BY <2>0, <2>11, <2>b DEF Cached, Cleanup, RunningInv
  <2>12. ASSUME NEW t \in OsTransactions, Reloaded(t) PROVE RunningInv'
    BY <2>12 DEF Reloaded, RunningInv
  <2>13. ASSUME NEW t \in OsTransactions, RunStarted(t) PROVE RunningInv'
    BY <2>0, <2>13, <2>a DEF RunStarted, RunningInv
  <2>14. ASSUME UNCHANGED ostvars PROVE RunningInv'
    BY <2>14 DEF RunningInv, ostvars
  <2> QED BY <2>1, <2>2, <2>3, <2>4, <2>5, <2>6, <2>7, <2>8, <2>9, <2>10, <2>11, <2>12, <2>13, <2>14 DEF OSTreeNext
<1>3. RunningInv => RunningShown
  BY DEF RunningInv, Shows, RunningShown
<1> QED BY <1>1, <1>2, <1>3, PTL DEF OSTreeSpec

----
(* What the page of subscriptions shows.                                   *)

Running == [getting : BOOLEAN, requested : BOOLEAN, read : BOOLEAN, out : Nat]

SubscriptionsTypes ==
  /\ system_status \in Nat /\ notices \in Nat /\ unregistering \in BOOLEAN
  /\ update \in [1..MaxUpdateCalls -> [call : {"none", "open", "done", "failed"},
                                       timer : {"none", "set", "cleared", "fired", "late"}]]
  /\ updateTimeout \in 1..MaxUpdateCalls
  /\ command \in [status : Running, details : Running]
  /\ info \in [status : Nat, products : Nat, failed : BOOLEAN]

\* The status will be asked for.
Asked == notices > 0 \/ unregistering \/ \E n \in Requested : update[n].call # "done"

\* The command gives what the system is now, or is run again.
Fresh(r) == r.getting /\ (r.requested \/ ~r.read \/ r.out = system_status)

StatusInv ==
  /\ SubscriptionsTypes
  /\ info.failed \/ Asked \/ Fresh(command.status)
     \/ (~command.status.getting /\ info.status = system_status)
  /\ info.failed \/ Asked \/ command.status.getting \/ Fresh(command.details)
     \/ (~command.details.getting /\ info.products = system_status)
  /\ info.failed \/ command.details.getting \/ drawn = info

\* What a command is after it was asked for, and the other one.
LEMMA GetRuns ==
  ASSUME NEW C \in [status : Running, details : Running]
  PROVE  /\ Get(C, "status") \in [status : Running, details : Running]
         /\ Get(C, "status").details = C.details
         /\ Get(C, "status").status.getting
         /\ Get(C, "status").status.requested \/ ~Get(C, "status").status.read
         /\ Get(C, "details") \in [status : Running, details : Running]
         /\ Get(C, "details").status = C.status
         /\ Get(C, "details").details.getting
         /\ Get(C, "details").details.requested \/ ~Get(C, "details").details.read
<1>1. /\ Get(C, "status") \in [status : Running, details : Running]
      /\ Get(C, "status").details = C.details
      /\ Get(C, "status").status.getting
      /\ Get(C, "status").status.requested \/ ~Get(C, "status").status.read
  BY DEF Get, NotRunning, Running
<1>2. /\ Get(C, "details") \in [status : Running, details : Running]
      /\ Get(C, "details").status = C.status
      /\ Get(C, "details").details.getting
      /\ Get(C, "details").details.requested \/ ~Get(C, "details").details.read
  BY DEF Get, NotRunning, Running
<1> QED BY <1>1, <1>2

\* Clearing a timer leaves the calls.
LEMMA ClearKeepsCalls ==
  ASSUME SubscriptionsTypes,
         NEW after \in [1..MaxUpdateCalls -> [call : {"none", "open", "done", "failed"},
                                          timer : {"none", "set", "cleared", "fired", "late"}]]
  PROVE  /\ ClearTimeout(after) \in [1..MaxUpdateCalls -> [call : {"none", "open", "done", "failed"},
                                          timer : {"none", "set", "cleared", "fired", "late"}]]
         /\ \A n \in 1..MaxUpdateCalls : ClearTimeout(after)[n].call = after[n].call
  BY DEF ClearTimeout, SubscriptionsTypes

\* A call of requestUpdate is open.
LEMMA RequestOpens ==
  ASSUME SubscriptionsTypes, RequestUpdate
  PROVE  /\ update' \in [1..MaxUpdateCalls -> [call : {"none", "open", "done", "failed"},
                                          timer : {"none", "set", "cleared", "fired", "late"}]]
         /\ updateTimeout' \in 1..MaxUpdateCalls
         /\ \E n \in Requested' : update'[n].call # "done"
<1> DEFINE Free(k) == k \notin Requested /\ \A j \in 1..k - 1 : j \in Requested
           n == CHOOSE k \in 1..MaxUpdateCalls : Free(k)
<1>1. \E k \in 1..MaxUpdateCalls : Free(k)
  <2> DEFINE F == 1..MaxUpdateCalls \ Requested
  <2>1. F # {} /\ F \subseteq Nat
    BY DEF RequestUpdate, Requested
  <2>2. PICK k \in F : \A j \in F : k <= j
    BY <2>1, LeastNumber
  <2> QED BY <2>2, SubscriptionsAssumption
<1>2. n \in 1..MaxUpdateCalls /\ Free(n)
  <2> HIDE DEF Free
  <2> QED BY <1>1
<1>3. update' = [update EXCEPT ![n] = [call |-> "open", timer |-> "set"]] /\ updateTimeout' = n
  BY DEF RequestUpdate
<1> HIDE DEF n
<1>4. update'[n] = [call |-> "open", timer |-> "set"]
  BY <1>2, <1>3 DEF SubscriptionsTypes
<1> QED BY <1>2, <1>3, <1>4 DEF SubscriptionsTypes, Requested

\* Every step keeps what is shown, or has what will bring it up to date on its way.
LEMMA StatusStep ==
  ASSUME StatusInv, SubscriptionsNext
  PROVE  StatusInv'
<1>t. /\ SubscriptionsTypes
      /\ command.status \in Running /\ command.details \in Running
  BY DEF StatusInv, SubscriptionsTypes
<1>1. ASSUME StatusChanges PROVE StatusInv'
  <2>1. SubscriptionsTypes' /\ notices' > 0
    BY <1>t, <1>1 DEF StatusChanges, SubscriptionsTypes
  <2>2. Asked'
    BY <2>1 DEF Asked
  <2> QED BY <1>1, <2>1, <2>2 DEF StatusChanges, StatusInv
<1>2. ASSUME StatusNoticed PROVE StatusInv'
  <2>1. command' = Get(command, "status")
    BY <1>2 DEF StatusNoticed
  <2>2. SubscriptionsTypes'
    BY <1>t, <1>2, <2>1, GetRuns, ClearKeepsCalls DEF StatusNoticed, SubscriptionsTypes
  <2>3. Fresh(command.status)' /\ command'.status.getting /\ command'.details = command.details
    BY <1>t, <2>1, GetRuns DEF Fresh, SubscriptionsTypes
  <2> QED BY <1>2, <2>2, <2>3 DEF StatusNoticed, StatusInv
<1>3. ASSUME CommandReads("status") PROVE StatusInv'
  <2>1. command' = [command EXCEPT !.status = [command.status EXCEPT !.read = TRUE, !.out = system_status]]
    BY <1>t, <1>3 DEF CommandReads, SubscriptionsTypes, Running
  <2>0. [command.status EXCEPT !.read = TRUE, !.out = system_status] \in Running
    BY <1>t DEF SubscriptionsTypes, Running
  <2>a. command' \in [status : Running, details : Running]
    BY <1>t, <2>0, <2>1 DEF SubscriptionsTypes
  <2>2. SubscriptionsTypes'
    BY <1>t, <1>3, <2>a DEF CommandReads, SubscriptionsTypes
  <2>3. Fresh(command.status)' /\ command'.status.getting /\ command'.details = command.details
    BY <1>t, <1>3, <2>1 DEF CommandReads, SubscriptionsTypes, Running, Fresh
  <2> QED BY <1>3, <2>2, <2>3 DEF CommandReads, StatusInv
<1>4. ASSUME CommandReads("details") PROVE StatusInv'
  <2>1. command' = [command EXCEPT !.details = [command.details EXCEPT !.read = TRUE, !.out = system_status]]
    BY <1>t, <1>4 DEF CommandReads, SubscriptionsTypes, Running
  <2>0. [command.details EXCEPT !.read = TRUE, !.out = system_status] \in Running
    BY <1>t DEF SubscriptionsTypes, Running
  <2>a. command' \in [status : Running, details : Running]
    BY <1>t, <2>0, <2>1 DEF SubscriptionsTypes
  <2>2. SubscriptionsTypes'
    BY <1>t, <1>4, <2>a DEF CommandReads, SubscriptionsTypes
  <2>3. Fresh(command.details)' /\ command'.details.getting /\ command'.status = command.status
    BY <1>t, <1>4, <2>1 DEF CommandReads, SubscriptionsTypes, Running, Fresh
  <2>4. Asked => Asked'
    BY <1>4 DEF CommandReads, Asked, Requested
  <2>5. Fresh(command.status) => Fresh(command.status)'
    BY <1>4, <2>3 DEF CommandReads, Fresh
  <2> QED BY <1>4, <2>2, <2>3, <2>4, <2>5 DEF CommandReads, StatusInv
<1>5. ASSUME NEW n \in 1..MaxUpdateCalls, UpdateAnswered(n) PROVE StatusInv'
  <2>1. command' = Get(command, "status")
    BY <1>5 DEF UpdateAnswered
  <2> DEFINE after == [update EXCEPT ![n].call = "done"]
  <2>0. after \in [1..MaxUpdateCalls -> [call : {"none", "open", "done", "failed"},
                                    timer : {"none", "set", "cleared", "fired", "late"}]]
    BY <1>t DEF SubscriptionsTypes
  <2>a. update' = ClearTimeout(after)
    BY <1>5 DEF UpdateAnswered
  <2> HIDE DEF after
  <2>b. update' \in [1..MaxUpdateCalls -> [call : {"none", "open", "done", "failed"},
                                          timer : {"none", "set", "cleared", "fired", "late"}]]
    BY <1>t, <2>0, <2>a, ClearKeepsCalls
  <2>2. SubscriptionsTypes'
    BY <1>t, <1>5, <2>b, <2>1, GetRuns DEF UpdateAnswered, SubscriptionsTypes
  <2>3. Fresh(command.status)' /\ command'.status.getting /\ command'.details = command.details
    BY <1>t, <2>1, GetRuns DEF Fresh, SubscriptionsTypes
  <2> QED BY <1>5, <2>2, <2>3 DEF UpdateAnswered, StatusInv
<1>6. ASSUME NEW n \in 1..MaxUpdateCalls, UpdateFails(n) PROVE StatusInv'
  <2>1. info'.failed /\ info' \in [status : Nat, products : Nat, failed : BOOLEAN]
    BY <1>t, <1>6 DEF UpdateFails, StatusUpdateFailed, SubscriptionsTypes
  <2> DEFINE after == [update EXCEPT ![n].call = "failed"]
  <2>0. after \in [1..MaxUpdateCalls -> [call : {"none", "open", "done", "failed"},
                                    timer : {"none", "set", "cleared", "fired", "late"}]]
    BY <1>t DEF SubscriptionsTypes
  <2>a. update' = ClearTimeout(after)
    BY <1>6 DEF UpdateFails
  <2> HIDE DEF after
  <2>b. update' \in [1..MaxUpdateCalls -> [call : {"none", "open", "done", "failed"},
                                          timer : {"none", "set", "cleared", "fired", "late"}]]
    BY <1>t, <2>0, <2>a, ClearKeepsCalls
  <2>2. SubscriptionsTypes'
    BY <1>t, <1>6, <2>b, <2>1 DEF UpdateFails, SubscriptionsTypes
  <2> QED BY <2>1, <2>2 DEF StatusInv
<1>7. ASSUME NEW n \in 1..MaxUpdateCalls, UpdateTimesOut(n) PROVE StatusInv'
  <2>1. info'.failed /\ info' \in [status : Nat, products : Nat, failed : BOOLEAN]
    BY <1>t, <1>7 DEF UpdateTimesOut, StatusUpdateFailed, SubscriptionsTypes
  <2>2. SubscriptionsTypes'
    BY <1>t, <1>7, <2>1 DEF UpdateTimesOut, SubscriptionsTypes
  <2> QED BY <2>1, <2>2 DEF StatusInv
<1>8. ASSUME NEW result, StatusRead(result) PROVE StatusInv'
  <2>c. command.status.getting /\ command.status.read
        /\ UNCHANGED <<system_status, notices, update, updateTimeout, unregistering>>
    BY <1>8 DEF StatusRead
  <2> DEFINE again(D) == IF command.status.requested THEN Get([D EXCEPT !.status = NotRunning], "status")
                         ELSE [D EXCEPT !.status = NotRunning]
  <2>a. ASSUME NEW D \in [status : Running, details : Running]
        PROVE  /\ again(D) \in [status : Running, details : Running]
               /\ again(D).details = D.details
               /\ command.status.requested => Fresh(again(D).status)
               /\ ~command.status.requested => ~again(D).status.getting
    <3>1. /\ [D EXCEPT !.status = NotRunning] \in [status : Running, details : Running]
          /\ [D EXCEPT !.status = NotRunning].details = D.details
          /\ ~[D EXCEPT !.status = NotRunning].status.getting
      BY DEF NotRunning, Running
    <3> QED BY <3>1, GetRuns DEF Fresh
  <2>1. CASE result # "status"
    <3>1. info' = [info EXCEPT !.status = 0, !.failed = TRUE] /\ command' = again(command)
      BY <1>8, <2>1 DEF StatusRead
    <3>2. info'.failed /\ info' \in [status : Nat, products : Nat, failed : BOOLEAN]
      BY <1>t, <3>1 DEF SubscriptionsTypes
    <3>3. command' \in [status : Running, details : Running]
      BY <1>t, <2>a, <3>1 DEF SubscriptionsTypes
    <3>4. SubscriptionsTypes'
      BY <1>t, <2>c, <3>2, <3>3 DEF SubscriptionsTypes
    <3> QED BY <3>2, <3>4 DEF StatusInv
  <2>2. CASE result = "status"
    <3>1. /\ info' = [info EXCEPT !.status = command.status.out, !.products = 0]
          /\ command' = again(Get(command, "details"))
      BY <1>8, <2>2 DEF StatusRead
    <3>2. /\ info' \in [status : Nat, products : Nat, failed : BOOLEAN]
          /\ info'.status = command.status.out /\ info'.failed = info.failed
      BY <1>t, <3>1 DEF SubscriptionsTypes, Running
    <3> HIDE DEF again
    <3>3. /\ command' \in [status : Running, details : Running]
          /\ command'.details = Get(command, "details").details
          /\ command.status.requested => Fresh(command'.status)
          /\ ~command.status.requested => ~command'.status.getting
      BY <1>t, <2>a, <3>1, GetRuns DEF SubscriptionsTypes
    <3>4. SubscriptionsTypes'
      BY <1>t, <2>c, <3>2, <3>3 DEF SubscriptionsTypes
    <3>5. Fresh(command.details)' /\ command'.details.getting
      BY <1>t, <3>3, GetRuns DEF Fresh, SubscriptionsTypes
    <3>6. Asked' = Asked
      BY <2>c DEF Asked, Requested
    <3>7. Fresh(command.status)' = Fresh(command'.status)
      BY <2>c DEF Fresh
    <3>8. info.failed \/ Asked \/ command.status.requested \/ command.status.out = system_status
      BY <2>c DEF StatusInv, Fresh
    <3> QED BY <2>c, <3>2, <3>3, <3>4, <3>5, <3>6, <3>7, <3>8 DEF StatusInv
  <2> QED BY <2>1, <2>2
<1>9. ASSUME NEW fails \in BOOLEAN, DetailsRead(fails) PROVE StatusInv'
  <2>c. command.details.getting /\ command.details.read
        /\ UNCHANGED <<system_status, notices, update, updateTimeout, unregistering>> /\ drawn' = info'
    BY <1>9 DEF DetailsRead
  <2> DEFINE C == [command EXCEPT !.details = NotRunning]
  <2>1. C \in [status : Running, details : Running] /\ C.status = command.status /\ ~C.details.getting
    BY <1>t DEF SubscriptionsTypes, NotRunning, Running
  <2>2. command' = IF command.details.requested THEN Get(C, "details") ELSE C
    BY <1>9 DEF DetailsRead
  <2> HIDE DEF C
  <2>3. /\ command' \in [status : Running, details : Running]
        /\ command'.status = command.status
        /\ command.details.requested => Fresh(command'.details)
        /\ ~command.details.requested => ~command'.details.getting
    BY <2>1, <2>2, GetRuns DEF Fresh
  <2>4. /\ info' \in [status : Nat, products : Nat, failed : BOOLEAN]
        /\ info'.status = info.status
        /\ info'.failed \/ (info'.products = command.details.out /\ info'.failed = info.failed)
    BY <1>t, <1>9 DEF DetailsRead, SubscriptionsTypes, Running
  <2>5. SubscriptionsTypes'
    BY <1>t, <2>c, <2>3, <2>4 DEF SubscriptionsTypes
  <2>6. Asked' = Asked
    BY <2>c DEF Asked, Requested
  <2>7. Fresh(command.details)' = Fresh(command'.details) /\ Fresh(command.status)' = Fresh(command.status)
    BY <2>c, <2>3 DEF Fresh
  <2>8. info.failed \/ Asked \/ command.status.getting \/ command.details.requested
        \/ command.details.out = system_status
    BY <2>c DEF StatusInv, Fresh
  <2> QED BY <2>c, <2>3, <2>4, <2>5, <2>6, <2>7, <2>8 DEF StatusInv
<1>10. ASSUME Unregister PROVE StatusInv'
  <2>1. info' \in [status : Nat, products : Nat, failed : BOOLEAN] /\ drawn' = info' /\ unregistering'
    BY <1>t, <1>10 DEF Unregister, SubscriptionsTypes
  <2>2. SubscriptionsTypes'
    BY <1>t, <1>10, <2>1 DEF Unregister, SubscriptionsTypes
  <2> QED BY <2>1, <2>2 DEF StatusInv, Asked
<1>11. ASSUME Unregistered PROVE StatusInv'
  <2>0. /\ system_status' \in Nat /\ notices' \in Nat /\ notices' > 0
        /\ unregistering' = FALSE /\ UNCHANGED <<update, updateTimeout, command, info, drawn>>
    BY <1>t, <1>11 DEF Unregistered, SubscriptionsTypes
  <2>1. SubscriptionsTypes' /\ notices' > 0
    BY <1>t, <2>0 DEF SubscriptionsTypes
  <2>2. Asked'
    BY <2>1 DEF Asked
  <2> QED BY <1>11, <2>1, <2>2 DEF Unregistered, StatusInv
<1>12. ASSUME UnregisterFails \/ RegisterCancelled PROVE StatusInv'
  <2>1. RequestUpdate /\ UNCHANGED <<system_status, notices, command, info, drawn>>
        /\ unregistering' \in BOOLEAN
    BY <1>t, <1>12 DEF UnregisterFails, RegisterCancelled, SubscriptionsTypes
  <2>2. SubscriptionsTypes' /\ Asked'
    BY <1>t, <2>1, RequestOpens DEF SubscriptionsTypes, Asked
  <2> QED BY <2>1, <2>2 DEF StatusInv
<1> QED BY <1>1, <1>2, <1>3, <1>4, <1>5, <1>6, <1>7, <1>8, <1>9, <1>10, <1>11, <1>12 DEF SubscriptionsNext

\* What subscriptions-client.js shows when all is quiet (StatusShown): a signal
\* that comes while 'subscription-manager status' runs makes it run again, so that
\* no answer that was read before a change is the last one shown.
THEOREM StatusShownAlways == SubscriptionsSpec => []StatusShown
<1>1. SubscriptionsInit => StatusInv
  <2> SUFFICES ASSUME SubscriptionsInit PROVE StatusInv
    OBVIOUS
  <2>1. 1 \in 1..MaxUpdateCalls
    BY SubscriptionsAssumption
  <2>2. update = [n \in 1..MaxUpdateCalls |-> IF n = 1 THEN [call |-> "open", timer |-> "set"] ELSE NoUpdate]
    BY DEF SubscriptionsInit
  <2>3. update \in [1..MaxUpdateCalls -> [call : {"none", "open", "done", "failed"},
                                          timer : {"none", "set", "cleared", "fired", "late"}]]
    BY <2>2 DEF NoUpdate
  <2>4. update[1].call = "open"
    BY <2>1, <2>2
  <2>5. Asked
    BY <2>1, <2>4 DEF Asked, Requested
  <2>6. SubscriptionsTypes
    BY <2>1, <2>3 DEF SubscriptionsInit, SubscriptionsTypes, NotRunning, Running
  <2> QED BY <2>5, <2>6 DEF SubscriptionsInit, StatusInv
<1>2. StatusInv /\ [SubscriptionsNext]_subscriptionvars => StatusInv'
  <2>1. StatusInv /\ UNCHANGED subscriptionvars => StatusInv'
    BY DEF StatusInv, SubscriptionsTypes, Asked, Requested, Fresh, subscriptionvars
  <2> QED BY <2>1, StatusStep
<1>3. StatusInv => StatusShown
  <2> SUFFICES ASSUME StatusInv, notices = 0, ~unregistering, ~info.failed,
                      \A n \in Requested : update[n].call = "done",
                      \A c \in {"status", "details"} : ~command[c].getting
               PROVE  drawn = [status |-> system_status, products |-> system_status, failed |-> FALSE]
    BY DEF StatusShown
  <2>1. ~command.status.getting /\ ~command.details.getting
    OBVIOUS
  <2>2. ~Asked
    BY DEF Asked
  <2>3. info.status = system_status /\ info.products = system_status /\ drawn = info
    BY <2>1, <2>2 DEF StatusInv, Fresh
  <2>4. info \in [status : Nat, products : Nat, failed : BOOLEAN] /\ info.failed = FALSE
    BY DEF StatusInv, SubscriptionsTypes
  <2>5. info = [status |-> info.status, products |-> info.products, failed |-> info.failed]
    BY <2>4
  <2> QED BY <2>3, <2>4, <2>5
<1> QED BY <1>1, <1>2, <1>3, PTL DEF SubscriptionsSpec

----
(* All pages                                                               *)

BusyInv ==
  /\ UpdatesInv /\ RealmdInv /\ ProxyInv /\ OSTreeInv /\ LibvirtInv /\ LoginInv

\* A step of one of the pages leaves the others alone.
LEMMA PageSteps ==
  ASSUME [Next]_vars
  PROVE  /\ [UpdatesNext]_updatevars /\ [RealmdNext]_realmvars /\ [ServiceProxyNext]_proxyvars
         /\ [OSTreeNext]_ostvars /\ [LibvirtNext]_virtvars /\ [LoginNext]_loginvars
  BY Zenon DEF Next, vars, group1, group2, group3, group4

\* A page that is busy has something under way that will end it
\* (BusyHasCause): the transactions of packagekit.js and rpm-ostree, the
\* operation of the realmd dialog, the promises of service.js, the placeholder
\* of a machine, the form of the login page; for any number of transactions,
\* calls, machines and answers in any order, as long as a page does not call
\* start() again before the first one is settled.
THEOREM BusyPagesHaveCause ==
  ASSUME ~Overlap
  PROVE  Spec => []BusyHasCause
<1>1. Init => BusyInv
  BY UpdatesStarts, RealmdStarts, ProxyStarts, OSTreeStarts, LibvirtStarts, LoginStarts DEF Init, BusyInv
<1>2. BusyInv /\ [Next]_vars => BusyInv'
  BY PageSteps, UpdatesKeeps, RealmdKeeps, ProxyKeeps, OSTreeKeeps, LibvirtKeeps, LoginKeeps DEF BusyInv
<1>3. BusyInv => BusyHasCause
  BY UpdatesGoal, ProxyGoal, LibvirtGoal DEF BusyInv, BusyHasCause, RealmdInv, OSTreeInv, LoginInv
<1> QED BY <1>1, <1>2, <1>3, PTL DEF Spec
=============================================================================
