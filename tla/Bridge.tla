------------------------------- MODULE Bridge --------------------------------
(***************************************************************************)
(* cockpit-bridge: the frontend's transport, the router, its local         *)
(* channels and its peers, run by one main loop.  Each callback of the     *)
(* main loop (a frame from the frontend or from a peer, the end of a       *)
(* process, a timer, an idle callback, a reload of the packages) starts    *)
(* with an empty stack; the calls it makes then run to the end, one step   *)
(* of the model per step of a loop that can call out.                      *)
(*                                                                         *)
(* The "control" and "recv" signals of the transport call the router, then *)
(* the other handlers in the order they connected, until one returns TRUE. *)
(***************************************************************************)
EXTENDS Router

CONSTANTS Closers,       \* channels the frontend may close
          Reused         \* channels whose id the frontend may open again

ASSUME BridgeAssumption == Closers \subseteq Channels /\ Reused \subseteq Channels

VARIABLE kinds           \* kinds[c]: what the frontend has sent for c

Kinds == {"open", "data", "close"}

vars == <<tvars, pvars, rvars, kinds>>

Kind(m) == kinds[m.ch][m.n]

Init ==
  /\ TransportInit /\ PeerInit /\ RouterInit
  /\ kinds = [c \in Channels |-> <<>>]

-----------------------------------------------------------------------------
(* The frontend. *)

\* The last open message for c was not followed by a close.
FrontOpen(c) ==
  \E i \in DOMAIN kinds[c] :
    kinds[c][i] = "open" /\ \A j \in i .. Len(kinds[c]) : kinds[c][j] # "close"

FrontMay(c, k) ==
  CASE k = "open"  -> kinds[c] = <<>> \/ c \in Reused
    [] k = "data"  -> FrontOpen(c)
    [] k = "close" -> FrontOpen(c) /\ c \in Closers

FrontSend(c, k) ==
  /\ FrontMay(c, k)
  /\ Recv(c)
  /\ kinds' = [kinds EXCEPT ![c] = Append(@, k)]
  /\ UNCHANGED <<pvars, rvars>>

\* process_init: the first good one counts, any other closes the connection
FrontInit(good) ==
  /\ Idle
  /\ IF good /\ ~init_host
       THEN init_host' = TRUE /\ closed' = closed
       ELSE closed' = TRUE /\ init_host' = init_host
  /\ UNCHANGED <<freeze, key, frozen, stack, cur, sent, taken, dangled,
                 pvars, rules, handlers, local, fences, fenced, reloads, kinds>>

FrontKill(g) ==
  /\ Idle /\ init_host
  /\ Group(g) # {}
  /\ stack' = Push(stack, <<[f |-> "kill", chans |-> Group(g)]>>)
  /\ UNCHANGED <<freeze, key, frozen, cur, sent, taken, dangled, closed,
                 pvars, rvars, kinds>>

-----------------------------------------------------------------------------
(* The handlers, for the message m. *)

\* on_transport_control of the router: no "init" yet
NoInit(m) ==
  /\ ~init_host /\ Kind(m) # "data"
  /\ closed' = TRUE
  /\ UNCHANGED <<freeze, key, frozen, stack, cur, sent, taken, dangled,
                 pvars, rvars>>

ProcessOpen(m) ==
  /\ init_host /\ Kind(m) = "open"
  /\ OpenInUse(m) \/ OpenFenced(m) \/ OpenMalformed(m) \/ OpenWalk(m)

Claims(h, m) ==
  IF h \in Peers THEN PeerClaims(h, m, Kind(m) = "data") ELSE h = m.ch

\* The handlers that would take m, by their place.
Claimants(m) == {i \in 1 .. Len(handlers) : Claims(handlers[i], m)}

First(S) == CHOOSE i \in S : \A j \in S : i <= j

Unclaimed(m) ==
  /\ Claimants(m) = {}
  /\ Taken(m)
  /\ UNCHANGED <<freeze, key, frozen, stack, sent, dangled, closed, pvars, rvars>>

ToPeer(m) ==
  /\ Claimants(m) # {}
  /\ LET h == handlers[First(Claimants(m))]
     IN  h \in Peers /\ PeerForward(h, m, Kind(m) = "close")
  /\ Taken(m)
  /\ UNCHANGED <<freeze, key, frozen, stack, sent, dangled, closed, rvars>>

\* process_recv and process_control of the channel.  A close closes it, and
\* so may an implementation that fails on the data.
ToLocal(m) ==
  /\ Claimants(m) # {}
  /\ handlers[First(Claimants(m))] = m.ch
  /\ Deliver(m, "local")
  /\ Taken(m)
  /\ \/ CloseChannel(m.ch, stack)
     \/ Kind(m) = "data" /\ UNCHANGED <<stack, handlers, local, out, fences, fenced>>
  /\ UNCHANGED <<freeze, key, frozen, sent, dangled, closed,
                 peer, child, spawned, rules, init_host, reloads>>

Route(m) ==
  /\ ~InWalk
  /\ init_host \/ Kind(m) = "data"
  /\ Kind(m) # "open"
  /\ Unclaimed(m) \/ ToPeer(m) \/ ToLocal(m)

WalkRules(m) ==
  /\ InWalk
  /\ RuleSkip(m) \/ RulePeer(m) \/ RulePayload(m) \/ RuleNotSupported(m) \/ RulesEnd(m)

Handle ==
  /\ \E m \in cur :
       \/ ~InWalk /\ (NoInit(m) \/ ProcessOpen(m))
       \/ Route(m)
       \/ WalkRules(m)
  /\ UNCHANGED kinds

-----------------------------------------------------------------------------
(* Next. *)

\* The calls a callback has started go on.
Continue ==
  /\ \/ (FlushNext \/ FlushEnd \/ FlushDangling) /\ UNCHANGED <<pvars, rvars>>
     \/ (\E c \in Channels : Orphan(c)) /\ UNCHANGED rvars
     \/ (OrphansEnd \/ ResetClose \/ ResetClear \/ Resume \/ ThawCall)
        /\ UNCHANGED rvars
     \/ ChannelSendReady
     \/ \E c \in Channels : Kill(c)
     \/ KillEnd \/ SetBridgesRule \/ SetBridgesEnd \/ Dispose
  /\ UNCHANGED kinds

\* Events of a peer's process.
PeerEvent(p) ==
  /\ OtherInit(p) \/ OtherInitProblem(p) \/ OtherExit(p)
  /\ UNCHANGED <<rvars, kinds>>

PeerChannelEvent(p) ==
  /\ \E c \in Channels : OtherReady(p, c) \/ OtherClose(p, c)
  /\ UNCHANGED <<rvars, kinds>>

PeerTimer(p) == PeerTimeout(p) /\ UNCHANGED <<rvars, kinds>>

Prepare(c) == ChannelPrepare(c) /\ UNCHANGED kinds

LocalEvent(c) ==
  (ChannelReady(c) \/ ChannelClose(c) \/ ChannelEnded(c)) /\ UNCHANGED kinds

Reload ==
  /\ \E bs \in Bridges :
       /\ bs # SubSeq(rules, 1, Len(rules) - Len(BuiltIn))
       /\ SetBridges(bs)
  /\ UNCHANGED kinds

Frontend ==
  \/ \E c \in Channels, k \in Kinds : FrontSend(c, k)
  \/ \E good \in BOOLEAN : FrontInit(good)
  \/ \E g \in {"all", "fence", "default"} : FrontKill(g)

Next ==
  /\ ~closed
  /\ \/ Handle \/ Continue \/ Frontend \/ Reload
     \/ \E p \in Peers : PeerEvent(p) \/ PeerChannelEvent(p) \/ PeerTimer(p)
     \/ \E c \in Channels : Prepare(c) \/ LocalEvent(c)

Spec == Init /\ [][Next]_vars

(***************************************************************************)
(* Fairness: calls return, and the main loop dispatches what stays ready   *)
(* (the idle callback of a new channel).  Of the world: a started process  *)
(* sends its "init" or exits, and a channel of the "fence" group ends,     *)
(* though the main loop is busy with other callbacks now and then (SF).    *)
(***************************************************************************)
PeerStarts(p) ==
  ~peer[p].inited /\ (OtherInit(p) \/ OtherExit(p)) /\ UNCHANGED <<rvars, kinds>>

FenceEnds(c) == (ChannelClose(c) \/ ChannelEnded(c)) /\ UNCHANGED kinds

Fairness ==
  /\ WF_vars(~closed /\ (Handle \/ Continue))
  /\ \A c \in Channels : WF_vars(~closed /\ Prepare(c))
  /\ \A p \in Peers : WF_vars(~closed /\ PeerStarts(p))
  /\ \A c \in Fence : SF_vars(~closed /\ FenceEnds(c))

FairSpec == Spec /\ Fairness

-----------------------------------------------------------------------------
(* Types. *)

Frame ==
  Flush
  \cup [f : {"thaw", "ready"}, ch : Channels]
  \cup [f : {"resume"}, q : Seq(Channels)]
  \cup [f : {"orphans"}, p : Peers, problem : BOOLEAN, chans : SUBSET Channels]
  \cup [f : {"reset", "clear", "dispose"}, p : Peers]
  \cup [f : {"rules"}, i : Nat]
  \cup [f : {"kill"}, chans : SUBSET Channels]
  \cup [f : {"bridges"}, old : Seq(Peers \cup ToSet(BuiltIn))]

\* Every variable has its type.
TypeOK ==
  /\ freeze \subseteq Channels
  /\ key \in [Channels -> Nat]
  /\ frozen \in Seq(Node)
  /\ stack \in Seq(Frame)
  /\ cur \in SUBSET Message
  /\ sent \in [Channels -> Nat]
  /\ taken \in [Channels -> Nat]
  /\ dangled \in BOOLEAN
  /\ closed \in BOOLEAN
  /\ peer \in [Peers -> PeerState]
  /\ child \in [Peers -> SUBSET Channels]
  /\ spawned \in [Peers -> Nat]
  /\ out \in [Channels -> Seq({"ready", "close"})]
  /\ got \in [Channels -> Seq([n : Nat, by : Peers \cup {"local"}])]
  /\ rules \in Seq(Peers \cup ToSet(BuiltIn))
  /\ handlers \in Seq(Peers \cup Channels)
  /\ local \in [Channels -> LocalState]
  /\ fences \subseteq Channels
  /\ fenced \in Seq(Channels)
  /\ init_host \in BOOLEAN
  /\ reloads \in Nat
  /\ kinds \in [Channels -> Seq(Kinds)]

-----------------------------------------------------------------------------
(* Properties. *)

\* The walks of the transport among the calls on the stack.
Walks(s) == Picked(s, {i \in DOMAIN s : s[i].f = "flush"})

T == INSTANCE Transport WITH stack <- Walks(stack)

(***************************************************************************)
(* The router, the peers and the local channels use the transport only as  *)
(* module Transport allows: they freeze a channel only while they handle a *)
(* message of it, and every re-emission is held.  What is proved of        *)
(* Transport therefore holds of the bridge.                                *)
(***************************************************************************)
UsesTransport == T!TransportSpec

\* Whether either end has sent "close" for the channel.
ClosedSent(c) == "close" \in ToSet(out[c]) \cup ToSet(kinds[c])

(***************************************************************************)
(* One handler gets all messages of a channel, from its open on, without a *)
(* gap and in order, whatever peers failed and rules were walked before it *)
(* got the open (process_open, cockpit_peer_handle, on_other_closed).  An  *)
(* id the frontend opens twice is left out.                                *)
(***************************************************************************)
OneHandlerInOrder ==
  \A c \in Channels \ Reused : \A i \in DOMAIN got[c] :
    got[c][i].n = i /\ got[c][i].by = got[c][1].by

(***************************************************************************)
(* A message that no handler got belongs to a channel that one end has     *)
(* closed, or that is closing: no open is lost on its way through the      *)
(* rules, and no data between two handlers.                                *)
(***************************************************************************)
NothingDropped ==
  \A c \in Channels :
    taken[c] > Len(got[c]) => ClosedSent(c) \/ local[c] = "closing" \/ ~init_host

\* A call on the stack will thaw the channel.
ThawUnderway(c) ==
  \E i \in 1 .. Len(stack) :
    LET fr == stack[i]
    IN  \/ fr.f = "thaw" /\ fr.ch = c
        \/ fr.f = "resume" /\ c \in ToSet(fr.q)
        \/ fr.f = "orphans" /\ c \in fr.chans

(***************************************************************************)
(* A channel in the freeze table waits for somebody who will thaw it: a    *)
(* local channel that is not ready, a peer that is starting, the fence, or *)
(* a call under way.  (One closed before it was ready stays frozen.)       *)
(***************************************************************************)
FrozenHasHolder ==
  \A c \in freeze :
    \/ local[c] \in {"new", "unsupported", "prepared", "closing"}
    \/ \E p \in Peers : /\ peer[p].other /\ ~peer[p].inited
                        /\ c \in peer[p].channels
                        /\ c \in ToSet(peer[p].frozen)
    \/ fences # {} /\ c \in ToSet(fenced)
    \/ ThawUnderway(c)
    \/ ClosedSent(c)

(***************************************************************************)
(* In the main loop, a channel is with one peer or is a local channel, and *)
(* never with two handlers that would compete for its messages.            *)
(***************************************************************************)
OneOwner ==
  Idle => \A c \in Channels :
    /\ Cardinality({p \in Peers : c \in peer[p].channels}) <= 1
    /\ local[c] # "none" => \A p \in Peers : c \notin peer[p].channels

(***************************************************************************)
(* g_assert (self->other == NULL) in cockpit_peer_reset: closing the       *)
(* process, which re-routes its channels, has not started a new one.       *)
(***************************************************************************)
ResetAssertion ==
  Running("clear") => ~peer[Top.p].other

(***************************************************************************)
(* A channel the fence holds back was opened after the fence: no peer has  *)
(* it already.                                                             *)
(***************************************************************************)
FenceBlocksOnlyLater ==
  Idle => \A c \in ToSet(fenced), p \in Peers : c \notin peer[p].channels

\* What counts as an answer to an open.
Answered(c) ==
  \/ out[c] # <<>>
  \/ \E i \in DOMAIN got[c] : got[c][i].by \in Peers
  \/ local[c] = "prepared"
  \/ closed

(***************************************************************************)
(* Every open gets somewhere: the frontend is told that the channel is     *)
(* ready or closed, a peer that is up is sent the open, or the local       *)
(* channel's implementation has it; or the connection ends.                *)
(***************************************************************************)
EveryOpenAnswered ==
  \A c \in Channels \ Reused : kinds[c] # <<>> ~> Answered(c)

(***************************************************************************)
(* The frontend is told at most once that a channel is closed, by          *)
(* on_other_closed, by cockpit_peer_handle or by the channel itself.       *)
(***************************************************************************)
ClosedOnce ==
  \A c \in Channels :
    \A i, j \in DOMAIN out[c] :
      out[c][i] = "close" /\ out[c][j] = "close" => i = j

(***************************************************************************)
(* "close" is the last the frontend hears of a channel: cockpit_channel_-  *)
(* ready, whose thaw may close the channel, sends nothing after it.        *)
(***************************************************************************)
QuietAfterClose ==
  \A c \in Channels :
    \A i \in DOMAIN out[c] : out[c][i] = "close" => i = Len(out[c])

=============================================================================
