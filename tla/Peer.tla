-------------------------------- MODULE Peer ---------------------------------
(***************************************************************************)
(* CockpitPeer (src/bridge/cockpitpeer.c): one configured peer bridge, a   *)
(* process that cockpit-bridge starts when the first channel is routed to  *)
(* it.  Until its "init" arrives the peer freezes those channels; then the *)
(* held messages are re-emitted, which routes every channel again, to this *)
(* peer, now inited, or wherever the rules lead by then.                   *)
(*                                                                         *)
(* A callback that loops, and calls out of the loop, is a frame on the     *)
(* stack of module Transport:                                              *)
(*   thaw     a call of cockpit_transport_thaw                             *)
(*   resume   a loop that thaws the channels of a queue                    *)
(*   orphans  the loop of on_other_closed over the peer's channels         *)
(*   reset, clear   cockpit_peer_reset, before and after it has closed     *)
(*                  the process                                            *)
(***************************************************************************)
EXTENDS Transport

CONSTANTS Peers,         \* the configured bridges
          Problem,       \* those whose configuration has a "problem"
          Timeout,       \* those whose configuration has a "timeout"
          MaxSpawns      \* bound: processes started per configuration

ASSUME PeerAssumption ==
  /\ Problem \subseteq Peers
  /\ Timeout \subseteq Peers
  /\ MaxSpawns \in Nat

VARIABLES peer,          \* the CockpitPeer of each configuration
          child,         \* child[p]: the channels open in the process (external)
          spawned,       \* spawned[p]: processes started
          out,           \* out[c]: control messages sent to the frontend
          got            \* got[c]: who was handed which message of c

pvars == <<peer, child, spawned, out, got>>

NewPeer ==
  [other |-> FALSE, inited |-> FALSE, closed |-> FALSE, failure |-> FALSE,
   problem |-> FALSE, channels |-> {}, frozen |-> <<>>, timer |-> FALSE]

PeerState ==
  [other : BOOLEAN, inited : BOOLEAN, closed : BOOLEAN, failure : BOOLEAN,
   problem : BOOLEAN, channels : SUBSET Channels, frozen : Seq(Channels), timer : BOOLEAN]

PeerInit ==
  /\ peer = [p \in Peers |-> NewPeer]
  /\ child = [p \in Peers |-> {}]
  /\ spawned = [p \in Peers |-> 0]
  /\ out = [c \in Channels |-> <<>>]
  /\ got = [c \in Channels |-> <<>>]

\* Nothing but the main loop is running.
Idle == stack = <<>> /\ cur = {}

Running(f) == cur = {} /\ stack # <<>> /\ Top.f = f

\* Frames pushed on s, the first of fs outermost.
Push(s, fs) == s \o fs

\* The elements of s at the places I, in their order.
Picked(s, I) ==
  LET picked[i \in 0 .. Len(s)] ==
        IF i = 0 THEN <<>>
        ELSE IF i \in I THEN Append(picked[i - 1], s[i]) ELSE picked[i - 1]
  IN  picked[Len(s)]

\* A control message for channel c to the frontend.
Send(c, command) == out' = [out EXCEPT ![c] = Append(@, command)]

\* Handler h is handed message m.
Deliver(m, h) == got' = [got EXCEPT ![m.ch] = Append(@, [n |-> m.n, by |-> h])]

-----------------------------------------------------------------------------
(***************************************************************************)
(* cockpit_peer_handle, called from a rule of the router for the open      *)
(* message m; cockpit_peer_ensure has just left the peer as q.             *)
(***************************************************************************)

\* cockpit_peer_ensure and spawn_process_for_config: what the peer may be
\* after them.
Ensured(p) ==
  IF peer[p].closed \/ peer[p].other
    THEN {peer[p]}
    ELSE {[peer[p] EXCEPT !.closed = TRUE, !.problem = p \in Problem]}
         \cup IF spawned[p] < MaxSpawns
                THEN {[peer[p] EXCEPT !.other = TRUE]} ELSE {}

Spawned(p, q) ==
  spawned' = IF q.other /\ ~peer[p].other
               THEN [spawned EXCEPT ![p] = @ + 1] ELSE spawned

\* The channel is the peer's from now on, and a pending timeout is off.
Adopt(q, c) == [q EXCEPT !.channels = @ \cup {c}, !.timer = FALSE]

\* The peer failed to start, with a problem: the channel is closed.
HandleClosed(p, q, m) ==
  /\ q.closed /\ q.problem
  /\ peer' = [peer EXCEPT ![p] = q]
  /\ Send(m.ch, "close")
  /\ Taken(m)
  /\ UNCHANGED <<freeze, key, frozen, child, got>>

\* The peer is up: it is sent the message.
HandleInited(p, q, m) ==
  /\ ~q.closed /\ q.inited
  /\ peer' = [peer EXCEPT ![p] = Adopt(q, m.ch)]
  /\ child' = [child EXCEPT ![p] = @ \cup {m.ch}]
  /\ Deliver(m, p)
  /\ Taken(m)
  /\ UNCHANGED <<freeze, key, frozen, out>>

\* Mutant: the peer notes the channel and does not freeze it.
HandleStartingUnfrozen(p, q, m) ==
  /\ ~q.closed /\ ~q.inited
  /\ peer' = [peer EXCEPT ![p] = [Adopt(q, m.ch) EXCEPT !.frozen = Append(@, m.ch)]]
  /\ Taken(m)
  /\ UNCHANGED <<freeze, key, frozen, child, out, got>>

\* The peer is starting: the channel is frozen until it is up.
HandleStarting(p, q, m) ==
  /\ ~q.closed /\ ~q.inited
  /\ peer' = [peer EXCEPT ![p] = [Adopt(q, m.ch) EXCEPT !.frozen = Append(@, m.ch)]]
  /\ Requeue(m)
  /\ UNCHANGED <<taken, child, out, got>>

\* Otherwise the next rule is tried.
Refuses(q) == q.closed /\ ~q.problem

-----------------------------------------------------------------------------
(* Messages from the frontend for a channel the peer has. *)

\* on_transport_control, and on_transport_recv, which needs a process
PeerClaims(p, m, isData) ==
  /\ m.ch \in peer[p].channels
  /\ isData => peer[p].other

PeerForward(p, m, isClose) ==
  /\ peer' = IF isClose THEN [peer EXCEPT ![p].channels = @ \ {m.ch}] ELSE peer
  /\ IF peer[p].other THEN Deliver(m, p) ELSE got' = got
  /\ UNCHANGED <<child, spawned, out>>

-----------------------------------------------------------------------------
(* Events of the process. *)

\* Mutant: the channels stay in the peer's table.
OtherClosedKeeps(p, s) ==
  LET problem == peer[p].inited \/ peer[p].failure \/ p \in Problem
  IN  /\ peer' = [peer EXCEPT ![p] =
                    [@ EXCEPT !.other = FALSE, !.closed = TRUE,
                              !.problem = IF peer[p].inited THEN peer[p].problem ELSE problem]]
      /\ child' = [child EXCEPT ![p] = {}]
      /\ stack' = Push(s, <<[f |-> "orphans", p |-> p, problem |-> problem,
                             chans |-> peer[p].channels]>>)

\* on_other_closed, up to its loop; fail_start_problem of a peer not inited:
\* the problem its "init" named, or the configured one
OtherClosed(p, s) ==
  LET problem == peer[p].inited \/ peer[p].failure \/ p \in Problem
  IN  /\ peer' = [peer EXCEPT ![p] =
                    [@ EXCEPT !.other = FALSE, !.closed = TRUE, !.channels = {},
                              !.problem = IF peer[p].inited THEN peer[p].problem ELSE problem]]
      /\ child' = [child EXCEPT ![p] = {}]
      /\ stack' = Push(s, <<[f |-> "orphans", p |-> p, problem |-> problem,
                             chans |-> peer[p].channels]>>)

\* Mutant: the waiting channels are forgotten.
OtherInitForgets(p) ==
  /\ Idle
  /\ peer[p].other /\ ~peer[p].inited /\ ~peer[p].failure
  /\ peer' = [peer EXCEPT ![p] = [@ EXCEPT !.inited = TRUE, !.frozen = <<>>]]
  /\ UNCHANGED <<tvars, child, spawned, out, got>>

\* on_other_control, "init": thaw what waited
OtherInit(p) ==
  /\ Idle
  /\ peer[p].other /\ ~peer[p].inited /\ ~peer[p].failure
  /\ peer' = [peer EXCEPT ![p] = [@ EXCEPT !.inited = TRUE, !.frozen = <<>>]]
  /\ stack' = Push(stack, <<[f |-> "resume", q |-> peer[p].frozen]>>)
  /\ UNCHANGED <<freeze, key, frozen, cur, sent, taken, dangled, closed,
                 child, spawned, out, got>>

\* on_other_control, an "init" with a problem: the process is closed, and
\* its end is noticed later
OtherInitProblem(p) ==
  /\ Idle
  /\ peer[p].other /\ ~peer[p].inited /\ ~peer[p].failure
  /\ peer' = [peer EXCEPT ![p].failure = TRUE]
  /\ UNCHANGED <<tvars, child, spawned, out, got>>

\* The process exits, or is closed for a bad version or for a message before
\* its init.
OtherExit(p) ==
  /\ Idle
  /\ peer[p].other
  /\ OtherClosed(p, stack)
  /\ UNCHANGED <<freeze, key, frozen, cur, sent, taken, dangled, closed,
                 spawned, out, got>>

\* on_other_control, "ready" for a channel: forwarded
OtherReady(p, c) ==
  /\ Idle
  /\ peer[p].inited /\ c \in child[p]
  /\ "ready" \notin {out[c][i] : i \in DOMAIN out[c]}
  /\ Send(c, "ready")
  /\ UNCHANGED <<tvars, peer, child, spawned, got>>

\* on_other_control, "close" for a channel: forwarded; after the last channel
\* the timeout runs
OtherClose(p, c) ==
  /\ Idle
  /\ peer[p].inited /\ c \in child[p]
  /\ child' = [child EXCEPT ![p] = @ \ {c}]
  /\ LET rest == peer[p].channels \ {c}
         timer == IF rest = {} THEN p \in Timeout ELSE peer[p].timer
     IN  peer' = [peer EXCEPT ![p] = [@ EXCEPT !.channels = rest, !.timer = timer]]
  /\ Send(c, "close")
  /\ UNCHANGED <<tvars, spawned, got>>

\* on_timeout_reset
PeerTimeout(p) ==
  /\ Idle
  /\ peer[p].timer
  /\ peer' = [peer EXCEPT ![p].timer = FALSE]
  /\ stack' = IF peer[p].channels = {}
                THEN Push(stack, <<[f |-> "reset", p |-> p]>>) ELSE stack
  /\ UNCHANGED <<freeze, key, frozen, cur, sent, taken, dangled, closed,
                 child, spawned, out, got>>

-----------------------------------------------------------------------------
(* The loops. *)

\* Mutants of the loop's body: the close is not sent; the channel is not
\* thawed; something else is thawed.
OrphanSilent(c) ==
  /\ Running("orphans")
  /\ c \in Top.chans
  /\ stack' = Push(Pop, <<[Top EXCEPT !.chans = @ \ {c}], [f |-> "thaw", ch |-> c]>>)
  /\ UNCHANGED <<freeze, key, frozen, cur, sent, taken, dangled, closed, pvars>>

OrphanUnthawed(c) ==
  /\ Running("orphans")
  /\ c \in Top.chans
  /\ IF Top.problem THEN Send(c, "close") ELSE out' = out
  /\ stack' = Push(Pop, <<[Top EXCEPT !.chans = @ \ {c}]>>)
  /\ UNCHANGED <<freeze, key, frozen, cur, sent, taken, dangled, closed,
                 peer, child, spawned, got>>

OrphanMisnamed(c) ==
  /\ Running("orphans")
  /\ c \in Top.chans
  /\ IF Top.problem THEN Send(c, "close") ELSE out' = out
  /\ stack' = Push(Pop, <<[Top EXCEPT !.chans = @ \ {c}], [f |-> "thaw", ch |-> Top.p]>>)
  /\ UNCHANGED <<freeze, key, frozen, cur, sent, taken, dangled, closed,
                 peer, child, spawned, got>>

\* One turn of on_other_closed's loop: reply_channel_closed, then thaw.
Orphan(c) ==
  /\ Running("orphans")
  /\ c \in Top.chans
  /\ IF Top.problem THEN Send(c, "close") ELSE out' = out
  /\ stack' = Push(Pop, <<[Top EXCEPT !.chans = @ \ {c}], [f |-> "thaw", ch |-> c]>>)
  /\ UNCHANGED <<freeze, key, frozen, cur, sent, taken, dangled, closed,
                 peer, child, spawned, got>>

\* After it: a peer with a timeout can cycle back up.
OrphansEnd ==
  /\ Running("orphans")
  /\ Top.chans = {}
  /\ stack' = IF Top.p \in Timeout
                THEN Push(Pop, <<[f |-> "reset", p |-> Top.p]>>) ELSE Pop
  /\ UNCHANGED <<freeze, key, frozen, cur, sent, taken, dangled, closed, pvars>>

\* Mutant: a running process is not closed.
ResetUnclosed ==
  /\ Running("reset")
  /\ stack' = Push(Pop, <<[f |-> "clear", p |-> Top.p]>>)
  /\ UNCHANGED <<freeze, key, frozen, cur, sent, taken, dangled, closed, pvars>>

\* cockpit_peer_reset: close the process, which calls on_other_closed
ResetClose ==
  /\ Running("reset")
  /\ LET p == Top.p
         s == Push(Pop, <<[f |-> "clear", p |-> p]>>)
     IN  IF peer[p].other
           THEN OtherClosed(p, s)
           ELSE stack' = s /\ peer' = peer /\ child' = child
  /\ UNCHANGED <<freeze, key, frozen, cur, sent, taken, dangled, closed,
                 spawned, out, got>>

\* ... and start over
ResetClear ==
  /\ Running("clear")
  /\ peer' = [peer EXCEPT ![Top.p] = [NewPeer EXCEPT !.other = peer[Top.p].other]]
  /\ stack' = Pop
  /\ UNCHANGED <<freeze, key, frozen, cur, sent, taken, dangled, closed,
                 child, spawned, out, got>>

\* The loop that thaws a queue of channels.
Resume ==
  /\ Running("resume")
  /\ stack' = IF Top.q = <<>> THEN Pop
              ELSE Push(Pop, <<[Top EXCEPT !.q = Tail(@)],
                               [f |-> "thaw", ch |-> Head(Top.q)]>>)
  /\ UNCHANGED <<freeze, key, frozen, cur, sent, taken, dangled, closed, pvars>>

\* Mutant: the name is looked up and not taken out of the table.
ThawLookup ==
  /\ Running("thaw")
  /\ stack' = IF Top.ch \in freeze THEN Push(Pop, <<Walk(Top.ch)>>) ELSE Pop
  /\ UNCHANGED <<freeze, key, frozen, cur, sent, taken, dangled, closed, pvars>>

\* cockpit_transport_thaw: a walk, if the channel is in the table
ThawCall ==
  /\ Running("thaw")
  /\ freeze' = freeze \ {Top.ch}
  /\ stack' = IF Top.ch \in freeze THEN Push(Pop, <<Walk(Top.ch)>>) ELSE Pop
  /\ UNCHANGED <<key, frozen, cur, sent, taken, dangled, closed, pvars>>

=============================================================================
