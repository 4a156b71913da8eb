------------------------------- MODULE Router --------------------------------
(***************************************************************************)
(* CockpitRouter (src/bridge/cockpitrouter.c) and the part of CockpitChannel *)
(* (src/bridge/cockpitchannel.c) that decides when a local channel exists, *)
(* becomes ready and closes.  The router takes every open message and      *)
(* walks its rules until one accepts the channel: a peer, a local channel  *)
(* implementation, or the last rule, whose channel closes with             *)
(* "not-supported".  While a local channel of the "fence" group exists,    *)
(* opens are held back.                                                    *)
(*                                                                         *)
(* Further frames on the stack:                                            *)
(*   rules    the walk of process_open over the rules, for the message cur *)
(*   ready    cockpit_channel_ready, after its thaw                        *)
(*   kill     the loop of process_kill                                     *)
(*   bridges  the second loop of cockpit_router_set_bridges                *)
(*   dispose  cockpit_peer_dispose, after its reset                        *)
(***************************************************************************)
EXTENDS Peer, SequencesExt

CONSTANTS Match,         \* Match[p]: the channels whose open matches p's rule
          Payload,       \* channels whose payload is implemented locally
          Foreign,       \* channels for another host
          Malformed,     \* channels with an invalid "host" field
          Fence,         \* channels opened in the "fence" group
          Bridges,       \* the bridge lists a (re)load may find, as sequences
          MaxReloads     \* bound: reloads of the packages

ASSUME RouterAssumption ==
  /\ Match \in [Peers -> SUBSET Channels]
  /\ Payload \subseteq Channels /\ Foreign \subseteq Channels
  /\ Malformed \subseteq Channels /\ Fence \subseteq Channels
  /\ Bridges \subseteq Seq(Peers)
  /\ MaxReloads \in Nat

VARIABLES rules,         \* the rules, in the order they are tried
          handlers,      \* who is connected to the transport's signals
          local,         \* local[c]: the local channel, if there is one
          fences,        \* local channels of the "fence" group
          fenced,        \* channels held back by the fence
          init_host,     \* the frontend has sent its "init"
          reloads        \* reloads so far

rvars == <<rules, handlers, local, fences, fenced, init_host, reloads>>

\* The rules that are not bridges: cockpit_router_ban_hosts, the payloads,
\* and the default of cockpit_router_init.
BuiltIn == <<"hosts", "payloads", "default">>

\* A peer is neither one of these nor a channel.
ASSUME NamesAssumption == Peers \cap (ToSet(BuiltIn) \cup Channels) = {}

LocalState == {"none",          \* there is no local channel
               "unsupported",   \* created by process_open_not_supported
               "new",           \* created by process_open_channel
               "prepared",      \* its idle callback has run
               "ready",         \* it has called cockpit_channel_ready
               "closing"}       \* closed, while its own process or socket ends

\* A list without what is in S.
Without(s, S) == Picked(s, {i \in DOMAIN s : s[i] \notin S})

\* The peers of configurations bs are created from the last to the first.
Created(bs, reused) == Without(Reverse(bs), reused)

RouterInit ==
  /\ \E bs \in Bridges :
       /\ rules = bs \o BuiltIn
       /\ handlers = Created(bs, {})
  /\ local = [c \in Channels |-> "none"]
  /\ fences = {}
  /\ fenced = <<>>
  /\ init_host = FALSE
  /\ reloads = 0

\* router_rule_match
Matches(r, c) ==
  CASE r = "hosts"    -> c \in Foreign
    [] r = "payloads" -> c \in Payload
    [] r = "default"  -> TRUE
    [] OTHER          -> c \in Match[r]

-----------------------------------------------------------------------------
(* Local channels. *)

\* create_channel: the constructor connects to the transport and freezes
\* the channel.
CreateChannel(m, state) ==
  /\ local' = [local EXCEPT ![m.ch] = state]
  /\ handlers' = Append(handlers, m.ch)
  /\ Deliver(m, "local")
  /\ Taken(m)
  /\ Freeze(m.ch)
  /\ UNCHANGED <<frozen, sent, dangled, closed, peer, child, spawned, out,
                 rules, fenced, init_host, reloads>>

\* Mutant: the fenced channels are not thawed.
ChannelClosedUnthawed(c, s) ==
  /\ local' = [local EXCEPT ![c] = "none"]
  /\ Send(c, "close")
  /\ fences' = fences \ {c}
  /\ UNCHANGED fenced
  /\ stack' = s

(***************************************************************************)
(* cockpit_channel_real_close: send "close", and on_channel_closed in the  *)
(* router, which thaws the fenced channels after the last fence.  s is the *)
(* stack to return to.                                                     *)
(***************************************************************************)
ChannelClosed(c, s) ==
  /\ local' = [local EXCEPT ![c] = "none"]
  /\ Send(c, "close")
  /\ fences' = fences \ {c}
  /\ IF fences = {c}
       THEN fenced' = <<>> /\ stack' = Push(s, <<[f |-> "resume", q |-> fenced]>>)
       ELSE fenced' = fenced /\ stack' = s

\* The implementation's close waits for its pipe to close.
ChannelCloses(c, s) ==
  /\ local[c] \in {"prepared", "ready", "closing"}
  /\ local' = [local EXCEPT ![c] = "closing"]
  /\ stack' = s
  /\ UNCHANGED <<out, fences, fenced>>

\* cockpit_channel_close: disconnect, then the close of the implementation
CloseChannel(c, s) ==
  /\ handlers' = Without(handlers, {c})
  /\ ChannelClosed(c, s) \/ ChannelCloses(c, s)

\* cockpit_channel_ready, to be followed by its thaw
ReadyFrames(c) == <<[f |-> "ready", ch |-> c], [f |-> "thaw", ch |-> c]>>

\* on_idle_prepare: the channel without an implementation closes; one with
\* an implementation is ready, waits for something, or fails.
ChannelPrepare(c) ==
  /\ Idle
  /\ \/ /\ local[c] \in {"new", "unsupported"}
        /\ CloseChannel(c, stack)
     \/ /\ local[c] = "new"
        /\ \/ local' = [local EXCEPT ![c] = "prepared"] /\ stack' = stack
           \/ local' = [local EXCEPT ![c] = "ready"]
              /\ stack' = Push(stack, ReadyFrames(c))
        /\ UNCHANGED <<handlers, out, fences, fenced>>
  /\ UNCHANGED <<freeze, key, frozen, cur, sent, taken, dangled, closed,
                 peer, child, spawned, got, rules, init_host, reloads>>

\* The implementation has what it waited for.
ChannelReady(c) ==
  /\ Idle
  /\ local[c] = "prepared"
  /\ local' = [local EXCEPT ![c] = "ready"]
  /\ stack' = Push(stack, ReadyFrames(c))
  /\ UNCHANGED <<freeze, key, frozen, cur, sent, taken, dangled, closed,
                 pvars, rules, handlers, fences, fenced, init_host, reloads>>

\* The "ready" message, sent when the thaw has returned.
ChannelSendReady ==
  /\ Running("ready")
  /\ Send(Top.ch, "ready")
  /\ stack' = Pop
  /\ UNCHANGED <<freeze, key, frozen, cur, sent, taken, dangled, closed,
                 peer, child, spawned, got, rvars>>

\* The implementation ends or fails.
ChannelClose(c) ==
  /\ Idle
  /\ local[c] \in {"prepared", "ready"}
  /\ CloseChannel(c, stack)
  /\ UNCHANGED <<freeze, key, frozen, cur, sent, taken, dangled, closed,
                 peer, child, spawned, got, rules, init_host, reloads>>

\* What the closing implementation waited for has ended.
ChannelEnded(c) ==
  /\ Idle
  /\ local[c] = "closing"
  /\ ChannelClosed(c, stack)
  /\ UNCHANGED <<freeze, key, frozen, cur, sent, taken, dangled, closed,
                 peer, child, spawned, got, rules, handlers, init_host, reloads>>

-----------------------------------------------------------------------------
(* process_open, for the message m. *)

\* The id is in use by a local channel: the connection is closed.
OpenInUse(m) ==
  /\ local[m.ch] # "none"
  /\ closed' = TRUE
  /\ UNCHANGED <<freeze, key, frozen, stack, cur, sent, taken, dangled,
                 pvars, rvars>>

\* Held back by the fence.
OpenFenced(m) ==
  /\ local[m.ch] = "none"
  /\ fences # {} /\ m.ch \notin fences
  /\ fenced' = Append(fenced, m.ch)
  /\ Requeue(m)
  /\ UNCHANGED <<stack, sent, taken, dangled, closed, pvars,
                 rules, handlers, local, fences, init_host, reloads>>

Admitted(m) == local[m.ch] = "none" /\ (fences = {} \/ m.ch \in fences)

\* An invalid host field.
OpenMalformed(m) ==
  /\ Admitted(m) /\ m.ch \in Malformed
  /\ CreateChannel(m, "unsupported")
  /\ UNCHANGED <<stack, fences>>

OpenWalk(m) ==
  /\ Admitted(m) /\ m.ch \notin Malformed
  /\ stack' = Push(stack, <<[f |-> "rules", i |-> 1]>>)
  /\ UNCHANGED <<freeze, key, frozen, cur, sent, taken, dangled, closed,
                 pvars, rvars>>

-----------------------------------------------------------------------------
(* The walk over the rules. *)

InWalk == stack # <<>> /\ Top.f = "rules"

NextRule == stack' = Push(Pop, <<[Top EXCEPT !.i = @ + 1]>>)

\* The rule does not match.
RuleSkip(m) ==
  /\ Top.i <= Len(rules) /\ ~Matches(rules[Top.i], m.ch)
  /\ NextRule
  /\ UNCHANGED <<freeze, key, frozen, cur, sent, taken, dangled, closed,
                 pvars, rvars>>

\* process_open_peer
RulePeer(m) ==
  /\ Top.i <= Len(rules)
  /\ rules[Top.i] \in Peers /\ Matches(rules[Top.i], m.ch)
  /\ LET p == rules[Top.i]
     IN  \E q \in Ensured(p) :
           /\ Spawned(p, q)
           /\ \/ /\ Refuses(q)
                 /\ peer' = [peer EXCEPT ![p] = q]
                 /\ NextRule
                 /\ UNCHANGED <<freeze, key, frozen, cur, taken, child, out, got>>
              \/ /\ HandleClosed(p, q, m) \/ HandleInited(p, q, m)
                    \/ HandleStarting(p, q, m)
                 /\ stack' = Pop
  /\ UNCHANGED <<sent, dangled, closed, rvars>>

\* process_open_channel
RulePayload(m) ==
  /\ Top.i <= Len(rules)
  /\ rules[Top.i] = "payloads" /\ Matches("payloads", m.ch)
  /\ CreateChannel(m, "new")
  /\ fences' = IF m.ch \in Fence THEN fences \cup {m.ch} ELSE fences
  /\ stack' = Pop

\* process_open_not_supported
RuleNotSupported(m) ==
  /\ Top.i <= Len(rules)
  /\ rules[Top.i] \in {"hosts", "default"} /\ Matches(rules[Top.i], m.ch)
  /\ CreateChannel(m, "unsupported")
  /\ stack' = Pop
  /\ UNCHANGED fences

\* No rule took the channel: process_open returns.
RulesEnd(m) ==
  /\ Top.i > Len(rules)
  /\ Taken(m)
  /\ stack' = Pop
  /\ UNCHANGED <<freeze, key, frozen, sent, dangled, closed, pvars, rvars>>

-----------------------------------------------------------------------------
(* process_kill: the local channels of a group, or all of them.            *)
(* The channels of process_open_not_supported are in no group.             *)
Group(g) ==
  {c \in Channels :
     CASE g = "all"   -> local[c] # "none"
       [] g = "fence" -> local[c] \notin {"none", "unsupported"} /\ c \in Fence
       [] OTHER       -> local[c] \notin {"none", "unsupported"} /\ c \notin Fence}

Kill(c) ==
  /\ Running("kill")
  /\ c \in Top.chans
  /\ LET s == Push(Pop, <<[Top EXCEPT !.chans = @ \ {c}]>>)
     IN  IF local[c] # "none"
           THEN CloseChannel(c, s)
           ELSE stack' = s /\ UNCHANGED <<handlers, local, out, fences, fenced>>
  /\ UNCHANGED <<freeze, key, frozen, cur, sent, taken, dangled, closed,
                 peer, child, spawned, got, rules, init_host, reloads>>

KillEnd ==
  /\ Running("kill")
  /\ Top.chans = {}
  /\ stack' = Pop
  /\ UNCHANGED <<freeze, key, frozen, cur, sent, taken, dangled, closed,
                 pvars, rvars>>

-----------------------------------------------------------------------------
(***************************************************************************)
(* cockpit_router_set_bridges: the new list, with the peers it keeps, then *)
(* the old rules one by one: a bridge's is destroyed, another is appended. *)
(***************************************************************************)
SetBridges(bs) ==
  /\ Idle
  /\ reloads < MaxReloads
  /\ reloads' = reloads + 1
  /\ LET reused == ToSet(bs) \cap ToSet(rules)
     IN  /\ rules' = bs
         /\ handlers' = handlers \o Created(bs, reused)
         /\ stack' = Push(stack, <<[f |-> "bridges",
                       old |-> Without(rules, reused)]>>)
  /\ UNCHANGED <<freeze, key, frozen, cur, sent, taken, dangled, closed,
                 pvars, local, fences, fenced, init_host>>

SetBridgesRule ==
  /\ Running("bridges")
  /\ Top.old # <<>>
  /\ LET r == Head(Top.old)
         s == Push(Pop, <<[Top EXCEPT !.old = Tail(@)]>>)
     IN  IF r \in Peers
           THEN /\ stack' = Push(s, <<[f |-> "dispose", p |-> r],
                                      [f |-> "reset", p |-> r]>>)
                /\ rules' = rules
           ELSE stack' = s /\ rules' = Append(rules, r)
  /\ UNCHANGED <<freeze, key, frozen, cur, sent, taken, dangled, closed,
                 pvars, handlers, local, fences, fenced, init_host, reloads>>

SetBridgesEnd ==
  /\ Running("bridges")
  /\ Top.old = <<>>
  /\ stack' = Pop
  /\ UNCHANGED <<freeze, key, frozen, cur, sent, taken, dangled, closed,
                 pvars, rvars>>

\* cockpit_peer_dispose, once reset: the object is gone
Dispose ==
  /\ Running("dispose")
  /\ peer' = [peer EXCEPT ![Top.p] = NewPeer]
  /\ handlers' = Without(handlers, {Top.p})
  /\ stack' = Pop
  /\ UNCHANGED <<freeze, key, frozen, cur, sent, taken, dangled, closed,
                 child, spawned, out, got, rules, local, fences, fenced,
                 init_host, reloads>>

=============================================================================
