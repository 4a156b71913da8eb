------------------------------ MODULE MCBridge -------------------------------
(***************************************************************************)
(* Instances of Bridge.  Channel a is routed to the peers, first p1 then   *)
(* p2, and to nobody else; f is a local channel in the "fence" group; u    *)
(* has an invalid host.  f and a are enough for one channel to be held     *)
(* while another is thawed, and two peers for a channel to be passed on.   *)
(***************************************************************************)
EXTENDS Bridge, TLC

CONSTANTS p1, p2, a, f, u

MCMatch == [p \in Peers |-> {a} \cap Channels]

\* an open, one message that waits behind it, and a close
Msgs == [c \in Channels |-> CASE c = a -> 3 [] c = f -> 2 [] OTHER -> 1]

LiveMsgs == [c \in Channels |-> 2]

BothPeers == {<<p1, p2>>}

FirstPeer == {<<p1>>}

NoPeers == {<<>>}

\* a reload adds or removes the second bridge
SecondReloaded == {<<p1, p2>>, <<p1>>}

\* a reload adds or removes the only bridge
OnlyReloaded == {<<p1>>, <<>>}
=============================================================================
