---------------------------- MODULE BridgeProofs -----------------------------
(***************************************************************************)
(* Proofs about module Bridge, for any channels, peers, rules and reloads: *)
(* its variables keep their types; the bridge uses its transport as module *)
(* Transport allows, so that what is proved there holds here; a frozen     *)
(* channel is in the queue of a peer that is starting; the assertion of    *)
(* cockpit_peer_reset() holds.  Until packages are reloaded an open channel*)
(* has one owner, its messages reach one handler in order, and none is     *)
(* dropped.                                                                *)
(***************************************************************************)
EXTENDS Bridge, TransportProofs, NaturalsInduction, WellFoundedInduction, FiniteSetTheorems

(***************************************************************************)
(* Picked() is recursive.  Facts about it are proved from the least        *)
(* element of a set of numbers that would be counterexamples.              *)
(***************************************************************************)
LEMMA Least ==
  ASSUME NEW N \in SUBSET Nat, N # {}
  PROVE  \E n \in N : \A k \in N : n <= k
<1>1. PICK n \in N : \A k \in N : ~(<<k, n>> \in OpToRel(<, Nat))
  BY WFMin, NatLessThanWellFounded
<1>2. \A k \in N : ~(k < n)
  BY <1>1 DEF OpToRel
<1> QED BY <1>2

\* g[i] is what is picked of the first i elements.
Picks(s, I, n, g) ==
  g = [i \in 0 .. n |-> IF i = 0 THEN <<>>
                        ELSE IF i \in I THEN Append(g[i - 1], s[i]) ELSE g[i - 1]]

LEMMA PicksUnique ==
  ASSUME NEW s, NEW I, NEW n \in Nat, NEW g, NEW h, Picks(s, I, n, g), Picks(s, I, n, h)
  PROVE  g = h
<1> DEFINE N == {i \in 0 .. n : g[i] # h[i]}
<1>1. N = {}
  <2> SUFFICES ASSUME N # {} PROVE FALSE
    OBVIOUS
  <2>0. N \in SUBSET Nat
    OBVIOUS
  <2>1. PICK i \in N : \A k \in N : i <= k
    <3> HIDE DEF N
    <3> QED BY <2>0, Least
  <2>2. CASE i = 0
    BY <2>2 DEF Picks
  <2>3. CASE i # 0
    <3>1. i - 1 \in 0 .. n /\ ~(i <= i - 1)
      BY <2>3
    <3>2. g[i - 1] = h[i - 1]
      BY <2>1, <3>1
    <3> QED BY <2>3, <3>2 DEF Picks
  <2> QED BY <2>2, <2>3
<1>2. \A i \in 0 .. n : g[i] = h[i]
  BY <1>1
<1>3. g = [i \in 0 .. n |-> g[i]] /\ h = [i \in 0 .. n |-> h[i]]
  BY DEF Picks
<1> QED BY <1>2, <1>3

LEMMA PicksExists ==
  ASSUME NEW s, NEW I, NEW n \in Nat
  PROVE  \E g : Picks(s, I, n, g)
<1> DEFINE N == {k \in Nat : ~\E g : Picks(s, I, k, g)}
<1> SUFFICES ASSUME N # {} PROVE FALSE
  OBVIOUS
<1>1. PICK m \in N : \A k \in N : m <= k
  BY Least
<1>2. CASE m = 0
  <2>1. Picks(s, I, m, [i \in 0 .. m |-> <<>>])
    BY <1>2 DEF Picks
  <2> QED BY <1>1, <2>1
<1>3. CASE m # 0
  <2>1. m - 1 \in Nat /\ ~(m <= m - 1)
    BY <1>3
  <2>2. PICK g : Picks(s, I, m - 1, g)
    BY <1>1, <2>1
  <2> DEFINE h == [i \in 0 .. m |-> IF i < m THEN g[i]
                                    ELSE IF m \in I THEN Append(g[m - 1], s[m]) ELSE g[m - 1]]
  <2>3. \A i \in 0 .. m - 1 : h[i] = g[i]
    BY <2>1
  <2>4. \A i \in 0 .. m - 1 : g[i] = IF i = 0 THEN <<>>
                        ELSE IF i \in I THEN Append(g[i - 1], s[i]) ELSE g[i - 1]
    BY <2>2 DEF Picks
  <2>5. h[m] = IF m \in I THEN Append(g[m - 1], s[m]) ELSE g[m - 1]
    OBVIOUS
  <2>6. h = [i \in 0 .. m |-> h[i]]
    OBVIOUS
  <2> HIDE DEF h
  <2>7. ASSUME NEW i \in 0 .. m
        PROVE  h[i] = IF i = 0 THEN <<>>
                      ELSE IF i \in I THEN Append(h[i - 1], s[i]) ELSE h[i - 1]
    <3>1. CASE i = m
      BY <1>3, <2>3, <2>5, <3>1
    <3>2. CASE i # m
      <4>1. i \in 0 .. m - 1 /\ (i # 0 => i - 1 \in 0 .. m - 1)
        BY <3>2
      <4> QED BY <2>3, <2>4, <4>1
    <3> QED BY <3>1, <3>2
  <2>8. Picks(s, I, m, h)
    BY <2>6, <2>7 DEF Picks
  <2> QED BY <1>1, <2>8
<1> QED BY <1>2, <1>3

LEMMA PickedValue ==
  ASSUME NEW s, NEW I, Len(s) \in Nat, NEW g, Picks(s, I, Len(s), g)
  PROVE  Picked(s, I) = g[Len(s)]
<1> DEFINE G == CHOOSE h : h = [i \in 0 .. Len(s) |->
                  IF i = 0 THEN <<>>
                  ELSE IF i \in I THEN Append(h[i - 1], s[i]) ELSE h[i - 1]]
<1>1. Picked(s, I) = G[Len(s)]
  BY Zenon DEF Picked
<1>2. Picks(s, I, Len(s), G)
  BY DEF Picks
<1>3. G = g
  BY <1>2, PicksUnique
<1> QED BY <1>1, <1>3

LEMMA PickedEmpty ==
  ASSUME NEW I
  PROVE  Picked(<<>>, I) = <<>>
<1>1. Len(<<>>) = 0 /\ Len(<<>>) \in Nat
  OBVIOUS
<1>2. PICK g : Picks(<<>>, I, Len(<<>>), g)
  BY <1>1, PicksExists
<1>3. g[0] = <<>>
  BY <1>1, <1>2 DEF Picks
<1> QED BY <1>1, <1>2, <1>3, PickedValue

\* One element more.
LEMMA PickedAppend ==
  ASSUME NEW S, NEW s \in Seq(S), NEW x \in S, NEW I, NEW J,
         \A i \in 1 .. Len(s) : i \in I <=> i \in J
  PROVE  Picked(Append(s, x), J)
           = IF Len(s) + 1 \in J THEN Append(Picked(s, I), x) ELSE Picked(s, I)
<1> DEFINE t == Append(s, x)
           n == Len(s)
<1>1. n \in Nat /\ Len(t) = n + 1 /\ Len(t) \in Nat /\ t[n + 1] = x /\ \A i \in 1 .. n : t[i] = s[i]
  OBVIOUS
<1> HIDE DEF t, n
<1>2. PICK g : Picks(t, J, n + 1, g)
  BY <1>1, PicksExists
<1>3. \A i \in 0 .. n + 1 : g[i] = IF i = 0 THEN <<>>
                        ELSE IF i \in J THEN Append(g[i - 1], t[i]) ELSE g[i - 1]
  BY <1>2 DEF Picks
<1> DEFINE h == [i \in 0 .. n |-> g[i]]
<1>4. ASSUME NEW i \in 0 .. n
      PROVE  h[i] = IF i = 0 THEN <<>> ELSE IF i \in I THEN Append(h[i - 1], s[i]) ELSE h[i - 1]
  <2>1. CASE i = 0
    BY <1>1, <1>3, <2>1
  <2>2. CASE i # 0
    <3>1. i \in 1 .. n /\ i \in 0 .. n + 1 /\ i - 1 \in 0 .. n
      BY <1>1, <2>2
    <3>2. h[i] = g[i] /\ h[i - 1] = g[i - 1] /\ t[i] = s[i] /\ (i \in I <=> i \in J)
      BY <1>1, <3>1 DEF n
    <3> QED BY <1>3, <2>2, <3>1, <3>2
  <2> QED BY <2>1, <2>2
<1>5. Picks(s, I, n, h)
  BY <1>4 DEF Picks
<1>6. Picked(s, I) = g[n]
  BY <1>1, <1>5, PickedValue DEF n
<1>7. Picked(t, J) = g[n + 1]
  BY <1>1, <1>2, PickedValue
<1>8. g[n + 1] = IF n + 1 \in J THEN Append(g[n], x) ELSE g[n]
  BY <1>1, <1>3
<1> QED BY <1>6, <1>7, <1>8 DEF t, n

LEMMA PickedType ==
  ASSUME NEW S, NEW s \in Seq(S), NEW I
  PROVE  Picked(s, I) \in Seq(S)
<1> DEFINE n == Len(s)
<1>1. n \in Nat
  OBVIOUS
<1> HIDE DEF n
<1>2. PICK g : Picks(s, I, n, g)
  BY <1>1, PicksExists
<1>3. \A i \in 0 .. n : g[i] = IF i = 0 THEN <<>>
                        ELSE IF i \in I THEN Append(g[i - 1], s[i]) ELSE g[i - 1]
  BY <1>2 DEF Picks
<1> DEFINE N == {i \in 0 .. n : g[i] \notin Seq(S)}
<1>4. N = {}
  <2> SUFFICES ASSUME N # {} PROVE FALSE
    OBVIOUS
  <2>0. N \in SUBSET Nat
    BY <1>1
  <2>1. PICK i \in N : \A k \in N : i <= k
    <3> HIDE DEF N
    <3> QED BY <2>0, Least
  <2>2. i # 0
    <3>1. g[0] = <<>> /\ <<>> \in Seq(S)
      BY <1>1, <1>3
    <3> QED BY <3>1
  <2>3. i - 1 \in 0 .. n /\ ~(i <= i - 1) /\ i \in 1 .. n
    BY <1>1, <2>2
  <2>4. g[i - 1] \in Seq(S) /\ s[i] \in S
    BY <2>1, <2>3 DEF n
  <2>5. g[i] \in Seq(S)
    <3>1. g[i] = IF i \in I THEN Append(g[i - 1], s[i]) ELSE g[i - 1]
      BY <1>3, <2>2
    <3>2. Append(g[i - 1], s[i]) \in Seq(S)
      BY <2>4
    <3> QED BY <2>4, <3>1, <3>2
  <2> QED BY <2>5
<1>5. Picked(s, I) = g[n]
  BY <1>1, <1>2, PickedValue DEF n
<1> QED BY <1>1, <1>4, <1>5
-----------------------------------------------------------------------------
(* The stack. *)

LEMMA WalksEmpty == Walks(<<>>) = <<>>
BY PickedEmpty DEF Walks

LEMMA WalksAppend ==
  ASSUME NEW S, NEW s \in Seq(S), NEW fr \in S
  PROVE  Walks(Append(s, fr)) = IF fr.f = "flush" THEN Append(Walks(s), fr) ELSE Walks(s)
<1> DEFINE t == Append(s, fr)
           I == {i \in DOMAIN s : s[i].f = "flush"}
           J == {i \in DOMAIN t : t[i].f = "flush"}
<1>1. /\ Len(s) \in Nat /\ DOMAIN s = 1 .. Len(s) /\ DOMAIN t = 1 .. Len(s) + 1
      /\ t[Len(s) + 1] = fr /\ \A i \in 1 .. Len(s) : t[i] = s[i]
  OBVIOUS
<1>2. Walks(s) = Picked(s, I) /\ Walks(t) = Picked(t, J)
  BY DEF Walks
<1> HIDE DEF t
<1>3. /\ \A i \in 1 .. Len(s) : i \in I <=> i \in J
      /\ Len(s) + 1 \in J <=> fr.f = "flush"
  BY <1>1
<1> HIDE DEF I, J
<1>4. Picked(t, J) = IF Len(s) + 1 \in J THEN Append(Picked(s, I), fr) ELSE Picked(s, I)
  BY <1>3, PickedAppend DEF t
<1> QED BY <1>2, <1>3, <1>4 DEF t

\* A stack is its innermost call on top of the others.
LEMMA TopOfStack ==
  ASSUME NEW S, stack \in Seq(S), stack # <<>>
  PROVE  Pop \in Seq(S) /\ Top \in S /\ stack = Append(Pop, Top)
<1>1. /\ Pop \in Seq(S) /\ Top \in S /\ Len(stack) \in Nat /\ Len(stack) > 0
      /\ Len(Pop) = Len(stack) - 1 /\ \A a \in 1 .. Len(stack) - 1 : Pop[a] = stack[a]
  BY PopProperties
<1>2. Append(Pop, Top) \in Seq(S) /\ Len(Append(Pop, Top)) = Len(stack)
  BY <1>1
<1>3. \A a \in 1 .. Len(stack) : Append(Pop, Top)[a] = stack[a]
  BY <1>1 DEF Top
<1> QED BY <1>1, <1>2, <1>3, SeqEqual

\* Calls that are pushed one after the other.
LEMMA Pushed ==
  ASSUME NEW S, NEW s \in Seq(S), NEW x \in S, NEW y \in S
  PROVE  /\ Push(s, <<x>>) = Append(s, x) /\ Push(s, <<x>>) \in Seq(S)
         /\ Push(s, <<x, y>>) = Append(Append(s, x), y) /\ Push(s, <<x, y>>) \in Seq(S)
BY DEF Push

\* The last element is replaced.
LEMMA LastReplaced ==
  ASSUME NEW S, NEW s \in Seq(S), NEW x \in S, NEW y \in S
  PROVE  LET t == Append(s, x) IN [t EXCEPT ![Len(t)] = y] = Append(s, y)
<1> DEFINE t == Append(s, x)
           u == [t EXCEPT ![Len(t)] = y]
           v == Append(s, y)
<1>1. /\ t \in Seq(S) /\ Len(t) = Len(s) + 1 /\ Len(s) \in Nat
      /\ \A i \in 1 .. Len(s) : t[i] = s[i]
  OBVIOUS
<1>2. /\ v \in Seq(S) /\ Len(v) = Len(s) + 1 /\ v[Len(s) + 1] = y
      /\ \A i \in 1 .. Len(s) : v[i] = s[i]
  OBVIOUS
<1> HIDE DEF t, v
<1>3. u \in Seq(S) /\ Len(u) = Len(s) + 1
  BY <1>1
<1>4. \A i \in 1 .. Len(s) + 1 : u[i] = v[i]
  BY <1>1, <1>2
<1>5. u = v
  BY <1>2, <1>3, <1>4, SeqEqual
<1> QED BY <1>5 DEF t, v

\* What a frame of the stack has besides its kind.
LEMMA FrameFields ==
  ASSUME NEW fr \in Frame
  PROVE  /\ fr.f = "flush" => fr \in Flush
         /\ fr.f \in {"thaw", "ready"} => fr.ch \in Channels
         /\ fr.f = "resume" => fr \in [f : {"resume"}, q : Seq(Channels)]
         /\ fr.f = "orphans" =>
              fr \in [f : {"orphans"}, p : Peers, problem : BOOLEAN, chans : SUBSET Channels]
         /\ fr.f \in {"reset", "clear", "dispose"} => fr.p \in Peers
         /\ fr.f = "rules" => fr \in [f : {"rules"}, i : Nat]
         /\ fr.f = "kill" => fr \in [f : {"kill"}, chans : SUBSET Channels]
         /\ fr.f = "bridges" =>
              fr \in [f : {"bridges"}, old : Seq(Peers \cup ToSet(BuiltIn))]
BY DEF Frame, Flush

\* The frames that the calls push.
LEMMA Frames ==
  /\ \A c \in Channels : [f |-> "thaw", ch |-> c] \in Frame /\ [f |-> "ready", ch |-> c] \in Frame
  /\ \A q \in Seq(Channels) : [f |-> "resume", q |-> q] \in Frame
  /\ \A p \in Peers, b \in BOOLEAN, C \in SUBSET Channels :
       [f |-> "orphans", p |-> p, problem |-> b, chans |-> C] \in Frame
  /\ \A p \in Peers : /\ [f |-> "reset", p |-> p] \in Frame
                      /\ [f |-> "clear", p |-> p] \in Frame
                      /\ [f |-> "dispose", p |-> p] \in Frame
  /\ \A i \in Nat : [f |-> "rules", i |-> i] \in Frame
  /\ \A C \in SUBSET Channels : [f |-> "kill", chans |-> C] \in Frame
  /\ \A old \in Seq(Peers \cup ToSet(BuiltIn)) : [f |-> "bridges", old |-> old] \in Frame
  /\ Flush \subseteq Frame
BY DEF Frame
-----------------------------------------------------------------------------
(* Types. *)

\* A call that changes nothing but the stack.
LEMMA StackType ==
  ASSUME TypeOK, stack' \in Seq(Frame),
         UNCHANGED <<freeze, key, frozen, cur, sent, taken, dangled, closed, pvars, rvars, kinds>>
  PROVE  TypeOK'
BY DEF TypeOK, pvars, rvars

LEMMA TakenType ==
  ASSUME TypeOK, NEW m \in cur
  PROVE  /\ m \in Message /\ m.ch \in Channels /\ m.n \in Nat
         /\ Taken(m) => taken' \in [Channels -> Nat] /\ cur' \in SUBSET Message
         /\ Freeze(m.ch) => freeze' \subseteq Channels /\ key' \in [Channels -> Nat]
         /\ Requeue(m) => /\ freeze' \subseteq Channels /\ key' \in [Channels -> Nat]
                          /\ frozen' \in Seq(Node) /\ cur' \in SUBSET Message
         /\ \A h \in Peers \cup {"local"} :
              Deliver(m, h) => got' \in [Channels -> Seq([n : Nat, by : Peers \cup {"local"}])]
<1>1. m \in Message /\ m.ch \in Channels /\ m.n \in Nat
  BY DEF TypeOK, Message
<1>2. Taken(m) => taken' \in [Channels -> Nat] /\ cur' \in SUBSET Message
  BY <1>1 DEF Taken, TypeOK
<1>3. Freeze(m.ch) => freeze' \subseteq Channels /\ key' \in [Channels -> Nat]
  BY <1>1 DEF Freeze, TypeOK
<1>4. ASSUME Requeue(m) PROVE frozen' \in Seq(Node) /\ cur' \in SUBSET Message
  <2>1. key'[m.ch] \in Nat /\ frozen \in Seq(Node)
    BY <1>1, <1>3, <1>4 DEF Requeue, TypeOK
  <2>2. [ch |-> m.ch, n |-> m.n, key |-> key'[m.ch]] \in Node
    BY <1>1, <2>1 DEF Node
  <2> QED BY <1>4, <2>1, <2>2 DEF Requeue
<1>5. ASSUME NEW h \in Peers \cup {"local"}, Deliver(m, h)
      PROVE  got' \in [Channels -> Seq([n : Nat, by : Peers \cup {"local"}])]
  <2> DEFINE G == [n : Nat, by : Peers \cup {"local"}]
             x == [n |-> m.n, by |-> h]
  <2>1. x \in G /\ got \in [Channels -> Seq(G)]
    BY <1>1 DEF TypeOK
  <2>2. got' = [got EXCEPT ![m.ch] = Append(got[m.ch], x)]
    BY <1>5 DEF Deliver
  <2> HIDE DEF G, x
  <2>3. Append(got[m.ch], x) \in Seq(G)
    BY <1>1, <2>1
  <2>4. got' \in [Channels -> Seq(G)]
    BY <1>1, <2>1, <2>2, <2>3
  <2> QED BY <2>4 DEF G
<1> QED BY <1>1, <1>2, <1>3, <1>4, <1>5 DEF Requeue

\* A control message to the frontend.
LEMMA SendType ==
  ASSUME TypeOK, NEW c \in Channels, NEW x \in {"ready", "close"}, Send(c, x)
  PROVE  out' \in [Channels -> Seq({"ready", "close"})]
<1>1. out \in [Channels -> Seq({"ready", "close"})] /\ Append(out[c], x) \in Seq({"ready", "close"})
  BY DEF TypeOK
<1>2. out' = [out EXCEPT ![c] = Append(out[c], x)]
  BY DEF Send
<1> QED BY <1>1, <1>2

LEMMA WithoutType ==
  ASSUME NEW S, NEW s \in Seq(S), NEW X
  PROVE  Without(s, X) \in Seq(S)
BY PickedType DEF Without

\* cockpit_peer_ensure(), and the peer that has a channel more.
LEMMA PeerTypes ==
  ASSUME TypeOK, NEW p \in Peers, NEW q \in Ensured(p), NEW c \in Channels
  PROVE  /\ q \in PeerState /\ Adopt(q, c) \in PeerState
         /\ [Adopt(q, c) EXCEPT !.frozen = Append(@, c)] \in PeerState
         /\ Spawned(p, q) => spawned' \in [Peers -> Nat]
<1>1. peer[p] \in PeerState /\ (p \in Problem) \in BOOLEAN
  BY DEF TypeOK
<1>2. q \in PeerState
  <2>1. \A a, b \in BOOLEAN : [peer[p] EXCEPT !.closed = a, !.problem = b] \in PeerState
    BY <1>1 DEF PeerState
  <2>2. \A a \in BOOLEAN : [peer[p] EXCEPT !.other = a] \in PeerState
    BY <1>1 DEF PeerState
  <2>3. q \in {peer[p], [peer[p] EXCEPT !.closed = TRUE, !.problem = p \in Problem],
               [peer[p] EXCEPT !.other = TRUE]}
    BY DEF Ensured
  <2>4. [peer[p] EXCEPT !.closed = TRUE, !.problem = p \in Problem] \in PeerState
    <3> DEFINE b == p \in Problem
    <3>1. b \in BOOLEAN
      OBVIOUS
    <3> HIDE DEF b
    <3>2. [peer[p] EXCEPT !.closed = TRUE, !.problem = b] \in PeerState
      BY <2>1, <3>1
    <3> QED BY <3>2 DEF b
  <2>5. [peer[p] EXCEPT !.other = TRUE] \in PeerState
    BY <2>2
  <2> QED BY <1>1, <2>3, <2>4, <2>5
<1>3. Adopt(q, c) \in PeerState
  <2>1. \A C \in SUBSET Channels, b \in BOOLEAN : [q EXCEPT !.channels = C, !.timer = b] \in PeerState
    BY <1>2 DEF PeerState
  <2>2. q.channels \cup {c} \in SUBSET Channels
    BY <1>2 DEF PeerState
  <2>3. Adopt(q, c) = [q EXCEPT !.channels = q.channels \cup {c}, !.timer = FALSE]
    BY DEF Adopt
  <2> QED BY <2>1, <2>2, <2>3
<1>4. [Adopt(q, c) EXCEPT !.frozen = Append(@, c)] \in PeerState
  <2> DEFINE r == Adopt(q, c)
  <2> HIDE DEF r
  <2>1. r \in PeerState
    BY <1>3 DEF r
  <2>2. r.frozen \in Seq(Channels)
    BY <2>1 DEF PeerState
  <2>3. Append(r.frozen, c) \in Seq(Channels)
    BY <2>2
  <2>4. [r EXCEPT !.frozen = Append(r.frozen, c)] \in PeerState
    BY <2>1, <2>3 DEF PeerState
  <2> QED BY <2>4 DEF r
<1>5. Spawned(p, q) => spawned' \in [Peers -> Nat]
  BY DEF Spawned, TypeOK
<1> QED BY <1>2, <1>3, <1>4, <1>5

\* on_other_closed()
LEMMA OtherClosedType ==
  ASSUME TypeOK, NEW p \in Peers, NEW s \in Seq(Frame), OtherClosed(p, s)
  PROVE  /\ peer' \in [Peers -> PeerState] /\ child' \in [Peers -> SUBSET Channels]
         /\ stack' \in Seq(Frame)
<1> DEFINE q == peer[p]
           problem == q.inited \/ q.failure \/ p \in Problem
           left == IF q.inited THEN q.problem ELSE problem
           fr == [f |-> "orphans", p |-> p, problem |-> problem, chans |-> q.channels]
           r == [q EXCEPT !.other = FALSE, !.closed = TRUE, !.channels = {}, !.problem = left]
<1>1. q \in PeerState /\ q.problem \in BOOLEAN /\ q.channels \in SUBSET Channels
  BY DEF TypeOK, PeerState
<1>2. problem \in BOOLEAN /\ left \in BOOLEAN
  BY <1>1
<1>3. peer' = [peer EXCEPT ![p] = r] /\ child' = [child EXCEPT ![p] = {}] /\ stack' = Push(s, <<fr>>)
  BY DEF OtherClosed
<1> HIDE DEF problem, left
<1>4. r \in PeerState
  <2>1. \A a, b, c \in BOOLEAN : [q EXCEPT !.other = a, !.closed = b, !.channels = {}, !.problem = c] \in PeerState
    BY <1>1 DEF PeerState
  <2> QED BY <1>2, <2>1
<1>5. fr \in Frame
  BY <1>1, <1>2, Frames
<1> HIDE DEF r, fr
<1>6. stack' \in Seq(Frame)
  BY <1>3, <1>5, Pushed
<1>7. peer' \in [Peers -> PeerState] /\ child' \in [Peers -> SUBSET Channels]
  BY <1>3, <1>4 DEF TypeOK
<1> QED BY <1>6, <1>7

\* What a local channel leaves behind when it closes.
LEMMA CloseChannelType ==
  ASSUME TypeOK, NEW c \in Channels, NEW s \in Seq(Frame)
  PROVE  /\ CloseChannel(c, s) \/ ChannelClosed(c, s) =>
              /\ stack' \in Seq(Frame) /\ local' \in [Channels -> LocalState]
              /\ out' \in [Channels -> Seq({"ready", "close"})]
              /\ fences' \subseteq Channels /\ fenced' \in Seq(Channels)
         /\ CloseChannel(c, s) => handlers' \in Seq(Peers \cup Channels)
<1>1. ASSUME ChannelClosed(c, s)
      PROVE  /\ stack' \in Seq(Frame) /\ local' \in [Channels -> LocalState]
             /\ out' \in [Channels -> Seq({"ready", "close"})]
             /\ fences' \subseteq Channels /\ fenced' \in Seq(Channels)
  <2>1. out' \in [Channels -> Seq({"ready", "close"})]
    BY <1>1, SendType DEF ChannelClosed
  <2>2. [f |-> "resume", q |-> fenced] \in Frame /\ fenced \in Seq(Channels)
    BY Frames DEF TypeOK
  <2>3. Push(s, <<[f |-> "resume", q |-> fenced]>>) \in Seq(Frame)
    BY <2>2, Pushed
  <2>4. stack' \in Seq(Frame) /\ fenced' \in Seq(Channels)
    <3>1. <<>> \in Seq(Channels)
      OBVIOUS
    <3>2. /\ stack' \in {s, Push(s, <<[f |-> "resume", q |-> fenced]>>)}
          /\ fenced' \in {<<>>, fenced}
      BY <1>1, Zenon DEF ChannelClosed
    <3> QED BY <2>2, <2>3, <3>1, <3>2
  <2>5. local' \in [Channels -> LocalState] /\ fences' \subseteq Channels
    BY <1>1 DEF ChannelClosed, TypeOK, LocalState
  <2> QED BY <2>1, <2>4, <2>5
<1>2. ASSUME ChannelCloses(c, s)
      PROVE  /\ stack' \in Seq(Frame) /\ local' \in [Channels -> LocalState]
             /\ out' \in [Channels -> Seq({"ready", "close"})]
             /\ fences' \subseteq Channels /\ fenced' \in Seq(Channels)
  BY <1>2 DEF ChannelCloses, TypeOK, LocalState
<1>3. CloseChannel(c, s) => handlers' \in Seq(Peers \cup Channels)
  BY WithoutType DEF CloseChannel, TypeOK
<1> QED BY <1>1, <1>2, <1>3 DEF CloseChannel

\* A new local channel.
LEMMA CreateChannelType ==
  ASSUME TypeOK, NEW m \in cur, NEW state \in LocalState, CreateChannel(m, state)
  PROVE  /\ freeze' \subseteq Channels /\ key' \in [Channels -> Nat]
         /\ taken' \in [Channels -> Nat] /\ cur' \in SUBSET Message
         /\ got' \in [Channels -> Seq([n : Nat, by : Peers \cup {"local"}])]
         /\ local' \in [Channels -> LocalState] /\ handlers' \in Seq(Peers \cup Channels)
<1>1. /\ Taken(m) /\ Freeze(m.ch) /\ Deliver(m, "local") /\ m.ch \in Channels
      /\ local' = [local EXCEPT ![m.ch] = state] /\ handlers' = Append(handlers, m.ch)
  BY TakenType DEF CreateChannel
<1>2. local' \in [Channels -> LocalState] /\ handlers' \in Seq(Peers \cup Channels)
  BY <1>1 DEF TypeOK
<1> QED BY <1>1, <1>2, TakenType

(* The messages of the frontend. *)

LEMMA NoInitType ==
  ASSUME TypeOK, NEW m \in cur, NoInit(m) \/ OpenInUse(m), UNCHANGED kinds
  PROVE  TypeOK'
BY DEF TypeOK, NoInit, OpenInUse, pvars, rvars

LEMMA OpenFencedType ==
  ASSUME TypeOK, NEW m \in cur, OpenFenced(m), UNCHANGED kinds
  PROVE  TypeOK'
<1>1. Requeue(m) /\ m.ch \in Channels /\ fenced' = Append(fenced, m.ch)
  BY TakenType DEF OpenFenced
<1>2. fenced' \in Seq(Channels)
  BY <1>1 DEF TypeOK
<1>3. /\ freeze' \subseteq Channels /\ key' \in [Channels -> Nat]
      /\ frozen' \in Seq(Node) /\ cur' \in SUBSET Message
  BY <1>1, TakenType
<1> QED BY <1>2, <1>3 DEF TypeOK, OpenFenced, pvars

LEMMA CreatedType ==
  ASSUME TypeOK, NEW m \in cur, NEW state \in LocalState, CreateChannel(m, state),
         stack' \in Seq(Frame), fences' \subseteq Channels, UNCHANGED kinds
  PROVE  TypeOK'
<1>1. /\ freeze' \subseteq Channels /\ key' \in [Channels -> Nat]
      /\ taken' \in [Channels -> Nat] /\ cur' \in SUBSET Message
      /\ got' \in [Channels -> Seq([n : Nat, by : Peers \cup {"local"}])]
      /\ local' \in [Channels -> LocalState] /\ handlers' \in Seq(Peers \cup Channels)
  BY CreateChannelType
<1> QED BY <1>1 DEF TypeOK, CreateChannel

LEMMA OpenMalformedType ==
  ASSUME TypeOK, NEW m \in cur, OpenMalformed(m), UNCHANGED kinds
  PROVE  TypeOK'
<1>1. CreateChannel(m, "unsupported") /\ UNCHANGED <<stack, fences>> /\ "unsupported" \in LocalState
  BY DEF OpenMalformed, LocalState
<1>2. stack' \in Seq(Frame) /\ fences' \subseteq Channels
  BY <1>1 DEF TypeOK
<1> QED BY <1>1, <1>2, CreatedType

LEMMA OpenWalkType ==
  ASSUME TypeOK, NEW m \in cur, OpenWalk(m), UNCHANGED kinds
  PROVE  TypeOK'
<1>1. stack' = Push(stack, <<[f |-> "rules", i |-> 1]>>) /\ [f |-> "rules", i |-> 1] \in Frame
  BY Frames DEF OpenWalk
<1>2. stack' \in Seq(Frame)
  BY <1>1, Pushed DEF TypeOK
<1> QED BY <1>2, StackType DEF OpenWalk

LEMMA UnclaimedType ==
  ASSUME TypeOK, NEW m \in cur, Unclaimed(m), UNCHANGED kinds
  PROVE  TypeOK'
<1>1. taken' \in [Channels -> Nat] /\ cur' \in SUBSET Message
  BY TakenType DEF Unclaimed
<1> QED BY <1>1 DEF TypeOK, Unclaimed, pvars, rvars

LEMMA ToPeerType ==
  ASSUME TypeOK, NEW m \in cur, ToPeer(m), UNCHANGED kinds
  PROVE  TypeOK'
<1> DEFINE h == handlers[First(Claimants(m))]
<1>1. h \in Peers /\ PeerForward(h, m, Kind(m) = "close") /\ Taken(m)
  BY DEF ToPeer
<1> HIDE DEF h
<1>2. taken' \in [Channels -> Nat] /\ cur' \in SUBSET Message /\ m.ch \in Channels
  BY <1>1, TakenType
<1>3. got' \in [Channels -> Seq([n : Nat, by : Peers \cup {"local"}])]
  <2>1. Deliver(m, h) \/ got' = got
    BY <1>1 DEF PeerForward
  <2>2. h \in Peers \cup {"local"}
    BY <1>1
  <2>3. CASE Deliver(m, h)
    BY <2>2, <2>3, TakenType
  <2>4. CASE got' = got
    BY <2>4 DEF TypeOK
  <2> QED BY <2>1, <2>3, <2>4
<1>4. peer' \in [Peers -> PeerState]
  <2> DEFINE r == [peer[h] EXCEPT !.channels = peer[h].channels \ {m.ch}]
  <2>1. peer' = peer \/ peer' = [peer EXCEPT ![h] = r]
    BY <1>1 DEF PeerForward, TypeOK
  <2>2. peer[h] \in PeerState
    BY <1>1 DEF TypeOK
  <2>3. peer[h].channels \ {m.ch} \in SUBSET Channels
    BY <2>2 DEF PeerState
  <2>4. r \in PeerState
    <3> DEFINE C == peer[h].channels \ {m.ch}
               q == peer[h]
    <3> HIDE DEF C, q
    <3>1. C \in SUBSET Channels /\ q \in PeerState
      BY <2>2, <2>3 DEF C, q
    <3>2. [q EXCEPT !.channels = C] \in PeerState
      BY <3>1 DEF PeerState
    <3> QED BY <3>2 DEF C, q
  <2> HIDE DEF r
  <2> QED BY <1>1, <2>1, <2>4 DEF TypeOK
<1>5. UNCHANGED <<child, spawned, out>>
  BY <1>1 DEF PeerForward
<1> QED BY <1>2, <1>3, <1>4, <1>5 DEF TypeOK, ToPeer, rvars

LEMMA ToLocalType ==
  ASSUME TypeOK, NEW m \in cur, ToLocal(m), UNCHANGED kinds
  PROVE  TypeOK'
<1>1. /\ Deliver(m, "local") /\ Taken(m) /\ m.ch \in Channels /\ stack \in Seq(Frame)
      /\ CloseChannel(m.ch, stack) \/ UNCHANGED <<stack, handlers, local, out, fences, fenced>>
  BY TakenType DEF ToLocal, TypeOK
<1>2. /\ taken' \in [Channels -> Nat] /\ cur' \in SUBSET Message
      /\ got' \in [Channels -> Seq([n : Nat, by : Peers \cup {"local"}])]
  BY <1>1, TakenType
<1>3. /\ stack' \in Seq(Frame) /\ local' \in [Channels -> LocalState]
      /\ out' \in [Channels -> Seq({"ready", "close"})]
      /\ fences' \subseteq Channels /\ fenced' \in Seq(Channels)
      /\ handlers' \in Seq(Peers \cup Channels)
  <2>1. CASE CloseChannel(m.ch, stack)
    BY <1>1, <2>1, CloseChannelType
  <2>2. CASE UNCHANGED <<stack, handlers, local, out, fences, fenced>>
    BY <2>2 DEF TypeOK
  <2> QED BY <1>1, <2>1, <2>2
<1> QED BY <1>2, <1>3 DEF TypeOK, ToLocal

(* The walk over the rules. *)

LEMMA WalkStack ==
  ASSUME TypeOK, InWalk
  PROVE  /\ Pop \in Seq(Frame) /\ Top.i \in Nat
         /\ NextRule => stack' \in Seq(Frame)
<1>1. Pop \in Seq(Frame) /\ Top \in Frame /\ Top.f = "rules"
  BY TopOfStack DEF TypeOK, InWalk
<1>2. Top \in [f : {"rules"}, i : Nat]
  BY <1>1, FrameFields
<1>3. [Top EXCEPT !.i = @ + 1] = [f |-> "rules", i |-> Top.i + 1] /\ Top.i + 1 \in Nat
  BY <1>2
<1>4. [Top EXCEPT !.i = @ + 1] \in Frame
  BY <1>3, Frames
<1>5. NextRule => stack' \in Seq(Frame)
  BY <1>1, <1>4, Pushed DEF NextRule
<1> QED BY <1>1, <1>2, <1>5

LEMMA RuleSkipType ==
  ASSUME TypeOK, NEW m \in cur, InWalk, RuleSkip(m), UNCHANGED kinds
  PROVE  TypeOK'
BY WalkStack, StackType DEF RuleSkip

LEMMA RulePeerType ==
  ASSUME TypeOK, NEW m \in cur, InWalk, RulePeer(m), UNCHANGED kinds
  PROVE  TypeOK'
<1> DEFINE p == rules[Top.i]
<1>1. p \in Peers /\ UNCHANGED <<sent, dangled, closed, rvars>>
  BY DEF RulePeer
<1>2. PICK q \in Ensured(p) :
        /\ Spawned(p, q)
        /\ \/ /\ Refuses(q)
              /\ peer' = [peer EXCEPT ![p] = q]
              /\ NextRule
              /\ UNCHANGED <<freeze, key, frozen, cur, taken, child, out, got>>
           \/ /\ HandleClosed(p, q, m) \/ HandleInited(p, q, m) \/ HandleStarting(p, q, m)
              /\ stack' = Pop
  BY DEF RulePeer
<1> HIDE DEF p
<1>3. m.ch \in Channels /\ Pop \in Seq(Frame) /\ (NextRule => stack' \in Seq(Frame))
  BY TakenType, WalkStack
<1>4. /\ q \in PeerState /\ Adopt(q, m.ch) \in PeerState
      /\ [Adopt(q, m.ch) EXCEPT !.frozen = Append(@, m.ch)] \in PeerState
      /\ spawned' \in [Peers -> Nat]
  BY <1>1, <1>2, <1>3, PeerTypes
<1>5. \A r \in PeerState : peer' = [peer EXCEPT ![p] = r] => peer' \in [Peers -> PeerState]
  BY <1>1 DEF TypeOK
<1>6. CASE NextRule /\ peer' = [peer EXCEPT ![p] = q]
             /\ UNCHANGED <<freeze, key, frozen, cur, taken, child, out, got>>
  BY <1>1, <1>3, <1>4, <1>5, <1>6 DEF TypeOK, rvars
<1>7. CASE HandleClosed(p, q, m) /\ stack' = Pop
  <2>1. peer' \in [Peers -> PeerState]
    BY <1>4, <1>5, <1>7 DEF HandleClosed
  <2>2. out' \in [Channels -> Seq({"ready", "close"})]
    BY <1>3, <1>7, SendType DEF HandleClosed
  <2>3. taken' \in [Channels -> Nat] /\ cur' \in SUBSET Message
    BY <1>7, TakenType DEF HandleClosed
  <2> QED BY <1>1, <1>3, <1>4, <1>7, <2>1, <2>2, <2>3 DEF TypeOK, rvars, HandleClosed
<1>8. CASE HandleInited(p, q, m) /\ stack' = Pop
  <2>1. peer' \in [Peers -> PeerState]
    BY <1>4, <1>5, <1>8 DEF HandleInited
  <2>2. child' \in [Peers -> SUBSET Channels]
    BY <1>1, <1>3, <1>8 DEF HandleInited, TypeOK
  <2>3. /\ taken' \in [Channels -> Nat] /\ cur' \in SUBSET Message
        /\ got' \in [Channels -> Seq([n : Nat, by : Peers \cup {"local"}])]
    BY <1>1, <1>8, TakenType DEF HandleInited
  <2> QED BY <1>1, <1>3, <1>4, <1>8, <2>1, <2>2, <2>3 DEF TypeOK, rvars, HandleInited
<1>9. CASE HandleStarting(p, q, m) /\ stack' = Pop
  <2>1. peer' \in [Peers -> PeerState]
    BY <1>4, <1>5, <1>9 DEF HandleStarting
  <2>2. /\ freeze' \subseteq Channels /\ key' \in [Channels -> Nat]
        /\ frozen' \in Seq(Node) /\ cur' \in SUBSET Message
    BY <1>9, TakenType DEF HandleStarting
  <2> QED BY <1>1, <1>3, <1>4, <1>9, <2>1, <2>2 DEF TypeOK, rvars, HandleStarting
<1> QED BY <1>2, <1>6, <1>7, <1>8, <1>9

LEMMA RuleLocalType ==
  ASSUME TypeOK, NEW m \in cur, InWalk, RulePayload(m) \/ RuleNotSupported(m), UNCHANGED kinds
  PROVE  TypeOK'
<1>1. /\ stack' = Pop
      /\ CreateChannel(m, "new") \/ CreateChannel(m, "unsupported")
      /\ fences' \in {fences, fences \cup {m.ch}}
  BY DEF RulePayload, RuleNotSupported
<1>2. stack' \in Seq(Frame)
  BY <1>1, WalkStack
<1>3. m.ch \in Channels
  BY TakenType
<1>4. fences' \subseteq Channels
  BY <1>1, <1>3 DEF TypeOK
<1>5. "new" \in LocalState /\ "unsupported" \in LocalState
  BY DEF LocalState
<1> QED BY <1>1, <1>2, <1>4, <1>5, CreatedType

LEMMA RulesEndType ==
  ASSUME TypeOK, NEW m \in cur, InWalk, RulesEnd(m), UNCHANGED kinds
  PROVE  TypeOK'
<1>1. taken' \in [Channels -> Nat] /\ cur' \in SUBSET Message /\ stack' \in Seq(Frame)
  BY TakenType, WalkStack DEF RulesEnd
<1> QED BY <1>1 DEF TypeOK, RulesEnd, pvars, rvars

(* The calls that go on. *)

\* The innermost call, and what is left without it.
LEMMA RunningStack ==
  ASSUME TypeOK, stack # <<>>
  PROVE  /\ Pop \in Seq(Frame) /\ Top \in Frame /\ stack = Append(Pop, Top)
BY TopOfStack DEF TypeOK

LEMMA FlushNextType ==
  ASSUME TypeOK, FlushNext, UNCHANGED <<pvars, rvars, kinds>>
  PROVE  TypeOK'
<1>1. PICK i \in 1 .. Len(frozen) :
        /\ stack' = Advance(i)
        /\ Emit(DeleteLink(frozen, i), [ch |-> frozen[i].ch, n |-> frozen[i].n])
  BY DEF FlushNext
<1>2. stack # <<>> /\ Top.f = "flush" /\ UNCHANGED <<freeze, key, sent, taken, dangled, closed>>
  BY DEF FlushNext, Walking
<1>3. frozen[i] \in Node /\ DeleteLink(frozen, i) \in Seq(Node)
  BY DeleteLinkProperties DEF TypeOK
<1>4. [ch |-> frozen[i].ch, n |-> frozen[i].n] \in Message
  BY <1>3 DEF Node, Message
<1>5. frozen' \in Seq(Node) /\ cur' \in SUBSET Message
  BY <1>1, <1>3, <1>4, EmitType DEF TypeOK
<1>6. Top \in Flush
  BY <1>2, RunningStack, FrameFields
<1>7. stack' \in Seq(Frame)
  <2> DEFINE nx == IF i < Len(frozen) THEN {frozen[i + 1]} ELSE {}
             fr == [stack[Len(stack)] EXCEPT !.next = nx]
  <2>1. nx \in SUBSET Node
    BY DEF TypeOK
  <2>2. stack' = [stack EXCEPT ![Len(stack)] = fr]
    BY <1>1 DEF Advance
  <2> HIDE DEF nx
  <2>3. fr \in Flush
    BY <1>6, <2>1 DEF Flush, Top
  <2>4. fr \in Frame /\ Len(stack) \in 1 .. Len(stack) /\ stack \in Seq(Frame)
    BY <1>2, <2>3, Frames DEF TypeOK
  <2> HIDE DEF fr
  <2> QED BY <2>2, <2>4
<1> QED BY <1>2, <1>5, <1>7 DEF TypeOK, pvars, rvars

LEMMA FlushEndType ==
  ASSUME TypeOK, FlushEnd \/ FlushDangling, UNCHANGED <<pvars, rvars, kinds>>
  PROVE  TypeOK'
<1>1. /\ stack # <<>> /\ stack' = Pop /\ UNCHANGED <<freeze, key, frozen, cur, sent, taken>>
      /\ dangled' \in BOOLEAN /\ closed' \in BOOLEAN
  BY DEF FlushEnd, FlushDangling, Walking, TypeOK
<1>2. stack' \in Seq(Frame)
  BY <1>1, RunningStack
<1> QED BY <1>1, <1>2 DEF TypeOK, pvars, rvars

LEMMA OrphanType ==
  ASSUME TypeOK, NEW c \in Channels, Orphan(c), UNCHANGED <<rvars, kinds>>
  PROVE  TypeOK'
<1>1. /\ stack # <<>> /\ Top.f = "orphans"
      /\ stack' = Push(Pop, <<[Top EXCEPT !.chans = @ \ {c}], [f |-> "thaw", ch |-> c]>>)
  BY DEF Orphan, Running
<1>2. Top \in [f : {"orphans"}, p : Peers, problem : BOOLEAN, chans : SUBSET Channels] /\ Pop \in Seq(Frame)
  BY <1>1, RunningStack, FrameFields
<1>3. [Top EXCEPT !.chans = @ \ {c}] \in Frame
  <2> DEFINE C == Top.chans \ {c}
  <2>1. C \in SUBSET Channels
    BY <1>2
  <2> HIDE DEF C
  <2>2. [Top EXCEPT !.chans = C] = [f |-> "orphans", p |-> Top.p, problem |-> Top.problem, chans |-> C]
    BY <1>2
  <2>3. [Top EXCEPT !.chans = C] \in Frame
    BY <1>2, <2>1, <2>2, Frames
  <2> QED BY <2>3 DEF C
<1>4. stack' \in Seq(Frame)
  BY <1>1, <1>2, <1>3, Frames, Pushed
<1>5. out' \in [Channels -> Seq({"ready", "close"})]
  <2>1. Send(c, "close") \/ out' = out
    BY DEF Orphan
  <2>2. CASE Send(c, "close")
    BY <2>2, SendType
  <2>3. CASE out' = out
    BY <2>3 DEF TypeOK
  <2> QED BY <2>1, <2>2, <2>3
<1> QED BY <1>4, <1>5 DEF TypeOK, Orphan, rvars

LEMMA OrphansEndType ==
  ASSUME TypeOK, OrphansEnd, UNCHANGED <<rvars, kinds>>
  PROVE  TypeOK'
<1>1. /\ stack # <<>> /\ Top.f = "orphans"
      /\ stack' \in {Pop, Push(Pop, <<[f |-> "reset", p |-> Top.p]>>)}
  BY DEF OrphansEnd, Running
<1>2. Top.p \in Peers /\ Pop \in Seq(Frame)
  BY <1>1, RunningStack, FrameFields
<1>3. [f |-> "reset", p |-> Top.p] \in Frame
  BY <1>2, Frames
<1>4. Push(Pop, <<[f |-> "reset", p |-> Top.p]>>) \in Seq(Frame)
  BY <1>2, <1>3, Pushed
<1>5. stack' \in Seq(Frame)
  BY <1>1, <1>2, <1>4, Zenon
<1> QED BY <1>5, StackType DEF OrphansEnd

LEMMA ResetCloseType ==
  ASSUME TypeOK, ResetClose, UNCHANGED <<rvars, kinds>>
  PROVE  TypeOK'
<1> DEFINE p == Top.p
           s == Push(Pop, <<[f |-> "clear", p |-> p]>>)
<1>1. /\ stack # <<>> /\ Top.f = "reset"
      /\ OtherClosed(p, s) \/ (stack' = s /\ peer' = peer /\ child' = child)
  BY DEF ResetClose, Running
<1>2. p \in Peers /\ Pop \in Seq(Frame)
  BY <1>1, RunningStack, FrameFields
<1>3. s \in Seq(Frame)
  BY <1>2, Frames, Pushed
<1> HIDE DEF p, s
<1>4. /\ peer' \in [Peers -> PeerState] /\ child' \in [Peers -> SUBSET Channels]
      /\ stack' \in Seq(Frame)
  <2>1. CASE OtherClosed(p, s)
    BY <1>2, <1>3, <2>1, OtherClosedType
  <2>2. CASE stack' = s /\ peer' = peer /\ child' = child
    BY <1>3, <2>2 DEF TypeOK
  <2> QED BY <1>1, <2>1, <2>2
<1> QED BY <1>4 DEF TypeOK, ResetClose, rvars

LEMMA NewPeerType == NewPeer \in PeerState
<1>1. <<>> \in Seq(Channels)
  OBVIOUS
<1> QED BY <1>1 DEF NewPeer, PeerState

LEMMA ResetClearType ==
  ASSUME TypeOK, ResetClear, UNCHANGED <<rvars, kinds>>
  PROVE  TypeOK'
<1> DEFINE p == Top.p
           b == peer[p].other
           r == [NewPeer EXCEPT !.other = b]
<1>1. /\ stack # <<>> /\ Top.f = "clear"
      /\ peer' = [peer EXCEPT ![p] = r] /\ stack' = Pop
  BY DEF ResetClear, Running
<1>2. p \in Peers /\ stack' \in Seq(Frame)
  BY <1>1, RunningStack, FrameFields
<1>3. b \in BOOLEAN
  BY <1>2 DEF TypeOK, PeerState
<1> HIDE DEF p, b
<1>4. r \in PeerState
  BY <1>3, NewPeerType DEF PeerState
<1> HIDE DEF r
<1>5. peer' \in [Peers -> PeerState]
  BY <1>1, <1>2, <1>4 DEF TypeOK
<1> QED BY <1>2, <1>5 DEF TypeOK, ResetClear, rvars

LEMMA ResumeType ==
  ASSUME TypeOK, Resume, UNCHANGED <<rvars, kinds>>
  PROVE  TypeOK'
<1>1. /\ stack # <<>> /\ Top.f = "resume"
      /\ stack' = IF Top.q = <<>> THEN Pop
                  ELSE Push(Pop, <<[Top EXCEPT !.q = Tail(@)], [f |-> "thaw", ch |-> Head(Top.q)]>>)
  BY DEF Resume, Running
<1>2. Top \in [f : {"resume"}, q : Seq(Channels)] /\ Pop \in Seq(Frame)
  BY <1>1, RunningStack, FrameFields
<1>3. CASE Top.q = <<>>
  BY <1>1, <1>2, <1>3, StackType DEF Resume
<1>4. CASE Top.q # <<>>
  <2>1. Tail(Top.q) \in Seq(Channels) /\ Head(Top.q) \in Channels
    BY <1>2, <1>4
  <2>2. [Top EXCEPT !.q = Tail(@)] = [f |-> "resume", q |-> Tail(Top.q)]
    <3> DEFINE t == Tail(Top.q)
    <3> HIDE DEF t
    <3>1. [Top EXCEPT !.q = t] = [f |-> "resume", q |-> t]
      BY <1>2
    <3> QED BY <3>1 DEF t
  <2>3. [Top EXCEPT !.q = Tail(@)] \in Frame /\ [f |-> "thaw", ch |-> Head(Top.q)] \in Frame
    BY <2>1, <2>2, Frames
  <2>4. stack' \in Seq(Frame)
    BY <1>1, <1>2, <1>4, <2>3, Pushed
  <2> QED BY <2>4, StackType DEF Resume
<1> QED BY <1>3, <1>4

LEMMA WalkType ==
  ASSUME TypeOK, NEW c \in Channels
  PROVE  Walk(c) \in Flush
<1>1. (IF frozen = <<>> THEN {} ELSE {frozen[1]}) \in SUBSET Node
  BY DEF TypeOK
<1> QED BY <1>1 DEF Walk, Flush, TypeOK

LEMMA ThawCallType ==
  ASSUME TypeOK, ThawCall, UNCHANGED <<rvars, kinds>>
  PROVE  TypeOK'
<1>1. /\ stack # <<>> /\ Top.f = "thaw"
      /\ stack' \in {Pop, Push(Pop, <<Walk(Top.ch)>>)}
  BY DEF ThawCall, Running
<1>2. Top.ch \in Channels /\ Pop \in Seq(Frame)
  BY <1>1, RunningStack, FrameFields
<1>3. Walk(Top.ch) \in Frame
  BY <1>2, WalkType, Frames
<1>4. stack' \in Seq(Frame)
  BY <1>1, <1>2, <1>3, Pushed, ZenonT(60)
<1> QED BY <1>4 DEF TypeOK, ThawCall, rvars, pvars

LEMMA SendReadyType ==
  ASSUME TypeOK, ChannelSendReady, UNCHANGED kinds
  PROVE  TypeOK'
<1>1. stack # <<>> /\ Top.f = "ready" /\ Send(Top.ch, "ready") /\ stack' = Pop
  BY DEF ChannelSendReady, Running
<1>2. Top.ch \in Channels /\ stack' \in Seq(Frame)
  BY <1>1, RunningStack, FrameFields
<1>3. out' \in [Channels -> Seq({"ready", "close"})]
  BY <1>1, <1>2, SendType
<1> QED BY <1>2, <1>3 DEF TypeOK, ChannelSendReady, rvars

LEMMA KillType ==
  ASSUME TypeOK, NEW c \in Channels, Kill(c), UNCHANGED kinds
  PROVE  TypeOK'
<1> DEFINE s == Push(Pop, <<[Top EXCEPT !.chans = @ \ {c}]>>)
<1>1. /\ stack # <<>> /\ Top.f = "kill"
      /\ \/ CloseChannel(c, s)
         \/ stack' = s /\ UNCHANGED <<handlers, local, out, fences, fenced>>
  BY DEF Kill, Running
<1>2. Top \in [f : {"kill"}, chans : SUBSET Channels] /\ Pop \in Seq(Frame)
  BY <1>1, RunningStack, FrameFields
<1>3. [Top EXCEPT !.chans = @ \ {c}] \in Frame
  <2> DEFINE C == Top.chans \ {c}
  <2>1. C \in SUBSET Channels
    BY <1>2
  <2> HIDE DEF C
  <2>2. [Top EXCEPT !.chans = C] = [f |-> "kill", chans |-> C]
    BY <1>2
  <2>3. [Top EXCEPT !.chans = C] \in Frame
    BY <2>1, <2>2, Frames
  <2> QED BY <2>3 DEF C
<1>4. s \in Seq(Frame)
  BY <1>2, <1>3, Pushed
<1> HIDE DEF s
<1>5. /\ stack' \in Seq(Frame) /\ local' \in [Channels -> LocalState]
      /\ out' \in [Channels -> Seq({"ready", "close"})]
      /\ fences' \subseteq Channels /\ fenced' \in Seq(Channels)
      /\ handlers' \in Seq(Peers \cup Channels)
  <2>1. CASE CloseChannel(c, s)
    BY <1>4, <2>1, CloseChannelType
  <2>2. CASE stack' = s /\ UNCHANGED <<handlers, local, out, fences, fenced>>
    BY <1>4, <2>2 DEF TypeOK
  <2> QED BY <1>1, <2>1, <2>2
<1> QED BY <1>5 DEF TypeOK, Kill

LEMMA ReturnType ==
  ASSUME TypeOK, KillEnd \/ SetBridgesEnd, UNCHANGED kinds
  PROVE  TypeOK'
<1>1. stack # <<>> /\ stack' = Pop
  BY DEF KillEnd, SetBridgesEnd, Running
<1>2. stack' \in Seq(Frame)
  BY <1>1, RunningStack
<1> QED BY <1>2, StackType DEF KillEnd, SetBridgesEnd

LEMMA SetBridgesRuleType ==
  ASSUME TypeOK, SetBridgesRule, UNCHANGED kinds
  PROVE  TypeOK'
<1> DEFINE r == Head(Top.old)
           s == Push(Pop, <<[Top EXCEPT !.old = Tail(@)]>>)
<1>1. /\ stack # <<>> /\ Top.f = "bridges" /\ Top.old # <<>>
      /\ \/ /\ r \in Peers /\ rules' = rules
            /\ stack' = Push(s, <<[f |-> "dispose", p |-> r], [f |-> "reset", p |-> r]>>)
         \/ stack' = s /\ rules' = Append(rules, r)
  BY DEF SetBridgesRule, Running
<1>2. Top \in [f : {"bridges"}, old : Seq(Peers \cup ToSet(BuiltIn))] /\ Pop \in Seq(Frame)
  BY <1>1, RunningStack, FrameFields
<1>3. Tail(Top.old) \in Seq(Peers \cup ToSet(BuiltIn)) /\ r \in Peers \cup ToSet(BuiltIn)
  BY <1>1, <1>2
<1>4. [Top EXCEPT !.old = Tail(@)] \in Frame
  <2> DEFINE t == Tail(Top.old)
  <2>1. t \in Seq(Peers \cup ToSet(BuiltIn))
    BY <1>3
  <2> HIDE DEF t
  <2>2. [Top EXCEPT !.old = t] = [f |-> "bridges", old |-> t]
    BY <1>2
  <2>3. [Top EXCEPT !.old = t] \in Frame
    BY <2>1, <2>2, Frames
  <2> QED BY <2>3 DEF t
<1>5. s \in Seq(Frame)
  BY <1>2, <1>4, Pushed
<1> HIDE DEF s, r
<1>6. stack' \in Seq(Frame) /\ rules' \in Seq(Peers \cup ToSet(BuiltIn))
  <2>1. CASE r \in Peers /\ rules' = rules
             /\ stack' = Push(s, <<[f |-> "dispose", p |-> r], [f |-> "reset", p |-> r]>>)
    <3>1. [f |-> "dispose", p |-> r] \in Frame /\ [f |-> "reset", p |-> r] \in Frame
      BY <2>1, Frames
    <3> QED BY <1>5, <2>1, <3>1, Pushed DEF TypeOK
  <2>2. CASE stack' = s /\ rules' = Append(rules, r)
    <3>1. rules \in Seq(Peers \cup ToSet(BuiltIn))
      BY DEF TypeOK
    <3> QED BY <1>3, <1>5, <2>2, <3>1
  <2> QED BY <1>1, <2>1, <2>2
<1> QED BY <1>6 DEF TypeOK, SetBridgesRule, pvars

LEMMA DisposeType ==
  ASSUME TypeOK, Dispose, UNCHANGED kinds
  PROVE  TypeOK'
<1>1. /\ stack # <<>> /\ Top.f = "dispose" /\ stack' = Pop
      /\ peer' = [peer EXCEPT ![Top.p] = NewPeer] /\ handlers' = Without(handlers, {Top.p})
  BY DEF Dispose, Running
<1>2. Top.p \in Peers /\ stack' \in Seq(Frame)
  BY <1>1, RunningStack, FrameFields
<1>3. handlers' \in Seq(Peers \cup Channels)
  BY <1>1, WithoutType DEF TypeOK
<1>4. peer' \in [Peers -> PeerState]
  BY <1>1, <1>2, NewPeerType DEF TypeOK
<1> QED BY <1>2, <1>3, <1>4 DEF TypeOK, Dispose

(* What the main loop calls. *)

LEMMA FrontSendType ==
  ASSUME TypeOK, NEW c \in Channels, NEW k \in Kinds, FrontSend(c, k)
  PROVE  TypeOK'
<1>1. Recv(c) /\ kinds' = [kinds EXCEPT ![c] = Append(@, k)] /\ UNCHANGED <<pvars, rvars>>
  BY DEF FrontSend
<1>2. [ch |-> c, n |-> sent[c] + 1] \in Message /\ sent' \in [Channels -> Nat]
  BY <1>1 DEF Recv, TypeOK, Message
<1>3. frozen' \in Seq(Node) /\ cur' \in SUBSET Message
  BY <1>1, <1>2, EmitType DEF Recv, TypeOK
<1>4. kinds' \in [Channels -> Seq(Kinds)]
  <2> DEFINE q == Append(kinds[c], k)
  <2>1. q \in Seq(Kinds) /\ kinds \in [Channels -> Seq(Kinds)]
    BY DEF TypeOK
  <2>2. kinds' = [kinds EXCEPT ![c] = q]
    BY <1>1
  <2> HIDE DEF q
  <2> QED BY <2>1, <2>2
<1> QED BY <1>1, <1>2, <1>3, <1>4 DEF Recv, TypeOK, pvars, rvars

LEMMA FrontInitType ==
  ASSUME TypeOK, NEW good, FrontInit(good)
  PROVE  TypeOK'
<1>1. init_host' \in BOOLEAN /\ closed' \in BOOLEAN
  BY DEF FrontInit, TypeOK
<1> QED BY <1>1 DEF FrontInit, TypeOK, pvars

LEMMA FrontKillType ==
  ASSUME TypeOK, NEW g, FrontKill(g)
  PROVE  TypeOK'
<1>1. Group(g) \in SUBSET Channels /\ stack' = Push(stack, <<[f |-> "kill", chans |-> Group(g)]>>)
  BY DEF FrontKill, Group
<1>2. [f |-> "kill", chans |-> Group(g)] \in Frame
  BY <1>1, Frames
<1>3. stack' \in Seq(Frame)
  BY <1>1, <1>2, Pushed DEF TypeOK
<1> QED BY <1>3, StackType DEF FrontKill

LEMMA CreatedBridges ==
  ASSUME NEW bs \in Seq(Peers), NEW X
  PROVE  Created(bs, X) \in Seq(Peers)
<1>1. Reverse(bs) \in Seq(Peers)
  BY DEF Reverse
<1> QED BY <1>1, WithoutType DEF Created

LEMMA SetBridgesType ==
  ASSUME TypeOK, NEW bs \in Bridges, SetBridges(bs), UNCHANGED kinds
  PROVE  TypeOK'
<1> DEFINE reused == ToSet(bs) \cap ToSet(rules)
           old == Without(rules, reused)
           R == Peers \cup ToSet(BuiltIn)
<1>1. /\ rules' = bs /\ handlers' = handlers \o Created(bs, reused)
      /\ stack' = Push(stack, <<[f |-> "bridges", old |-> old]>>) /\ reloads' = reloads + 1
  BY DEF SetBridges
<1> HIDE DEF reused
<1>2. bs \in Seq(Peers)
  BY RouterAssumption
<1>3. rules \in Seq(R) /\ stack \in Seq(Frame) /\ handlers \in Seq(Peers \cup Channels) /\ reloads \in Nat
  BY DEF TypeOK
<1>4. bs \in Seq(R)
  <2> HIDE DEF R
  <2>1. Peers \subseteq R
    BY DEF R
  <2> QED BY <1>2, <2>1
<1>5. handlers' \in Seq(Peers \cup Channels)
  <2>1. Created(bs, reused) \in Seq(Peers)
    BY <1>2, CreatedBridges
  <2>2. Created(bs, reused) \in Seq(Peers \cup Channels)
    BY <2>1
  <2> QED BY <1>1, <1>3, <2>2
<1>6. old \in Seq(R)
  <2> HIDE DEF R
  <2> QED BY <1>3, WithoutType
<1> HIDE DEF old
<1>7. [f |-> "bridges", old |-> old] \in Frame
  BY <1>6, Frames
<1>8. stack' \in Seq(Frame)
  BY <1>1, <1>3, <1>7, Pushed
<1>9. rules' \in Seq(Peers \cup ToSet(BuiltIn)) /\ reloads' \in Nat
  BY <1>1, <1>3, <1>4
<1> QED BY <1>5, <1>8, <1>9 DEF TypeOK, SetBridges, pvars

\* One peer becomes r, and nothing else than the stack, the channels of the
\* process and what the frontend is told changes.
LEMMA PeerChangeType ==
  ASSUME TypeOK, NEW p \in Peers, NEW r \in PeerState, peer' = [peer EXCEPT ![p] = r],
         stack' \in Seq(Frame), child' \in [Peers -> SUBSET Channels],
         out' \in [Channels -> Seq({"ready", "close"})],
         UNCHANGED <<freeze, key, frozen, cur, sent, taken, dangled, closed,
                     spawned, got, rvars, kinds>>
  PROVE  TypeOK'
<1>1. peer' \in [Peers -> PeerState]
  BY DEF TypeOK
<1> QED BY <1>1 DEF TypeOK, rvars

LEMMA OtherInitType ==
  ASSUME TypeOK, NEW p \in Peers, OtherInit(p), UNCHANGED <<rvars, kinds>>
  PROVE  TypeOK'
<1> DEFINE q == peer[p]
           r == [q EXCEPT !.inited = TRUE, !.frozen = <<>>]
<1>1. /\ peer' = [peer EXCEPT ![p] = r]
      /\ stack' = Push(stack, <<[f |-> "resume", q |-> q.frozen]>>)
  BY DEF OtherInit
<1>2. q \in PeerState /\ q.frozen \in Seq(Channels)
  BY DEF TypeOK, PeerState
<1>3. [f |-> "resume", q |-> q.frozen] \in Frame
  BY <1>2, Frames
<1>4. stack' \in Seq(Frame)
  BY <1>1, <1>3, Pushed DEF TypeOK
<1> HIDE DEF q
<1>5. r \in PeerState
  <2>1. <<>> \in Seq(Channels)
    OBVIOUS
  <2>2. \A b \in BOOLEAN, s \in Seq(Channels) : [q EXCEPT !.inited = b, !.frozen = s] \in PeerState
    BY <1>2 DEF PeerState
  <2> QED BY <2>1, <2>2
<1> HIDE DEF r
<1>6. child' \in [Peers -> SUBSET Channels] /\ out' \in [Channels -> Seq({"ready", "close"})]
  BY DEF OtherInit, TypeOK
<1> QED BY <1>1, <1>4, <1>5, <1>6, PeerChangeType DEF OtherInit

LEMMA OtherInitProblemType ==
  ASSUME TypeOK, NEW p \in Peers, OtherInitProblem(p), UNCHANGED <<rvars, kinds>>
  PROVE  TypeOK'
<1> DEFINE q == peer[p]
           r == [q EXCEPT !.failure = TRUE]
<1>1. peer' = [peer EXCEPT ![p] = r]
  BY DEF OtherInitProblem
<1>2. q \in PeerState
  BY DEF TypeOK
<1> HIDE DEF q
<1>3. r \in PeerState
  <2>1. \A b \in BOOLEAN : [q EXCEPT !.failure = b] \in PeerState
    BY <1>2 DEF PeerState
  <2> QED BY <2>1
<1> HIDE DEF r
<1>4. /\ child' \in [Peers -> SUBSET Channels] /\ out' \in [Channels -> Seq({"ready", "close"})]
      /\ stack' \in Seq(Frame)
  BY DEF OtherInitProblem, TypeOK, tvars
<1> QED BY <1>1, <1>3, <1>4, PeerChangeType DEF OtherInitProblem, tvars

LEMMA OtherExitType ==
  ASSUME TypeOK, NEW p \in Peers, OtherExit(p), UNCHANGED <<rvars, kinds>>
  PROVE  TypeOK'
<1>1. OtherClosed(p, stack) /\ stack \in Seq(Frame)
  BY DEF OtherExit, TypeOK
<1>2. /\ peer' \in [Peers -> PeerState] /\ child' \in [Peers -> SUBSET Channels]
      /\ stack' \in Seq(Frame)
  BY <1>1, OtherClosedType
<1> QED BY <1>2 DEF OtherExit, TypeOK, rvars

LEMMA OtherReadyType ==
  ASSUME TypeOK, NEW p \in Peers, NEW c \in Channels, OtherReady(p, c), UNCHANGED <<rvars, kinds>>
  PROVE  TypeOK'
<1>1. out' \in [Channels -> Seq({"ready", "close"})]
  BY SendType DEF OtherReady
<1> QED BY <1>1 DEF OtherReady, TypeOK, tvars, rvars

LEMMA OtherCloseType ==
  ASSUME TypeOK, NEW p \in Peers, NEW c \in Channels, OtherClose(p, c), UNCHANGED <<rvars, kinds>>
  PROVE  TypeOK'
<1> DEFINE q == peer[p]
           rest == q.channels \ {c}
           timer == IF rest = {} THEN p \in Timeout ELSE q.timer
           r == [q EXCEPT !.channels = rest, !.timer = timer]
<1>1. peer' = [peer EXCEPT ![p] = r] /\ child' = [child EXCEPT ![p] = @ \ {c}] /\ Send(c, "close")
  BY DEF OtherClose
<1>2. q \in PeerState
  BY DEF TypeOK
<1> HIDE DEF q
<1>3. rest \in SUBSET Channels
  BY <1>2 DEF PeerState
<1> HIDE DEF rest
<1>4. timer \in BOOLEAN
  <2>1. q.timer \in BOOLEAN
    BY <1>2 DEF PeerState
  <2>2. rest = {} => timer = (p \in Timeout)
    BY Zenon
  <2>3. rest # {} => timer = q.timer
    BY Zenon
  <2>4. (p \in Timeout) \in BOOLEAN
    OBVIOUS
  <2> HIDE DEF timer
  <2> QED BY <2>1, <2>2, <2>3, <2>4
<1> HIDE DEF timer
<1>5. r \in PeerState
  BY <1>2, <1>3, <1>4 DEF PeerState
<1> HIDE DEF r
<1>6. child' \in [Peers -> SUBSET Channels] /\ stack' \in Seq(Frame)
  BY <1>1 DEF OtherClose, TypeOK, tvars
<1>7. out' \in [Channels -> Seq({"ready", "close"})]
  BY <1>1, SendType
<1> QED BY <1>1, <1>5, <1>6, <1>7, PeerChangeType DEF OtherClose, tvars

LEMMA PeerTimeoutType ==
  ASSUME TypeOK, NEW p \in Peers, PeerTimeout(p), UNCHANGED <<rvars, kinds>>
  PROVE  TypeOK'
<1> DEFINE q == peer[p]
           r == [q EXCEPT !.timer = FALSE]
<1>1. /\ peer' = [peer EXCEPT ![p] = r]
      /\ stack' \in {stack, Push(stack, <<[f |-> "reset", p |-> p]>>)}
  BY DEF PeerTimeout
<1>2. q \in PeerState
  BY DEF TypeOK
<1> HIDE DEF q
<1>3. r \in PeerState
  <2>1. \A b \in BOOLEAN : [q EXCEPT !.timer = b] \in PeerState
    BY <1>2 DEF PeerState
  <2> QED BY <2>1
<1> HIDE DEF r
<1>4. [f |-> "reset", p |-> p] \in Frame
  BY Frames
<1>5. stack' \in Seq(Frame)
  <2>1. stack \in Seq(Frame) /\ Push(stack, <<[f |-> "reset", p |-> p]>>) \in Seq(Frame)
    BY <1>4, Pushed DEF TypeOK
  <2> QED BY <1>1, <2>1
<1>6. child' \in [Peers -> SUBSET Channels] /\ out' \in [Channels -> Seq({"ready", "close"})]
  BY DEF PeerTimeout, TypeOK
<1> QED BY <1>1, <1>3, <1>5, <1>6, PeerChangeType DEF PeerTimeout

LEMMA ReadyStack ==
  ASSUME TypeOK, NEW c \in Channels
  PROVE  Push(stack, ReadyFrames(c)) \in Seq(Frame)
<1>1. [f |-> "ready", ch |-> c] \in Frame /\ [f |-> "thaw", ch |-> c] \in Frame
  BY Frames
<1> QED BY <1>1, Pushed DEF ReadyFrames, TypeOK

LEMMA LocalChannelType ==
  ASSUME TypeOK, NEW c \in Channels,
         ChannelPrepare(c) \/ ChannelReady(c) \/ ChannelClose(c) \/ ChannelEnded(c), UNCHANGED kinds
  PROVE  TypeOK'
<1>0. stack \in Seq(Frame)
  BY DEF TypeOK
<1>1. ASSUME NEW st \in LocalState, local' = [local EXCEPT ![c] = st]
      PROVE  local' \in [Channels -> LocalState]
  BY <1>1 DEF TypeOK
<1>2. "prepared" \in LocalState /\ "ready" \in LocalState
  BY DEF LocalState
<1>3. ASSUME CloseChannel(c, stack) \/ ChannelClosed(c, stack)
      PROVE  /\ stack' \in Seq(Frame) /\ local' \in [Channels -> LocalState]
             /\ out' \in [Channels -> Seq({"ready", "close"})]
             /\ fences' \subseteq Channels /\ fenced' \in Seq(Channels)
             /\ CloseChannel(c, stack) => handlers' \in Seq(Peers \cup Channels)
  BY <1>0, <1>3, CloseChannelType
<1>4. CASE ChannelPrepare(c)
  <2>1. CASE CloseChannel(c, stack)
    BY <1>3, <1>4, <2>1 DEF ChannelPrepare, TypeOK
  <2>2. CASE UNCHANGED <<handlers, out, fences, fenced>>
             /\ \/ local' = [local EXCEPT ![c] = "prepared"] /\ stack' = stack
                \/ local' = [local EXCEPT ![c] = "ready"] /\ stack' = Push(stack, ReadyFrames(c))
    <3>1. local' \in [Channels -> LocalState] /\ stack' \in Seq(Frame)
      BY <1>0, <1>1, <1>2, <2>2, ReadyStack
    <3> QED BY <1>4, <2>2, <3>1 DEF ChannelPrepare, TypeOK
  <2> QED BY <1>4, <2>1, <2>2 DEF ChannelPrepare
<1>5. CASE ChannelReady(c)
  <2>1. local' = [local EXCEPT ![c] = "ready"] /\ stack' = Push(stack, ReadyFrames(c))
    BY <1>5 DEF ChannelReady
  <2>2. local' \in [Channels -> LocalState] /\ stack' \in Seq(Frame)
    BY <1>1, <1>2, <2>1, ReadyStack
  <2> QED BY <1>5, <2>2 DEF ChannelReady, TypeOK, pvars
<1>6. CASE ChannelClose(c)
  BY <1>3, <1>6 DEF ChannelClose, TypeOK
<1>7. CASE ChannelEnded(c)
  BY <1>3, <1>7 DEF ChannelEnded, TypeOK
<1> QED BY <1>4, <1>5, <1>6, <1>7

LEMMA BridgeInit == Init => TypeOK
<1> SUFFICES ASSUME Init PROVE TypeOK
  OBVIOUS
<1>1. PICK bs \in Bridges : rules = bs \o BuiltIn /\ handlers = Created(bs, {})
  BY DEF Init, RouterInit
<1>2. bs \in Seq(Peers)
  BY RouterAssumption
<1>3. handlers \in Seq(Peers \cup Channels)
  <2>1. Created(bs, {}) \in Seq(Peers)
    BY <1>2, CreatedBridges
  <2> QED BY <1>1, <2>1
<1>4. rules \in Seq(Peers \cup ToSet(BuiltIn))
  <2> DEFINE R == Peers \cup ToSet(BuiltIn)
  <2>1. \A i \in DOMAIN BuiltIn : BuiltIn[i] \in ToSet(BuiltIn)
    BY DEF ToSet
  <2>2. BuiltIn \in Seq(R)
    BY <2>1 DEF BuiltIn
  <2>3. Peers \subseteq R
    OBVIOUS
  <2> HIDE DEF R
  <2>4. bs \in Seq(R)
    BY <1>2, <2>3
  <2>5. rules \in Seq(R)
    BY <1>1, <2>2, <2>4
  <2> QED BY <2>5 DEF R
<1>5. peer \in [Peers -> PeerState] /\ child \in [Peers -> SUBSET Channels] /\ spawned \in [Peers -> Nat]
  BY NewPeerType DEF Init, PeerInit
<1>6. /\ out \in [Channels -> Seq({"ready", "close"})]
      /\ got \in [Channels -> Seq([n : Nat, by : Peers \cup {"local"}])]
      /\ kinds \in [Channels -> Seq(Kinds)]
  <2>1. \A S : <<>> \in Seq(S)
    OBVIOUS
  <2> QED BY <2>1 DEF Init, PeerInit
<1>7. /\ local \in [Channels -> LocalState] /\ fences \subseteq Channels
      /\ fenced \in Seq(Channels) /\ reloads \in Nat
  BY DEF Init, RouterInit, LocalState
<1>8. /\ freeze \subseteq Channels /\ key \in [Channels -> Nat] /\ frozen \in Seq(Node)
      /\ stack \in Seq(Frame) /\ cur \in SUBSET Message /\ sent \in [Channels -> Nat]
      /\ taken \in [Channels -> Nat]
  BY DEF Init, TransportInit
<1>9. init_host = FALSE /\ dangled = FALSE /\ closed = FALSE
  BY DEF Init, RouterInit, TransportInit
<1> QED BY <1>3, <1>4, <1>5, <1>6, <1>7, <1>8, <1>9 DEF TypeOK

LEMMA BridgeNext ==
  ASSUME TypeOK, [Next]_vars
  PROVE  TypeOK'
<1>1. CASE Handle
  <2>1. PICK m \in cur : \/ NoInit(m) \/ ProcessOpen(m)
                         \/ Route(m)
                         \/ WalkRules(m)
    BY <1>1 DEF Handle
  <2>2. UNCHANGED kinds
    BY <1>1 DEF Handle
  <2>3. CASE NoInit(m)
    BY <2>2, <2>3, NoInitType
  <2>4. CASE ProcessOpen(m)
    BY <2>2, <2>4, NoInitType, OpenFencedType, OpenMalformedType, OpenWalkType DEF ProcessOpen
  <2>5. CASE Route(m)
    BY <2>2, <2>5, UnclaimedType, ToPeerType, ToLocalType DEF Route
  <2>6. CASE WalkRules(m)
    BY <2>2, <2>6, RuleSkipType, RulePeerType, RuleLocalType, RulesEndType DEF WalkRules
  <2> QED BY <2>1, <2>3, <2>4, <2>5, <2>6
<1>2. CASE Continue
  <2>1. UNCHANGED kinds
    BY <1>2 DEF Continue
  <2>2. CASE (FlushNext \/ FlushEnd \/ FlushDangling) /\ UNCHANGED <<pvars, rvars>>
    BY <2>1, <2>2, FlushNextType, FlushEndType
  <2>3. CASE (\E c \in Channels : Orphan(c)) /\ UNCHANGED rvars
    BY <2>1, <2>3, OrphanType
  <2>4. CASE (OrphansEnd \/ ResetClose \/ ResetClear \/ Resume \/ ThawCall) /\ UNCHANGED rvars
    BY <2>1, <2>4, OrphansEndType, ResetCloseType, ResetClearType, ResumeType, ThawCallType
  <2>5. CASE ChannelSendReady \/ \E c \in Channels : Kill(c)
    BY <2>1, <2>5, SendReadyType, KillType
  <2>6. CASE KillEnd \/ SetBridgesRule \/ SetBridgesEnd \/ Dispose
    BY <2>1, <2>6, ReturnType, SetBridgesRuleType, DisposeType
  <2> QED BY <1>2, <2>2, <2>3, <2>4, <2>5, <2>6 DEF Continue
<1>3. CASE Frontend
  BY <1>3, FrontSendType, FrontInitType, FrontKillType DEF Frontend
<1>4. CASE Reload
  BY <1>4, SetBridgesType DEF Reload
<1>5. ASSUME NEW p \in Peers, PeerEvent(p) \/ PeerChannelEvent(p) \/ PeerTimer(p)
      PROVE  TypeOK'
  <2>1. CASE PeerEvent(p)
    BY <2>1, OtherInitType, OtherInitProblemType, OtherExitType DEF PeerEvent
  <2>2. CASE PeerChannelEvent(p)
    BY <2>2, OtherReadyType, OtherCloseType DEF PeerChannelEvent
  <2>3. CASE PeerTimer(p)
    BY <2>3, PeerTimeoutType DEF PeerTimer
  <2> QED BY <1>5, <2>1, <2>2, <2>3
<1>6. ASSUME NEW c \in Channels, Prepare(c) \/ LocalEvent(c)
      PROVE  TypeOK'
  BY <1>6, LocalChannelType DEF Prepare, LocalEvent
<1>7. CASE UNCHANGED vars
  BY <1>7 DEF TypeOK, vars, tvars, pvars, rvars
<1> QED BY <1>1, <1>2, <1>3, <1>4, <1>5, <1>6, <1>7 DEF Next

(***************************************************************************)
(* The bridge's variables keep their types, whatever the frontend sends,   *)
(* the peers do and the reloads bring (the callbacks of the main loop).    *)
(***************************************************************************)
THEOREM BridgeTypes == Spec => []TypeOK
BY BridgeInit, BridgeNext, PTL DEF Spec
-----------------------------------------------------------------------------
(***************************************************************************)
(* The use of the transport.  Only a thaw and a walk that ends change the  *)
(* walks on the stack; every other call comes and goes around them.        *)
(***************************************************************************)

\* Calls that are not walks.
LEMMA WalksPush ==
  ASSUME NEW s \in Seq(Frame), NEW x, x.f # "flush", NEW y, y.f # "flush"
  PROVE  Walks(Push(s, <<x>>)) = Walks(s) /\ Walks(Push(s, <<x, y>>)) = Walks(s)
<1> DEFINE S == Frame \cup {x, y}
<1>1. Frame \subseteq S /\ x \in S /\ y \in S
  OBVIOUS
<1> HIDE DEF S
<1>2. s \in Seq(S)
  BY <1>1
<1>3. /\ Push(s, <<x>>) = Append(s, x) /\ Append(s, x) \in Seq(S)
      /\ Push(s, <<x, y>>) = Append(Append(s, x), y)
  BY <1>1, <1>2, Pushed
<1>4. Walks(Append(s, x)) = Walks(s)
  BY <1>1, <1>2, WalksAppend
<1>5. Walks(Append(Append(s, x), y)) = Walks(Append(s, x))
  BY <1>1, <1>3, WalksAppend
<1> QED BY <1>3, <1>4, <1>5

LEMMA WalksPop ==
  ASSUME TypeOK, stack # <<>>
  PROVE  /\ Top.f # "flush" => Walks(Pop) = Walks(stack)
         /\ Top.f = "flush" => Walks(stack) = Append(Walks(Pop), Top)
<1>1. Pop \in Seq(Frame) /\ Top \in Frame /\ stack = Append(Pop, Top)
  BY RunningStack
<1>2. Walks(Append(Pop, Top)) = IF Top.f = "flush" THEN Append(Walks(Pop), Top) ELSE Walks(Pop)
  BY <1>1, WalksAppend
<1> QED BY <1>1, <1>2

\* A list of calls holds a list of walks.
LEMMA WalksType ==
  ASSUME NEW s \in Seq(Frame)
  PROVE  Walks(s) \in Seq(Frame)
BY PickedType DEF Walks

\* The innermost call goes on, as x, with y to be done first.
LEMMA WalksGoOn ==
  ASSUME TypeOK, stack # <<>>, Top.f # "flush", NEW x, x.f # "flush", NEW y, y.f # "flush"
  PROVE  Walks(Push(Pop, <<x>>)) = Walks(stack) /\ Walks(Push(Pop, <<x, y>>)) = Walks(stack)
<1>1. Pop \in Seq(Frame)
  BY RunningStack
<1> QED BY <1>1, WalksPop, WalksPush

LEMMA WalksOtherClosed ==
  ASSUME NEW p, NEW s \in Seq(Frame), OtherClosed(p, s)
  PROVE  Walks(stack') = Walks(s)
<1> DEFINE fr == [f |-> "orphans", p |-> p,
                  problem |-> peer[p].inited \/ peer[p].failure \/ p \in Problem,
                  chans |-> peer[p].channels]
<1>1. stack' = Push(s, <<fr>>) /\ fr.f = "orphans"
  BY DEF OtherClosed
<1> HIDE DEF fr
<1> QED BY <1>1, WalksPush

LEMMA WalksCloseChannel ==
  ASSUME NEW c, NEW s \in Seq(Frame), CloseChannel(c, s) \/ ChannelClosed(c, s)
  PROVE  Walks(stack') = Walks(s)
<1> DEFINE fr == [f |-> "resume", q |-> fenced]
<1>1. stack' \in {s, Push(s, <<fr>>)} /\ fr.f = "resume"
  BY DEF CloseChannel, ChannelClosed, ChannelCloses
<1> HIDE DEF fr
<1> QED BY <1>1, WalksPush

\* What a step may do with the transport.
Uses == T!TransportNext \/ UNCHANGED T!tvars

LEMMA Quiet ==
  ASSUME UNCHANGED <<freeze, key, frozen, cur, sent, taken, dangled, closed>>,
         Walks(stack') = Walks(stack)
  PROVE  Uses
BY DEF Uses, T!tvars

LEMMA UsesTake ==
  ASSUME ~closed, NEW m \in cur, Taken(m), Walks(stack') = Walks(stack),
         UNCHANGED <<freeze, key, frozen, sent, dangled, closed>>
  PROVE  Uses
<1>1. T!Take
  BY DEF T!Take, T!Taken, Taken
<1> QED BY <1>1 DEF Uses, T!TransportNext

LEMMA UsesTakeAndFreeze ==
  ASSUME ~closed, NEW m \in cur, NEW state, CreateChannel(m, state), Walks(stack') = Walks(stack)
  PROVE  Uses
<1>1. T!TakeAndFreeze
  BY DEF T!TakeAndFreeze, T!Taken, T!Freeze, Taken, Freeze, CreateChannel
<1> QED BY <1>1 DEF Uses, T!TransportNext

LEMMA UsesPutBack ==
  ASSUME ~closed, NEW m \in cur, Requeue(m), Walks(stack') = Walks(stack),
         UNCHANGED <<sent, taken, dangled, closed>>
  PROVE  Uses
<1>1. T!PutBack
  BY DEF T!PutBack, T!Requeue, T!Freeze, Requeue, Freeze
<1> QED BY <1>1 DEF Uses, T!TransportNext

LEMMA UsesClose ==
  ASSUME ~closed, closed', Walks(stack') = Walks(stack),
         UNCHANGED <<freeze, key, frozen, cur, sent, taken, dangled>>
  PROVE  Uses
<1>1. T!Close
  BY DEF T!Close
<1> QED BY <1>1 DEF Uses, T!TransportNext

\* The handlers of a message.
LEMMA HandleUses ==
  ASSUME TypeOK, ~closed, Handle
  PROVE  Uses
<1>1. PICK m \in cur : \/ NoInit(m) \/ ProcessOpen(m)
                       \/ Route(m)
                       \/ WalkRules(m)
  BY DEF Handle
<1>2. CASE NoInit(m) \/ OpenInUse(m)
  BY <1>2, UsesClose DEF NoInit, OpenInUse
<1>3. CASE OpenFenced(m)
  BY <1>3, UsesPutBack DEF OpenFenced
<1>4. CASE OpenMalformed(m)
  BY <1>4, UsesTakeAndFreeze DEF OpenMalformed
<1>5. CASE OpenWalk(m)
  <2>1. PICK fr : stack' = Push(stack, <<fr>>) /\ fr.f = "rules"
    BY <1>5 DEF OpenWalk
  <2>2. Walks(stack') = Walks(stack)
    BY <2>1, WalksPush DEF TypeOK
  <2> QED BY <1>5, <2>2, Quiet DEF OpenWalk
<1>6. CASE Unclaimed(m)
  BY <1>6, UsesTake DEF Unclaimed
<1>7. CASE ToPeer(m)
  BY <1>7, UsesTake DEF ToPeer
<1>8. CASE ToLocal(m)
  <2>1. Walks(stack') = Walks(stack)
    BY <1>8, WalksCloseChannel DEF ToLocal, TypeOK
  <2> QED BY <1>8, <2>1, UsesTake DEF ToLocal
<1>9. ASSUME InWalk
      PROVE  Walks(Pop) = Walks(stack) /\ (NextRule => Walks(stack') = Walks(stack))
  <2>1. stack # <<>> /\ Top \in Frame /\ Top.f = "rules"
    BY <1>9, RunningStack DEF InWalk
  <2>2. Top \in [f : {"rules"}, i : Nat]
    BY <2>1, FrameFields
  <2> DEFINE x == [Top EXCEPT !.i = @ + 1]
  <2>3. x.f = "rules"
    BY <2>2
  <2>4. NextRule => stack' = Push(Pop, <<x>>)
    BY DEF NextRule
  <2> HIDE DEF x
  <2> QED BY <2>1, <2>3, <2>4, WalksPop, WalksGoOn
<1>10. CASE InWalk /\ RuleSkip(m)
  BY <1>9, <1>10, Quiet DEF RuleSkip
<1>11. CASE InWalk /\ RulePeer(m)
  <2> DEFINE p == rules[Top.i]
  <2>1. PICK q \in Ensured(p) :
          \/ NextRule /\ UNCHANGED <<freeze, key, frozen, cur, taken>>
          \/ /\ HandleClosed(p, q, m) \/ HandleInited(p, q, m) \/ HandleStarting(p, q, m)
             /\ stack' = Pop
    BY <1>11 DEF RulePeer
  <2>2. Walks(stack') = Walks(stack)
    BY <1>9, <1>11, <2>1
  <2>3. UNCHANGED <<sent, dangled, closed>>
    BY <1>11 DEF RulePeer
  <2>4. CASE UNCHANGED <<freeze, key, frozen, cur, taken>>
    BY <2>2, <2>3, <2>4, Quiet
  <2>5. CASE HandleClosed(p, q, m) \/ HandleInited(p, q, m)
    BY <2>2, <2>3, <2>5, UsesTake DEF HandleClosed, HandleInited
  <2>6. CASE HandleStarting(p, q, m)
    BY <2>2, <2>3, <2>6, UsesPutBack DEF HandleStarting
  <2> QED BY <2>1, <2>4, <2>5, <2>6
<1>12. CASE InWalk /\ (RulePayload(m) \/ RuleNotSupported(m))
  BY <1>9, <1>12, UsesTakeAndFreeze DEF RulePayload, RuleNotSupported
<1>13. CASE InWalk /\ RulesEnd(m)
  BY <1>9, <1>13, UsesTake DEF RulesEnd
<1> QED BY <1>1, <1>2, <1>3, <1>4, <1>5, <1>6, <1>7, <1>8, <1>10, <1>11, <1>12, <1>13
        DEF ProcessOpen, Route, WalkRules

\* The walks of the transport.
LEMMA FlushUses ==
  ASSUME TypeOK, ~closed, FlushNext \/ FlushEnd \/ FlushDangling
  PROVE  Uses
<1>0. Walking /\ stack # <<>> /\ Top.f = "flush"
  BY DEF FlushNext, FlushEnd, FlushDangling, Walking
<1> DEFINE w == Walks(stack)
<1>1. /\ Pop \in Seq(Frame) /\ Top \in Frame /\ Walks(Pop) \in Seq(Frame)
      /\ w = Append(Walks(Pop), Top)
  BY <1>0, RunningStack, WalksPop, WalksType
<1>2. w # <<>> /\ w[Len(w)] = Top /\ w \in Seq(Frame)
  BY <1>1
<1>3. SubSeq(w, 1, Len(w) - 1) = Walks(Pop)
  <2> DEFINE s == Walks(Pop)
             t == Top
  <2>1. s \in Seq(Frame) /\ t \in Frame /\ w = Append(s, t)
    BY <1>1
  <2> HIDE DEF s, t, w
  <2>2. Len(s) \in Nat /\ Len(w) = Len(s) + 1 /\ \A i \in 1 .. Len(s) : w[i] = s[i]
    BY <2>1
  <2>3. SubSeq(w, 1, Len(s)) = s
    <3> DEFINE u == SubSeq(w, 1, Len(s))
    <3>1. w \in Seq(Frame) /\ Len(s) \in 0 .. Len(w)
      BY <2>1, <2>2
    <3>2. u \in Seq(Frame) /\ Len(u) = Len(s) /\ \A i \in 1 .. Len(s) : u[i] = w[i]
      BY <2>2, <3>1, SubSeqProperties
    <3> HIDE DEF u
    <3>3. u = s
      BY <2>1, <2>2, <3>2, SeqEqual
    <3> QED BY <3>3 DEF u
  <2> QED BY <2>2, <2>3 DEF s
<1>4. T!Top = Top /\ T!Pop = Walks(Pop) /\ T!Walking
  BY <1>0, <1>2, <1>3 DEF T!Top, T!Pop, T!Walking, Walking
<1>5. CASE FlushNext
  <2>1. PICK i \in 1 .. Len(frozen) :
          /\ \E j \in 1 .. i : Reaches(j, i)
          /\ stack' = Advance(i)
          /\ Emit(DeleteLink(frozen, i), [ch |-> frozen[i].ch, n |-> frozen[i].n])
    BY <1>5 DEF FlushNext
  <2>2. \E j \in 1 .. i : T!Reaches(j, i)
    BY <1>4, <2>1 DEF Reaches, T!Reaches, Belongs, T!Belongs
  <2>3. T!Emit(T!DeleteLink(frozen, i), [ch |-> frozen[i].ch, n |-> frozen[i].n])
    BY <2>1 DEF Emit, T!Emit, DeleteLink, T!DeleteLink, Hold, T!Hold
  <2>4. Walks(stack') = T!Advance(i)
    <3> DEFINE nx == IF i < Len(frozen) THEN {frozen[i + 1]} ELSE {}
               fr == [Top EXCEPT !.next = nx]
    <3>1. stack' = [stack EXCEPT ![Len(stack)] = fr]
      BY <2>1 DEF Advance, Top
    <3>2. T!Advance(i) = [w EXCEPT ![Len(w)] = fr]
      BY <1>2 DEF T!Advance
    <3>3. nx \in SUBSET Node /\ Top \in Flush
      BY <1>0, <1>1, FrameFields DEF TypeOK
    <3> HIDE DEF nx
    <3>4. fr \in Flush /\ fr.f = "flush"
      BY <3>3 DEF Flush
    <3>5. fr \in Frame
      BY <3>4, Frames
    <3> HIDE DEF fr, w
    <3>6. stack' = Append(Pop, fr)
      <4>1. stack \in Seq(Frame) /\ stack = Append(Pop, Top)
        BY <1>0, RunningStack
      <4> QED BY <1>1, <3>1, <3>5, <4>1, LastReplaced
    <3>7. T!Advance(i) = Append(Walks(Pop), fr)
      BY <1>1, <3>2, <3>5, LastReplaced
    <3>8. Walks(stack') = Append(Walks(Pop), fr)
      BY <1>1, <3>4, <3>5, <3>6, WalksAppend
    <3> QED BY <3>7, <3>8
  <2>5. T!FlushNext
    BY <1>4, <1>5, <2>2, <2>3, <2>4 DEF FlushNext, T!FlushNext
  <2> QED BY <2>5 DEF Uses, T!TransportNext
<1>6. CASE FlushEnd
  <2>1. Walks(stack') = T!Pop
    BY <1>4, <1>6 DEF FlushEnd
  <2>2. T!FlushEnd
    BY <1>4, <1>6, <2>1 DEF FlushEnd, T!FlushEnd, Belongs, T!Belongs
  <2> QED BY <2>2 DEF Uses, T!TransportNext
<1>7. CASE FlushDangling
  <2>1. Walks(stack') = T!Pop
    BY <1>4, <1>7 DEF FlushDangling
  <2>2. T!FlushDangling
    BY <1>4, <1>7, <2>1 DEF FlushDangling, T!FlushDangling
  <2> QED BY <2>2 DEF Uses, T!TransportNext
<1> QED BY <1>5, <1>6, <1>7

\* cockpit_transport_thaw()
LEMMA ThawUses ==
  ASSUME TypeOK, ~closed, ThawCall
  PROVE  Uses
<1>1. cur = {} /\ stack # <<>> /\ Top.f = "thaw"
  BY DEF ThawCall, Running
<1>2. Pop \in Seq(Frame) /\ Top.ch \in Channels /\ Walks(Pop) = Walks(stack)
  BY <1>1, RunningStack, FrameFields, WalksPop
<1>3. CASE Top.ch \in freeze
  <2>1. Walk(Top.ch) \in Frame /\ Walk(Top.ch).f = "flush"
    BY <1>2, WalkType, Frames DEF Flush
  <2>2. stack' = Append(Pop, Walk(Top.ch))
    <3> DEFINE x == Walk(Top.ch)
    <3>1. stack' = Push(Pop, <<x>>)
      BY <1>3 DEF ThawCall
    <3> HIDE DEF x
    <3>2. x \in Frame
      BY <2>1 DEF x
    <3>3. Push(Pop, <<x>>) = Append(Pop, x)
      BY <1>2, <3>2 DEF Push
    <3> QED BY <3>1, <3>3 DEF x
  <2>3. Walks(stack') = Append(Walks(stack), Walk(Top.ch))
    BY <1>2, <2>1, <2>2, WalksAppend
  <2>4. Walk(Top.ch) = T!Walk(Top.ch)
    BY DEF Walk, T!Walk
  <2>5. T!Thaw(Top.ch)
    BY <1>1, <1>3, <2>3, <2>4 DEF ThawCall, T!Thaw
  <2> QED BY <1>2, <2>5 DEF Uses, T!TransportNext
<1>4. CASE Top.ch \notin freeze
  <2>1. freeze' = freeze /\ stack' = Pop
    BY <1>4 DEF ThawCall
  <2>2. UNCHANGED <<key, frozen, cur, sent, taken, dangled, closed>>
    BY DEF ThawCall
  <2>3. Walks(stack') = Walks(stack)
    BY <1>2, <2>1
  <2> QED BY <2>1, <2>2, <2>3, Quiet
<1> QED BY <1>3, <1>4

\* The other calls under way.
LEMMA ContinueUses ==
  ASSUME TypeOK, ~closed, Continue
  PROVE  Uses
<1>1. CASE FlushNext \/ FlushEnd \/ FlushDangling
  BY <1>1, FlushUses
<1>2. ASSUME NEW c \in Channels, Orphan(c)  PROVE Uses
  <2> DEFINE x == [Top EXCEPT !.chans = @ \ {c}]
             y == [f |-> "thaw", ch |-> c]
  <2>1. stack # <<>> /\ Top.f = "orphans" /\ stack' = Push(Pop, <<x, y>>)
    BY <1>2 DEF Orphan, Running
  <2>2. Top \in [f : {"orphans"}, p : Peers, problem : BOOLEAN, chans : SUBSET Channels]
    BY <2>1, RunningStack, FrameFields
  <2>3. x.f = "orphans" /\ y.f = "thaw"
    BY <2>2
  <2> HIDE DEF x, y
  <2>4. Walks(stack') = Walks(stack)
    BY <2>1, <2>3, WalksGoOn
  <2> QED BY <1>2, <2>4, Quiet DEF Orphan
<1>3. CASE OrphansEnd
  <2> DEFINE x == [f |-> "reset", p |-> Top.p]
  <2>1. stack # <<>> /\ Top.f = "orphans" /\ stack' \in {Pop, Push(Pop, <<x>>)} /\ x.f = "reset"
    BY <1>3 DEF OrphansEnd, Running
  <2> HIDE DEF x
  <2>2. Walks(stack') = Walks(stack)
    <3>1. Walks(Pop) = Walks(stack) /\ Walks(Push(Pop, <<x>>)) = Walks(stack)
      BY <2>1, WalksGoOn, WalksPop
    <3> QED BY <2>1, <3>1
  <2> QED BY <1>3, <2>2, Quiet DEF OrphansEnd
<1>4. CASE ResetClose
  <2> DEFINE x == [f |-> "clear", p |-> Top.p]
             s == Push(Pop, <<x>>)
  <2>1. /\ stack # <<>> /\ Top.f = "reset" /\ x.f = "clear"
        /\ OtherClosed(Top.p, s) \/ stack' = s
    BY <1>4 DEF ResetClose, Running
  <2>2. x \in Frame /\ Pop \in Seq(Frame)
    BY <2>1, RunningStack, FrameFields, Frames
  <2> HIDE DEF x
  <2>3. s \in Seq(Frame) /\ Walks(s) = Walks(stack)
    BY <2>1, <2>2, Pushed, WalksGoOn
  <2> HIDE DEF s
  <2>4. Walks(stack') = Walks(stack)
    BY <2>1, <2>3, WalksOtherClosed
  <2> QED BY <1>4, <2>4, Quiet DEF ResetClose
<1>5. CASE Resume
  <2> DEFINE x == [Top EXCEPT !.q = Tail(@)]
             y == [f |-> "thaw", ch |-> Head(Top.q)]
  <2>1. stack # <<>> /\ Top.f = "resume" /\ stack' \in {Pop, Push(Pop, <<x, y>>)}
    BY <1>5 DEF Resume, Running
  <2>2. Top \in [f : {"resume"}, q : Seq(Channels)]
    BY <2>1, RunningStack, FrameFields
  <2>3. x.f = "resume" /\ y.f = "thaw"
    BY <2>2
  <2> HIDE DEF x, y
  <2>4. Walks(stack') = Walks(stack)
    <3>1. Walks(Pop) = Walks(stack) /\ Walks(Push(Pop, <<x, y>>)) = Walks(stack)
      BY <2>1, <2>3, WalksGoOn, WalksPop
    <3> QED BY <2>1, <3>1
  <2> QED BY <1>5, <2>4, Quiet DEF Resume
<1>6. CASE ThawCall
  BY <1>6, ThawUses
<1>7. CASE ResetClear \/ ChannelSendReady \/ KillEnd \/ SetBridgesEnd \/ Dispose
  <2>1. stack # <<>> /\ Top.f # "flush" /\ stack' = Pop
    BY <1>7 DEF ResetClear, ChannelSendReady, KillEnd, SetBridgesEnd, Dispose, Running
  <2>2. Walks(stack') = Walks(stack)
    BY <2>1, WalksPop
  <2>3. UNCHANGED <<freeze, key, frozen, cur, sent, taken, dangled, closed>>
    BY <1>7 DEF ResetClear, ChannelSendReady, KillEnd, SetBridgesEnd, Dispose
  <2> QED BY <2>2, <2>3, Quiet
<1>8. ASSUME NEW c \in Channels, Kill(c)  PROVE Uses
  <2> DEFINE C == Top.chans \ {c}
             x == [Top EXCEPT !.chans = C]
             s == Push(Pop, <<x>>)
  <2>1. stack # <<>> /\ Top.f = "kill" /\ (CloseChannel(c, s) \/ stack' = s)
    BY <1>8 DEF Kill, Running
  <2>2. Top \in [f : {"kill"}, chans : SUBSET Channels] /\ Pop \in Seq(Frame)
    BY <2>1, RunningStack, FrameFields
  <2>3. C \in SUBSET Channels
    BY <2>2
  <2> HIDE DEF C
  <2>4. x = [f |-> "kill", chans |-> C]
    BY <2>2
  <2>5. x.f = "kill" /\ x \in Frame
    BY <2>3, <2>4, Frames
  <2> HIDE DEF x
  <2>6. s \in Seq(Frame) /\ Walks(s) = Walks(stack)
    BY <2>1, <2>2, <2>5, Pushed, WalksGoOn
  <2> HIDE DEF s
  <2>7. Walks(stack') = Walks(stack)
    BY <2>1, <2>6, WalksCloseChannel
  <2> QED BY <1>8, <2>7, Quiet DEF Kill
<1>9. CASE SetBridgesRule
  <2> DEFINE t == Tail(Top.old)
             x == [Top EXCEPT !.old = t]
             s == Push(Pop, <<x>>)
             y == [f |-> "dispose", p |-> Head(Top.old)]
             z == [f |-> "reset", p |-> Head(Top.old)]
  <2>1. /\ stack # <<>> /\ Top.f = "bridges" /\ Top.old # <<>>
        /\ stack' \in {s, Push(s, <<y, z>>)}
    BY <1>9 DEF SetBridgesRule, Running
  <2>2. Top \in [f : {"bridges"}, old : Seq(Peers \cup ToSet(BuiltIn))] /\ Pop \in Seq(Frame)
    BY <2>1, RunningStack, FrameFields
  <2>3. t \in Seq(Peers \cup ToSet(BuiltIn))
    BY <2>1, <2>2
  <2> HIDE DEF t
  <2>4. x = [f |-> "bridges", old |-> t]
    BY <2>2
  <2>5. x.f = "bridges" /\ x \in Frame /\ y.f = "dispose" /\ z.f = "reset"
    BY <2>3, <2>4, Frames
  <2> HIDE DEF x, y, z
  <2>6. s \in Seq(Frame) /\ Walks(s) = Walks(stack)
    BY <2>1, <2>2, <2>5, Pushed, WalksGoOn
  <2> HIDE DEF s
  <2>7. Walks(stack') = Walks(stack)
    <3>1. Walks(Push(s, <<y, z>>)) = Walks(stack)
      BY <2>5, <2>6, WalksPush
    <3> QED BY <2>1, <2>6, <3>1
  <2> QED BY <1>9, <2>7, Quiet DEF SetBridgesRule
<1> QED BY <1>1, <1>2, <1>3, <1>4, <1>5, <1>6, <1>7, <1>8, <1>9 DEF Continue

\* What the main loop calls.
LEMMA EventUses ==
  ASSUME TypeOK, ~closed
  PROVE  /\ Frontend \/ Reload => Uses
         /\ \A p \in Peers : PeerEvent(p) \/ PeerChannelEvent(p) \/ PeerTimer(p) => Uses
         /\ \A c \in Channels : Prepare(c) \/ LocalEvent(c) => Uses
<1>0. stack \in Seq(Frame)
  BY DEF TypeOK
<1>1. ASSUME NEW c \in Channels, NEW k, FrontSend(c, k)  PROVE Uses
  <2>1. Recv(c) /\ stack = <<>> /\ stack' = stack
    BY <1>1 DEF FrontSend, Recv
  <2>2. Walks(stack) = <<>> /\ Walks(stack') = Walks(stack)
    BY <2>1, WalksEmpty
  <2>3. T!Recv(c)
    BY <2>1, <2>2 DEF Recv, T!Recv, Emit, T!Emit, Hold, T!Hold
  <2> QED BY <2>3 DEF Uses, T!TransportNext
<1>2. ASSUME NEW good, FrontInit(good)  PROVE Uses
  BY <1>2, UsesClose, Quiet DEF FrontInit
<1>3. ASSUME NEW g, FrontKill(g)  PROVE Uses
  <2> DEFINE x == [f |-> "kill", chans |-> Group(g)]
  <2>1. stack' = Push(stack, <<x>>) /\ x.f = "kill"
    BY <1>3 DEF FrontKill
  <2> HIDE DEF x
  <2>2. Walks(stack') = Walks(stack)
    BY <1>0, <2>1, WalksPush
  <2> QED BY <1>3, <2>2, Quiet DEF FrontKill
<1>4. ASSUME NEW bs, SetBridges(bs)  PROVE Uses
  <2> DEFINE x == [f |-> "bridges", old |-> Without(rules, ToSet(bs) \cap ToSet(rules))]
  <2>1. stack' = Push(stack, <<x>>) /\ x.f = "bridges"
    BY <1>4 DEF SetBridges
  <2> HIDE DEF x
  <2>2. Walks(stack') = Walks(stack)
    BY <1>0, <2>1, WalksPush
  <2> QED BY <1>4, <2>2, Quiet DEF SetBridges
<1>5. ASSUME NEW p \in Peers, OtherInit(p)  PROVE Uses
  <2> DEFINE x == [f |-> "resume", q |-> peer[p].frozen]
  <2>1. stack' = Push(stack, <<x>>) /\ x.f = "resume"
    BY <1>5 DEF OtherInit
  <2> HIDE DEF x
  <2>2. Walks(stack') = Walks(stack)
    BY <1>0, <2>1, WalksPush
  <2> QED BY <1>5, <2>2, Quiet DEF OtherInit
<1>6. ASSUME NEW p \in Peers, OtherExit(p)  PROVE Uses
  BY <1>0, <1>6, WalksOtherClosed, Quiet DEF OtherExit
<1>7. ASSUME UNCHANGED tvars  PROVE Uses
  BY <1>7, Quiet DEF tvars
<1>8. ASSUME NEW p \in Peers, PeerTimeout(p)  PROVE Uses
  <2> DEFINE x == [f |-> "reset", p |-> p]
  <2>1. stack' \in {stack, Push(stack, <<x>>)} /\ x.f = "reset"
    BY <1>8 DEF PeerTimeout
  <2> HIDE DEF x
  <2>2. Walks(stack') = Walks(stack)
    BY <1>0, <2>1, WalksPush
  <2> QED BY <1>8, <2>2, Quiet DEF PeerTimeout
<1>9. ASSUME NEW c \in Channels,
             ChannelPrepare(c) \/ ChannelReady(c) \/ ChannelClose(c) \/ ChannelEnded(c)
      PROVE  Uses
  <2> DEFINE x == [f |-> "ready", ch |-> c]
             y == [f |-> "thaw", ch |-> c]
  <2>1. x.f = "ready" /\ y.f = "thaw" /\ ReadyFrames(c) = <<x, y>>
    BY DEF ReadyFrames
  <2> HIDE DEF x, y
  <2>2. \/ CloseChannel(c, stack) \/ ChannelClosed(c, stack)
        \/ stack' \in {stack, Push(stack, <<x, y>>)}
    BY <1>9, <2>1 DEF ChannelPrepare, ChannelReady, ChannelClose, ChannelEnded
  <2>3. Walks(stack') = Walks(stack)
    <3>1. Walks(Push(stack, <<x, y>>)) = Walks(stack)
      BY <1>0, <2>1, WalksPush
    <3>2. CASE CloseChannel(c, stack) \/ ChannelClosed(c, stack)
      BY <1>0, <3>2, WalksCloseChannel
    <3>3. CASE stack' \in {stack, Push(stack, <<x, y>>)}
      BY <3>1, <3>3
    <3> QED BY <2>2, <3>2, <3>3
  <2>4. UNCHANGED <<freeze, key, frozen, cur, sent, taken, dangled, closed>>
    BY <1>9 DEF ChannelPrepare, ChannelReady, ChannelClose, ChannelEnded
  <2> QED BY <2>3, <2>4, Quiet
<1>10. Frontend \/ Reload => Uses
  BY <1>1, <1>2, <1>3, <1>4 DEF Frontend, Reload
<1>11. ASSUME NEW p \in Peers, PeerEvent(p) \/ PeerChannelEvent(p) \/ PeerTimer(p)  PROVE Uses
  <2>1. CASE PeerEvent(p)
    BY <1>5, <1>6, <1>7, <2>1 DEF PeerEvent, OtherInitProblem
  <2>2. CASE PeerChannelEvent(p)
    BY <1>7, <2>2 DEF PeerChannelEvent, OtherReady, OtherClose
  <2>3. CASE PeerTimer(p)
    BY <1>8, <2>3 DEF PeerTimer
  <2> QED BY <1>11, <2>1, <2>2, <2>3
<1>12. ASSUME NEW c \in Channels, Prepare(c) \/ LocalEvent(c)  PROVE Uses
  BY <1>9, <1>12 DEF Prepare, LocalEvent
<1> QED BY <1>10, <1>11, <1>12

(***************************************************************************)
(* Every step of the bridge is, on the transport, a step that module       *)
(* Transport allows or none: the router, the peers and the channels freeze *)
(* only what they handle, and hold what they emit again.                   *)
(***************************************************************************)
THEOREM Refinement == Spec => UsesTransport
<1>1. Init => T!TransportInit
  BY WalksEmpty DEF Init, TransportInit, T!TransportInit
<1>2. TypeOK /\ [Next]_vars => [T!TransportNext]_(T!tvars)
  <2> SUFFICES ASSUME TypeOK, [Next]_vars  PROVE Uses
    BY DEF Uses
  <2>1. CASE Next
    BY <2>1, HandleUses, ContinueUses, EventUses DEF Next
  <2>2. CASE UNCHANGED vars
    BY <2>2, Quiet DEF vars, tvars
  <2> QED BY <2>1, <2>2
<1> QED BY <1>1, <1>2, BridgeTypes, PTL DEF Spec, UsesTransport, T!TransportSpec

(* The theorems about Transport, for the walks on the bridge's stack. *)
TP == INSTANCE TransportProofs WITH stack <- Walks(stack)

LEMMA SameTransport ==
  /\ T!TransportInit <=> TP!TransportInit
  /\ T!tvars = TP!tvars
  /\ T!TransportNext <=> TP!TransportNext
<1> USE DEF T!Top, TP!Top, T!Pop, TP!Pop, T!DeleteLink, TP!DeleteLink, T!Hold, TP!Hold,
            T!Emit, TP!Emit, T!Freeze, TP!Freeze, T!Walk, TP!Walk, T!Walking, TP!Walking,
            T!Belongs, TP!Belongs, T!Reaches, TP!Reaches, T!Advance, TP!Advance,
            T!Taken, TP!Taken, T!Requeue, TP!Requeue
<1>1. T!TransportInit <=> TP!TransportInit
  BY DEF T!TransportInit, TP!TransportInit
<1>2. T!tvars = TP!tvars
  BY DEF T!tvars, TP!tvars
<1>3. \A c \in Channels : (T!Recv(c) <=> TP!Recv(c)) /\ (T!Thaw(c) <=> TP!Thaw(c))
  BY DEF T!Recv, TP!Recv, T!Thaw, TP!Thaw
<1>4. T!Take <=> TP!Take
  BY DEF T!Take, TP!Take
<1>5. T!TakeAndFreeze <=> TP!TakeAndFreeze
  BY DEF T!TakeAndFreeze, TP!TakeAndFreeze
<1>6. T!PutBack <=> TP!PutBack
  BY DEF T!PutBack, TP!PutBack
<1>7. T!FlushNext <=> TP!FlushNext
  BY DEF T!FlushNext, TP!FlushNext
<1>8. T!FlushEnd <=> TP!FlushEnd
  BY DEF T!FlushEnd, TP!FlushEnd
<1>9. T!FlushDangling <=> TP!FlushDangling
  BY DEF T!FlushDangling, TP!FlushDangling
<1>10. T!Close <=> TP!Close
  BY DEF T!Close, TP!Close
<1>11. T!TransportNext <=> TP!TransportNext
  BY <1>3, <1>4, <1>5, <1>6, <1>7, <1>8, <1>9, <1>10 DEF T!TransportNext, TP!TransportNext
<1> QED BY <1>1, <1>2, <1>11

LEMMA TransportOfBridge == Spec => TP!TransportSpec
<1>1. [T!TransportNext]_(T!tvars) => [TP!TransportNext]_(TP!tvars)
  BY SameTransport DEF T!tvars, TP!tvars
<1>2. T!TransportInit => TP!TransportInit
  BY SameTransport
<1> QED BY <1>1, <1>2, Refinement, PTL DEF UsesTransport, T!TransportSpec, TP!TransportSpec

(***************************************************************************)
(* In the whole bridge, whatever is routed, started, lost or reloaded in   *)
(* between, a message of a channel reaches the handlers only after every   *)
(* earlier one was taken (maybe_freeze_message, cockpit_transport_thaw).   *)
(***************************************************************************)
THEOREM BridgeOrder == Spec => []InOrder
<1>1. TP!TransportSpec => []TP!InOrder
  BY TP!Order, MaxMsgsAssumption, PTL
<1>2. TP!InOrder => InOrder
  BY DEF InOrder, TP!InOrder
<1> QED BY <1>1, <1>2, TransportOfBridge, PTL

(***************************************************************************)
(* Between two callbacks of the bridge's main loop, a channel that nobody  *)
(* holds frozen has no message left in the transport's queue.              *)
(***************************************************************************)
THEOREM BridgeCompleteness == Spec => []NoneLeftBehind
<1>1. TP!TransportSpec => []TP!NoneLeftBehind
  BY TP!Completeness, MaxMsgsAssumption, PTL
<1>2. TP!NoneLeftBehind => NoneLeftBehind
  BY WalksEmpty DEF NoneLeftBehind, TP!NoneLeftBehind
<1> QED BY <1>1, <1>2, TransportOfBridge, PTL

(***************************************************************************)
(* The calls on the stack.  A loop over orphans calls only what thaws; a   *)
(* peer that is being reset has no process, and gets none before it was    *)
(* cleared; the walk over the rules is always innermost.                   *)
(***************************************************************************)
Light == {"thaw", "flush", "resume", "rules"}

Calls(s, P) ==
  /\ \A i, j \in 1 .. Len(s) : i < j /\ s[i].f = "orphans" => s[j].f \in Light
  /\ \A i \in 1 .. Len(s) - 1 :
       /\ s[i].f = "dispose" => s[i + 1].f \in {"reset", "clear"} /\ s[i + 1].p = s[i].p
       /\ s[i].f = "clear" =>
            /\ s[i + 1].p = s[i].p
            /\ s[i + 1].f = "orphans" \/ (i + 1 = Len(s) /\ s[i + 1].f \in {"reset", "clear"})
       /\ s[i].f # "rules"
  /\ \A i \in 1 .. Len(s) :
       /\ s[i].f = "clear" => ~P[s[i].p].other
       /\ s[i].f = "orphans" => P[s[i].p].closed /\ ~P[s[i].p].other
       /\ s[i].f = "dispose" /\ i = Len(s) => ~P[s[i].p].other

LEMMA Appended ==
  ASSUME NEW S, NEW s \in Seq(S), NEW x \in S
  PROVE  /\ Append(s, x) \in Seq(S) /\ Len(s) \in Nat /\ Len(Append(s, x)) = Len(s) + 1
         /\ Append(s, x)[Len(s) + 1] = x
         /\ \A i \in 1 .. Len(s) : Append(s, x)[i] = s[i] /\ s[i] \in S
OBVIOUS

\* A call returns.
LEMMA CallsPop ==
  ASSUME NEW s \in Seq(Frame), NEW x \in Frame, NEW P, Calls(Append(s, x), P), x.f # "reset"
  PROVE  Calls(s, P)
<1>1. PICK t : t = Append(s, x)
  OBVIOUS
<1>2. /\ Len(s) \in Nat /\ Len(t) = Len(s) + 1 /\ t[Len(s) + 1] = x /\ \A i \in 1 .. Len(s) : t[i] = s[i]
  BY <1>1, Appended
<1>3. Calls(t, P)
  BY <1>1
<1> QED BY <1>2, <1>3 DEF Calls

\* The innermost call goes on.
LEMMA CallsSame ==
  ASSUME NEW s \in Seq(Frame), NEW x \in Frame, NEW y \in Frame, NEW P, Calls(Append(s, x), P),
         \/ y.f = x.f /\ (x.f \in {"orphans", "reset", "clear", "dispose"} => y.p = x.p)
         \/ y.f \in Light \ {"rules"} /\ x.f \in Light \ {"rules"}
  PROVE  Calls(Append(s, y), P)
<1>1. PICK t : t = Append(s, x)
  OBVIOUS
<1>2. PICK u : u = Append(s, y)
  OBVIOUS
<1>3. /\ Len(s) \in Nat /\ Len(t) = Len(s) + 1 /\ t[Len(s) + 1] = x /\ \A i \in 1 .. Len(s) : t[i] = s[i]
      /\ Len(u) = Len(s) + 1 /\ u[Len(s) + 1] = y /\ \A i \in 1 .. Len(s) : u[i] = s[i]
  BY <1>1, <1>2, Appended
<1>4. Calls(t, P)
  BY <1>1
<1>5. Calls(u, P)
  BY <1>3, <1>4 DEF Calls, Light
<1> QED BY <1>2, <1>5

\* A call is made.
LEMMA CallsPush ==
  ASSUME NEW s \in Seq(Frame), NEW x \in Frame, NEW P, Calls(s, P),
         s = <<>> \/ s[Len(s)].f \notin {"reset", "clear", "dispose", "rules"},
         \/ x.f \in Light
         \/ /\ \A i \in 1 .. Len(s) : s[i].f # "orphans"
            /\ x.f \notin {"clear", "orphans", "dispose"}
  PROVE  Calls(Append(s, x), P)
<1>1. PICK t : t = Append(s, x)
  OBVIOUS
<1>2. /\ Len(s) \in Nat /\ Len(t) = Len(s) + 1 /\ t[Len(s) + 1] = x /\ \A i \in 1 .. Len(s) : t[i] = s[i]
  BY <1>1, Appended
<1>3. s = <<>> => Len(s) = 0
  OBVIOUS
<1>4. Calls(t, P)
  BY <1>2, <1>3 DEF Calls, Light
<1> QED BY <1>1, <1>4

LEMMA CallsNone ==
  ASSUME NEW P
  PROVE  Calls(<<>>, P)
<1>1. Len(<<>>) = 0
  OBVIOUS
<1> QED BY <1>1 DEF Calls

\* Peers that end stay without a process.
LEMMA CallsPeers ==
  ASSUME NEW s \in Seq(Frame), NEW P, NEW Q, Calls(s, P),
         \A p \in Peers : (P[p].closed => Q[p].closed) /\ (~P[p].other => ~Q[p].other)
  PROVE  Calls(s, Q)
<1>1. \A i \in 1 .. Len(s) : s[i].f \in {"clear", "orphans", "dispose"} => s[i].p \in Peers
  <2> SUFFICES ASSUME NEW i \in 1 .. Len(s), s[i].f \in {"clear", "orphans", "dispose"} PROVE s[i].p \in Peers
    OBVIOUS
  <2>1. s[i] \in Frame
    OBVIOUS
  <2> QED BY <2>1, FrameFields
<1> QED BY <1>1 DEF Calls

\* A walk over the rules starts a peer that nobody resets.
LEMMA CallsSpawn ==
  ASSUME NEW s \in Seq(Frame), NEW x \in Frame, x.f = "rules", NEW P, NEW Q, Calls(Append(s, x), P),
         \A p \in Peers : P[p].closed => Q[p].closed /\ (~P[p].other => ~Q[p].other)
  PROVE  Calls(Append(s, x), Q)
<1>1. PICK t : t = Append(s, x)
  OBVIOUS
<1>2. /\ t \in Seq(Frame) /\ Len(t) \in Nat /\ Len(t) = Len(s) + 1 /\ Len(s) \in Nat /\ t[Len(t)].f = "rules"
  BY <1>1, Appended
<1>3. Calls(t, P)
  BY <1>1
<1>4. \A i \in 1 .. Len(t) : t[i].f \in {"clear", "orphans", "dispose"} => t[i].p \in Peers
  <2> SUFFICES ASSUME NEW i \in 1 .. Len(t), t[i].f \in {"clear", "orphans", "dispose"} PROVE t[i].p \in Peers
    OBVIOUS
  <2>1. t[i] \in Frame
    BY <1>2
  <2> QED BY <2>1, FrameFields
<1>5. \A i \in 1 .. Len(t) : t[i].f = "clear" =>
        i + 1 \in 1 .. Len(t) /\ t[i + 1].f = "orphans" /\ t[i + 1].p = t[i].p
  <2> SUFFICES ASSUME NEW i \in 1 .. Len(t), t[i].f = "clear"
               PROVE  i + 1 \in 1 .. Len(t) /\ t[i + 1].f = "orphans" /\ t[i + 1].p = t[i].p
    OBVIOUS
  <2>1. i # Len(t)
    BY <1>2
  <2>2. i \in 1 .. Len(t) - 1 /\ i + 1 \in 1 .. Len(t)
    BY <1>2, <2>1
  <2> QED BY <1>2, <1>3, <2>2 DEF Calls
<1>6. \A i \in 1 .. Len(t) : t[i].f = "clear" => P[t[i].p].closed
  BY <1>3, <1>5 DEF Calls
<1>7. Calls(t, Q)
  BY <1>2, <1>3, <1>4, <1>6 DEF Calls
<1> QED BY <1>1, <1>7

\* No loop over orphans is under a call that is not light.
LEMMA NoOrphans ==
  ASSUME NEW s \in Seq(Frame), NEW x \in Frame, NEW P, Calls(Append(s, x), P), x.f \notin Light
  PROVE  \A i \in 1 .. Len(s) : s[i].f # "orphans"
<1>1. PICK t : t = Append(s, x)
  OBVIOUS
<1>2. /\ Len(s) \in Nat /\ Len(t) = Len(s) + 1 /\ t[Len(s) + 1] = x /\ \A i \in 1 .. Len(s) : t[i] = s[i]
  BY <1>1, Appended
<1>3. Calls(t, P)
  BY <1>1
<1> QED BY <1>2, <1>3 DEF Calls

\* OrphansEnd: the reset follows the loop.
LEMMA CallsOrphansEnd ==
  ASSUME NEW s \in Seq(Frame), NEW x \in Frame, NEW y \in Frame, NEW P, Calls(Append(s, x), P),
         x.f = "orphans", y.f = "reset", y.p = x.p
  PROVE  Calls(Append(s, y), P) /\ ~P[y.p].other
<1>1. PICK t : t = Append(s, x)
  OBVIOUS
<1>2. PICK u : u = Append(s, y)
  OBVIOUS
<1>3. /\ Len(s) \in Nat /\ Len(t) = Len(s) + 1 /\ t[Len(s) + 1] = x /\ \A i \in 1 .. Len(s) : t[i] = s[i]
      /\ Len(u) = Len(s) + 1 /\ u[Len(s) + 1] = y /\ \A i \in 1 .. Len(s) : u[i] = s[i]
  BY <1>1, <1>2, Appended
<1>4. Calls(t, P)
  BY <1>1
<1>5. \A i \in 1 .. Len(s) : s[i].f # "orphans"
  BY <1>3, <1>4, NoOrphans, <1>1 DEF Calls, Light
<1>6. Calls(u, P)
  BY <1>3, <1>4, <1>5 DEF Calls
<1>7. ~P[x.p].other
  BY <1>3, <1>4 DEF Calls
<1> QED BY <1>2, <1>6, <1>7

\* ResetClose, of a peer without a process.
LEMMA CallsReset ==
  ASSUME NEW s \in Seq(Frame), NEW x \in Frame, NEW y \in Frame, NEW P, Calls(Append(s, x), P),
         x.f = "reset", y.f = "clear", y.p = x.p, ~P[x.p].other
  PROVE  Calls(Append(s, y), P)
<1>1. PICK t : t = Append(s, x)
  OBVIOUS
<1>2. PICK u : u = Append(s, y)
  OBVIOUS
<1>3. /\ Len(s) \in Nat /\ Len(t) = Len(s) + 1 /\ t[Len(s) + 1] = x /\ \A i \in 1 .. Len(s) : t[i] = s[i]
      /\ Len(u) = Len(s) + 1 /\ u[Len(s) + 1] = y /\ \A i \in 1 .. Len(s) : u[i] = s[i]
  BY <1>1, <1>2, Appended
<1>4. Calls(t, P)
  BY <1>1
<1>5. \A i \in 1 .. Len(s) : s[i].f # "orphans"
  BY <1>1, <1>4, NoOrphans DEF Light
<1>6. Calls(u, P)
  BY <1>3, <1>4, <1>5 DEF Calls
<1> QED BY <1>2, <1>6

\* ResetClose, which closes the process first.
LEMMA CallsResetClose ==
  ASSUME NEW s \in Seq(Frame), NEW x \in Frame, NEW y \in Frame, NEW z \in Frame, NEW P, NEW Q,
         Calls(Append(s, x), P), x.f = "reset", y.f = "clear", y.p = x.p, z.f = "orphans", z.p = x.p,
         P[x.p].other, Q[x.p].closed, ~Q[x.p].other,
         \A p \in Peers : (P[p].closed => Q[p].closed) /\ (~P[p].other => ~Q[p].other)
  PROVE  Calls(Append(Append(s, y), z), Q)
<1>1. PICK t : t = Append(s, x)
  OBVIOUS
<1>2. PICK u : u = Append(s, y)
  OBVIOUS
<1>3. /\ Len(s) \in Nat /\ Len(t) = Len(s) + 1 /\ t[Len(s) + 1] = x /\ \A i \in 1 .. Len(s) : t[i] = s[i]
      /\ Len(u) = Len(s) + 1 /\ u[Len(s) + 1] = y /\ \A i \in 1 .. Len(s) : u[i] = s[i]
      /\ t \in Seq(Frame) /\ u \in Seq(Frame)
  BY <1>1, <1>2, Appended
<1>4. Calls(t, P)
  BY <1>1
<1>5. \A i \in 1 .. Len(s) : s[i].f # "orphans"
  BY <1>1, <1>4, NoOrphans DEF Light
<1>6. PICK v : v = Append(u, z)
  OBVIOUS
<1>7. /\ Len(v) = Len(s) + 2 /\ v[Len(s) + 2] = z /\ v[Len(s) + 1] = y /\ \A i \in 1 .. Len(s) : v[i] = s[i]
  <2>1. Len(v) = Len(u) + 1 /\ v[Len(u) + 1] = z /\ \A i \in 1 .. Len(u) : v[i] = u[i]
    BY <1>3, <1>6, Appended
  <2> QED BY <1>3, <2>1
<1>8. Calls(t, Q)
  BY <1>3, <1>4, CallsPeers
<1>9. \A i \in 1 .. Len(s) : s[i].f = "clear" => i # Len(s)
  <2> SUFFICES ASSUME Len(s) \in 1 .. Len(s), s[Len(s)].f = "clear" PROVE FALSE
    BY <1>3
  <2>1. t[Len(s)].f = "clear" /\ Len(s) \in 1 .. Len(t) - 1 /\ t[Len(s) + 1] = x
    BY <1>3
  <2>2. t[Len(s)].p = x.p /\ ~P[t[Len(s)].p].other
    BY <1>3, <1>4, <2>1 DEF Calls
  <2> QED BY <2>2
<1>10. Calls(v, Q)
  <2>1. \A i, j \in 1 .. Len(v) : i < j /\ v[i].f = "orphans" => v[j].f \in Light
    BY <1>3, <1>5, <1>7
  <2>2. ASSUME NEW i \in 1 .. Len(v) - 1
        PROVE  /\ v[i].f = "dispose" => v[i + 1].f \in {"reset", "clear"} /\ v[i + 1].p = v[i].p
               /\ v[i].f = "clear" =>
                    /\ v[i + 1].p = v[i].p
                    /\ v[i + 1].f = "orphans" \/ (i + 1 = Len(v) /\ v[i + 1].f \in {"reset", "clear"})
               /\ v[i].f # "rules"
    <3>1. CASE i = Len(s) + 1
      BY <1>7, <3>1
    <3>2. CASE i = Len(s)
      <4>1. i \in 1 .. Len(t) - 1 /\ t[i] = s[i] /\ t[i + 1] = x /\ v[i] = s[i] /\ v[i + 1] = y
        BY <1>3, <1>7, <3>2
      <4>2. s[i].f # "clear"
        BY <1>3, <1>9, <3>2
      <4> QED BY <1>8, <4>1, <4>2 DEF Calls
    <3>3. CASE i \in 1 .. Len(s) - 1
      <4>1. /\ i \in 1 .. Len(t) - 1 /\ i + 1 # Len(t) /\ t[i] = s[i] /\ t[i + 1] = s[i + 1]
            /\ v[i] = s[i] /\ v[i + 1] = s[i + 1]
        BY <1>3, <1>7, <3>3
      <4> QED BY <1>8, <4>1 DEF Calls
    <3> QED BY <1>3, <1>7, <3>1, <3>2, <3>3
  <2>3. ASSUME NEW i \in 1 .. Len(v)
        PROVE  /\ v[i].f = "clear" => ~Q[v[i].p].other
               /\ v[i].f = "orphans" => Q[v[i].p].closed /\ ~Q[v[i].p].other
               /\ v[i].f = "dispose" /\ i = Len(v) => ~Q[v[i].p].other
    <3>1. CASE i \in 1 .. Len(s)
      <4>1. i \in 1 .. Len(t) /\ t[i] = s[i] /\ v[i] = s[i] /\ i # Len(v)
        BY <1>3, <1>7, <3>1
      <4> QED BY <1>8, <4>1 DEF Calls
    <3>2. CASE i = Len(s) + 1 \/ i = Len(s) + 2
      BY <1>7, <3>2
    <3> QED BY <1>3, <1>7, <3>1, <3>2
  <2> QED BY <2>1, <2>2, <2>3 DEF Calls
<1> QED BY <1>2, <1>6, <1>10

\* ResetClear, Dispose: the peer of the innermost call is made anew.
LEMMA CallsAnew ==
  ASSUME NEW s \in Seq(Frame), NEW x \in Frame, NEW P, NEW Q, Calls(Append(s, x), P),
         x.f \in {"clear", "dispose"},
         \A p \in Peers : (p # x.p /\ P[p].closed => Q[p].closed) /\ (~P[p].other => ~Q[p].other)
  PROVE  Calls(s, Q) /\ ~P[x.p].other
<1>1. PICK t : t = Append(s, x)
  OBVIOUS
<1>2. /\ Len(s) \in Nat /\ Len(t) = Len(s) + 1 /\ t[Len(s) + 1] = x /\ \A i \in 1 .. Len(s) : t[i] = s[i]
  BY <1>1, Appended
<1>3. Calls(t, P)
  BY <1>1
<1>4. \A i \in 1 .. Len(s) : s[i].f # "orphans"
  BY <1>1, <1>3, NoOrphans DEF Light
<1>5. Calls(s, P)
  BY CallsPop
<1>6. \A i \in 1 .. Len(s) : s[i].f \in {"clear", "dispose"} => s[i].p \in Peers
  <2> SUFFICES ASSUME NEW i \in 1 .. Len(s), s[i].f \in {"clear", "dispose"} PROVE s[i].p \in Peers
    OBVIOUS
  <2>1. s[i] \in Frame
    OBVIOUS
  <2> QED BY <2>1, FrameFields
<1>7. Calls(s, Q)
  BY <1>4, <1>5, <1>6 DEF Calls
<1>8. ~P[x.p].other
  BY <1>2, <1>3 DEF Calls
<1> QED BY <1>7, <1>8

\* SetBridgesRule: a peer is to be reset and disposed.
LEMMA CallsDispose ==
  ASSUME NEW s \in Seq(Frame), NEW x \in Frame, NEW y \in Frame, NEW z \in Frame, NEW P,
         Calls(Append(s, x), P), x.f = "bridges", y.f = "dispose", z.f = "reset", z.p = y.p
  PROVE  Calls(Append(Append(Append(s, x), y), z), P)
<1>1. PICK t : t = Append(s, x)
  OBVIOUS
<1>2. PICK u : u = Append(t, y)
  OBVIOUS
<1>3. PICK v : v = Append(u, z)
  OBVIOUS
<1>4. /\ Len(s) \in Nat /\ Len(t) = Len(s) + 1 /\ t[Len(s) + 1] = x /\ \A i \in 1 .. Len(s) : t[i] = s[i]
      /\ t \in Seq(Frame)
  BY <1>1, Appended
<1>5. /\ Len(u) = Len(t) + 1 /\ u[Len(t) + 1] = y /\ \A i \in 1 .. Len(t) : u[i] = t[i]
      /\ u \in Seq(Frame)
  BY <1>2, <1>4, Appended
<1>6. Len(v) = Len(u) + 1 /\ v[Len(u) + 1] = z /\ \A i \in 1 .. Len(u) : v[i] = u[i]
  BY <1>3, <1>5, Appended
<1>7. /\ Len(v) = Len(t) + 2 /\ v[Len(t) + 2] = z /\ v[Len(t) + 1] = y /\ \A i \in 1 .. Len(t) : v[i] = t[i]
      /\ t[Len(t)].f = "bridges" /\ Len(t) \in Nat
  BY <1>4, <1>5, <1>6
<1>8. Calls(t, P)
  BY <1>1
<1>9. \A i \in 1 .. Len(s) : s[i].f # "orphans"
  BY <1>1, <1>8, NoOrphans DEF Light
<1>10. \A i \in 1 .. Len(t) : t[i].f # "orphans"
  BY <1>4, <1>9
<1>11. Calls(v, P)
  BY <1>7, <1>8, <1>10 DEF Calls
<1> QED BY <1>1, <1>2, <1>3, <1>11

\* A message is handled in the main loop's turn, under a walk of the
\* transport, or in the walk over the rules that it started.
Emitting == cur # {} => stack = <<>> \/ Top.f \in {"flush", "rules"}

StackOK == Calls(stack, peer) /\ Emitting

\* One call, or two.
LEMMA PushOne ==
  ASSUME NEW s \in Seq(Frame), NEW x \in Frame
  PROVE  Push(s, <<x>>) = Append(s, x)
BY DEF Push

LEMMA PushTwo ==
  ASSUME NEW s \in Seq(Frame), NEW x \in Frame, NEW y \in Frame
  PROVE  Push(s, <<x, y>>) = Append(Append(s, x), y) /\ Append(s, x) \in Seq(Frame)
BY DEF Push

\* The loop over the channels of a peer that has ended, called by the main loop.
LEMMA CallsOrphans ==
  ASSUME NEW x \in Frame, NEW P, x.f = "orphans", P[x.p].closed, ~P[x.p].other
  PROVE  Calls(Append(<<>>, x), P)
<1>1. PICK t : t = Append(<<>>, x)
  OBVIOUS
<1>2. Len(t) = 1 /\ t[1] = x
  BY <1>1
<1>3. Calls(t, P)
  BY <1>2 DEF Calls
<1> QED BY <1>1, <1>3

\* A local channel closes.
LEMMA CallsClose ==
  ASSUME TypeOK, NEW c \in Channels, NEW s \in Seq(Frame), NEW P, Calls(s, P),
         CloseChannel(c, s) \/ ChannelClosed(c, s),
         s = <<>> \/ s[Len(s)].f \notin {"reset", "clear", "dispose", "rules"}
  PROVE  Calls(stack', P)
<1>1. PICK x \in Frame : x = [f |-> "resume", q |-> fenced]
  BY Frames DEF TypeOK
<1>2. stack' = s \/ stack' = Push(s, <<x>>)
  BY <1>1 DEF CloseChannel, ChannelClosed, ChannelCloses
<1>3. Push(s, <<x>>) = Append(s, x)
  BY PushOne
<1>5. x.f \in Light
  BY <1>1 DEF Light
<1>4. Calls(Append(s, x), P)
  BY <1>5, CallsPush
<1> QED BY <1>2, <1>3, <1>4

\* The peer that a rule has tried.
LEMMA EnsuredPeer ==
  ASSUME TypeOK, NEW p \in Peers, NEW q \in Ensured(p), NEW c \in Channels, NEW r,
         r \in {q, Adopt(q, c), [Adopt(q, c) EXCEPT !.frozen = Append(@, c)]}
  PROVE  /\ r.closed = q.closed /\ r.other = q.other /\ r.inited = q.inited
         /\ peer[p].closed => q.closed /\ (~peer[p].other => ~q.other)
         /\ peer[p].other => q = peer[p]
         /\ q.inited = peer[p].inited /\ q.channels = peer[p].channels /\ q.frozen = peer[p].frozen
         /\ q.other \/ q.closed
<1>1. peer[p] \in PeerState
  BY DEF TypeOK
<1>2. q \in PeerState
  BY PeerTypes
<1>3. r.closed = q.closed /\ r.other = q.other /\ r.inited = q.inited
  BY <1>2 DEF Adopt, PeerState
<1>4. /\ peer[p].closed => q.closed /\ (~peer[p].other => ~q.other)
      /\ peer[p].other => q = peer[p]
      /\ q.inited = peer[p].inited /\ q.channels = peer[p].channels /\ q.frozen = peer[p].frozen
      /\ q.other \/ q.closed
  BY <1>1 DEF Ensured, PeerState
<1> QED BY <1>3, <1>4

\* The rule of peer p is tried: cockpit_peer_ensure leaves q, the step r.
Tried(m, p, q, r) ==
  /\ p \in Peers /\ q \in Ensured(p)
  /\ p = rules[Top.i] /\ Top.i <= Len(rules) /\ Matches(p, m.ch)
  /\ r \in {q, Adopt(q, m.ch), [Adopt(q, m.ch) EXCEPT !.frozen = Append(@, m.ch)]}
  /\ peer' = [peer EXCEPT ![p] = r]
  /\ \/ Refuses(q) /\ r = q /\ NextRule /\ UNCHANGED <<freeze, key, frozen, cur, taken, child, out, got>>
     \/ HandleClosed(p, q, m) /\ r = q /\ stack' = Pop
     \/ HandleInited(p, q, m) /\ r = Adopt(q, m.ch) /\ stack' = Pop
     \/ HandleStarting(p, q, m) /\ r = [Adopt(q, m.ch) EXCEPT !.frozen = Append(@, m.ch)] /\ stack' = Pop

LEMMA RuleTried ==
  ASSUME TypeOK, NEW m \in cur, RulePeer(m)
  PROVE  \E p, q, r : Tried(m, p, q, r)
<1>0. PICK p \in Peers : p = rules[Top.i]
  BY DEF RulePeer
<1>1. PICK q \in Ensured(p) :
        \/ /\ Refuses(q)
           /\ peer' = [peer EXCEPT ![p] = q]
           /\ NextRule
           /\ UNCHANGED <<freeze, key, frozen, cur, taken, child, out, got>>
        \/ /\ HandleClosed(p, q, m) \/ HandleInited(p, q, m) \/ HandleStarting(p, q, m)
           /\ stack' = Pop
  BY <1>0 DEF RulePeer
<1>2. Top.i <= Len(rules) /\ Matches(p, m.ch)
  BY <1>0 DEF RulePeer
<1>3. PICK r1 : r1 = Adopt(q, m.ch)
  OBVIOUS
<1>4. PICK r2 : r2 = [Adopt(q, m.ch) EXCEPT !.frozen = Append(@, m.ch)]
  OBVIOUS
<1>5. CASE Refuses(q) /\ peer' = [peer EXCEPT ![p] = q] /\ NextRule
             /\ UNCHANGED <<freeze, key, frozen, cur, taken, child, out, got>>
  <2>1. Tried(m, p, q, q)
    BY <1>0, <1>2, <1>5 DEF Tried
  <2> QED BY <2>1
<1>6. CASE HandleClosed(p, q, m) /\ stack' = Pop
  <2>1. Tried(m, p, q, q)
    <3>1. peer' = [peer EXCEPT ![p] = q]
      BY <1>6 DEF HandleClosed
    <3> QED BY <1>0, <1>2, <1>6, <3>1 DEF Tried
  <2> QED BY <2>1
<1>7. CASE HandleInited(p, q, m) /\ stack' = Pop
  <2>1. Tried(m, p, q, r1)
    <3>1. peer' = [peer EXCEPT ![p] = r1]
      BY <1>3, <1>7 DEF HandleInited
    <3> QED BY <1>0, <1>2, <1>3, <1>7, <3>1 DEF Tried
  <2> QED BY <2>1
<1>8. CASE HandleStarting(p, q, m) /\ stack' = Pop
  <2>1. Tried(m, p, q, r2)
    <3>1. peer' = [peer EXCEPT ![p] = r2]
      BY <1>4, <1>8 DEF HandleStarting
    <3> QED BY <1>0, <1>2, <1>4, <1>8, <3>1 DEF Tried
  <2> QED BY <2>1
<1> QED BY <1>1, <1>5, <1>6, <1>7, <1>8

\* Its walk goes on, or returns.
LEMMA WalkCalls ==
  ASSUME TypeOK, InWalk, NEW P, Calls(stack, P)
  PROVE  /\ Calls(Pop, P)
         /\ NextRule => Calls(stack', P) /\ stack' # <<>> /\ stack'[Len(stack')].f = "rules"
<1>1. Pop \in Seq(Frame) /\ Top \in Frame /\ Top.f = "rules" /\ stack = Append(Pop, Top)
  BY RunningStack DEF InWalk
<1>2. Top \in [f : {"rules"}, i : Nat]
  BY <1>1, FrameFields
<1>3. PICK x \in Frame : x = [Top EXCEPT !.i = @ + 1] /\ x.f = "rules"
  <2>1. [Top EXCEPT !.i = @ + 1] = [f |-> "rules", i |-> Top.i + 1] /\ Top.i + 1 \in Nat
    BY <1>2
  <2> QED BY <2>1, Frames
<1>4. Calls(Pop, P)
  BY <1>1, CallsPop
<1>5. Calls(Append(Pop, x), P)
  BY <1>1, <1>3, CallsSame
<1>6. NextRule => stack' = Append(Pop, x)
  BY <1>1, <1>3, PushOne DEF NextRule
<1>7. Append(Pop, x) # <<>> /\ Append(Pop, x)[Len(Append(Pop, x))] = x
  BY <1>1, <1>3, Appended
<1> QED BY <1>3, <1>4, <1>5, <1>6, <1>7

\* No message is handled afterwards.
LEMMA CallsOver ==
  ASSUME cur' = {}, Calls(stack', peer')
  PROVE  StackOK'
BY DEF StackOK, Emitting

\* The handlers of a message.
LEMMA HandleCalls ==
  ASSUME TypeOK, StackOK, Handle
  PROVE  StackOK'
<1>0. Calls(stack, peer) /\ Emitting /\ stack \in Seq(Frame)
  BY DEF StackOK, TypeOK
<1>1. PICK m \in cur : \/ ~InWalk /\ (NoInit(m) \/ ProcessOpen(m))
                       \/ Route(m)
                       \/ WalkRules(m)
  BY DEF Handle
<1>2. UNCHANGED kinds
  BY DEF Handle
<1>3. CASE NoInit(m) \/ OpenInUse(m)
  BY <1>0, <1>3 DEF NoInit, OpenInUse, StackOK, Emitting, pvars, Top
<1>4. CASE OpenFenced(m) \/ OpenMalformed(m) \/ Unclaimed(m)
  <2>1. cur' = {} /\ stack' = stack /\ peer' = peer
    BY <1>4 DEF OpenFenced, OpenMalformed, Unclaimed, Requeue, CreateChannel, Taken, pvars
  <2> QED BY <1>0, <2>1, CallsOver
<1>5. CASE ~InWalk /\ OpenWalk(m)
  <2>1. PICK x \in Frame : x = [f |-> "rules", i |-> 1]
    BY Frames
  <2>2. stack' = Push(stack, <<x>>) /\ peer' = peer /\ cur' = cur
    BY <1>5, <2>1 DEF OpenWalk, pvars
  <2>3. stack' = Append(stack, x)
    BY <1>0, <2>2, PushOne
  <2>4. stack = <<>> \/ stack[Len(stack)].f = "flush"
    BY <1>0, <1>5 DEF Emitting, InWalk, Top
  <2>5. x.f \in Light /\ x.f = "rules"
    BY <2>1 DEF Light
  <2>6. Calls(stack', peer')
    BY <1>0, <2>2, <2>3, <2>4, <2>5, CallsPush
  <2>7. stack'[Len(stack')] = x
    BY <1>0, <2>3, Appended
  <2> QED BY <2>5, <2>6, <2>7 DEF StackOK, Emitting, Top
<1>6. CASE ToPeer(m)
  <2>1. PICK h \in Peers : peer' = peer \/ peer' = [peer EXCEPT ![h].channels = @ \ {m.ch}]
    BY <1>6 DEF ToPeer, PeerForward
  <2>2. cur' = {} /\ stack' = stack
    BY <1>6 DEF ToPeer, Taken
  <2>3. \A p \in Peers : (peer[p].closed => peer'[p].closed) /\ (~peer[p].other => ~peer'[p].other)
    BY <2>1 DEF TypeOK, PeerState
  <2>4. Calls(stack, peer')
    BY <1>0, <2>3, CallsPeers
  <2> QED BY <2>2, <2>4, CallsOver
<1>7. CASE ~InWalk /\ ToLocal(m)
  <2>1. cur' = {} /\ peer' = peer /\ (CloseChannel(m.ch, stack) \/ stack' = stack)
    BY <1>7 DEF ToLocal, Taken
  <2>2. stack = <<>> \/ stack[Len(stack)].f = "flush"
    BY <1>0, <1>7 DEF Emitting, InWalk, Top
  <2>3. Calls(stack', peer')
    BY <1>0, <2>1, <2>2, CallsClose, TakenType
  <2> QED BY <2>1, <2>3, CallsOver
<1>8. CASE InWalk /\ RuleSkip(m)
  <2>1. NextRule /\ peer' = peer
    BY <1>8 DEF RuleSkip, pvars
  <2> QED BY <1>0, <1>8, <2>1, WalkCalls DEF StackOK, Emitting, Top
<1>9. CASE InWalk /\ RulePeer(m)
  <2>1. PICK p, q, r : Tried(m, p, q, r)
    BY <1>9, RuleTried
  <2>2. HandleClosed(p, q, m) \/ HandleInited(p, q, m) \/ HandleStarting(p, q, m) => cur' = {}
    BY DEF HandleClosed, HandleInited, HandleStarting, Taken, Requeue
  <2>3. /\ p \in Peers /\ q \in Ensured(p)
        /\ r \in {q, Adopt(q, m.ch), [Adopt(q, m.ch) EXCEPT !.frozen = Append(@, m.ch)]}
        /\ peer' = [peer EXCEPT ![p] = r]
        /\ NextRule \/ (cur' = {} /\ stack' = Pop)
    BY <2>1, <2>2 DEF Tried
  <2>4. peer[p].closed => r.closed /\ (~peer[p].other => ~r.other)
    BY <2>3, EnsuredPeer, TakenType
  <2>5. \A z \in Peers : peer[z].closed => peer'[z].closed /\ (~peer[z].other => ~peer'[z].other)
    BY <2>3, <2>4 DEF TypeOK
  <2>6. Pop \in Seq(Frame) /\ Top \in Frame /\ Top.f = "rules" /\ stack = Append(Pop, Top)
    BY <1>9, RunningStack DEF InWalk
  <2>7. Calls(stack, peer')
    BY <1>0, <2>5, <2>6, CallsSpawn
  <2>8. Calls(Pop, peer') /\ (NextRule => Calls(stack', peer') /\ stack' # <<>> /\ stack'[Len(stack')].f = "rules")
    BY <1>9, <2>7, WalkCalls
  <2>9. CASE NextRule
    BY <2>8, <2>9 DEF StackOK, Emitting, Top
  <2> QED BY <2>3, <2>8, <2>9, CallsOver
<1>10. CASE InWalk /\ (RulePayload(m) \/ RuleNotSupported(m) \/ RulesEnd(m))
  <2>1. cur' = {} /\ stack' = Pop /\ peer' = peer
    BY <1>10 DEF RulePayload, RuleNotSupported, RulesEnd, CreateChannel, Taken, pvars
  <2> QED BY <1>0, <1>10, <2>1, WalkCalls, CallsOver
<1> QED BY <1>1, <1>3, <1>4, <1>5, <1>6, <1>7, <1>8, <1>9, <1>10
        DEF ProcessOpen, Route, WalkRules

\* on_other_closed up to its loop: r is left of the peer, the loop is x.
Ended(p, s, r, x) ==
  /\ peer' = [peer EXCEPT ![p] = r]
  /\ r.closed = TRUE /\ r.other = FALSE /\ r.channels = {} /\ r.timer = peer[p].timer
  /\ r.problem = IF peer[p].inited THEN peer[p].problem ELSE x.problem
  /\ x \in Frame /\ x.f = "orphans" /\ x.p = p /\ x.chans = peer[p].channels
  /\ x.problem = (peer[p].inited \/ peer[p].failure \/ p \in Problem)
  /\ stack' = Append(s, x)

LEMMA OtherClosedForm ==
  ASSUME TypeOK, NEW p \in Peers, NEW s \in Seq(Frame), OtherClosed(p, s)
  PROVE  \E r, x : Ended(p, s, r, x)
<1>1. PICK b \in BOOLEAN : b = (peer[p].inited \/ peer[p].failure \/ p \in Problem)
  OBVIOUS
<1>2. PICK q \in PeerState : q = peer[p]
  BY DEF TypeOK
<1>3. PICK k : k = IF q.inited THEN q.problem ELSE b
  OBVIOUS
<1>4. PICK r : r = [q EXCEPT !.other = FALSE, !.closed = TRUE, !.channels = {}, !.problem = k]
  OBVIOUS
<1>5. /\ r.closed = TRUE /\ r.other = FALSE /\ r.channels = {} /\ r.timer = q.timer /\ r.problem = k
  BY <1>2, <1>4 DEF PeerState
<1>6. PICK x : x = [f |-> "orphans", p |-> p, problem |-> b, chans |-> q.channels]
  OBVIOUS
<1>7. q.channels \in SUBSET Channels
  BY <1>2 DEF PeerState
<1>8. x \in Frame
  BY <1>1, <1>6, <1>7, Frames
<1>9. peer' = [peer EXCEPT ![p] = r] /\ stack' = Push(s, <<x>>)
  BY <1>1, <1>2, <1>3, <1>4, <1>6 DEF OtherClosed
<1>10. stack' = Append(s, x)
  BY <1>8, <1>9, PushOne
<1>11. x.f = "orphans" /\ x.p = p /\ x.chans = q.channels /\ x.problem = b
  BY <1>6
<1>12. Ended(p, s, r, x)
  BY <1>1, <1>2, <1>3, <1>5, <1>8, <1>9, <1>10, <1>11 DEF Ended
<1> QED BY <1>12

\* The calls that go on.
LEMMA ContinueCalls ==
  ASSUME TypeOK, StackOK, Continue
  PROVE  StackOK'
<1>0. Calls(stack, peer) /\ Emitting /\ stack \in Seq(Frame)
  BY DEF StackOK, TypeOK
<1>1. ASSUME stack # <<>>
      PROVE  /\ Pop \in Seq(Frame) /\ Top \in Frame /\ stack = Append(Pop, Top)
             /\ Calls(Append(Pop, Top), peer)
             /\ Top.f # "reset" => Calls(Pop, peer)
  <2>1. Pop \in Seq(Frame) /\ Top \in Frame /\ stack = Append(Pop, Top)
    BY <1>1, RunningStack
  <2> QED BY <1>0, <2>1, CallsPop
<1>2. CASE FlushNext /\ UNCHANGED pvars
  <2>1. PICK i : i \in 1 .. Len(frozen) /\ stack' = Advance(i)
    BY <1>2 DEF FlushNext
  <2>2. stack # <<>> /\ Top.f = "flush" /\ peer' = peer
    BY <1>2 DEF FlushNext, Walking, pvars
  <2>3. PICK nx : nx = IF i < Len(frozen) THEN {frozen[i + 1]} ELSE {}
    OBVIOUS
  <2>4. nx \in SUBSET Node
    BY <2>1, <2>3 DEF TypeOK
  <2>5. PICK x : x = [Top EXCEPT !.next = nx]
    OBVIOUS
  <2>6. x \in Flush /\ x.f = "flush"
    <3>1. Top \in Flush
      BY <1>1, <2>2, FrameFields
    <3> QED BY <2>4, <2>5, <3>1 DEF Flush
  <2>7. stack' = [stack EXCEPT ![Len(stack)] = x]
    BY <2>1, <2>3, <2>5 DEF Advance, Top
  <2>8. x \in Frame
    BY <2>6, Frames
  <2>9. stack' = Append(Pop, x)
    <3>1. PICK t : t = Append(Pop, Top)
      OBVIOUS
    <3>2. [t EXCEPT ![Len(t)] = x] = Append(Pop, x)
      BY <1>1, <2>2, <2>8, <3>1, LastReplaced
    <3> QED BY <1>1, <2>2, <2>7, <3>1, <3>2
  <2>10. Calls(stack', peer')
    BY <1>1, <2>2, <2>6, <2>8, <2>9, CallsSame DEF Light
  <2>11. stack'[Len(stack')] = x
    BY <1>1, <2>2, <2>8, <2>9, Appended
  <2> QED BY <2>6, <2>10, <2>11 DEF StackOK, Emitting, Top
<1>3. CASE \/ (FlushEnd \/ FlushDangling) /\ UNCHANGED pvars
           \/ ChannelSendReady \/ KillEnd \/ SetBridgesEnd
  <2>1. stack # <<>> /\ Top.f # "reset" /\ stack' = Pop /\ peer' = peer /\ cur' = {}
    BY <1>3 DEF FlushEnd, FlushDangling, ChannelSendReady, KillEnd, SetBridgesEnd, Walking, Running, pvars
  <2> QED BY <1>1, <2>1, CallsOver
<1>4. ASSUME NEW c \in Channels, Orphan(c)  PROVE StackOK'
  <2>1. PICK x : x = [Top EXCEPT !.chans = @ \ {c}]
    OBVIOUS
  <2>2. PICK y \in Frame : y = [f |-> "thaw", ch |-> c]
    BY Frames
  <2>3. stack # <<>> /\ Top.f = "orphans" /\ stack' = Push(Pop, <<x, y>>) /\ cur' = {} /\ peer' = peer
    BY <1>4, <2>1, <2>2 DEF Orphan, Running
  <2>4. Top \in [f : {"orphans"}, p : Peers, problem : BOOLEAN, chans : SUBSET Channels]
    BY <1>1, <2>3, FrameFields
  <2>5. x = [f |-> "orphans", p |-> Top.p, problem |-> Top.problem, chans |-> Top.chans \ {c}]
    BY <2>1, <2>4
  <2>6. x \in Frame /\ x.f = "orphans" /\ x.p = Top.p
    BY <2>4, <2>5, Frames
  <2>7. stack' = Append(Append(Pop, x), y) /\ Append(Pop, x) \in Seq(Frame)
    BY <1>1, <2>2, <2>3, <2>6, PushTwo
  <2>8. Calls(Append(Pop, x), peer)
    BY <1>1, <2>3, <2>6, CallsSame
  <2>9. Append(Pop, x)[Len(Append(Pop, x))] = x /\ y.f \in Light
    BY <1>1, <2>2, <2>3, <2>6, Appended DEF Light
  <2>10. Calls(Append(Append(Pop, x), y), peer)
    BY <2>2, <2>6, <2>7, <2>8, <2>9, CallsPush
  <2> QED BY <2>3, <2>7, <2>10, CallsOver
<1>5. CASE OrphansEnd
  <2>1. PICK x : x = [f |-> "reset", p |-> Top.p]
    OBVIOUS
  <2>2. stack # <<>> /\ Top.f = "orphans" /\ stack' \in {Pop, Push(Pop, <<x>>)} /\ cur' = {} /\ peer' = peer
    BY <1>5, <2>1 DEF OrphansEnd, Running, pvars
  <2>3. Top \in [f : {"orphans"}, p : Peers, problem : BOOLEAN, chans : SUBSET Channels]
    BY <1>1, <2>2, FrameFields
  <2>4. x \in Frame /\ x.f = "reset" /\ x.p = Top.p
    BY <2>1, <2>3, Frames
  <2>5. Push(Pop, <<x>>) = Append(Pop, x)
    BY <1>1, <2>2, <2>4, PushOne
  <2>6. Calls(Append(Pop, x), peer)
    BY <1>1, <2>2, <2>4, CallsOrphansEnd
  <2>7. Calls(stack', peer')
    BY <1>1, <2>2, <2>5, <2>6
  <2> QED BY <2>2, <2>7, CallsOver
<1>6. CASE ResetClose
  <2>1. stack # <<>> /\ Top.f = "reset" /\ cur' = {}
    BY <1>6 DEF ResetClose, Running
  <2>2. PICK p \in Peers : p = Top.p
    BY <1>1, <2>1, FrameFields
  <2>3. PICK y \in Frame : y = [f |-> "clear", p |-> p] /\ y.f = "clear" /\ y.p = p
    BY Frames
  <2>4. PICK s \in Seq(Frame) : s = Push(Pop, <<y>>) /\ s = Append(Pop, y)
    BY <1>1, <2>1, PushOne
  <2>5. CASE ~peer[p].other
    <3>1. stack' = s /\ peer' = peer
      BY <1>6, <2>2, <2>3, <2>4, <2>5 DEF ResetClose
    <3>2. Calls(s, peer)
      BY <1>1, <2>1, <2>2, <2>3, <2>4, <2>5, CallsReset
    <3> QED BY <2>1, <3>1, <3>2, CallsOver
  <2>6. CASE peer[p].other
    <3>1. OtherClosed(p, s)
      BY <1>6, <2>2, <2>3, <2>4, <2>6 DEF ResetClose
    <3>5. PICK r, z : Ended(p, s, r, z)
      BY <3>1, OtherClosedForm
    <3>2. /\ peer' = [peer EXCEPT ![p] = r] /\ r.closed = TRUE /\ r.other = FALSE
          /\ z \in Frame /\ z.f = "orphans" /\ z.p = p
          /\ stack' = Append(s, z)
      BY <3>5 DEF Ended
    <3>6. peer'[p] = r /\ \A z1 \in Peers : z1 # p => peer'[z1] = peer[z1]
      BY <3>2 DEF TypeOK
    <3>7. /\ peer'[p].closed /\ ~peer'[p].other
          /\ \A z1 \in Peers : (peer[z1].closed => peer'[z1].closed) /\ (~peer[z1].other => ~peer'[z1].other)
      BY <3>2, <3>6
    <3>8. Calls(stack', peer')
      <4>1. /\ Calls(Append(Pop, Top), peer) /\ Pop \in Seq(Frame) /\ Top \in Frame /\ Top.f = "reset"
            /\ y.f = "clear" /\ y.p = Top.p /\ z.f = "orphans" /\ z.p = Top.p
            /\ peer[Top.p].other /\ peer'[Top.p].closed /\ ~peer'[Top.p].other
        BY <1>1, <2>1, <2>2, <2>3, <2>6, <3>2, <3>7
      <4>2. Calls(Append(Append(Pop, y), z), peer')
        BY <3>2, <3>7, <4>1, CallsResetClose
      <4> QED BY <2>4, <3>2, <4>2
    <3> QED BY <2>1, <3>8, CallsOver
  <2> QED BY <2>5, <2>6
<1>7. CASE ResetClear \/ Dispose
  <2>1. stack # <<>> /\ Top.f \in {"clear", "dispose"} /\ cur' = {} /\ stack' = Pop
    BY <1>7 DEF ResetClear, Dispose, Running
  <2>2. PICK p \in Peers : p = Top.p
    BY <1>1, <2>1, FrameFields
  <2>3. PICK r : peer' = [peer EXCEPT ![p] = r] /\ r.other \in {FALSE, peer[p].other}
    <3>1. NewPeer.other = FALSE /\ [NewPeer EXCEPT !.other = peer[p].other].other = peer[p].other
      BY DEF NewPeer
    <3>2. CASE ResetClear
      <4>1. PICK r : r = [NewPeer EXCEPT !.other = peer[p].other]
        OBVIOUS
      <4>2. peer' = [peer EXCEPT ![p] = r] /\ r.other = peer[p].other
        BY <2>2, <3>1, <3>2, <4>1 DEF ResetClear
      <4> QED BY <4>2
    <3>3. CASE Dispose
      <4>1. peer' = [peer EXCEPT ![p] = NewPeer]
        BY <2>2, <3>3 DEF Dispose
      <4> QED BY <3>1, <4>1
    <3> QED BY <1>7, <3>2, <3>3
  <2>5. \A z \in Peers : (z # Top.p /\ peer[z].closed => peer'[z].closed) /\ (~peer[z].other => ~peer'[z].other)
    BY <2>2, <2>3 DEF TypeOK
  <2>6. Calls(Pop, peer')
    BY <1>1, <2>1, <2>5, CallsAnew
  <2> QED BY <2>1, <2>6, CallsOver
<1>8. CASE Resume
  <2>1. PICK x, y : x = [Top EXCEPT !.q = Tail(@)] /\ y = [f |-> "thaw", ch |-> Head(Top.q)]
    OBVIOUS
  <2>2. /\ stack # <<>> /\ Top.f = "resume" /\ cur' = {} /\ peer' = peer
        /\ stack' = IF Top.q = <<>> THEN Pop ELSE Push(Pop, <<x, y>>)
    BY <1>8, <2>1 DEF Resume, Running, pvars
  <2>3. Top \in [f : {"resume"}, q : Seq(Channels)]
    BY <1>1, <2>2, FrameFields
  <2>4. CASE Top.q = <<>>
    BY <1>1, <2>2, <2>4, CallsOver
  <2>5. CASE Top.q # <<>>
    <3>1. Head(Top.q) \in Channels /\ Tail(Top.q) \in Seq(Channels)
      BY <2>3, <2>5
    <3>2. x = [f |-> "resume", q |-> Tail(Top.q)]
      BY <2>1, <2>3
    <3>3. x \in Frame /\ x.f = "resume" /\ y \in Frame /\ y.f = "thaw"
      <4>1. x \in Frame /\ y \in Frame
        BY <2>1, <3>1, <3>2, Frames
      <4> QED BY <2>1, <3>2, <4>1
    <3>4. stack' = Append(Append(Pop, x), y) /\ Append(Pop, x) \in Seq(Frame)
      BY <1>1, <2>2, <2>5, <3>3, PushTwo
    <3>5. Calls(Append(Pop, x), peer)
      BY <1>1, <2>2, <3>3, CallsSame
    <3>6. Append(Pop, x)[Len(Append(Pop, x))] = x /\ y.f \in Light
      BY <1>1, <2>2, <3>3, Appended DEF Light
    <3>7. Calls(Append(Append(Pop, x), y), peer)
      BY <3>3, <3>4, <3>5, <3>6, CallsPush
    <3> QED BY <2>2, <3>4, <3>7, CallsOver
  <2> QED BY <2>4, <2>5
<1>9. CASE ThawCall
  <2>1. PICK x : x = Walk(Top.ch)
    OBVIOUS
  <2>2. stack # <<>> /\ Top.f = "thaw" /\ cur' = {} /\ peer' = peer /\ stack' \in {Pop, Push(Pop, <<x>>)}
    BY <1>9, <2>1 DEF ThawCall, Running, pvars
  <2>3. Top.ch \in Channels
    BY <1>1, <2>2, FrameFields
  <2>4. x \in Frame /\ x.f = "flush"
    <3>1. Walk(Top.ch) \in Frame
      BY <2>3, WalkType, Frames
    <3>2. Walk(Top.ch).f = "flush"
      BY DEF Walk
    <3> QED BY <2>1, <3>1, <3>2
  <2>5. Push(Pop, <<x>>) = Append(Pop, x)
    BY <1>1, <2>2, <2>4, PushOne
  <2>6. Calls(Append(Pop, x), peer)
    BY <1>1, <2>2, <2>4, CallsSame DEF Light
  <2>7. Calls(stack', peer')
    BY <1>1, <2>2, <2>5, <2>6
  <2> QED BY <2>2, <2>7, CallsOver
<1>10. ASSUME NEW c \in Channels, Kill(c)  PROVE StackOK'
  <2>1. PICK x : x = [Top EXCEPT !.chans = @ \ {c}]
    OBVIOUS
  <2>2. /\ stack # <<>> /\ Top.f = "kill" /\ cur' = {} /\ peer' = peer
        /\ CloseChannel(c, Push(Pop, <<x>>)) \/ stack' = Push(Pop, <<x>>)
    BY <1>10, <2>1 DEF Kill, Running
  <2>3. Top \in [f : {"kill"}, chans : SUBSET Channels]
    BY <1>1, <2>2, FrameFields
  <2>4. x = [f |-> "kill", chans |-> Top.chans \ {c}]
    BY <2>1, <2>3
  <2>5. x \in Frame /\ x.f = "kill"
    BY <2>3, <2>4, Frames
  <2>6. PICK s \in Seq(Frame) : s = Append(Pop, x) /\ s = Push(Pop, <<x>>)
    BY <1>1, <2>2, <2>5, PushOne
  <2>7. Calls(s, peer)
    BY <1>1, <2>2, <2>5, <2>6, CallsSame
  <2>8. s[Len(s)] = x
    <3>1. Append(Pop, x)[Len(Append(Pop, x))] = x
      BY <1>1, <2>2, <2>5, Appended
    <3> QED BY <2>6, <3>1
  <2>9. Calls(stack', peer)
    BY <2>2, <2>5, <2>6, <2>7, <2>8, CallsClose
  <2> QED BY <2>2, <2>9, CallsOver
<1>11. CASE SetBridgesRule
  <2>1. PICK x, y, z : /\ x = [Top EXCEPT !.old = Tail(@)] /\ y = [f |-> "dispose", p |-> Head(Top.old)]
                       /\ z = [f |-> "reset", p |-> Head(Top.old)]
    OBVIOUS
  <2>2. /\ stack # <<>> /\ Top.f = "bridges" /\ cur' = {} /\ peer' = peer /\ Top.old # <<>>
        /\ stack' = IF Head(Top.old) \in Peers THEN Push(Push(Pop, <<x>>), <<y, z>>) ELSE Push(Pop, <<x>>)
    BY <1>11, <2>1 DEF SetBridgesRule, Running, pvars
  <2>3. Top \in [f : {"bridges"}, old : Seq(Peers \cup ToSet(BuiltIn))]
    BY <1>1, <2>2, FrameFields
  <2>4. x = [f |-> "bridges", old |-> Tail(Top.old)] /\ Tail(Top.old) \in Seq(Peers \cup ToSet(BuiltIn))
    <3>1. Tail(Top.old) \in Seq(Peers \cup ToSet(BuiltIn))
      BY <2>2, <2>3
    <3>2. PICK t : t = Tail(Top.old)
      OBVIOUS
    <3>3. x = [f |-> "bridges", old |-> t]
      BY <2>1, <2>3, <3>2
    <3> QED BY <3>1, <3>2, <3>3
  <2>5. x \in Frame /\ x.f = "bridges"
    BY <2>4, Frames
  <2>6. PICK s \in Seq(Frame) : s = Append(Pop, x) /\ s = Push(Pop, <<x>>)
    <3>1. Pop \in Seq(Frame) /\ Push(Pop, <<x>>) = Append(Pop, x)
      BY <1>1, <2>2, <2>5, PushOne
    <3>2. Append(Pop, x) \in Seq(Frame)
      BY <2>5, <3>1
    <3> QED BY <3>1, <3>2
  <2>7. Calls(s, peer)
    BY <1>1, <2>2, <2>5, <2>6, CallsSame
  <2>8. CASE Head(Top.old) \notin Peers
    BY <2>2, <2>6, <2>7, <2>8, CallsOver
  <2>9. CASE Head(Top.old) \in Peers
    <3>1. y \in Frame /\ z \in Frame /\ y.f = "dispose" /\ z.f = "reset" /\ z.p = y.p
      BY <2>1, <2>9, Frames
    <3>2. stack' = Append(Append(s, y), z)
      BY <2>2, <2>6, <2>9, <3>1, PushTwo
    <3>3. Calls(stack', peer)
      BY <1>1, <2>2, <2>5, <2>6, <2>7, <3>1, <3>2, CallsDispose
    <3> QED BY <2>2, <3>3, CallsOver
  <2> QED BY <2>8, <2>9
<1> QED BY <1>2, <1>3, <1>4, <1>5, <1>6, <1>7, <1>8, <1>9, <1>10, <1>11 DEF Continue

\* cockpit_channel_ready, called by the main loop.
LEMMA CallsFirst ==
  ASSUME NEW x \in Frame, NEW y \in Frame, NEW P, x.f = "ready", y.f = "thaw"
  PROVE  Calls(Append(Append(<<>>, x), y), P)
<1>1. <<>> \in Seq(Frame) /\ Calls(<<>>, P) /\ \A i \in 1 .. Len(<<>>) : <<>>[i].f # "orphans"
  BY CallsNone
<1>2. Calls(Append(<<>>, x), P)
  BY <1>1, CallsPush
<1>3. PICK t : t = Append(<<>>, x)
  OBVIOUS
<1>4. t \in Seq(Frame) /\ t[Len(t)] = x /\ y.f \in Light
  BY <1>1, <1>3, Appended DEF Light
<1>5. Calls(Append(t, y), P)
  BY <1>2, <1>3, <1>4, CallsPush
<1> QED BY <1>3, <1>5

\* What the main loop calls.
LEMMA EventCalls ==
  ASSUME TypeOK, StackOK
  PROVE  /\ Frontend \/ Reload => StackOK'
         /\ \A p \in Peers : PeerEvent(p) \/ PeerChannelEvent(p) \/ PeerTimer(p) => StackOK'
         /\ \A c \in Channels : Prepare(c) \/ LocalEvent(c) => StackOK'
<1>0. stack \in Seq(Frame) /\ Calls(<<>>, peer) /\ Calls(<<>>, peer')
  BY CallsNone DEF TypeOK
<1>1. ASSUME stack = <<>>, cur' = {}, NEW x \in Frame, x.f \in {"kill", "bridges", "resume", "reset"},
             stack' = Push(stack, <<x>>)
      PROVE  StackOK'
  <2>1. stack' = Append(<<>>, x)
    BY <1>0, <1>1, PushOne
  <2>3. <<>> \in Seq(Frame) /\ \A i \in 1 .. Len(<<>>) : <<>>[i].f # "orphans"
    OBVIOUS
  <2>4. Calls(Append(<<>>, x), peer')
    BY <1>0, <1>1, <2>3, CallsPush
  <2> QED BY <1>1, <2>1, <2>4, CallsOver
<1>2. ASSUME stack = <<>>, stack' = stack  PROVE StackOK'
  BY <1>0, <1>2 DEF StackOK, Emitting
<1>3. ASSUME NEW c \in Channels, NEW k, FrontSend(c, k)  PROVE StackOK'
  BY <1>2, <1>3 DEF FrontSend, Recv
<1>4. ASSUME NEW good, FrontInit(good)  PROVE StackOK'
  BY <1>2, <1>4 DEF FrontInit, Idle
<1>5. ASSUME NEW g, FrontKill(g)  PROVE StackOK'
  <2>1. Group(g) \in SUBSET Channels
    BY DEF Group
  <2>2. PICK x \in Frame : x = [f |-> "kill", chans |-> Group(g)]
    BY <2>1, Frames
  <2>3. x.f = "kill"
    BY <2>2
  <2> QED BY <1>1, <1>5, <2>2, <2>3 DEF FrontKill, Idle
<1>6. ASSUME NEW bs \in Bridges, SetBridges(bs)  PROVE StackOK'
  <2>1. PICK x : x = [f |-> "bridges", old |-> Without(rules, ToSet(bs) \cap ToSet(rules))]
    OBVIOUS
  <2>2. Without(rules, ToSet(bs) \cap ToSet(rules)) \in Seq(Peers \cup ToSet(BuiltIn))
    BY WithoutType DEF TypeOK
  <2>3. x \in Frame
    BY <2>1, <2>2, Frames
  <2>4. x.f = "bridges"
    BY <2>1
  <2> QED BY <1>1, <1>6, <2>1, <2>3, <2>4 DEF SetBridges, Idle
<1>7. ASSUME NEW p \in Peers, OtherInit(p)  PROVE StackOK'
  <2>1. peer[p].frozen \in Seq(Channels)
    BY DEF TypeOK, PeerState
  <2>2. PICK x \in Frame : x = [f |-> "resume", q |-> peer[p].frozen]
    BY <2>1, Frames
  <2>3. x.f = "resume"
    BY <2>2
  <2> QED BY <1>1, <1>7, <2>2, <2>3 DEF OtherInit, Idle
<1>8. ASSUME NEW p \in Peers, OtherExit(p)  PROVE StackOK'
  <2>1. stack = <<>> /\ cur' = {} /\ OtherClosed(p, stack)
    BY <1>8 DEF OtherExit, Idle
  <2>2. PICK r, x : Ended(p, stack, r, x)
    BY <1>0, <2>1, OtherClosedForm
  <2>3. x \in Frame /\ x.f = "orphans" /\ x.p = p /\ stack' = Append(<<>>, x)
    BY <2>1, <2>2 DEF Ended
  <2>4. peer'[p].closed /\ ~peer'[p].other
    BY <2>2 DEF Ended, TypeOK
  <2>5. Calls(stack', peer')
    BY <2>3, <2>4, CallsOrphans
  <2> QED BY <2>1, <2>5, CallsOver
<1>9. ASSUME NEW p \in Peers, PeerTimeout(p)  PROVE StackOK'
  <2>1. PICK x \in Frame : x = [f |-> "reset", p |-> p]
    BY Frames
  <2>2. x.f = "reset"
    BY <2>1
  <2>3. stack = <<>> /\ cur' = {} /\ (stack' = stack \/ stack' = Push(stack, <<x>>))
    BY <1>9, <2>1 DEF PeerTimeout, Idle
  <2> QED BY <1>1, <1>2, <2>2, <2>3
<1>10. ASSUME NEW c \in Channels,
             ChannelPrepare(c) \/ ChannelReady(c) \/ ChannelClose(c) \/ ChannelEnded(c)
      PROVE  StackOK'
  <2>1. PICK x \in Frame : x = [f |-> "ready", ch |-> c]
    BY Frames
  <2>2. PICK y \in Frame : y = [f |-> "thaw", ch |-> c]
    BY Frames
  <2>3. ReadyFrames(c) = <<x, y>>
    BY <2>1, <2>2 DEF ReadyFrames
  <2>4. stack = <<>> /\ cur' = {} /\ peer' = peer
    BY <1>10 DEF ChannelPrepare, ChannelReady, ChannelClose, ChannelEnded, Idle, pvars
  <2>5. \/ CloseChannel(c, stack) \/ ChannelClosed(c, stack)
        \/ stack' \in {stack, Push(stack, <<x, y>>)}
    BY <1>10, <2>3 DEF ChannelPrepare, ChannelReady, ChannelClose, ChannelEnded
  <2>6. CASE CloseChannel(c, stack) \/ ChannelClosed(c, stack)
    <3>1. Calls(stack', peer')
      BY <1>0, <2>4, <2>6, CallsClose
    <3> QED BY <2>4, <3>1, CallsOver
  <2>7. CASE stack' = Push(stack, <<x, y>>)
    <3>1. stack' = Append(Append(<<>>, x), y)
      BY <1>0, <2>4, <2>7, PushTwo
    <3>2. x.f = "ready" /\ y.f = "thaw"
      BY <2>1, <2>2
    <3>3. Calls(stack', peer')
      BY <3>1, <3>2, CallsFirst
    <3> QED BY <2>4, <3>3, CallsOver
  <2> QED BY <1>2, <2>4, <2>5, <2>6, <2>7
<1>11. Frontend \/ Reload => StackOK'
  BY <1>3, <1>4, <1>5, <1>6 DEF Frontend, Reload
<1>12. ASSUME NEW p \in Peers, PeerEvent(p) \/ PeerChannelEvent(p) \/ PeerTimer(p)  PROVE StackOK'
  <2>1. CASE PeerEvent(p)
    BY <1>2, <1>7, <1>8, <2>1 DEF PeerEvent, OtherInitProblem, Idle, tvars
  <2>2. CASE PeerChannelEvent(p)
    BY <1>2, <2>2 DEF PeerChannelEvent, OtherReady, OtherClose, Idle, tvars
  <2>3. CASE PeerTimer(p)
    BY <1>9, <2>3 DEF PeerTimer
  <2> QED BY <1>12, <2>1, <2>2, <2>3
<1>13. ASSUME NEW c \in Channels, Prepare(c) \/ LocalEvent(c)  PROVE StackOK'
  BY <1>10, <1>13 DEF Prepare, LocalEvent
<1> QED BY <1>11, <1>12, <1>13

LEMMA StackStep ==
  ASSUME TypeOK, StackOK, [Next]_vars
  PROVE  StackOK'
<1>1. CASE UNCHANGED vars
  BY <1>1 DEF StackOK, Emitting, Top, vars, tvars, pvars
<1> QED BY <1>1, HandleCalls, ContinueCalls, EventCalls DEF Next

LEMMA StackInit == Init => StackOK
BY CallsNone DEF Init, TransportInit, StackOK, Emitting

(***************************************************************************)
(* g_assert (self->other == NULL) in cockpit_peer_reset never fails, for   *)
(* any peers, lists of bridges, reloads and timeouts: routing the orphans  *)
(* of a peer that is being reset does not start it again.                  *)
(***************************************************************************)
THEOREM ResetNeverAsserts == Spec => []ResetAssertion
<1>1. TypeOK /\ StackOK => ResetAssertion
  <2> SUFFICES ASSUME TypeOK, StackOK, Running("clear") PROVE ~peer[Top.p].other
    BY DEF ResetAssertion
  <2>1. stack # <<>> /\ Top.f = "clear" /\ stack \in Seq(Frame)
    BY DEF Running, TypeOK
  <2>2. Len(stack) \in 1 .. Len(stack)
    BY <2>1
  <2> QED BY <2>1, <2>2 DEF StackOK, Calls, Top
<1>2. Init => TypeOK /\ StackOK
  BY BridgeInit, StackInit
<1>3. TypeOK /\ StackOK /\ [Next]_vars => (TypeOK /\ StackOK)'
  BY BridgeNext, StackStep
<1> QED BY <1>1, <1>2, <1>3, PTL DEF Spec

(***************************************************************************)
(* What was said of a channel stays said, and every message at hand is one *)
(* that the frontend sent.                                                 *)
(***************************************************************************)
Numbered ==
  /\ \A c \in Channels : Len(kinds[c]) = sent[c]
  /\ \A m \in cur : m.n \in 1 .. sent[m.ch]
  /\ \A i \in 1 .. Len(frozen) : frozen[i].n \in 1 .. sent[frozen[i].ch]

\* The frontend is sent one control message, or none.
Told == out' = out \/ \E c \in Channels : \E w \in {"ready", "close"} : Send(c, w)

LEMMA CloseTold ==
  ASSUME NEW c \in Channels, NEW s, CloseChannel(c, s) \/ ChannelClosed(c, s)
  PROVE  Told
BY DEF CloseChannel, ChannelClosed, ChannelCloses, Told

\* Only the frontend adds to what was sent; nothing takes from it.
LEMMA Grows ==
  ASSUME TypeOK, [Next]_vars
  PROVE  /\ (\E c \in Channels, k \in Kinds : FrontSend(c, k)) \/ UNCHANGED <<sent, kinds>>
         /\ Told
<1>1. CASE Handle
  <2>1. PICK m \in cur : \/ NoInit(m) \/ ProcessOpen(m)
                         \/ Route(m)
                         \/ WalkRules(m)
    BY <1>1 DEF Handle
  <2>2. UNCHANGED kinds /\ m.ch \in Channels
    BY <1>1, TakenType DEF Handle
  <2>3. CASE NoInit(m)
    BY <2>2, <2>3 DEF NoInit, pvars, Told
  <2>4. CASE ProcessOpen(m)
    BY <2>2, <2>4 DEF ProcessOpen, OpenInUse, OpenFenced, OpenMalformed, OpenWalk, CreateChannel, pvars, Told
  <2>5. CASE Route(m)
    <3>1. CASE Unclaimed(m) \/ ToPeer(m)
      BY <2>2, <3>1 DEF Unclaimed, ToPeer, PeerForward, pvars, Told
    <3>2. CASE ToLocal(m)
      <4>1. sent' = sent /\ (CloseChannel(m.ch, stack) \/ out' = out)
        BY <3>2 DEF ToLocal
      <4> QED BY <2>2, <4>1, CloseTold DEF Told
    <3> QED BY <2>5, <3>1, <3>2 DEF Route
  <2>6. CASE WalkRules(m)
    <3>1. CASE RuleSkip(m) \/ RulesEnd(m) \/ RulePayload(m) \/ RuleNotSupported(m)
      BY <2>2, <3>1 DEF RuleSkip, RulesEnd, RulePayload, RuleNotSupported, CreateChannel, pvars, Told
    <3>2. CASE RulePeer(m)
      <4>1. sent' = sent
        BY <3>2 DEF RulePeer
      <4>2. PICK p, q, r : Tried(m, p, q, r)
        BY <3>2, RuleTried
      <4>3. out' = out \/ Send(m.ch, "close")
        BY <4>2 DEF Tried, HandleClosed, HandleInited, HandleStarting
      <4> QED BY <2>2, <4>1, <4>3 DEF Told
    <3> QED BY <2>6, <3>1, <3>2 DEF WalkRules
  <2> QED BY <2>1, <2>3, <2>4, <2>5, <2>6
<1>2. CASE Continue
  <2>1. UNCHANGED kinds
    BY <1>2 DEF Continue
  <2>2. CASE (FlushNext \/ FlushEnd \/ FlushDangling) /\ UNCHANGED <<pvars, rvars>>
    BY <2>1, <2>2 DEF FlushNext, FlushEnd, FlushDangling, pvars, Told
  <2>3. ASSUME NEW c \in Channels, Orphan(c)
        PROVE  UNCHANGED <<sent, kinds>> /\ Told
    BY <2>1, <2>3 DEF Orphan, Told
  <2>4. CASE OrphansEnd \/ ResetClose \/ ResetClear \/ Resume \/ ThawCall
    BY <2>1, <2>4 DEF OrphansEnd, ResetClose, ResetClear, Resume, ThawCall, pvars, Told
  <2>5. CASE ChannelSendReady
    <3>1. Top.ch \in Channels
      BY <2>5, RunningStack, FrameFields DEF ChannelSendReady, Running
    <3> QED BY <2>1, <2>5, <3>1 DEF ChannelSendReady, Told
  <2>6. ASSUME NEW c \in Channels, Kill(c)
        PROVE  UNCHANGED <<sent, kinds>> /\ Told
    <3>1. PICK s : CloseChannel(c, s) \/ out' = out
      BY <2>6 DEF Kill
    <3>2. sent' = sent
      BY <2>6 DEF Kill
    <3> QED BY <2>1, <3>1, <3>2, CloseTold DEF Told
  <2>7. CASE KillEnd \/ SetBridgesRule \/ SetBridgesEnd \/ Dispose
    BY <2>1, <2>7 DEF KillEnd, SetBridgesRule, SetBridgesEnd, Dispose, pvars, Told
  <2> QED BY <1>2, <2>2, <2>3, <2>4, <2>5, <2>6, <2>7 DEF Continue
<1>3. CASE Frontend
  BY <1>3 DEF Frontend, FrontSend, FrontInit, FrontKill, pvars, Told
<1>4. CASE Reload
  BY <1>4 DEF Reload, SetBridges, pvars, Told
<1>5. ASSUME NEW p \in Peers, PeerEvent(p) \/ PeerChannelEvent(p) \/ PeerTimer(p)
      PROVE  UNCHANGED <<sent, kinds>> /\ Told
  BY <1>5 DEF PeerEvent, PeerChannelEvent, PeerTimer, OtherInit, OtherInitProblem, OtherExit, OtherReady,
              OtherClose, PeerTimeout, tvars, Told
<1>6. ASSUME NEW c \in Channels, Prepare(c) \/ LocalEvent(c)
      PROVE  UNCHANGED <<sent, kinds>> /\ Told
  <2>1. UNCHANGED <<sent, kinds>>
    BY <1>6 DEF Prepare, LocalEvent, ChannelPrepare, ChannelReady, ChannelClose, ChannelEnded
  <2>2. CloseChannel(c, stack) \/ ChannelClosed(c, stack) \/ out' = out
    BY <1>6 DEF Prepare, LocalEvent, ChannelPrepare, ChannelReady, ChannelClose, ChannelEnded, pvars
  <2> QED BY <2>1, <2>2, CloseTold DEF Told
<1>7. CASE UNCHANGED vars
  BY <1>7 DEF vars, tvars, pvars, Told
<1> QED BY <1>1, <1>2, <1>3, <1>4, <1>5, <1>6, <1>7 DEF Next

\* The elements of a sequence that grows.
LEMMA SetAppend ==
  ASSUME NEW S, NEW s \in Seq(S), NEW x \in S
  PROVE  ToSet(Append(s, x)) = ToSet(s) \cup {x}
<1>1. PICK t : t = Append(s, x)
  OBVIOUS
<1>2. /\ Len(t) = Len(s) + 1 /\ t[Len(s) + 1] = x /\ \A i \in 1 .. Len(s) : t[i] = s[i]
      /\ DOMAIN t = 1 .. Len(t) /\ DOMAIN s = 1 .. Len(s) /\ Len(s) \in Nat
  BY <1>1
<1>3. ToSet(t) = ToSet(s) \cup {x}
  BY <1>2 DEF ToSet
<1> QED BY <1>1, <1>3

\* A close that was sent, by either end, stays sent.
LEMMA ClosedStays ==
  ASSUME TypeOK, [Next]_vars, NEW c \in Channels
  PROVE  /\ ClosedSent(c) => ClosedSent(c)'
         /\ Send(c, "close") => ClosedSent(c)'
<1>1. out[c] \in Seq({"ready", "close"}) /\ kinds[c] \in Seq(Kinds)
  BY DEF TypeOK
<1>2. \A d \in Channels : \A w \in {"ready", "close"} : Send(d, w) =>
        ToSet(out'[c]) = IF d = c THEN ToSet(out[c]) \cup {w} ELSE ToSet(out[c])
  <2> SUFFICES ASSUME NEW d \in Channels, NEW w \in {"ready", "close"}, Send(d, w)
               PROVE  ToSet(out'[c]) = IF d = c THEN ToSet(out[c]) \cup {w} ELSE ToSet(out[c])
    OBVIOUS
  <2>1. out'[c] = IF d = c THEN Append(out[c], w) ELSE out[c]
    BY DEF Send, TypeOK
  <2>2. ToSet(Append(out[c], w)) = ToSet(out[c]) \cup {w}
    BY <1>1, SetAppend
  <2> QED BY <2>1, <2>2
<1>3. ToSet(out[c]) \subseteq ToSet(out'[c])
  BY <1>2, Grows DEF Told
<1>4. \A d \in Channels, k \in Kinds : FrontSend(d, k) => ToSet(kinds[c]) \subseteq ToSet(kinds'[c])
  <2> SUFFICES ASSUME NEW d \in Channels, NEW k \in Kinds, FrontSend(d, k)
               PROVE  ToSet(kinds[c]) \subseteq ToSet(kinds'[c])
    OBVIOUS
  <2>1. kinds'[c] = IF d = c THEN Append(kinds[c], k) ELSE kinds[c]
    BY DEF FrontSend, TypeOK
  <2>2. ToSet(Append(kinds[c], k)) = ToSet(kinds[c]) \cup {k}
    BY <1>1, SetAppend
  <2> QED BY <2>1, <2>2
<1>5. ToSet(kinds[c]) \subseteq ToSet(kinds'[c])
  BY <1>4, Grows
<1> QED BY <1>2, <1>3, <1>5 DEF ClosedSent

\* A step of the transport keeps the numbers.
LEMMA NumberedStep ==
  ASSUME TypeOK, Numbered, [Next]_vars
  PROVE  Numbered'
<1>0. /\ sent \in [Channels -> Nat] /\ frozen \in Seq(Node) /\ cur \in SUBSET Message
      /\ kinds \in [Channels -> Seq(Kinds)]
  BY DEF TypeOK
<1>1. ASSUME NEW q \in Seq(Node), NEW m \in Message, Emit(q, m), NEW N \in [Channels -> Nat],
             m.n \in 1 .. N[m.ch], \A i \in 1 .. Len(q) : q[i].n \in 1 .. N[q[i].ch]
      PROVE  /\ \A x \in cur' : x.n \in 1 .. N[x.ch]
             /\ \A i \in 1 .. Len(frozen') : frozen'[i].n \in 1 .. N[frozen'[i].ch]
  <2>1. CASE m.ch \in freeze
    <3>1. PICK x : x = [ch |-> m.ch, n |-> m.n, key |-> key[m.ch]]
      OBVIOUS
    <3>2. frozen' = Append(q, x) /\ cur' = {}
      BY <1>1, <2>1, <3>1 DEF Emit, Hold
    <3>3. x \in Node /\ x.ch = m.ch /\ x.n = m.n
      BY <3>1 DEF Node, Message, TypeOK
    <3>4. PICK t : t = Append(q, x)
      OBVIOUS
    <3>5. Len(t) = Len(q) + 1 /\ t[Len(q) + 1] = x /\ Len(q) \in Nat /\ \A i \in 1 .. Len(q) : t[i] = q[i]
      BY <3>3, <3>4, Appended
    <3>6. \A i \in 1 .. Len(t) : t[i].n \in 1 .. N[t[i].ch]
      BY <1>1, <3>3, <3>5
    <3> QED BY <3>2, <3>4, <3>6
  <2>2. CASE m.ch \notin freeze
    BY <1>1, <2>2 DEF Emit
  <2> QED BY <2>1, <2>2
<1>2. ASSUME NEW c \in Channels, NEW k \in Kinds, FrontSend(c, k)  PROVE Numbered'
  <2>1. PICK m \in Message : m = [ch |-> c, n |-> sent[c] + 1]
    <3>1. sent[c] + 1 \in Nat
      BY <1>0
    <3> QED BY <3>1 DEF Message
  <2>2. sent' = [sent EXCEPT ![c] = sent[c] + 1] /\ Emit(frozen, m) /\ kinds' = [kinds EXCEPT ![c] = Append(kinds[c], k)]
    BY <1>2, <2>1 DEF FrontSend, Recv
  <2>3. sent' \in [Channels -> Nat] /\ \A d \in Channels : sent[d] <= sent'[d]
    BY <1>0, <2>2
  <2>4. m.n \in 1 .. sent'[m.ch]
    BY <1>0, <2>1, <2>2
  <2>5. \A i \in 1 .. Len(frozen) : frozen[i].n \in 1 .. sent'[frozen[i].ch]
    <3> SUFFICES ASSUME NEW i \in 1 .. Len(frozen) PROVE frozen[i].n \in 1 .. sent'[frozen[i].ch]
      OBVIOUS
    <3>1. frozen[i] \in Node
      BY <1>0
    <3>2. frozen[i].ch \in Channels /\ frozen[i].n \in 1 .. sent[frozen[i].ch]
      BY <3>1 DEF Node, Numbered
    <3> QED BY <1>0, <2>3, <3>2
  <2>6. /\ \A x \in cur' : x.n \in 1 .. sent'[x.ch]
        /\ \A i \in 1 .. Len(frozen') : frozen'[i].n \in 1 .. sent'[frozen'[i].ch]
    <3>1. PICK N \in [Channels -> Nat] : N = sent'
      BY <2>3
    <3>2. frozen \in Seq(Node) /\ Emit(frozen, m) /\ m.n \in 1 .. N[m.ch]
          /\ \A i \in 1 .. Len(frozen) : frozen[i].n \in 1 .. N[frozen[i].ch]
      BY <1>0, <2>2, <2>4, <2>5, <3>1
    <3>3. /\ \A x \in cur' : x.n \in 1 .. N[x.ch]
          /\ \A i \in 1 .. Len(frozen') : frozen'[i].n \in 1 .. N[frozen'[i].ch]
      BY <1>1, <3>2
    <3> QED BY <3>1, <3>3
  <2>7. \A d \in Channels : Len(kinds'[d]) = sent'[d]
    <3>1. Len(Append(kinds[c], k)) = Len(kinds[c]) + 1
      BY <1>0
    <3> QED BY <1>0, <2>2, <3>1 DEF Numbered
  <2> QED BY <2>6, <2>7 DEF Numbered
<1>3. CASE UNCHANGED <<sent, kinds>>
  <2>1. Uses
    BY HandleUses, ContinueUses, EventUses, Quiet DEF Next, vars, tvars
  <2>2. \A c \in Channels : ~T!Recv(c)
    BY <1>0, <1>3 DEF T!Recv
  <2>3. CASE UNCHANGED <<cur, frozen>>
    BY <1>3, <2>3 DEF Numbered
  <2>4. CASE cur' = {} /\ frozen' = frozen
    BY <1>3, <2>4 DEF Numbered
  <2>5. CASE T!PutBack
    <3>1. PICK m \in cur : T!Requeue(m)
      BY <2>5 DEF T!PutBack
    <3>2. PICK x : x = [ch |-> m.ch, n |-> m.n, key |-> key'[m.ch]]
      OBVIOUS
    <3>3. frozen' = Append(frozen, x) /\ cur' = {}
      BY <3>1, <3>2 DEF T!Requeue
    <3>4. x.ch = m.ch /\ x.n = m.n /\ m.n \in 1 .. sent[m.ch]
      BY <3>2 DEF Numbered
    <3>5. key'[m.ch] \in Nat /\ m \in Message
      BY <1>0, <3>1, BridgeNext DEF TypeOK, Message
    <3>6. x \in Node
      BY <3>2, <3>5 DEF Node, Message
    <3>7. PICK t : t = Append(frozen, x)
      OBVIOUS
    <3>8. Len(t) = Len(frozen) + 1 /\ t[Len(frozen) + 1] = x /\ Len(frozen) \in Nat
          /\ \A i \in 1 .. Len(frozen) : t[i] = frozen[i]
      BY <1>0, <3>6, <3>7, Appended
    <3>9. \A i \in 1 .. Len(t) : t[i].n \in 1 .. sent[t[i].ch]
      BY <3>4, <3>8 DEF Numbered
    <3> QED BY <1>3, <3>3, <3>7, <3>9 DEF Numbered
  <2>6. CASE T!FlushNext
    <3>1. PICK i \in 1 .. Len(frozen) : T!Emit(T!DeleteLink(frozen, i), [ch |-> frozen[i].ch, n |-> frozen[i].n])
      BY <2>6 DEF T!FlushNext
    <3>2. PICK m : m = [ch |-> frozen[i].ch, n |-> frozen[i].n]
      OBVIOUS
    <3>3. PICK q : q = DeleteLink(frozen, i)
      OBVIOUS
    <3>4. Emit(q, m)
      BY <3>1, <3>2, <3>3 DEF Emit, T!Emit, Hold, T!Hold, DeleteLink, T!DeleteLink
    <3>5. frozen[i] \in Node
      BY <1>0
    <3>6. m \in Message /\ m.n \in 1 .. sent[m.ch]
      BY <3>2, <3>5 DEF Node, Message, Numbered
    <3>7. q \in Seq(Node)
      BY <1>0, <3>3, DeleteLinkProperties
    <3>8. \A j \in 1 .. Len(q) : \E k \in 1 .. Len(frozen) : q[j] = frozen[k]
      <4>1. Len(q) = Len(frozen) - 1 /\ Len(frozen) \in Nat
        BY <1>0, <3>3, DeleteLinkProperties
      <4>2. \A j \in 1 .. Len(frozen) - 1 : q[j] = IF j < i THEN frozen[j] ELSE frozen[j + 1]
        BY <3>3 DEF DeleteLink
      <4> QED BY <4>1, <4>2
    <3>9. \A j \in 1 .. Len(q) : q[j].n \in 1 .. sent[q[j].ch]
      BY <3>8 DEF Numbered
    <3> QED BY <1>0, <1>1, <1>3, <3>4, <3>6, <3>7, <3>9 DEF Numbered
  <2> QED BY <2>1, <2>2, <2>3, <2>4, <2>5, <2>6
        DEF Uses, T!TransportNext, T!Take, T!TakeAndFreeze, T!Taken, T!Thaw, T!FlushEnd, T!FlushDangling, T!Close, T!tvars
<1> QED BY <1>2, <1>3, Grows

LEMMA NumberedInit == Init => Numbered
BY DEF Init, TransportInit, Numbered

(* Who will thaw a frozen channel. *)

Unready == {"new", "unsupported", "prepared", "closing"}

\* The peer is starting and has noted the channel.
Starting(q, c) == q.other /\ ~q.inited /\ c \in q.channels /\ c \in ToSet(q.frozen)

FenceHolds(c) == fences # {} /\ c \in ToSet(fenced)

\* The call x will thaw c.
Wakes(x, c) == \/ x.f = "thaw" /\ x.ch = c
               \/ x.f = "resume" /\ c \in ToSet(x.q)
               \/ x.f = "orphans" /\ c \in x.chans

Thaws(s, c) == \E i \in 1 .. Len(s) : Wakes(s[i], c)

Holder(c) ==
  \/ local[c] \in Unready \/ (\E p \in Peers : Starting(peer[p], c)) \/ FenceHolds(c)
  \/ Thaws(stack, c) \/ ClosedSent(c)

LEMMA HolderIs == FrozenHasHolder <=> \A c \in freeze : Holder(c)
BY DEF FrozenHasHolder, Holder, Unready, Starting, FenceHolds, ThawUnderway, Thaws, Wakes

LEMMA ThawsAppend ==
  ASSUME NEW s \in Seq(Frame), NEW x \in Frame, NEW c
  PROVE  Thaws(Append(s, x), c) <=> Thaws(s, c) \/ Wakes(x, c)
<1>1. PICK t : t = Append(s, x)
  OBVIOUS
<1>2. Len(s) \in Nat /\ Len(t) = Len(s) + 1 /\ t[Len(s) + 1] = x /\ \A i \in 1 .. Len(s) : t[i] = s[i]
  BY <1>1, Appended
<1>3. Thaws(t, c) <=> Thaws(s, c) \/ Wakes(x, c)
  BY <1>2 DEF Thaws
<1> QED BY <1>1, <1>3

\* A call is made, or a call returns that thaws nothing.
LEMMA ThawsStay ==
  ASSUME TypeOK, NEW c, Thaws(stack, c),
         \/ stack' = stack
         \/ \E x \in Frame : stack' = Append(stack, x)
         \/ stack # <<>> /\ ~Wakes(Top, c) /\ (stack' = Pop \/ \E x \in Frame : stack' = Append(Pop, x))
  PROVE  Thaws(stack', c)
<1>1. stack \in Seq(Frame)
  BY DEF TypeOK
<1>2. CASE \E x \in Frame : stack' = Append(stack, x)
  BY <1>1, <1>2, ThawsAppend
<1>3. CASE stack # <<>> /\ ~Wakes(Top, c) /\ (stack' = Pop \/ \E x \in Frame : stack' = Append(Pop, x))
  <2>1. Pop \in Seq(Frame) /\ Top \in Frame /\ stack = Append(Pop, Top)
    BY <1>3, RunningStack
  <2>2. Thaws(Pop, c)
    BY <1>3, <2>1, ThawsAppend
  <2>3. ASSUME NEW x \in Frame, stack' = Append(Pop, x) PROVE Thaws(stack', c)
    <3>1. Thaws(Append(Pop, x), c)
      BY <2>1, <2>2, ThawsAppend
    <3> QED BY <2>3, <3>1
  <2> QED BY <1>3, <2>2, <2>3
<1> QED BY <1>2, <1>3

LEMMA IdleCalls ==
  ASSUME NEW fr, fr.f \notin {"thaw", "resume", "orphans"}, NEW c
  PROVE  ~Wakes(fr, c)
BY DEF Wakes

\* A step that changes no holder.
LEMMA Unheld ==
  ASSUME TypeOK, [Next]_vars, FrozenHasHolder, freeze' \subseteq freeze, NEW c \in freeze',
         Thaws(stack, c) => Thaws(stack', c),
         UNCHANGED <<local, fences, fenced>>,
         \A p \in Peers : Starting(peer[p], c) => Starting(peer'[p], c)
  PROVE  Holder(c)'
<1>1. c \in freeze /\ c \in Channels /\ Holder(c)
  BY HolderIs DEF TypeOK
<1>2. ClosedSent(c) => ClosedSent(c)'
  BY <1>1, ClosedStays
<1> QED BY <1>1, <1>2 DEF Holder, FenceHolds

\* A local channel closes: it was told, and the last fence lets go.
LEMMA CloseHolds ==
  ASSUME TypeOK, [Next]_vars, FrozenHasHolder, freeze' = freeze, NEW c \in freeze,
         NEW d \in Channels, NEW s \in Seq(Frame), CloseChannel(d, s) \/ ChannelClosed(d, s),
         Thaws(stack, c) => Thaws(s, c), peer' = peer
  PROVE  Holder(c)'
<1>1. c \in Channels /\ Holder(c)
  BY HolderIs DEF TypeOK
<1>2. ClosedSent(c) => ClosedSent(c)'
  BY <1>1, ClosedStays
<1>3. PICK x \in Frame : x = [f |-> "resume", q |-> fenced] /\ (Wakes(x, c) <=> c \in ToSet(fenced))
  <2>1. [f |-> "resume", q |-> fenced] \in Frame
    BY Frames DEF TypeOK
  <2> QED BY <2>1 DEF Wakes
<1>4. Thaws(Append(s, x), c) <=> Thaws(s, c) \/ c \in ToSet(fenced)
  BY <1>3, ThawsAppend
<1>5. Push(s, <<x>>) = Append(s, x)
  BY PushOne
<1>6. CASE ChannelClosed(d, s)
  <2>1. /\ local' = [local EXCEPT ![d] = "none"] /\ Send(d, "close") /\ fences' = fences \ {d}
        /\ IF fences = {d} THEN stack' = Append(s, x) ELSE fenced' = fenced /\ stack' = s
    BY <1>3, <1>5, <1>6 DEF ChannelClosed
  <2>2. Thaws(stack, c) => Holder(c)'
    BY <1>4, <2>1 DEF Holder
  <2>3. FenceHolds(c) => Holder(c)'
    BY <1>4, <2>1 DEF Holder, FenceHolds
  <2>4. local[c] \in Unready => Holder(c)'
    <3>1. CASE c = d
      BY <2>1, <3>1, ClosedStays DEF Holder
    <3>2. CASE c # d
      BY <1>1, <2>1, <3>2 DEF Holder, TypeOK
    <3> QED BY <3>1, <3>2
  <2> QED BY <1>1, <1>2, <2>2, <2>3, <2>4 DEF Holder
<1>7. CASE ChannelCloses(d, s)
  <2>1. local' = [local EXCEPT ![d] = "closing"] /\ stack' = s /\ UNCHANGED <<out, fences, fenced>>
    BY <1>7 DEF ChannelCloses
  <2>2. local[c] \in Unready => local'[c] \in Unready
    BY <1>1, <2>1 DEF Unready, TypeOK
  <2> QED BY <1>1, <1>2, <2>1, <2>2 DEF Holder, FenceHolds
<1> QED BY <1>6, <1>7 DEF CloseChannel

\* A peer ends: the loop over its channels thaws them.
LEMMA EndedHolds ==
  ASSUME TypeOK, [Next]_vars, FrozenHasHolder, freeze' = freeze, NEW c \in freeze,
         NEW p \in Peers, NEW s \in Seq(Frame), NEW r, NEW x, Ended(p, s, r, x),
         Thaws(stack, c) => Thaws(s, c), UNCHANGED rvars
  PROVE  Holder(c)'
<1>1. c \in Channels /\ Holder(c)
  BY HolderIs DEF TypeOK
<1>2. ClosedSent(c) => ClosedSent(c)'
  BY <1>1, ClosedStays
<1>3. x \in Frame /\ stack' = Append(s, x) /\ (c \in peer[p].channels => Wakes(x, c))
  BY DEF Ended, Wakes
<1>4. Thaws(stack', c) <=> Thaws(s, c) \/ Wakes(x, c)
  BY <1>3, ThawsAppend
<1>5. \A z \in Peers : Starting(peer[z], c) => Starting(peer'[z], c) \/ Wakes(x, c)
  <2>1. \A z \in Peers : z # p => peer'[z] = peer[z]
    BY DEF Ended, TypeOK
  <2>2. Starting(peer[p], c) => Wakes(x, c)
    BY <1>3 DEF Starting
  <2> QED BY <2>1, <2>2
<1> QED BY <1>1, <1>2, <1>4, <1>5 DEF Holder, FenceHolds, rvars

\* The handlers of a message.
LEMMA HandleHolds ==
  ASSUME TypeOK, Numbered, FrozenHasHolder, [Next]_vars, Handle
  PROVE  FrozenHasHolder'
<1> SUFFICES ASSUME NEW c \in freeze' PROVE Holder(c)'
  BY HolderIs DEF FrozenHasHolder, Holder, Unready, Starting, FenceHolds, ThawUnderway, Thaws, Wakes
<1>1. PICK m \in cur : \/ ~InWalk /\ (NoInit(m) \/ ProcessOpen(m))
                       \/ Route(m)
                       \/ WalkRules(m)
  BY DEF Handle
<1>2. UNCHANGED kinds /\ m.ch \in Channels /\ stack \in Seq(Frame)
  BY TakenType DEF Handle, TypeOK
<1>3. CASE NoInit(m) \/ OpenInUse(m) \/ Unclaimed(m)
  <2>1. freeze' = freeze /\ stack' = stack /\ peer' = peer /\ UNCHANGED <<local, fences, fenced>>
    BY <1>3 DEF NoInit, OpenInUse, Unclaimed, pvars, rvars
  <2> QED BY <2>1, Unheld
<1>4. ASSUME c \in freeze
      PROVE  /\ c \in Channels /\ Holder(c) /\ (ClosedSent(c) => ClosedSent(c)')
  BY <1>4, HolderIs, ClosedStays DEF TypeOK
<1>5. CASE OpenFenced(m)
  <2>1. /\ freeze' = freeze \cup {m.ch} /\ fenced' = Append(fenced, m.ch) /\ fences # {}
        /\ UNCHANGED <<stack, peer, local, fences>>
    BY <1>5 DEF OpenFenced, Requeue, Freeze, pvars
  <2>2. ToSet(fenced') = ToSet(fenced) \cup {m.ch}
    <3>1. fenced \in Seq(Channels)
      BY DEF TypeOK
    <3>2. ToSet(Append(fenced, m.ch)) = ToSet(fenced) \cup {m.ch}
      BY <1>2, <3>1, SetAppend
    <3> QED BY <2>1, <3>2
  <2>3. CASE c = m.ch
    BY <2>1, <2>2, <2>3 DEF Holder, FenceHolds
  <2>4. CASE c \in freeze
    BY <1>4, <2>1, <2>2, <2>4 DEF Holder, FenceHolds
  <2> QED BY <2>1, <2>3, <2>4
<1>6. ASSUME NEW state \in {"new", "unsupported"}, CreateChannel(m, state), stack' = stack \/ (InWalk /\ stack' = Pop),
             fences \subseteq fences'
      PROVE  Holder(c)'
  <2>1. freeze' = freeze \cup {m.ch} /\ local' = [local EXCEPT ![m.ch] = state] /\ peer' = peer /\ fenced' = fenced
    BY <1>6 DEF CreateChannel, Freeze
  <2>2. CASE c = m.ch
    BY <1>2, <2>1, <2>2 DEF Holder, Unready, TypeOK
  <2>3. CASE c \in freeze
    <3>1. Thaws(stack, c) => Thaws(stack', c)
      BY <1>6, ThawsStay, IdleCalls DEF InWalk
    <3>2. local[c] \in Unready => local'[c] \in Unready
      BY <1>2, <1>4, <2>1, <2>3 DEF Unready, TypeOK
    <3>3. FenceHolds(c) => FenceHolds(c)'
      BY <1>6, <2>1 DEF FenceHolds
    <3> QED BY <1>4, <2>1, <2>3, <3>1, <3>2, <3>3 DEF Holder
  <2> QED BY <2>1, <2>2, <2>3
<1>7. CASE OpenMalformed(m)
  BY <1>6, <1>7 DEF OpenMalformed
<1>8. CASE InWalk /\ (RulePayload(m) \/ RuleNotSupported(m))
  BY <1>6, <1>8 DEF RulePayload, RuleNotSupported
<1>9. CASE OpenWalk(m)
  <2>1. PICK x \in Frame : x = [f |-> "rules", i |-> 1]
    BY Frames
  <2>2. /\ freeze' = freeze /\ peer' = peer /\ UNCHANGED <<local, fences, fenced>> /\ stack' = Push(stack, <<x>>)
    BY <1>9, <2>1 DEF OpenWalk, pvars, rvars
  <2>3. stack' = Append(stack, x)
    BY <1>2, <2>2, PushOne
  <2>4. Thaws(stack, c) => Thaws(stack', c)
    BY <2>3, ThawsStay
  <2> QED BY <2>2, <2>4, Unheld
<1>10. CASE ToPeer(m)
  <2>1. freeze' = freeze /\ stack' = stack /\ UNCHANGED <<local, fences, fenced>>
    BY <1>10 DEF ToPeer, rvars
  <2>2. PICK h \in Peers : PeerForward(h, m, Kind(m) = "close")
    BY <1>10 DEF ToPeer
  <2>3. CASE peer' = peer
    BY <2>1, <2>3, Unheld
  <2>4. CASE Kind(m) = "close" /\ peer' = [peer EXCEPT ![h].channels = @ \ {m.ch}]
    <3>1. PICK r : peer' = [peer EXCEPT ![h] = r] /\ r = [peer[h] EXCEPT !.channels = @ \ {m.ch}]
      BY <2>4
    <3>2. /\ r.other = peer[h].other /\ r.inited = peer[h].inited /\ r.frozen = peer[h].frozen
          /\ r.channels = peer[h].channels \ {m.ch}
      BY <3>1 DEF TypeOK, PeerState
    <3>3. CASE c # m.ch
      <4>1. \A p \in Peers : Starting(peer[p], c) => Starting(peer'[p], c)
        BY <3>1, <3>2, <3>3 DEF Starting, TypeOK
      <4> QED BY <2>1, <4>1, Unheld
    <3>4. CASE c = m.ch
      <4>1. m.n \in 1 .. Len(kinds[c]) /\ kinds[c][m.n] = "close" /\ kinds[c] \in Seq(Kinds)
        BY <1>2, <2>4, <3>4 DEF Numbered, Kind, TypeOK
      <4>2. "close" \in ToSet(kinds[c])
        BY <4>1 DEF ToSet
      <4>3. ClosedSent(c)
        BY <4>2 DEF ClosedSent
      <4> QED BY <1>4, <2>1, <4>3 DEF Holder
    <3> QED BY <3>3, <3>4
  <2> QED BY <2>2, <2>3, <2>4 DEF PeerForward
<1>11. CASE ToLocal(m)
  <2>1. freeze' = freeze /\ peer' = peer
    BY <1>11 DEF ToLocal
  <2>2. CASE CloseChannel(m.ch, stack)
    BY <1>2, <2>1, <2>2, CloseHolds
  <2>3. CASE UNCHANGED <<stack, local, fences, fenced>>
    BY <2>1, <2>3, Unheld
  <2> QED BY <1>11, <2>2, <2>3 DEF ToLocal
<1>12. ASSUME InWalk, NextRule \/ stack' = Pop  PROVE Thaws(stack, c) => Thaws(stack', c)
  <2>1. stack # <<>> /\ Top.f = "rules" /\ Top \in Frame /\ Pop \in Seq(Frame)
    BY <1>12, RunningStack DEF InWalk
  <2>2. Top \in [f : {"rules"}, i : Nat]
    BY <2>1, FrameFields
  <2>3. PICK x \in Frame : x = [Top EXCEPT !.i = @ + 1]
    <3>1. [Top EXCEPT !.i = @ + 1] = [f |-> "rules", i |-> Top.i + 1] /\ Top.i + 1 \in Nat
      BY <2>2
    <3> QED BY <3>1, Frames
  <2>4. stack' = Pop \/ stack' = Append(Pop, x)
    BY <1>12, <2>1, <2>3, PushOne DEF NextRule
  <2>5. ~Wakes(Top, c)
    BY <2>1, IdleCalls
  <2> QED BY <2>1, <2>4, <2>5, ThawsStay
<1>13. CASE InWalk /\ (RuleSkip(m) \/ RulesEnd(m))
  <2>1. /\ freeze' = freeze /\ peer' = peer /\ UNCHANGED <<local, fences, fenced>> /\ (NextRule \/ stack' = Pop)
    BY <1>13 DEF RuleSkip, RulesEnd, pvars, rvars
  <2> QED BY <1>12, <1>13, <2>1, Unheld
<1>14. CASE InWalk /\ RulePeer(m)
  <2>1. PICK p, q, r : Tried(m, p, q, r)
    BY <1>14, RuleTried
  <2>2. UNCHANGED <<local, fences, fenced>> /\ (NextRule \/ stack' = Pop)
    BY <1>14, <2>1 DEF RulePeer, Tried, rvars
  <2>3. /\ p \in Peers /\ q \in Ensured(p) /\ peer' = [peer EXCEPT ![p] = r]
        /\ r \in {q, Adopt(q, m.ch), [Adopt(q, m.ch) EXCEPT !.frozen = Append(@, m.ch)]}
    BY <2>1 DEF Tried
  <2>4. /\ r.closed = q.closed /\ r.other = q.other /\ r.inited = q.inited
        /\ peer[p].other => q = peer[p]
        /\ q.other \/ q.closed
    BY <1>2, <2>3, EnsuredPeer
  <2>5. q \in PeerState
    BY <1>2, <2>3, PeerTypes
  <2>6. q.channels \subseteq r.channels /\ ToSet(q.frozen) \subseteq ToSet(r.frozen)
    <3>1. q.frozen \in Seq(Channels)
      BY <2>5 DEF PeerState
    <3>2. ToSet(Append(q.frozen, m.ch)) = ToSet(q.frozen) \cup {m.ch}
      BY <1>2, <3>1, SetAppend
    <3>3. r.frozen = q.frozen \/ r.frozen = Append(q.frozen, m.ch)
      BY <2>3, <2>5 DEF Adopt, PeerState
    <3>4. q.channels \subseteq r.channels
      BY <2>3, <2>5 DEF Adopt, PeerState
    <3> QED BY <3>2, <3>3, <3>4
  <2>7. \A z \in Peers : Starting(peer[z], c) => Starting(peer'[z], c)
    <3>1. Starting(peer[p], c) => Starting(r, c)
      BY <2>4, <2>6 DEF Starting
    <3> QED BY <2>3, <3>1 DEF TypeOK
  <2>8. CASE freeze' = freeze
    BY <1>12, <1>14, <2>2, <2>7, <2>8, Unheld
  <2>9. CASE HandleStarting(p, q, m)
    <3>1. freeze' = freeze \cup {m.ch}
      BY <2>9 DEF HandleStarting, Requeue, Freeze
    <3>2. CASE c = m.ch
      <4>1. peer' = [peer EXCEPT ![p] = [Adopt(q, m.ch) EXCEPT !.frozen = Append(@, m.ch)]] /\ ~q.closed /\ ~q.inited
        BY <2>9 DEF HandleStarting
      <4>2. peer'[p] = [Adopt(q, m.ch) EXCEPT !.frozen = Append(@, m.ch)]
        BY <2>3, <4>1 DEF TypeOK
      <4>3. q.frozen \in Seq(Channels)
        BY <2>5 DEF PeerState
      <4>4. /\ peer'[p].channels = q.channels \cup {m.ch} /\ peer'[p].frozen = Append(q.frozen, m.ch)
            /\ peer'[p].other = q.other /\ peer'[p].inited = q.inited
        BY <2>5, <4>2 DEF Adopt, PeerState
      <4>5. m.ch \in ToSet(peer'[p].frozen)
        BY <1>2, <4>3, <4>4, SetAppend
      <4>6. Starting(peer'[p], c)
        BY <2>4, <3>2, <4>1, <4>4, <4>5 DEF Starting
      <4> QED BY <2>3, <4>6 DEF Holder
    <3>3. CASE c \in freeze
      <4>1. Thaws(stack, c) => Thaws(stack', c)
        BY <1>12, <1>14, <2>2
      <4> QED BY <1>4, <2>2, <2>7, <3>3, <4>1 DEF Holder, FenceHolds
    <3> QED BY <3>1, <3>2, <3>3
  <2> QED BY <2>1, <2>8, <2>9 DEF Tried, HandleClosed, HandleInited
<1> QED BY <1>1, <1>3, <1>5, <1>7, <1>8, <1>9, <1>10, <1>11, <1>13, <1>14
        DEF ProcessOpen, Route, WalkRules

LEMMA ThawsTwo ==
  ASSUME NEW s \in Seq(Frame), NEW x \in Frame, NEW y \in Frame, NEW c
  PROVE  Thaws(Append(Append(s, x), y), c) <=> Thaws(s, c) \/ Wakes(x, c) \/ Wakes(y, c)
<1>1. PICK t \in Seq(Frame) : t = Append(s, x)
  BY Appended
<1>2. Thaws(Append(t, y), c) <=> Thaws(t, c) \/ Wakes(y, c)
  BY ThawsAppend
<1>3. Thaws(Append(s, x), c) <=> Thaws(s, c) \/ Wakes(x, c)
  BY ThawsAppend
<1> QED BY <1>1, <1>2, <1>3

\* The calls that go on.
LEMMA ContinueHolds ==
  ASSUME TypeOK, StackOK, FrozenHasHolder, [Next]_vars, Continue
  PROVE  FrozenHasHolder'
<1> SUFFICES ASSUME NEW c \in freeze' PROVE Holder(c)'
  BY HolderIs DEF FrozenHasHolder, Holder, Unready, Starting, FenceHolds, ThawUnderway, Thaws, Wakes
<1>0. stack \in Seq(Frame)
  BY DEF TypeOK
<1>1. ASSUME stack # <<>>
      PROVE  /\ Pop \in Seq(Frame) /\ Top \in Frame /\ stack = Append(Pop, Top)
             /\ Thaws(stack, c) <=> Thaws(Pop, c) \/ Wakes(Top, c)
  <2>1. Pop \in Seq(Frame) /\ Top \in Frame /\ stack = Append(Pop, Top)
    BY <1>1, RunningStack
  <2> QED BY <2>1, ThawsAppend
<1>2. CASE FlushNext /\ UNCHANGED <<pvars, rvars>>
  <2>1. PICK i : i \in 1 .. Len(frozen) /\ stack' = Advance(i)
    BY <1>2 DEF FlushNext
  <2>2. stack # <<>> /\ Top.f = "flush" /\ peer' = peer /\ freeze' = freeze /\ UNCHANGED <<local, fences, fenced>>
    BY <1>2 DEF FlushNext, Walking, pvars, rvars
  <2>3. PICK x : stack' = [stack EXCEPT ![Len(stack)] = x]
    BY <2>1 DEF Advance
  <2>4. \A i1 \in 1 .. Len(stack) : i1 # Len(stack) => stack'[i1] = stack[i1]
    BY <1>0, <2>3
  <2>5. Len(stack') = Len(stack) /\ Len(stack) \in Nat
    BY <1>0, <2>3
  <2>6. ~Wakes(stack[Len(stack)], c)
    BY <2>2, IdleCalls DEF Top
  <2>7. Thaws(stack, c) => Thaws(stack', c)
    BY <2>4, <2>5, <2>6 DEF Thaws
  <2> QED BY <2>2, <2>7, Unheld
<1>3. CASE \/ (FlushEnd \/ FlushDangling) /\ UNCHANGED <<pvars, rvars>>
           \/ ChannelSendReady \/ KillEnd \/ SetBridgesEnd
  <2>1. /\ stack # <<>> /\ Top.f \notin {"thaw", "resume", "orphans"} /\ stack' = Pop /\ peer' = peer
        /\ freeze' = freeze /\ UNCHANGED <<local, fences, fenced>>
    BY <1>3 DEF FlushEnd, FlushDangling, ChannelSendReady, KillEnd, SetBridgesEnd, Walking, Running, pvars, rvars
  <2>2. Thaws(stack, c) => Thaws(stack', c)
    BY <1>1, <2>1, IdleCalls
  <2> QED BY <2>1, <2>2, Unheld
<1>4. ASSUME NEW d \in Channels, Orphan(d), UNCHANGED rvars  PROVE Holder(c)'
  <2>1. PICK x : x = [Top EXCEPT !.chans = @ \ {d}]
    OBVIOUS
  <2>2. PICK y \in Frame : y = [f |-> "thaw", ch |-> d]
    BY Frames
  <2>3. /\ stack # <<>> /\ Top.f = "orphans" /\ stack' = Push(Pop, <<x, y>>) /\ peer' = peer /\ freeze' = freeze
        /\ UNCHANGED <<local, fences, fenced>>
    BY <1>4, <2>1, <2>2 DEF Orphan, Running, rvars
  <2>4. Top \in [f : {"orphans"}, p : Peers, problem : BOOLEAN, chans : SUBSET Channels]
    BY <1>1, <2>3, FrameFields
  <2>5. x = [f |-> "orphans", p |-> Top.p, problem |-> Top.problem, chans |-> Top.chans \ {d}]
    BY <2>1, <2>4
  <2>6. x \in Frame
    BY <2>4, <2>5, Frames
  <2>7. stack' = Append(Append(Pop, x), y) /\ Append(Pop, x) \in Seq(Frame)
    BY <1>1, <2>2, <2>3, <2>6, PushTwo
  <2>8. Thaws(stack', c) <=> Thaws(Pop, c) \/ Wakes(x, c) \/ Wakes(y, c)
    <3>1. Thaws(Append(Append(Pop, x), y), c) <=> Thaws(Pop, c) \/ Wakes(x, c) \/ Wakes(y, c)
      BY <1>1, <2>2, <2>3, <2>6, ThawsTwo
    <3> QED BY <2>7, <3>1
  <2>9. Wakes(Top, c) => Wakes(x, c) \/ Wakes(y, c)
    BY <2>2, <2>3, <2>5 DEF Wakes
  <2>10. Thaws(stack, c) => Thaws(stack', c)
    BY <1>1, <2>3, <2>8, <2>9
  <2> QED BY <2>3, <2>10, Unheld
<1>5. CASE OrphansEnd /\ UNCHANGED rvars
  <2>1. PICK x : x = [f |-> "reset", p |-> Top.p]
    OBVIOUS
  <2>2. /\ stack # <<>> /\ Top.f = "orphans" /\ stack' \in {Pop, Push(Pop, <<x>>)} /\ peer' = peer /\ Top.chans = {}
        /\ freeze' = freeze /\ UNCHANGED <<local, fences, fenced>>
    BY <1>5, <2>1 DEF OrphansEnd, Running, pvars, rvars
  <2>3. Top \in [f : {"orphans"}, p : Peers, problem : BOOLEAN, chans : SUBSET Channels]
    BY <1>1, <2>2, FrameFields
  <2>4. x \in Frame
    BY <2>1, <2>3, Frames
  <2>5. Push(Pop, <<x>>) = Append(Pop, x)
    BY <1>1, <2>2, <2>4, PushOne
  <2>6. ~Wakes(Top, c)
    BY <2>2 DEF Wakes
  <2>7. Thaws(Pop, c) => Thaws(Append(Pop, x), c)
    BY <1>1, <2>2, <2>4, ThawsAppend
  <2>8. Thaws(stack, c) => Thaws(stack', c)
    BY <1>1, <2>2, <2>5, <2>6, <2>7
  <2> QED BY <2>2, <2>8, Unheld
<1>6. CASE ResetClose /\ UNCHANGED rvars
  <2>1. stack # <<>> /\ Top.f = "reset" /\ freeze' = freeze
    BY <1>6 DEF ResetClose, Running
  <2>2. PICK p \in Peers : p = Top.p
    BY <1>1, <2>1, FrameFields
  <2>3. PICK y \in Frame : y = [f |-> "clear", p |-> p]
    BY Frames
  <2>4. PICK s \in Seq(Frame) : s = Push(Pop, <<y>>) /\ s = Append(Pop, y)
    BY <1>1, <2>1, PushOne
  <2>5. Thaws(stack, c) => Thaws(s, c)
    <3>1. Thaws(Pop, c) => Thaws(Append(Pop, y), c)
      BY <1>1, <2>1, ThawsAppend
    <3> QED BY <1>1, <2>1, <2>4, <3>1, IdleCalls
  <2>6. CASE ~peer[p].other
    <3>1. stack' = s /\ peer' = peer /\ UNCHANGED <<local, fences, fenced>>
      BY <1>6, <2>2, <2>3, <2>4, <2>6 DEF ResetClose, rvars
    <3> QED BY <2>1, <2>5, <3>1, Unheld
  <2>7. CASE peer[p].other
    <3>1. OtherClosed(p, s)
      BY <1>6, <2>2, <2>3, <2>4, <2>7 DEF ResetClose
    <3>2. PICK r, x : Ended(p, s, r, x)
      BY <3>1, OtherClosedForm
    <3> QED BY <1>6, <2>1, <2>5, <3>2, EndedHolds
  <2> QED BY <2>6, <2>7
<1>7. CASE (ResetClear /\ UNCHANGED rvars) \/ Dispose
  <2>1. /\ stack # <<>> /\ Top.f \in {"clear", "dispose"} /\ stack' = Pop /\ freeze' = freeze
        /\ UNCHANGED <<local, fences, fenced>>
    BY <1>7 DEF ResetClear, Dispose, Running, rvars
  <2>2. PICK p \in Peers : p = Top.p
    BY <1>1, <2>1, FrameFields
  <2>3. ~peer[p].other
    BY <1>1, <2>1, <2>2, CallsAnew DEF StackOK
  <2>4. PICK r : peer' = [peer EXCEPT ![p] = r]
    BY <1>7, <2>2 DEF ResetClear, Dispose
  <2>5. \A z \in Peers : Starting(peer[z], c) => Starting(peer'[z], c)
    BY <2>3, <2>4 DEF Starting, TypeOK
  <2>6. Thaws(stack, c) => Thaws(stack', c)
    BY <1>1, <2>1, IdleCalls
  <2> QED BY <2>1, <2>5, <2>6, Unheld
<1>8. CASE Resume /\ UNCHANGED rvars
  <2>1. PICK x, y : x = [Top EXCEPT !.q = Tail(@)] /\ y = [f |-> "thaw", ch |-> Head(Top.q)]
    OBVIOUS
  <2>2. /\ stack # <<>> /\ Top.f = "resume" /\ peer' = peer /\ freeze' = freeze
        /\ stack' = IF Top.q = <<>> THEN Pop ELSE Push(Pop, <<x, y>>)
        /\ UNCHANGED <<local, fences, fenced>>
    BY <1>8, <2>1 DEF Resume, Running, pvars, rvars
  <2>3. Top \in [f : {"resume"}, q : Seq(Channels)]
    BY <1>1, <2>2, FrameFields
  <2>4. CASE Top.q = <<>>
    <3>1. ~Wakes(Top, c)
      BY <2>2, <2>4 DEF Wakes, ToSet
    <3>2. Thaws(stack, c) => Thaws(stack', c)
      BY <1>1, <2>2, <2>4, <3>1
    <3> QED BY <2>2, <3>2, Unheld
  <2>5. CASE Top.q # <<>>
    <3>1. PICK q \in Seq(Channels) : q = Top.q /\ q # <<>>
      BY <2>3, <2>5
    <3>2. Head(q) \in Channels /\ Tail(q) \in Seq(Channels)
      BY <3>1
    <3>3. x = [f |-> "resume", q |-> Tail(q)] /\ y = [f |-> "thaw", ch |-> Head(q)]
      BY <2>1, <2>3, <3>1
    <3>4. x \in Frame /\ y \in Frame
      BY <3>2, <3>3, Frames
    <3>5. stack' = Append(Append(Pop, x), y) /\ Append(Pop, x) \in Seq(Frame)
      BY <1>1, <2>2, <2>5, <3>4, PushTwo
    <3>6. Thaws(stack', c) <=> Thaws(Pop, c) \/ Wakes(x, c) \/ Wakes(y, c)
      <4>1. Thaws(Append(Append(Pop, x), y), c) <=> Thaws(Pop, c) \/ Wakes(x, c) \/ Wakes(y, c)
        BY <1>1, <2>2, <3>4, ThawsTwo
      <4> QED BY <3>5, <4>1
    <3>7. ToSet(q) \subseteq ToSet(Tail(q)) \cup {Head(q)}
      <4> SUFFICES ASSUME NEW i \in 1 .. Len(q), q[i] # Head(q) PROVE q[i] \in ToSet(Tail(q))
        BY <3>1 DEF ToSet
      <4>1. i # 1 /\ Len(q) \in Nat
        BY <3>1
      <4>2. i - 1 \in 1 .. Len(q) - 1 /\ Len(Tail(q)) = Len(q) - 1 /\ Tail(q)[i - 1] = q[i]
        BY <3>1, <4>1
      <4>3. DOMAIN Tail(q) = 1 .. Len(Tail(q))
        BY <3>2
      <4> QED BY <4>2, <4>3 DEF ToSet
    <3>8. Wakes(Top, c) => Wakes(x, c) \/ Wakes(y, c)
      BY <2>2, <3>1, <3>3, <3>7 DEF Wakes
    <3>9. Thaws(stack, c) => Thaws(stack', c)
      BY <1>1, <2>2, <3>6, <3>8
    <3> QED BY <2>2, <3>9, Unheld
  <2> QED BY <2>4, <2>5
<1>9. CASE ThawCall /\ UNCHANGED rvars
  <2>1. PICK x : x = Walk(Top.ch)
    OBVIOUS
  <2>2. /\ stack # <<>> /\ Top.f = "thaw" /\ freeze' = freeze \ {Top.ch} /\ peer' = peer
        /\ stack' \in {Pop, Push(Pop, <<x>>)} /\ UNCHANGED <<local, fences, fenced>>
    BY <1>9, <2>1 DEF ThawCall, Running, pvars, rvars
  <2>3. Top.ch \in Channels
    BY <1>1, <2>2, FrameFields
  <2>4. x \in Frame
    BY <2>1, <2>3, WalkType, Frames
  <2>5. Push(Pop, <<x>>) = Append(Pop, x)
    BY <1>1, <2>2, <2>4, PushOne
  <2>6. ~Wakes(Top, c)
    BY <2>2 DEF Wakes
  <2>7. Thaws(Pop, c) => Thaws(Append(Pop, x), c)
    BY <1>1, <2>2, <2>4, ThawsAppend
  <2>8. Thaws(stack, c) => Thaws(stack', c)
    BY <1>1, <2>2, <2>5, <2>6, <2>7
  <2> QED BY <2>2, <2>8, Unheld
<1>10. ASSUME NEW d \in Channels, Kill(d)  PROVE Holder(c)'
  <2>1. PICK x : x = [Top EXCEPT !.chans = @ \ {d}]
    OBVIOUS
  <2>2. /\ stack # <<>> /\ Top.f = "kill" /\ peer' = peer /\ freeze' = freeze
        /\ \/ CloseChannel(d, Push(Pop, <<x>>))
           \/ stack' = Push(Pop, <<x>>) /\ UNCHANGED <<local, fences, fenced>>
    BY <1>10, <2>1 DEF Kill, Running
  <2>3. Top \in [f : {"kill"}, chans : SUBSET Channels]
    BY <1>1, <2>2, FrameFields
  <2>4. x = [f |-> "kill", chans |-> Top.chans \ {d}]
    BY <2>1, <2>3
  <2>5. x \in Frame
    BY <2>3, <2>4, Frames
  <2>6. PICK s \in Seq(Frame) : s = Append(Pop, x) /\ s = Push(Pop, <<x>>)
    <3>1. Pop \in Seq(Frame) /\ Push(Pop, <<x>>) = Append(Pop, x)
      BY <1>1, <2>2, <2>5, PushOne
    <3>2. Append(Pop, x) \in Seq(Frame)
      BY <2>5, <3>1
    <3> QED BY <3>1, <3>2
  <2>7. Thaws(stack, c) => Thaws(s, c)
    <3>1. Thaws(Pop, c) => Thaws(Append(Pop, x), c)
      BY <1>1, <2>2, <2>5, ThawsAppend
    <3> QED BY <1>1, <2>2, <2>6, <3>1, IdleCalls
  <2>8. CASE CloseChannel(d, s)
    BY <2>2, <2>7, <2>8, CloseHolds
  <2> QED BY <2>2, <2>6, <2>7, <2>8, Unheld
<1>11. CASE SetBridgesRule
  <2>1. PICK x, y, z : /\ x = [Top EXCEPT !.old = Tail(@)] /\ y = [f |-> "dispose", p |-> Head(Top.old)]
                       /\ z = [f |-> "reset", p |-> Head(Top.old)]
    OBVIOUS
  <2>2. /\ stack # <<>> /\ Top.f = "bridges" /\ peer' = peer /\ freeze' = freeze /\ Top.old # <<>>
        /\ stack' = IF Head(Top.old) \in Peers THEN Push(Push(Pop, <<x>>), <<y, z>>) ELSE Push(Pop, <<x>>)
        /\ UNCHANGED <<local, fences, fenced>>
    BY <1>11, <2>1 DEF SetBridgesRule, Running, pvars
  <2>3. Top \in [f : {"bridges"}, old : Seq(Peers \cup ToSet(BuiltIn))]
    BY <1>1, <2>2, FrameFields
  <2>4. x = [f |-> "bridges", old |-> Tail(Top.old)] /\ Tail(Top.old) \in Seq(Peers \cup ToSet(BuiltIn))
    <3>1. Tail(Top.old) \in Seq(Peers \cup ToSet(BuiltIn))
      BY <2>2, <2>3
    <3>2. PICK t : t = Tail(Top.old)
      OBVIOUS
    <3>3. x = [f |-> "bridges", old |-> t]
      BY <2>1, <2>3, <3>2
    <3> QED BY <3>1, <3>2, <3>3
  <2>5. x \in Frame
    BY <2>4, Frames
  <2>6. PICK s \in Seq(Frame) : s = Append(Pop, x) /\ s = Push(Pop, <<x>>)
    <3>1. Pop \in Seq(Frame) /\ Push(Pop, <<x>>) = Append(Pop, x)
      BY <1>1, <2>2, <2>5, PushOne
    <3>2. Append(Pop, x) \in Seq(Frame)
      BY <2>5, <3>1
    <3> QED BY <3>1, <3>2
  <2>7. Thaws(stack, c) => Thaws(s, c)
    <3>1. Thaws(Pop, c) => Thaws(Append(Pop, x), c)
      BY <1>1, <2>2, <2>5, ThawsAppend
    <3> QED BY <1>1, <2>2, <2>6, <3>1, IdleCalls
  <2>8. CASE Head(Top.old) \in Peers
    <3>1. y \in Frame /\ z \in Frame
      BY <2>1, <2>8, Frames
    <3>2. stack' = Append(Append(s, y), z) /\ Append(s, y) \in Seq(Frame)
      BY <2>2, <2>6, <2>8, <3>1, PushTwo
    <3>3. Thaws(s, c) => Thaws(stack', c)
      BY <3>1, <3>2, ThawsAppend
    <3> QED BY <2>2, <2>7, <3>3, Unheld
  <2> QED BY <2>2, <2>6, <2>7, <2>8, Unheld
<1> QED BY <1>2, <1>3, <1>4, <1>5, <1>6, <1>7, <1>8, <1>9, <1>10, <1>11 DEF Continue

\* What the main loop calls.
LEMMA EventHolds ==
  ASSUME TypeOK, FrozenHasHolder, [Next]_vars
  PROVE  /\ Frontend \/ Reload => FrozenHasHolder'
         /\ \A p \in Peers : PeerEvent(p) \/ PeerChannelEvent(p) \/ PeerTimer(p) => FrozenHasHolder'
         /\ \A c \in Channels : Prepare(c) \/ LocalEvent(c) => FrozenHasHolder'
<1>0. stack \in Seq(Frame)
  BY DEF TypeOK
<1>1. ASSUME \A c \in freeze' : Holder(c)'  PROVE FrozenHasHolder'
  BY <1>1, HolderIs DEF FrozenHasHolder, Holder, Unready, Starting, FenceHolds, ThawUnderway, Thaws, Wakes
<1>2. ASSUME freeze' = freeze, UNCHANGED <<local, fences, fenced>>,
             \/ stack' = stack
             \/ \E x \in Frame : stack' = Append(stack, x),
             \A c \in Channels : \A p \in Peers : Starting(peer[p], c) => Starting(peer'[p], c)
      PROVE  FrozenHasHolder'
  <2>1. ASSUME NEW c \in freeze' PROVE Holder(c)'
    <3>1. c \in Channels
      BY <1>2, <2>1 DEF TypeOK
    <3>2. Thaws(stack, c) => Thaws(stack', c)
      BY <1>2, ThawsStay
    <3> QED BY <1>2, <2>1, <3>1, <3>2, Unheld
  <2> QED BY <1>1, <2>1
<1>3. ASSUME NEW c \in Channels, NEW k, FrontSend(c, k)  PROVE FrozenHasHolder'
  BY <1>2, <1>3 DEF FrontSend, Recv, pvars, rvars
<1>4. ASSUME NEW good, FrontInit(good)  PROVE FrozenHasHolder'
  BY <1>2, <1>4 DEF FrontInit, pvars
<1>5. ASSUME NEW g, FrontKill(g)  PROVE FrozenHasHolder'
  <2>1. Group(g) \in SUBSET Channels
    BY DEF Group
  <2>2. PICK x \in Frame : x = [f |-> "kill", chans |-> Group(g)]
    BY <2>1, Frames
  <2>3. stack' = Push(stack, <<x>>) /\ freeze' = freeze /\ peer' = peer /\ UNCHANGED <<local, fences, fenced>>
    BY <1>5, <2>2 DEF FrontKill, pvars, rvars
  <2>4. stack' = Append(stack, x)
    BY <1>0, <2>3, PushOne
  <2> QED BY <1>2, <2>3, <2>4
<1>6. ASSUME NEW bs \in Bridges, SetBridges(bs)  PROVE FrozenHasHolder'
  <2>1. PICK x : x = [f |-> "bridges", old |-> Without(rules, ToSet(bs) \cap ToSet(rules))]
    OBVIOUS
  <2>2. Without(rules, ToSet(bs) \cap ToSet(rules)) \in Seq(Peers \cup ToSet(BuiltIn))
    BY WithoutType DEF TypeOK
  <2>3. x \in Frame
    BY <2>1, <2>2, Frames
  <2>4. stack' = Push(stack, <<x>>) /\ freeze' = freeze /\ peer' = peer /\ UNCHANGED <<local, fences, fenced>>
    BY <1>6, <2>1 DEF SetBridges, pvars
  <2>5. stack' = Append(stack, x)
    BY <1>0, <2>3, <2>4, PushOne
  <2> QED BY <1>2, <2>3, <2>4, <2>5
<1>7. ASSUME NEW p \in Peers, OtherInit(p), UNCHANGED rvars  PROVE FrozenHasHolder'
  <2>1. peer[p].frozen \in Seq(Channels)
    BY DEF TypeOK, PeerState
  <2>2. PICK x \in Frame : x = [f |-> "resume", q |-> peer[p].frozen]
    BY <2>1, Frames
  <2>3. /\ stack' = Push(stack, <<x>>) /\ freeze' = freeze /\ UNCHANGED <<local, fences, fenced>>
    BY <1>7, <2>2 DEF OtherInit, rvars
  <2>4. stack' = Append(stack, x)
    BY <1>0, <2>3, PushOne
  <2>5. \A z \in Peers : z # p => peer'[z] = peer[z]
    BY <1>7 DEF OtherInit, TypeOK
  <2>6. ASSUME NEW c \in freeze' PROVE Holder(c)'
    <3>1. c \in Channels /\ Holder(c)
      BY <2>3, <2>6, HolderIs DEF TypeOK
    <3>2. ClosedSent(c) => ClosedSent(c)'
      BY <3>1, ClosedStays
    <3>3. Thaws(stack', c) <=> Thaws(stack, c) \/ Wakes(x, c)
      <4>1. Thaws(Append(stack, x), c) <=> Thaws(stack, c) \/ Wakes(x, c)
        BY <1>0, ThawsAppend
      <4> QED BY <2>4, <4>1
    <3>4. Starting(peer[p], c) => Wakes(x, c)
      BY <2>2 DEF Starting, Wakes
    <3>5. \A z \in Peers : Starting(peer[z], c) => Starting(peer'[z], c) \/ Wakes(x, c)
      BY <2>5, <3>4
    <3> QED BY <2>3, <3>1, <3>2, <3>3, <3>5 DEF Holder, FenceHolds
  <2> QED BY <1>1, <2>6
<1>8. ASSUME NEW p \in Peers, OtherExit(p), UNCHANGED rvars  PROVE FrozenHasHolder'
  <2>1. freeze' = freeze /\ OtherClosed(p, stack)
    BY <1>8 DEF OtherExit
  <2>2. PICK r, x : Ended(p, stack, r, x)
    BY <1>0, <2>1, OtherClosedForm
  <2>3. ASSUME NEW c \in freeze' PROVE Holder(c)'
    BY <1>0, <1>8, <2>1, <2>2, <2>3, EndedHolds
  <2> QED BY <1>1, <2>3
<1>9. ASSUME NEW p \in Peers, UNCHANGED rvars,
             OtherInitProblem(p) \/ PeerTimeout(p) \/ \E d \in Channels : OtherReady(p, d) \/ OtherClose(p, d)
      PROVE  FrozenHasHolder'
  <2>1. freeze' = freeze /\ UNCHANGED <<local, fences, fenced>>
    BY <1>9 DEF OtherInitProblem, PeerTimeout, OtherReady, OtherClose, tvars, rvars
  <2>2. PICK x \in Frame : x = [f |-> "reset", p |-> p]
    BY Frames
  <2>3. stack' = stack \/ stack' = Push(stack, <<x>>)
    BY <1>9, <2>2 DEF OtherInitProblem, PeerTimeout, OtherReady, OtherClose, tvars
  <2>4. Push(stack, <<x>>) = Append(stack, x)
    BY <1>0, PushOne
  <2>5. \A c \in Channels : \A z \in Peers : Starting(peer[z], c) => Starting(peer'[z], c)
    <3>1. CASE OtherInitProblem(p)
      <4>1. PICK r : peer' = [peer EXCEPT ![p] = r] /\ r = [peer[p] EXCEPT !.failure = TRUE]
        BY <3>1 DEF OtherInitProblem
      <4>2. r.other = peer[p].other /\ r.inited = peer[p].inited /\ r.channels = peer[p].channels /\ r.frozen = peer[p].frozen
        BY <4>1 DEF TypeOK, PeerState
      <4> QED BY <4>1, <4>2 DEF Starting, TypeOK
    <3>2. CASE PeerTimeout(p)
      <4>1. PICK r : peer' = [peer EXCEPT ![p] = r] /\ r = [peer[p] EXCEPT !.timer = FALSE]
        BY <3>2 DEF PeerTimeout
      <4>2. r.other = peer[p].other /\ r.inited = peer[p].inited /\ r.channels = peer[p].channels /\ r.frozen = peer[p].frozen
        BY <4>1 DEF TypeOK, PeerState
      <4> QED BY <4>1, <4>2 DEF Starting, TypeOK
    <3>3. CASE \E d \in Channels : OtherReady(p, d)
      BY <3>3 DEF OtherReady
    <3>4. CASE \E d \in Channels : OtherClose(p, d)
      <4>1. peer[p].inited /\ \E r : peer' = [peer EXCEPT ![p] = r]
        BY <3>4 DEF OtherClose
      <4> QED BY <4>1 DEF Starting, TypeOK
    <3> QED BY <1>9, <3>1, <3>2, <3>3, <3>4
  <2> QED BY <1>2, <2>1, <2>2, <2>3, <2>4, <2>5
<1>10. ASSUME NEW d \in Channels,
             ChannelPrepare(d) \/ ChannelReady(d) \/ ChannelClose(d) \/ ChannelEnded(d)
      PROVE  FrozenHasHolder'
  <2>1. PICK x \in Frame : x = [f |-> "ready", ch |-> d]
    BY Frames
  <2>2. PICK y \in Frame : y = [f |-> "thaw", ch |-> d]
    BY Frames
  <2>3. ReadyFrames(d) = <<x, y>>
    BY <2>1, <2>2 DEF ReadyFrames
  <2>4. freeze' = freeze /\ peer' = peer
    BY <1>10 DEF ChannelPrepare, ChannelReady, ChannelClose, ChannelEnded, pvars
  <2>5. \/ CloseChannel(d, stack) \/ ChannelClosed(d, stack)
        \/ /\ UNCHANGED <<fences, fenced>>
           /\ \/ stack' = stack /\ local' = [local EXCEPT ![d] = "prepared"]
              \/ stack' = Push(stack, <<x, y>>) /\ local' = [local EXCEPT ![d] = "ready"]
    BY <1>10, <2>3 DEF ChannelPrepare, ChannelReady, ChannelClose, ChannelEnded
  <2>6. ASSUME NEW c \in freeze' PROVE Holder(c)'
    <3>1. c \in Channels /\ Holder(c)
      BY <2>4, <2>6, HolderIs DEF TypeOK
    <3>2. ClosedSent(c) => ClosedSent(c)'
      BY <3>1, ClosedStays
    <3>3. CASE CloseChannel(d, stack) \/ ChannelClosed(d, stack)
      BY <1>0, <2>4, <2>6, <3>3, CloseHolds
    <3>4. CASE stack' = stack /\ local' = [local EXCEPT ![d] = "prepared"] /\ UNCHANGED <<fences, fenced>>
      <4>1. local[c] \in Unready => local'[c] \in Unready
        BY <3>1, <3>4 DEF Unready, TypeOK
      <4> QED BY <2>4, <3>1, <3>2, <3>4, <4>1 DEF Holder, FenceHolds
    <3>5. CASE stack' = Push(stack, <<x, y>>) /\ local' = [local EXCEPT ![d] = "ready"] /\ UNCHANGED <<fences, fenced>>
      <4>1. stack' = Append(Append(stack, x), y)
        BY <1>0, <3>5, PushTwo
      <4>2. Thaws(Append(Append(stack, x), y), c) <=> Thaws(stack, c) \/ Wakes(x, c) \/ Wakes(y, c)
        BY <1>0, ThawsTwo
      <4>3. local[c] \in Unready => local'[c] \in Unready \/ Wakes(y, c)
        BY <2>2, <3>1, <3>5 DEF Wakes, TypeOK
      <4> QED BY <2>4, <3>1, <3>2, <3>5, <4>1, <4>2, <4>3 DEF Holder, FenceHolds
    <3> QED BY <2>5, <3>3, <3>4, <3>5
  <2> QED BY <1>1, <2>6
<1>11. Frontend \/ Reload => FrozenHasHolder'
  BY <1>3, <1>4, <1>5, <1>6 DEF Frontend, Reload
<1>12. ASSUME NEW p \in Peers, PeerEvent(p) \/ PeerChannelEvent(p) \/ PeerTimer(p)  PROVE FrozenHasHolder'
  BY <1>7, <1>8, <1>9, <1>12 DEF PeerEvent, PeerChannelEvent, PeerTimer
<1>13. ASSUME NEW c \in Channels, Prepare(c) \/ LocalEvent(c)  PROVE FrozenHasHolder'
  BY <1>10, <1>13 DEF Prepare, LocalEvent
<1> QED BY <1>11, <1>12, <1>13

HolderInv == TypeOK /\ StackOK /\ Numbered /\ FrozenHasHolder

LEMMA HolderInvStep == HolderInv /\ [Next]_vars => HolderInv'
<1> SUFFICES ASSUME HolderInv, [Next]_vars PROVE HolderInv'
  OBVIOUS
<1>1. TypeOK' /\ StackOK' /\ Numbered'
  BY BridgeNext, StackStep, NumberedStep DEF HolderInv
<1>2. CASE UNCHANGED vars
  <2>1. FrozenHasHolder'
    BY <1>2 DEF HolderInv, FrozenHasHolder, ThawUnderway, ClosedSent, vars, tvars, pvars, rvars
  <2> QED BY <1>1, <2>1 DEF HolderInv
<1>3. CASE Next
  <2>1. FrozenHasHolder'
    BY <1>3, HandleHolds, ContinueHolds, EventHolds DEF HolderInv, Next
  <2> QED BY <1>1, <2>1 DEF HolderInv
<1> QED BY <1>2, <1>3

(***************************************************************************)
(* A frozen channel always waits for somebody who will thaw it: for any    *)
(* channels, peers, rules, reloads, fences and timeouts, whatever ends in  *)
(* whatever order (cockpit_peer_handle, on_other_control, on_other_closed, *)
(* on_channel_closed, cockpit_channel_ready).                              *)
(***************************************************************************)
THEOREM FrozenIsHeld == Spec => []FrozenHasHolder
<1>1. Init => HolderInv
  <2>1. Init => FrozenHasHolder
    BY DEF Init, TransportInit, FrozenHasHolder
  <2> QED BY <2>1, BridgeInit, StackInit, NumberedInit DEF HolderInv
<1>2. HolderInv => FrozenHasHolder
  BY DEF HolderInv
<1> QED BY <1>1, <1>2, HolderInvStep, PTL DEF Spec

(***************************************************************************)
(* What a step does to one peer.  It may lose channels that are closed;    *)
(* its process may end, in the main loop or while it is reset; it may be   *)
(* made anew; and its rule may be tried.                                   *)
(***************************************************************************)
Kept(p) ==
  /\ peer'[p].closed = peer[p].closed /\ peer'[p].other = peer[p].other
  /\ peer'[p].problem = peer[p].problem
  /\ peer[p].inited => peer'[p].inited
  /\ peer'[p].channels \subseteq peer[p].channels
  /\ \A c \in peer[p].channels : c \in peer'[p].channels \/ ClosedSent(c)'

Fell(p) ==
  /\ peer[p].other /\ peer'[p].closed /\ ~peer'[p].other /\ peer'[p].channels = {}
  /\ Idle \/ (Running("reset") /\ Top.p = p)
  /\ \E s \in Seq(Frame) : \E x \in Frame :
       /\ stack' = Append(s, x) /\ x.f = "orphans" /\ x.chans = peer[p].channels
       /\ peer[p].inited => x.problem
  /\ UNCHANGED <<freeze, taken, sent>>

Wiped(p) ==
  /\ Running("clear") \/ Running("dispose")
  /\ Top.p = p
  /\ ~peer'[p].closed /\ peer'[p].channels = {} /\ (peer'[p].other => peer[p].other)

Turned(p) == \E m \in cur, q \in Ensured(p) : InWalk /\ RulePeer(m) /\ Tried(m, p, q, peer'[p])

\* Only a peer with a timeout gets a timer.
Timed(p) == peer'[p].timer => peer[p].timer \/ p \in Timeout

Changed(p) == Timed(p) /\ (Kept(p) \/ Fell(p) \/ Wiped(p) \/ Turned(p))

LEMMA SamePeer ==
  ASSUME NEW p, peer'[p] = peer[p]
  PROVE  Changed(p)
BY DEF Changed, Timed, Kept

\* The message is a close.
LEMMA CloseKind ==
  ASSUME TypeOK, Numbered, NEW m \in cur, Kind(m) = "close", [Next]_vars
  PROVE  ClosedSent(m.ch)'
<1>1. m.ch \in Channels /\ m.n \in 1 .. sent[m.ch] /\ Len(kinds[m.ch]) = sent[m.ch] /\ kinds[m.ch] \in Seq(Kinds)
  BY TakenType DEF Numbered, TypeOK
<1>2. "close" \in ToSet(kinds[m.ch])
  BY <1>1 DEF Kind, ToSet
<1>3. ClosedSent(m.ch)
  BY <1>2 DEF ClosedSent
<1> QED BY <1>1, <1>3, ClosedStays

\* The handlers of a message.
LEMMA HandleChanges ==
  ASSUME TypeOK, Numbered, [Next]_vars, Handle, NEW p \in Peers
  PROVE  Changed(p)
<1>1. PICK m \in cur : \/ NoInit(m) \/ ProcessOpen(m)
                       \/ Route(m)
                       \/ WalkRules(m)
  BY DEF Handle
<1>3. CASE NoInit(m) \/ ProcessOpen(m)
  <2>1. peer' = peer
    BY <1>3 DEF NoInit, ProcessOpen, OpenInUse, OpenFenced, OpenMalformed, OpenWalk, CreateChannel, pvars
  <2> QED BY <2>1, SamePeer
<1>4. CASE Unclaimed(m) \/ ToLocal(m)
  <2>1. peer' = peer
    BY <1>4 DEF Unclaimed, ToLocal, pvars
  <2> QED BY <2>1, SamePeer
<1>5. CASE ToPeer(m)
  <2>1. PICK h \in Peers : PeerForward(h, m, Kind(m) = "close")
    BY <1>5 DEF ToPeer
  <2>2. CASE Kind(m) = "close" /\ h = p
    <3>1. peer' = [peer EXCEPT ![h].channels = @ \ {m.ch}]
      BY <2>1, <2>2 DEF PeerForward
    <3>2. PICK q \in PeerState : q = peer[p]
      BY DEF TypeOK
    <3>3. PICK C : C = q.channels \ {m.ch}
      OBVIOUS
    <3>4. peer'[p] = [q EXCEPT !.channels = C]
      BY <2>2, <3>1, <3>2, <3>3 DEF TypeOK
    <3>5. /\ peer'[p].closed = q.closed /\ peer'[p].other = q.other /\ peer'[p].problem = q.problem
          /\ peer'[p].inited = q.inited /\ peer'[p].timer = q.timer /\ peer'[p].channels = C
      BY <3>2, <3>4 DEF PeerState
    <3>6. ClosedSent(m.ch)'
      BY <2>2, CloseKind
    <3> QED BY <3>2, <3>3, <3>5, <3>6 DEF Changed, Timed, Kept
  <2>3. CASE ~(Kind(m) = "close" /\ h = p)
    <3>1. peer'[p] = peer[p]
      BY <2>1, <2>3 DEF PeerForward, TypeOK
    <3> QED BY <3>1, SamePeer
  <2> QED BY <2>2, <2>3
<1>6. CASE WalkRules(m)
  <2>1. CASE RuleSkip(m) \/ RulesEnd(m) \/ RulePayload(m) \/ RuleNotSupported(m)
    <3>1. peer' = peer
      BY <2>1 DEF RuleSkip, RulesEnd, RulePayload, RuleNotSupported, CreateChannel, pvars
    <3> QED BY <3>1, SamePeer
  <2>2. CASE InWalk /\ RulePeer(m)
    <3>1. PICK z, q, r : Tried(m, z, q, r)
      BY <2>2, RuleTried
    <3>2. z \in Peers /\ q \in Ensured(z) /\ peer' = [peer EXCEPT ![z] = r]
      BY <3>1 DEF Tried
    <3>3. CASE z = p
      <4>1. peer'[p] = r
        BY <3>2, <3>3 DEF TypeOK
      <4>2. Turned(p)
        BY <2>2, <3>1, <3>2, <3>3, <4>1 DEF Turned
      <4>3. peer'[p].timer => peer[p].timer
        <5>1. PICK v \in PeerState : v = q
          BY <3>2, <3>3, PeerTypes, TakenType
        <5>2. q.timer = peer[p].timer
          <6>1. peer[p] \in PeerState
            BY DEF TypeOK
          <6> QED BY <3>2, <3>3, <6>1 DEF Ensured, PeerState
        <5>3. r.timer => v.timer
          <6>1. r \in {v, Adopt(v, m.ch), [Adopt(v, m.ch) EXCEPT !.frozen = Append(@, m.ch)]}
            BY <3>1, <5>1 DEF Tried
          <6> QED BY <5>1, <6>1 DEF Adopt, PeerState
        <5> QED BY <4>1, <5>1, <5>2, <5>3
      <4> QED BY <4>2, <4>3 DEF Changed, Timed
    <3>4. CASE z # p
      <4>1. peer'[p] = peer[p]
        BY <3>2, <3>4 DEF TypeOK
      <4> QED BY <4>1, SamePeer
    <3> QED BY <3>3, <3>4
  <2> QED BY <1>6, <2>1, <2>2 DEF WalkRules
<1> QED BY <1>1, <1>3, <1>4, <1>5, <1>6 DEF Route

\* A process ends.
LEMMA EndedChanges ==
  ASSUME TypeOK, NEW z \in Peers, NEW s \in Seq(Frame), OtherClosed(z, s), peer[z].other,
         Idle \/ (Running("reset") /\ Top.p = z), UNCHANGED <<freeze, taken, sent>>, NEW p \in Peers
  PROVE  Changed(p)
<1>1. PICK r, x : Ended(z, s, r, x)
  BY OtherClosedForm
<1>2. CASE z = p
  <2>1. peer'[p] = r
    BY <1>1, <1>2 DEF Ended, TypeOK
  <2>2. Fell(p)
    BY <1>1, <1>2, <2>1 DEF Fell, Ended
  <2>3. Timed(p)
    BY <1>1, <1>2, <2>1 DEF Timed, Ended
  <2> QED BY <2>2, <2>3 DEF Changed
<1>3. CASE z # p
  <2>1. peer'[p] = peer[p]
    BY <1>1, <1>3 DEF Ended, TypeOK
  <2> QED BY <2>1, SamePeer
<1> QED BY <1>2, <1>3

\* A peer is made anew.
LEMMA AnewChanges ==
  ASSUME TypeOK, Running("clear") \/ Running("dispose"), NEW p \in Peers,
         \/ peer' = [peer EXCEPT ![Top.p] = [NewPeer EXCEPT !.other = peer[Top.p].other]]
         \/ peer' = [peer EXCEPT ![Top.p] = NewPeer]
  PROVE  Changed(p)
<1>1. PICK z \in Peers : z = Top.p
  BY RunningStack, FrameFields DEF Running
<1>2. PICK b : b = peer[z].other
  OBVIOUS
<1>3. PICK r : (r = [NewPeer EXCEPT !.other = b] \/ r = NewPeer) /\ peer' = [peer EXCEPT ![z] = r]
  BY <1>1, <1>2
<1>4. ~r.closed /\ r.channels = {} /\ (r.other => b) /\ ~r.timer
  BY <1>3 DEF NewPeer
<1>5. CASE z = p
  <2>1. peer'[p] = r
    BY <1>3, <1>5 DEF TypeOK
  <2> QED BY <1>1, <1>2, <1>4, <1>5, <2>1 DEF Changed, Wiped, Timed
<1>6. CASE z # p
  <2>1. peer'[p] = peer[p]
    BY <1>3, <1>6 DEF TypeOK
  <2> QED BY <2>1, SamePeer
<1> QED BY <1>5, <1>6

\* The calls that go on.
LEMMA ContinueChanges ==
  ASSUME TypeOK, [Next]_vars, Continue, NEW p \in Peers
  PROVE  Changed(p)
<1>1. CASE peer' = peer
  BY <1>1, SamePeer
<1>2. CASE ResetClose
  <2>1. stack # <<>> /\ Top.f = "reset" /\ Running("reset") /\ UNCHANGED <<freeze, taken, sent>>
    BY <1>2 DEF ResetClose, Running
  <2>2. PICK z \in Peers : z = Top.p
    BY <2>1, RunningStack, FrameFields
  <2>3. PICK y \in Frame : y = [f |-> "clear", p |-> z]
    BY Frames
  <2>4. PICK s \in Seq(Frame) : s = Push(Pop, <<y>>)
    BY <2>1, RunningStack, Pushed
  <2>5. CASE ~peer[z].other
    <3>1. peer' = peer
      BY <1>2, <2>2, <2>5 DEF ResetClose
    <3> QED BY <3>1, SamePeer
  <2>6. CASE peer[z].other
    <3>1. OtherClosed(z, s)
      BY <1>2, <2>2, <2>3, <2>4, <2>6 DEF ResetClose
    <3> QED BY <2>1, <2>2, <2>6, <3>1, EndedChanges
  <2> QED BY <2>5, <2>6
<1>3. CASE ResetClear \/ Dispose
  BY <1>3, AnewChanges DEF ResetClear, Dispose
<1> QED BY <1>1, <1>2, <1>3
        DEF Continue, Orphan, OrphansEnd, Resume, ThawCall, ChannelSendReady, Kill, KillEnd,
            SetBridgesRule, SetBridgesEnd, pvars

\* One field of a peer is set, or two.
LEMMA EventChanges ==
  ASSUME TypeOK, [Next]_vars, NEW z \in Peers, NEW p \in Peers,
         PeerEvent(z) \/ PeerChannelEvent(z) \/ PeerTimer(z)
  PROVE  Changed(p)
<1>1. PICK v \in PeerState : v = peer[z]
  BY DEF TypeOK
<1>2. ASSUME NEW r, peer' = [peer EXCEPT ![z] = r],
             r.closed = v.closed, r.other = v.other, r.problem = v.problem, v.inited => r.inited,
             r.channels \subseteq v.channels, \A c \in v.channels : c \in r.channels \/ ClosedSent(c)',
             r.timer => v.timer \/ z \in Timeout
      PROVE  Changed(p)
  <2>1. CASE z = p
    <3>1. peer'[p] = r
      BY <1>2, <2>1 DEF TypeOK
    <3> QED BY <1>1, <1>2, <2>1, <3>1 DEF Changed, Kept, Timed
  <2>2. CASE z # p
    <3>1. peer'[p] = peer[p]
      BY <1>2, <2>2 DEF TypeOK
    <3> QED BY <3>1, SamePeer
  <2> QED BY <2>1, <2>2
<1>3. CASE OtherInit(z)
  <2>1. PICK r : r = [v EXCEPT !.inited = TRUE, !.frozen = <<>>]
    OBVIOUS
  <2>2. peer' = [peer EXCEPT ![z] = r]
    BY <1>1, <1>3, <2>1 DEF OtherInit
  <2>3. /\ r.closed = v.closed /\ r.other = v.other /\ r.problem = v.problem /\ r.inited
        /\ r.channels = v.channels /\ r.timer = v.timer
    BY <1>1, <2>1 DEF PeerState
  <2> QED BY <1>2, <2>2, <2>3
<1>4. CASE OtherInitProblem(z)
  <2>1. PICK r : r = [v EXCEPT !.failure = TRUE]
    OBVIOUS
  <2>2. peer' = [peer EXCEPT ![z] = r]
    BY <1>1, <1>4, <2>1 DEF OtherInitProblem, TypeOK
  <2>3. /\ r.closed = v.closed /\ r.other = v.other /\ r.problem = v.problem /\ r.inited = v.inited
        /\ r.channels = v.channels /\ r.timer = v.timer
    BY <1>1, <2>1 DEF PeerState
  <2> QED BY <1>2, <2>2, <2>3
<1>5. CASE OtherExit(z)
  <2>1. stack \in Seq(Frame)
    BY DEF TypeOK
  <2> QED BY <1>5, <2>1, EndedChanges DEF OtherExit
<1>6. ASSUME NEW c \in Channels, OtherReady(z, c) PROVE Changed(p)
  <2>1. peer' = peer
    BY <1>6 DEF OtherReady
  <2> QED BY <2>1, SamePeer
<1>7. ASSUME NEW c \in Channels, OtherClose(z, c) PROVE Changed(p)
  <2>1. PICK C : C = v.channels \ {c}
    OBVIOUS
  <2>2. PICK t : t = IF C = {} THEN z \in Timeout ELSE v.timer
    OBVIOUS
  <2>3. PICK r : r = [v EXCEPT !.channels = C, !.timer = t]
    OBVIOUS
  <2>4. peer' = [peer EXCEPT ![z] = r]
    BY <1>1, <1>7, <2>1, <2>2, <2>3 DEF OtherClose
  <2>5. /\ r.closed = v.closed /\ r.other = v.other /\ r.problem = v.problem /\ r.inited = v.inited
        /\ r.channels = C /\ r.timer = t
    BY <1>1, <2>3 DEF PeerState
  <2>6. ClosedSent(c)'
    BY <1>7, ClosedStays DEF OtherClose
  <2>7. t => v.timer \/ z \in Timeout
    BY <2>2
  <2> QED BY <1>2, <2>1, <2>4, <2>5, <2>6, <2>7
<1>8. CASE PeerTimeout(z)
  <2>1. PICK r : r = [v EXCEPT !.timer = FALSE]
    OBVIOUS
  <2>2. peer' = [peer EXCEPT ![z] = r]
    BY <1>1, <1>8, <2>1 DEF PeerTimeout, TypeOK
  <2>3. /\ r.closed = v.closed /\ r.other = v.other /\ r.problem = v.problem /\ r.inited = v.inited
        /\ r.channels = v.channels /\ r.timer = FALSE
    BY <1>1, <2>1 DEF PeerState
  <2> QED BY <1>2, <2>2, <2>3
<1> QED BY <1>3, <1>4, <1>5, <1>6, <1>7, <1>8 DEF PeerEvent, PeerChannelEvent, PeerTimer

LEMMA PeersChange ==
  ASSUME TypeOK, Numbered, [Next]_vars, NEW p \in Peers
  PROVE  Changed(p)
<1>1. CASE Frontend \/ Reload
  <2>1. peer' = peer
    BY <1>1 DEF Frontend, FrontSend, FrontInit, FrontKill, Reload, SetBridges, pvars
  <2> QED BY <2>1, SamePeer
<1>2. ASSUME NEW c \in Channels, Prepare(c) \/ LocalEvent(c)  PROVE Changed(p)
  <2>1. peer' = peer
    BY <1>2 DEF Prepare, LocalEvent, ChannelPrepare, ChannelReady, ChannelClose, ChannelEnded, pvars
  <2> QED BY <2>1, SamePeer
<1>3. CASE UNCHANGED vars
  BY <1>3, SamePeer DEF vars, pvars
<1> QED BY <1>1, <1>2, <1>3, HandleChanges, ContinueChanges, EventChanges DEF Next

\* What is picked is at one of the places.
LEMMA PickedSet ==
  ASSUME NEW S, NEW s \in Seq(S), NEW I
  PROVE  ToSet(Picked(s, I)) = {s[k] : k \in I \cap (1 .. Len(s))}
<1> DEFINE n == Len(s)
<1>1. n \in Nat
  OBVIOUS
<1> HIDE DEF n
<1>2. PICK g : Picks(s, I, n, g)
  BY <1>1, PicksExists
<1>3. \A i \in 0 .. n : g[i] = IF i = 0 THEN <<>>
                        ELSE IF i \in I THEN Append(g[i - 1], s[i]) ELSE g[i - 1]
  BY <1>2 DEF Picks
<1> DEFINE At(i) == {s[k] : k \in I \cap (1 .. i)}
           N == {i \in 0 .. n : ~(g[i] \in Seq(S) /\ ToSet(g[i]) = At(i))}
<1>4. N = {}
  <2> SUFFICES ASSUME N # {} PROVE FALSE
    OBVIOUS
  <2>0. N \in SUBSET Nat
    BY <1>1
  <2>1. PICK i \in N : \A k \in N : i <= k
    <3> HIDE DEF N
    <3> QED BY <2>0, Least
  <2>2. i # 0
    <3>1. g[0] = <<>> /\ <<>> \in Seq(S) /\ ToSet(<<>>) = {}
      BY <1>1, <1>3 DEF ToSet
    <3>2. At(0) = {}
      OBVIOUS
    <3> HIDE DEF At
    <3> QED BY <3>1, <3>2
  <2>3. i - 1 \in 0 .. n /\ ~(i <= i - 1) /\ i \in 1 .. n
    BY <1>1, <2>2
  <2>4. g[i - 1] \in Seq(S) /\ s[i] \in S /\ ToSet(g[i - 1]) = At(i - 1)
    <3>1. s[i] \in S
      BY <2>3 DEF n
    <3>2. i - 1 \notin N
      <4> HIDE DEF N
      <4> QED BY <2>1, <2>3
    <3> HIDE DEF At
    <3> QED BY <2>3, <3>1, <3>2
  <2>5. At(i) = IF i \in I THEN At(i - 1) \cup {s[i]} ELSE At(i - 1)
    BY <2>3
  <2>6. g[i] \in Seq(S) /\ ToSet(g[i]) = At(i)
    <3> HIDE DEF At
    <3>1. g[i] = IF i \in I THEN Append(g[i - 1], s[i]) ELSE g[i - 1]
      BY <1>3, <2>2
    <3>2. Append(g[i - 1], s[i]) \in Seq(S) /\ ToSet(Append(g[i - 1], s[i])) = ToSet(g[i - 1]) \cup {s[i]}
      BY <2>4, SetAppend
    <3> QED BY <2>4, <2>5, <3>1, <3>2
  <2> HIDE DEF At
  <2> QED BY <2>6
<1>5. Picked(s, I) = g[n]
  BY <1>1, <1>2, PickedValue DEF n
<1>6. ToSet(g[n]) = At(n)
  <2> HIDE DEF At
  <2> QED BY <1>1, <1>4
<1> QED BY <1>5, <1>6 DEF n

LEMMA WithoutSet ==
  ASSUME NEW S, NEW s \in Seq(S), NEW X
  PROVE  ToSet(Without(s, X)) = ToSet(s) \ X
<1> DEFINE I == {i \in DOMAIN s : s[i] \notin X}
<1>1. Without(s, X) = Picked(s, I)
  BY DEF Without
<1>2. ToSet(Picked(s, I)) = {s[k] : k \in I \cap (1 .. Len(s))}
  <2> HIDE DEF I
  <2> QED BY PickedSet
<1>3. {s[k] : k \in I \cap (1 .. Len(s))} = ToSet(s) \ X
  BY DEF ToSet
<1> QED BY <1>1, <1>2, <1>3

(***************************************************************************)
(* What a step does to one local channel, and to its place among the       *)
(* handlers.                                                               *)
(***************************************************************************)
Stays(c) == local'[c] = local[c] /\ (c \in ToSet(handlers') <=> c \in ToSet(handlers))

Readies(c) == local[c] \in {"new", "prepared"} /\ local'[c] \in {"prepared", "ready"} /\ handlers' = handlers

Closing(c) == local[c] # "none" /\ local'[c] = "closing" /\ c \notin ToSet(handlers')

Closes(c) ==
  /\ local'[c] = "none" /\ ClosedSent(c)'
  /\ c \notin ToSet(handlers') \/ (local[c] = "closing" /\ handlers' = handlers)

Opened(c) ==
  \E m \in cur :
    /\ m.ch = c
    /\ CreateChannel(m, "new") \/ CreateChannel(m, "unsupported")
    /\ \/ ~InWalk /\ Kind(m) = "open" /\ Admitted(m) /\ c \in Malformed
       \/ InWalk /\ (RulePayload(m) \/ RuleNotSupported(m))

Moved(c) == Stays(c) \/ Readies(c) \/ Closing(c) \/ Closes(c) \/ Opened(c)

LEMMA SameLocal ==
  ASSUME NEW c, local' = local, handlers' = handlers
  PROVE  Moved(c)
BY DEF Moved, Stays

LEMMA CloseMoves ==
  ASSUME TypeOK, [Next]_vars, NEW d \in Channels, NEW c \in Channels, NEW s,
         CloseChannel(d, s) \/ (ChannelClosed(d, s) /\ handlers' = handlers /\ local[d] = "closing")
  PROVE  Moved(c)
<1>1. ToSet(Without(handlers, {d})) = ToSet(handlers) \ {d}
  BY WithoutSet DEF TypeOK
<1>2. CASE CloseChannel(d, s)
  <2>1. handlers' = Without(handlers, {d}) /\ (ChannelClosed(d, s) \/ ChannelCloses(d, s))
    BY <1>2 DEF CloseChannel
  <2>2. CASE c = d /\ ChannelClosed(d, s)
    <3>1. Send(c, "close") /\ local'[c] = "none"
      BY <2>2 DEF ChannelClosed, TypeOK
    <3>2. ClosedSent(c)'
      BY <3>1, ClosedStays
    <3> QED BY <1>1, <2>1, <2>2, <3>1, <3>2 DEF Moved, Closes
  <2>3. CASE c = d /\ ChannelCloses(d, s)
    <3>1. local'[c] = "closing" /\ local[c] # "none"
      BY <2>3 DEF ChannelCloses, TypeOK
    <3> QED BY <1>1, <2>1, <2>3, <3>1 DEF Moved, Closing
  <2>4. CASE c # d
    <3>1. local'[c] = local[c]
      BY <2>1, <2>4 DEF ChannelClosed, ChannelCloses, TypeOK
    <3> QED BY <1>1, <2>1, <2>4, <3>1 DEF Moved, Stays
  <2> QED BY <2>1, <2>2, <2>3, <2>4
<1>3. CASE ChannelClosed(d, s) /\ handlers' = handlers /\ local[d] = "closing"
  <2>1. Send(d, "close") /\ local' = [local EXCEPT ![d] = "none"]
    BY <1>3 DEF ChannelClosed
  <2>2. ClosedSent(d)'
    BY <2>1, ClosedStays
  <2> QED BY <1>3, <2>1, <2>2 DEF Moved, Closes, Stays, TypeOK
<1> QED BY <1>2, <1>3

\* A local channel is created.
LEMMA CreateMoves ==
  ASSUME TypeOK, NEW m \in cur, NEW c \in Channels,
         CreateChannel(m, "new") \/ CreateChannel(m, "unsupported"), c # m.ch
  PROVE  Stays(c)
<1>1. m.ch \in Channels /\ handlers \in Seq(Peers \cup Channels)
  BY TakenType DEF TypeOK
<1>2. local'[c] = local[c] /\ handlers' = Append(handlers, m.ch)
  BY DEF CreateChannel, TypeOK
<1>3. ToSet(Append(handlers, m.ch)) = ToSet(handlers) \cup {m.ch}
  BY <1>1, SetAppend
<1> QED BY <1>2, <1>3 DEF Stays

LEMMA HandleMoves ==
  ASSUME TypeOK, [Next]_vars, Handle, NEW c \in Channels
  PROVE  Moved(c)
<1>1. PICK m \in cur : \/ ~InWalk /\ (NoInit(m) \/ ProcessOpen(m))
                       \/ Route(m)
                       \/ WalkRules(m)
  BY DEF Handle
<1>2. CASE NoInit(m) \/ OpenInUse(m) \/ OpenFenced(m) \/ OpenWalk(m) \/ Unclaimed(m) \/ ToPeer(m)
  <2>1. local' = local /\ handlers' = handlers
    BY <1>2 DEF NoInit, OpenInUse, OpenFenced, OpenWalk, Unclaimed, ToPeer, rvars
  <2> QED BY <2>1, SameLocal
<1>3. CASE ~InWalk /\ ProcessOpen(m) /\ OpenMalformed(m)
  <2>1. CreateChannel(m, "unsupported") /\ Kind(m) = "open" /\ Admitted(m) /\ m.ch \in Malformed
    BY <1>3 DEF OpenMalformed, ProcessOpen
  <2>2. CASE m.ch = c
    BY <1>3, <2>1, <2>2 DEF Moved, Opened
  <2>3. CASE m.ch # c
    BY <2>1, <2>3, CreateMoves DEF Moved
  <2> QED BY <2>2, <2>3
<1>4. CASE ToLocal(m)
  <2>1. CloseChannel(m.ch, stack) \/ UNCHANGED <<handlers, local>>
    BY <1>4 DEF ToLocal
  <2> QED BY <2>1, CloseMoves, SameLocal, TakenType
<1>5. CASE WalkRules(m)
  <2>1. CASE RuleSkip(m) \/ RulePeer(m) \/ RulesEnd(m)
    <3>1. local' = local /\ handlers' = handlers
      BY <2>1 DEF RuleSkip, RulePeer, RulesEnd, rvars
    <3> QED BY <3>1, SameLocal
  <2>2. CASE InWalk /\ (RulePayload(m) \/ RuleNotSupported(m))
    <3>1. CreateChannel(m, "new") \/ CreateChannel(m, "unsupported")
      BY <2>2 DEF RulePayload, RuleNotSupported
    <3>2. CASE m.ch = c
      BY <2>2, <3>1, <3>2 DEF Moved, Opened
    <3>3. CASE m.ch # c
      BY <3>1, <3>3, CreateMoves DEF Moved
    <3> QED BY <3>2, <3>3
  <2> QED BY <1>5, <2>1, <2>2 DEF WalkRules
<1> QED BY <1>1, <1>2, <1>3, <1>4, <1>5 DEF Route, ProcessOpen

LEMMA LocalsMove ==
  ASSUME TypeOK, [Next]_vars, ~Reload, NEW c \in Channels
  PROVE  Moved(c)
<1>1. CASE Continue
  <2>1. CASE local' = local /\ handlers' = handlers
    BY <2>1, SameLocal
  <2>2. ASSUME NEW d \in Channels, Kill(d) PROVE Moved(c)
    <3>1. PICK s : CloseChannel(d, s) \/ UNCHANGED <<handlers, local>>
      BY <2>2 DEF Kill
    <3> QED BY <3>1, CloseMoves, SameLocal
  <2>3. CASE Dispose
    <3>1. local' = local /\ handlers' = Without(handlers, {Top.p}) /\ stack # <<>> /\ Top.f = "dispose"
      BY <2>3 DEF Dispose, Running
    <3>2. Top.p \in Peers
      BY <3>1, RunningStack, FrameFields
    <3>3. c # Top.p
      BY <3>2, NamesAssumption
    <3>4. ToSet(Without(handlers, {Top.p})) = ToSet(handlers) \ {Top.p}
      BY WithoutSet DEF TypeOK
    <3> QED BY <3>1, <3>3, <3>4 DEF Moved, Stays
  <2> QED BY <1>1, <2>1, <2>2, <2>3
          DEF Continue, ChannelSendReady, KillEnd, SetBridgesRule, SetBridgesEnd, rvars
<1>2. CASE Frontend
  <2>1. local' = local /\ handlers' = handlers
    BY <1>2 DEF Frontend, FrontSend, FrontInit, FrontKill, rvars
  <2> QED BY <2>1, SameLocal
<1>3. ASSUME NEW p \in Peers, PeerEvent(p) \/ PeerChannelEvent(p) \/ PeerTimer(p)
      PROVE  Moved(c)
  <2>1. local' = local /\ handlers' = handlers
    BY <1>3 DEF PeerEvent, PeerChannelEvent, PeerTimer, rvars
  <2> QED BY <2>1, SameLocal
<1>4. ASSUME NEW d \in Channels, Prepare(d) \/ LocalEvent(d)  PROVE Moved(c)
  <2>1. \/ CloseChannel(d, stack)
        \/ ChannelClosed(d, stack) /\ handlers' = handlers /\ local[d] = "closing"
        \/ /\ local[d] \in {"new", "prepared"} /\ handlers' = handlers
           /\ \/ local' = [local EXCEPT ![d] = "prepared"]
              \/ local' = [local EXCEPT ![d] = "ready"]
    BY <1>4 DEF Prepare, LocalEvent, ChannelPrepare, ChannelReady, ChannelClose, ChannelEnded
  <2>2. CASE /\ local[d] \in {"new", "prepared"} /\ handlers' = handlers
             /\ \/ local' = [local EXCEPT ![d] = "prepared"]
                \/ local' = [local EXCEPT ![d] = "ready"]
    BY <2>2 DEF Moved, Readies, Stays, TypeOK
  <2> QED BY <2>1, <2>2, CloseMoves
<1>5. CASE UNCHANGED vars
  BY <1>5, SameLocal DEF vars, rvars
<1> QED BY <1>1, <1>2, <1>3, <1>4, <1>5, HandleMoves DEF Next

(***************************************************************************)
(* What a step does to the stack while no list of bridges is replaced: a   *)
(* call may return, and one call or two may be made.                       *)
(***************************************************************************)
Fresh(x) ==
  /\ x \in Frame /\ x.f \notin {"bridges", "dispose"}
  /\ x.f = "reset" =>
       \/ Running("orphans") /\ Top.p = x.p /\ x.p \in Timeout /\ peer' = peer
       \/ peer[x.p].timer /\ peer'[x.p].channels = {}
  /\ x.f = "clear" => Running("reset") /\ Top.p = x.p

Steady(x) == x.f # "reset"

Base(b) == b \in Seq(Frame) /\ (b = stack \/ (stack # <<>> /\ b = Pop))

Rises ==
  \E b : /\ Base(b)
         /\ \/ stack' = b
            \/ \E x : stack' = Append(b, x) /\ Fresh(x)
            \/ \E x, y : /\ stack' = Append(Append(b, x), y)
                         /\ Fresh(x) /\ Fresh(y) /\ Steady(x) /\ Steady(y)

LEMMA Bases ==
  ASSUME TypeOK
  PROVE  Base(stack) /\ (stack # <<>> => Base(Pop))
BY RunningStack DEF Base, TypeOK

LEMMA RisesNone ==
  ASSUME NEW b, Base(b), stack' = b
  PROVE  Rises
BY DEF Rises

LEMMA RisesOne ==
  ASSUME NEW b, Base(b), NEW x, Fresh(x), stack' = Push(b, <<x>>)
  PROVE  Rises
<1>1. stack' = Append(b, x)
  BY PushOne DEF Base, Fresh
<1> QED BY <1>1 DEF Rises

LEMMA RisesTwo ==
  ASSUME NEW b, Base(b), NEW x, NEW y, Fresh(x), Fresh(y), Steady(x), Steady(y), stack' = Push(b, <<x, y>>)
  PROVE  Rises
<1>1. stack' = Append(Append(b, x), y)
  BY PushTwo DEF Base, Fresh
<1> QED BY <1>1 DEF Rises

\* A local channel closes, with the call x to go on with, or none.
LEMMA RisesClose ==
  ASSUME TypeOK, NEW c \in Channels, NEW b, Base(b), NEW s, CloseChannel(c, s) \/ ChannelClosed(c, s),
         s = b \/ \E x : Fresh(x) /\ Steady(x) /\ s = Push(b, <<x>>)
  PROVE  Rises
<1>1. PICK y \in Frame : y = [f |-> "resume", q |-> fenced]
  BY Frames DEF TypeOK
<1>2. Fresh(y) /\ Steady(y)
  BY <1>1 DEF Fresh, Steady
<1>3. stack' = s \/ stack' = Push(s, <<y>>)
  BY <1>1 DEF CloseChannel, ChannelClosed, ChannelCloses
<1>4. CASE s = b
  BY <1>2, <1>3, <1>4, RisesNone, RisesOne
<1>5. ASSUME NEW x, Fresh(x), Steady(x), s = Push(b, <<x>>) PROVE Rises
  <2>1. s = Append(b, x) /\ Push(Append(b, x), <<y>>) = Append(Append(b, x), y)
    <3>1. x \in Frame /\ b \in Seq(Frame)
      BY <1>5 DEF Fresh, Base
    <3>2. Append(b, x) \in Seq(Frame)
      BY <3>1, Appended
    <3> QED BY <1>5, <3>1, <3>2, PushOne
  <2>2. CASE stack' = s
    BY <1>5, <2>2, RisesOne
  <2>3. CASE stack' = Push(s, <<y>>)
    BY <1>2, <1>5, <2>1, <2>3 DEF Rises
  <2> QED BY <1>3, <2>2, <2>3
<1> QED BY <1>4, <1>5

LEMMA HandleRises ==
  ASSUME TypeOK, Handle
  PROVE  Rises
<1>0. Base(stack) /\ (stack # <<>> => Base(Pop))
  BY Bases
<1>1. PICK m \in cur : \/ NoInit(m) \/ ProcessOpen(m)
                       \/ Route(m)
                       \/ WalkRules(m)
  BY DEF Handle
<1>2. CASE stack' = stack
  BY <1>0, <1>2, RisesNone
<1>3. CASE OpenWalk(m)
  <2>1. PICK x \in Frame : x = [f |-> "rules", i |-> 1]
    BY Frames
  <2>2. Fresh(x) /\ stack' = Push(stack, <<x>>)
    BY <1>3, <2>1 DEF Fresh, OpenWalk
  <2> QED BY <1>0, <2>2, RisesOne
<1>4. CASE ToLocal(m)
  <2>1. CloseChannel(m.ch, stack) \/ stack' = stack
    BY <1>4 DEF ToLocal
  <2> QED BY <1>0, <2>1, RisesNone, RisesClose, TakenType
<1>5. CASE WalkRules(m)
  <2>1. InWalk /\ stack # <<>> /\ Top.f = "rules"
    BY <1>5 DEF WalkRules, InWalk
  <2>2. CASE NextRule
    <3>1. PICK x : x = [Top EXCEPT !.i = @ + 1]
      OBVIOUS
    <3>2. Top \in [f : {"rules"}, i : Nat]
      BY <2>1, RunningStack, FrameFields
    <3>3. x = [f |-> "rules", i |-> Top.i + 1] /\ Top.i + 1 \in Nat
      BY <3>1, <3>2
    <3>4. x \in Frame
      BY <3>3, Frames
    <3>5. Fresh(x)
      BY <3>3, <3>4 DEF Fresh
    <3>6. stack' = Push(Pop, <<x>>)
      BY <2>2, <3>1 DEF NextRule
    <3> QED BY <1>0, <2>1, <3>5, <3>6, RisesOne
  <2>3. CASE stack' = Pop
    BY <1>0, <2>1, <2>3, RisesNone
  <2>4. NextRule \/ stack' = Pop
    BY <1>5 DEF WalkRules, RuleSkip, RulePeer, RulePayload, RuleNotSupported, RulesEnd
  <2> QED BY <2>2, <2>3, <2>4
<1>6. NoInit(m) \/ OpenInUse(m) \/ OpenFenced(m) \/ OpenMalformed(m) \/ Unclaimed(m) \/ ToPeer(m) => stack' = stack
  BY DEF NoInit, OpenInUse, OpenFenced, OpenMalformed, Unclaimed, ToPeer
<1> QED BY <1>1, <1>2, <1>3, <1>4, <1>5, <1>6 DEF ProcessOpen, Route

LEMMA ContinueRises ==
  ASSUME TypeOK, StackOK, Continue, ~Running("bridges"), ~Running("dispose")
  PROVE  Rises
<1>0. Base(stack) /\ (stack # <<>> => Base(Pop) /\ Top \in Frame /\ stack = Append(Pop, Top))
  BY Bases, RunningStack
<1>1. CASE stack # <<>> /\ stack' = Pop
  BY <1>0, <1>1, RisesNone
<1>2. CASE FlushNext
  <2>1. PICK i : i \in 1 .. Len(frozen) /\ stack' = Advance(i)
    BY <1>2 DEF FlushNext
  <2>2. stack # <<>> /\ Top.f = "flush"
    BY <1>2 DEF FlushNext, Walking
  <2>3. PICK nx : nx = IF i < Len(frozen) THEN {frozen[i + 1]} ELSE {}
    OBVIOUS
  <2>4. nx \in SUBSET Node
    BY <2>1, <2>3 DEF TypeOK
  <2>5. PICK x : x = [stack[Len(stack)] EXCEPT !.next = nx]
    OBVIOUS
  <2>6. Top \in Flush
    BY <1>0, <2>2, FrameFields
  <2>7. x \in Flush /\ x.f = "flush"
    BY <2>4, <2>5, <2>6 DEF Flush, Top
  <2>8. Fresh(x)
    BY <2>7, Frames DEF Fresh
  <2>9. stack' = [stack EXCEPT ![Len(stack)] = x]
    BY <2>1, <2>3, <2>5 DEF Advance
  <2>10. stack' = Append(Pop, x)
    <3>1. Pop \in Seq(Frame) /\ Top \in Frame /\ x \in Frame
      BY <1>0, <2>2, <2>7, Frames DEF Base
    <3>2. LET t == Append(Pop, Top) IN [t EXCEPT ![Len(t)] = x] = Append(Pop, x)
      BY <3>1, LastReplaced
    <3> QED BY <1>0, <2>2, <2>9, <3>2
  <2> QED BY <1>0, <2>2, <2>8, <2>10 DEF Rises
<1>3. ASSUME NEW c \in Channels, Orphan(c) PROVE Rises
  <2>1. PICK x : x = [Top EXCEPT !.chans = @ \ {c}]
    OBVIOUS
  <2>2. PICK y \in Frame : y = [f |-> "thaw", ch |-> c]
    BY Frames
  <2>3. stack # <<>> /\ Top.f = "orphans" /\ stack' = Push(Pop, <<x, y>>)
    BY <1>3, <2>1, <2>2 DEF Orphan, Running
  <2>4. Top \in [f : {"orphans"}, p : Peers, problem : BOOLEAN, chans : SUBSET Channels]
    BY <1>0, <2>3, FrameFields
  <2>5. x = [f |-> "orphans", p |-> Top.p, problem |-> Top.problem, chans |-> Top.chans \ {c}]
    BY <2>1, <2>4
  <2>6. x \in Frame
    BY <2>4, <2>5, Frames
  <2>7. Fresh(x) /\ Fresh(y) /\ Steady(x) /\ Steady(y)
    BY <2>2, <2>5, <2>6 DEF Fresh, Steady
  <2> QED BY <1>0, <2>3, <2>7, RisesTwo
<1>4. CASE OrphansEnd
  <2>1. PICK x : x = [f |-> "reset", p |-> Top.p]
    OBVIOUS
  <2>2. /\ stack # <<>> /\ Top.f = "orphans" /\ Running("orphans") /\ peer' = peer
        /\ stack' = IF Top.p \in Timeout THEN Push(Pop, <<x>>) ELSE Pop
    BY <1>4, <2>1 DEF OrphansEnd, Running, pvars
  <2>3. Top.p \in Peers
    BY <1>0, <2>2, FrameFields
  <2>4. x \in Frame /\ x.f = "reset" /\ x.p = Top.p
    BY <2>1, <2>3, Frames
  <2>5. CASE Top.p \in Timeout
    <3>1. Fresh(x)
      BY <2>2, <2>4, <2>5 DEF Fresh
    <3> QED BY <1>0, <2>2, <2>5, <3>1, RisesOne
  <2> QED BY <1>1, <2>2, <2>5
<1>5. CASE ResetClose
  <2>1. stack # <<>> /\ Top.f = "reset" /\ Running("reset")
    BY <1>5 DEF ResetClose, Running
  <2>2. PICK z \in Peers : z = Top.p
    BY <1>0, <2>1, FrameFields
  <2>3. PICK x \in Frame : x = [f |-> "clear", p |-> z]
    BY Frames
  <2>4. Fresh(x) /\ Steady(x)
    BY <2>1, <2>2, <2>3 DEF Fresh, Steady
  <2>5. CASE ~peer[z].other
    <3>1. stack' = Push(Pop, <<x>>)
      BY <1>5, <2>2, <2>3, <2>5 DEF ResetClose
    <3> QED BY <1>0, <2>1, <2>4, <3>1, RisesOne
  <2>6. CASE peer[z].other
    <3>1. PICK s \in Seq(Frame) : s = Push(Pop, <<x>>) /\ s = Append(Pop, x)
      BY <1>0, <2>1, PushOne DEF Base
    <3>2. OtherClosed(z, s)
      BY <1>5, <2>2, <2>3, <2>6, <3>1 DEF ResetClose
    <3>3. PICK r, y : Ended(z, s, r, y)
      BY <3>2, OtherClosedForm
    <3>4. Fresh(y) /\ Steady(y) /\ stack' = Append(Append(Pop, x), y)
      BY <3>1, <3>3 DEF Ended, Fresh, Steady
    <3> QED BY <1>0, <2>1, <2>4, <3>4 DEF Rises
  <2> QED BY <2>5, <2>6
<1>6. CASE Resume
  <2>1. PICK x, y : x = [Top EXCEPT !.q = Tail(@)] /\ y = [f |-> "thaw", ch |-> Head(Top.q)]
    OBVIOUS
  <2>2. /\ stack # <<>> /\ Top.f = "resume"
        /\ stack' = IF Top.q = <<>> THEN Pop ELSE Push(Pop, <<x, y>>)
    BY <1>6, <2>1 DEF Resume, Running
  <2>3. Top \in [f : {"resume"}, q : Seq(Channels)]
    BY <1>0, <2>2, FrameFields
  <2>4. CASE Top.q # <<>>
    <3>1. Tail(Top.q) \in Seq(Channels) /\ Head(Top.q) \in Channels
      BY <2>3, <2>4
    <3>2. x = [f |-> "resume", q |-> Tail(Top.q)]
      BY <2>1, <2>3
    <3>3. x \in Frame /\ y \in Frame
      BY <2>1, <3>1, <3>2, Frames
    <3>4. Fresh(x) /\ Fresh(y) /\ Steady(x) /\ Steady(y)
      BY <2>1, <3>2, <3>3 DEF Fresh, Steady
    <3> QED BY <1>0, <2>2, <2>4, <3>4, RisesTwo
  <2> QED BY <1>1, <2>2, <2>4
<1>7. CASE ThawCall
  <2>1. stack # <<>> /\ Top.f = "thaw" /\ stack' = IF Top.ch \in freeze THEN Push(Pop, <<Walk(Top.ch)>>) ELSE Pop
    BY <1>7 DEF ThawCall, Running
  <2>2. PICK x : x = Walk(Top.ch)
    OBVIOUS
  <2>3. Top.ch \in Channels
    BY <1>0, <2>1, FrameFields
  <2>4. x \in Flush
    BY <2>2, <2>3, WalkType
  <2>5. Fresh(x)
    BY <2>4, Frames DEF Fresh, Flush
  <2> QED BY <1>0, <1>1, <2>1, <2>2, <2>5, RisesOne
<1>8. ASSUME NEW c \in Channels, Kill(c) PROVE Rises
  <2>1. PICK x : x = [Top EXCEPT !.chans = @ \ {c}]
    OBVIOUS
  <2>2. /\ stack # <<>> /\ Top.f = "kill"
        /\ CloseChannel(c, Push(Pop, <<x>>)) \/ stack' = Push(Pop, <<x>>)
    BY <1>8, <2>1 DEF Kill, Running
  <2>3. Top \in [f : {"kill"}, chans : SUBSET Channels]
    BY <1>0, <2>2, FrameFields
  <2>4. x = [f |-> "kill", chans |-> Top.chans \ {c}]
    BY <2>1, <2>3
  <2>5. x \in Frame
    BY <2>3, <2>4, Frames
  <2>6. Fresh(x) /\ Steady(x)
    BY <2>4, <2>5 DEF Fresh, Steady
  <2>7. CASE stack' = Push(Pop, <<x>>)
    BY <1>0, <2>2, <2>6, <2>7, RisesOne
  <2>8. CASE CloseChannel(c, Push(Pop, <<x>>))
    <3>1. PICK s : s = Push(Pop, <<x>>)
      OBVIOUS
    <3> QED BY <1>0, <2>2, <2>6, <2>8, <3>1, RisesClose
  <2> QED BY <2>2, <2>7, <2>8
<1> QED BY <1>1, <1>2, <1>3, <1>4, <1>5, <1>6, <1>7, <1>8
        DEF Continue, FlushEnd, FlushDangling, Walking, Running, ResetClear, ChannelSendReady, KillEnd,
            SetBridgesRule, SetBridgesEnd, Dispose

LEMMA StackRises ==
  ASSUME TypeOK, StackOK, [Next]_vars, ~Reload, ~Running("bridges"), ~Running("dispose")
  PROVE  Rises
<1>0. Base(stack)
  BY Bases
<1>1. CASE stack' = stack
  BY <1>0, <1>1, RisesNone
<1>2. CASE Frontend
  <2>1. ASSUME NEW g \in {"all", "fence", "default"}, FrontKill(g) PROVE Rises
    <3>1. PICK x : x = [f |-> "kill", chans |-> Group(g)]
      OBVIOUS
    <3>2. Group(g) \in SUBSET Channels
      BY DEF Group
    <3>3. x \in Frame
      BY <3>1, <3>2, Frames
    <3>4. Fresh(x) /\ stack' = Push(stack, <<x>>)
      BY <2>1, <3>1, <3>3 DEF Fresh, FrontKill
    <3> QED BY <1>0, <3>4, RisesOne
  <2> QED BY <1>1, <1>2, <2>1 DEF Frontend, FrontSend, Recv, FrontInit
<1>3. ASSUME NEW p \in Peers, PeerEvent(p) \/ PeerChannelEvent(p) \/ PeerTimer(p)
      PROVE  Rises
  <2>1. CASE OtherInit(p)
    <3>1. PICK x : x = [f |-> "resume", q |-> peer[p].frozen]
      OBVIOUS
    <3>2. peer[p].frozen \in Seq(Channels)
      BY DEF TypeOK, PeerState
    <3>3. x \in Frame
      BY <3>1, <3>2, Frames
    <3>4. Fresh(x) /\ stack' = Push(stack, <<x>>)
      BY <2>1, <3>1, <3>3 DEF Fresh, OtherInit
    <3> QED BY <1>0, <3>4, RisesOne
  <2>2. CASE OtherExit(p)
    <3>1. OtherClosed(p, stack) /\ stack \in Seq(Frame)
      BY <2>2 DEF OtherExit, TypeOK
    <3>2. PICK r, x : Ended(p, stack, r, x)
      BY <3>1, OtherClosedForm
    <3>3. Fresh(x) /\ stack' = Append(stack, x)
      BY <3>2 DEF Ended, Fresh
    <3> QED BY <1>0, <3>3 DEF Rises
  <2>3. CASE PeerTimeout(p)
    <3>1. PICK x : x = [f |-> "reset", p |-> p]
      OBVIOUS
    <3>2. x \in Frame /\ x.f = "reset" /\ x.p = p
      BY <3>1, Frames
    <3>3. CASE peer[p].channels = {}
      <4>1. peer[p].timer /\ peer' = [peer EXCEPT ![p].timer = FALSE] /\ stack' = Push(stack, <<x>>)
        BY <2>3, <3>1, <3>3 DEF PeerTimeout
      <4>2. peer'[p].channels = peer[p].channels
        BY <4>1 DEF TypeOK, PeerState
      <4>3. Fresh(x)
        BY <3>2, <3>3, <4>1, <4>2 DEF Fresh
      <4> QED BY <1>0, <4>1, <4>3, RisesOne
    <3> QED BY <1>1, <2>3, <3>3 DEF PeerTimeout
  <2> QED BY <1>1, <1>3, <2>1, <2>2, <2>3
          DEF PeerEvent, PeerChannelEvent, PeerTimer, OtherInitProblem, OtherReady, OtherClose, tvars
<1>4. ASSUME NEW c \in Channels, Prepare(c) \/ LocalEvent(c)  PROVE Rises
  <2>1. \/ CloseChannel(c, stack) \/ ChannelClosed(c, stack)
        \/ stack' = stack \/ stack' = Push(stack, ReadyFrames(c))
    BY <1>4 DEF Prepare, LocalEvent, ChannelPrepare, ChannelReady, ChannelClose, ChannelEnded
  <2>2. CASE stack' = Push(stack, ReadyFrames(c))
    <3>1. PICK x, y : x = [f |-> "ready", ch |-> c] /\ y = [f |-> "thaw", ch |-> c]
      OBVIOUS
    <3>2. x \in Frame /\ y \in Frame
      BY <3>1, Frames
    <3>3. Fresh(x) /\ Fresh(y) /\ Steady(x) /\ Steady(y)
      BY <3>1, <3>2 DEF Fresh, Steady
    <3>4. stack' = Push(stack, <<x, y>>)
      BY <2>2, <3>1 DEF ReadyFrames
    <3> QED BY <1>0, <3>3, <3>4, RisesTwo
  <2> QED BY <1>0, <1>1, <2>1, <2>2, RisesClose
<1>5. CASE UNCHANGED vars
  BY <1>1, <1>5 DEF vars, tvars
<1> QED BY <1>2, <1>3, <1>4, <1>5, HandleRises, ContinueRises DEF Next

\* The calls that a step leaves alone, and those that it has made.
LEMMA Risen ==
  ASSUME TypeOK, Rises
  PROVE  /\ \A i \in 1 .. Len(stack) - 1 : i <= Len(stack') /\ stack'[i] = stack[i]
         /\ \A i \in 1 .. Len(stack') :
              \/ i <= Len(stack) /\ stack'[i] = stack[i]
              \/ Fresh(stack'[i]) /\ (stack'[i].f = "reset" => i = Len(stack'))
<1>0. stack \in Seq(Frame)
  BY DEF TypeOK
<1>1. PICK b : /\ Base(b)
               /\ \/ stack' = b
                  \/ \E x : stack' = Append(b, x) /\ Fresh(x)
                  \/ \E x, y : /\ stack' = Append(Append(b, x), y)
                               /\ Fresh(x) /\ Fresh(y) /\ Steady(x) /\ Steady(y)
  BY DEF Rises
<1>2. /\ b \in Seq(Frame) /\ Len(b) \in Nat /\ Len(stack) \in Nat /\ Len(b) <= Len(stack) /\ Len(stack) - 1 <= Len(b)
      /\ \A i \in 1 .. Len(b) : b[i] = stack[i]
  <2>1. CASE b = stack
    BY <1>0, <2>1
  <2>2. CASE stack # <<>> /\ b = Pop
    <3>1. b \in Seq(Frame) /\ Len(stack) \in Nat /\ Len(stack) > 0
          /\ Len(b) = Len(stack) - 1 /\ \A a \in 1 .. Len(stack) - 1 : b[a] = stack[a]
      BY <1>0, <2>2, PopProperties
    <3> QED BY <3>1
  <2> QED BY <1>1, <2>1, <2>2 DEF Base
<1>3. CASE stack' = b
  BY <1>2, <1>3
<1>4. ASSUME NEW x, stack' = Append(b, x), Fresh(x)
      PROVE  /\ \A i \in 1 .. Len(stack) - 1 : i <= Len(stack') /\ stack'[i] = stack[i]
             /\ \A i \in 1 .. Len(stack') :
                  \/ i <= Len(stack) /\ stack'[i] = stack[i]
                  \/ Fresh(stack'[i]) /\ (stack'[i].f = "reset" => i = Len(stack'))
  <2>1. PICK t : t = stack'
    OBVIOUS
  <2>2. Len(t) = Len(b) + 1 /\ t[Len(b) + 1] = x /\ \A i \in 1 .. Len(b) : t[i] = b[i]
    <3>1. x \in Frame
      BY <1>4 DEF Fresh
    <3> QED BY <1>2, <1>4, <2>1, <3>1, Appended
  <2>3. \A i \in 1 .. Len(stack) - 1 : i <= Len(t) /\ t[i] = stack[i]
    BY <1>2, <2>2
  <2>4. \A i \in 1 .. Len(t) : (i <= Len(stack) /\ t[i] = stack[i]) \/ (t[i] = x /\ i = Len(t))
    BY <1>2, <2>2
  <2> QED BY <1>4, <2>1, <2>3, <2>4
<1>5. ASSUME NEW x, NEW y, stack' = Append(Append(b, x), y), Fresh(x), Fresh(y), Steady(x), Steady(y)
      PROVE  /\ \A i \in 1 .. Len(stack) - 1 : i <= Len(stack') /\ stack'[i] = stack[i]
             /\ \A i \in 1 .. Len(stack') :
                  \/ i <= Len(stack) /\ stack'[i] = stack[i]
                  \/ Fresh(stack'[i]) /\ (stack'[i].f = "reset" => i = Len(stack'))
  <2>0. x \in Frame /\ y \in Frame
    BY <1>5 DEF Fresh
  <2>1. PICK u : u = Append(b, x)
    OBVIOUS
  <2>2. u \in Seq(Frame) /\ Len(u) = Len(b) + 1 /\ u[Len(b) + 1] = x /\ \A i \in 1 .. Len(b) : u[i] = b[i]
    BY <1>2, <2>0, <2>1, Appended
  <2>3. PICK t : t = stack'
    OBVIOUS
  <2>4. Len(t) = Len(u) + 1 /\ t[Len(u) + 1] = y /\ \A i \in 1 .. Len(u) : t[i] = u[i]
    BY <1>5, <2>0, <2>1, <2>2, <2>3, Appended
  <2>5. \A i \in 1 .. Len(stack) - 1 : i <= Len(t) /\ t[i] = stack[i]
    BY <1>2, <2>2, <2>4
  <2>6. \A i \in 1 .. Len(t) : (i <= Len(stack) /\ t[i] = stack[i]) \/ t[i] = x \/ t[i] = y
    BY <1>2, <2>2, <2>4
  <2> QED BY <1>5, <2>3, <2>5, <2>6 DEF Steady
<1> QED BY <1>1, <1>3, <1>4, <1>5

\* A peer that has ended has no process, and one without has no channels.
PeersOK ==
  \A p \in Peers : /\ peer[p].closed => ~peer[p].other
                   /\ peer[p].channels # {} => peer[p].other

\* What cockpit_peer_ensure leaves, and what the rule makes of it.
LEMMA TriedPeer ==
  ASSUME TypeOK, PeersOK, NEW m \in cur, NEW p \in Peers, NEW q, NEW r, Tried(m, p, q, r)
  PROVE  /\ r.closed = q.closed /\ r.other = q.other /\ r.inited = q.inited /\ r.problem = q.problem
         /\ q.closed <=> ~q.other
         /\ peer[p].closed => q = peer[p]
         /\ peer[p].other => q = peer[p]
         /\ q.inited = peer[p].inited
         /\ q.channels = peer[p].channels
         /\ r.channels \in {peer[p].channels, peer[p].channels \cup {m.ch}}
         /\ q.closed => r.channels = peer[p].channels
<1>1. /\ p \in Peers /\ q \in Ensured(p)
      /\ r \in {q, Adopt(q, m.ch), [Adopt(q, m.ch) EXCEPT !.frozen = Append(@, m.ch)]}
  BY DEF Tried
<1>2. peer[p] \in PeerState /\ q \in PeerState
  BY <1>1, PeerTypes, TakenType DEF TypeOK
<1>3. /\ r.closed = q.closed /\ r.other = q.other /\ r.inited = q.inited
      /\ q.channels = peer[p].channels /\ q.inited = peer[p].inited
      /\ q.other \/ q.closed
      /\ peer[p].other => q = peer[p]
  BY <1>1, EnsuredPeer, TakenType
<1>4. r.problem = q.problem /\ r.channels \in {q.channels, q.channels \cup {m.ch}}
  BY <1>1, <1>2 DEF Adopt, PeerState
<1>5. peer[p].closed => q = peer[p]
  BY <1>1 DEF Ensured
<1>6. q.closed => ~q.other
  BY <1>1, <1>2 DEF Ensured, PeerState, PeersOK
<1>7. q.closed => r = q
  BY DEF Tried, HandleInited, HandleStarting
<1> QED BY <1>3, <1>4, <1>5, <1>6, <1>7

LEMMA PeersStep ==
  ASSUME TypeOK, Numbered, PeersOK, [Next]_vars
  PROVE  PeersOK'
<1> SUFFICES ASSUME NEW p \in Peers
             PROVE  /\ peer'[p].closed => ~peer'[p].other
                    /\ peer'[p].channels # {} => peer'[p].other
  BY DEF PeersOK
<1>1. Kept(p) \/ Fell(p) \/ Wiped(p) \/ Turned(p)
  BY PeersChange DEF Changed
<1>2. CASE Kept(p) \/ Fell(p) \/ Wiped(p)
  BY <1>2 DEF Kept, Fell, Wiped, PeersOK
<1>3. CASE Turned(p)
  <2>1. PICK m \in cur, q \in Ensured(p) : Tried(m, p, q, peer'[p])
    BY <1>3 DEF Turned
  <2>2. PICK r : r = peer'[p]
    OBVIOUS
  <2>3. /\ r.closed = q.closed /\ r.other = q.other /\ (q.closed <=> ~q.other)
        /\ q.channels = peer[p].channels /\ (peer[p].other => q = peer[p])
        /\ q.closed => r.channels = peer[p].channels
    BY <2>1, <2>2, TriedPeer
  <2>4. r.channels # {} => r.other
    BY <2>3 DEF PeersOK
  <2> QED BY <2>2, <2>3, <2>4
<1> QED BY <1>1, <1>2, <1>3

(***************************************************************************)
(* Until the packages are loaded again: the rules are those of one list of *)
(* bridges, whose peers are connected, and only a peer with a timeout is   *)
(* reset, when it has no channels.                                         *)
(***************************************************************************)
Listed == \E bs \in Bridges : rules = bs \o BuiltIn /\ ToSet(bs) \subseteq ToSet(handlers)

Plain ==
  \A i \in 1 .. Len(stack) :
    /\ stack[i].f \notin {"bridges", "dispose"}
    /\ stack[i].f \in {"reset", "clear"} => stack[i].p \in Timeout
    /\ stack[i].f = "reset" => i = Len(stack) /\ peer[stack[i].p].channels = {}

Timers == \A p \in Peers : peer[p].timer => p \in Timeout

Settled == reloads = 0 => Listed /\ Plain /\ Timers

LEMMA NotReloaded ==
  ASSUME TypeOK, [Next]_vars, reloads' = 0
  PROVE  reloads = 0 /\ ~Reload
<1>1. Reload => reloads' = reloads + 1 /\ reloads \in Nat
  BY DEF Reload, SetBridges, TypeOK
<1>2. Handle => reloads' = reloads
  BY DEF Handle, NoInit, ProcessOpen, OpenInUse, OpenFenced, OpenMalformed, OpenWalk, CreateChannel, Route,
       Unclaimed, ToPeer, ToLocal, WalkRules, RuleSkip, RulePeer, RulePayload, RuleNotSupported, RulesEnd, rvars
<1>3. Continue => reloads' = reloads
  BY DEF Continue, ChannelSendReady, Kill, KillEnd, SetBridgesRule, SetBridgesEnd, Dispose, rvars
<1>4. Frontend => reloads' = reloads
  BY DEF Frontend, FrontSend, FrontInit, FrontKill, rvars
<1>6. ASSUME NEW p \in Peers, PeerEvent(p) \/ PeerChannelEvent(p) \/ PeerTimer(p)
      PROVE  reloads' = reloads
  BY <1>6 DEF PeerEvent, PeerChannelEvent, PeerTimer, rvars
<1>7. ASSUME NEW c \in Channels, Prepare(c) \/ LocalEvent(c)
      PROVE  reloads' = reloads
  BY <1>7 DEF Prepare, LocalEvent, ChannelPrepare, ChannelReady, ChannelClose, ChannelEnded
<1> QED BY <1>1, <1>2, <1>3, <1>4, <1>6, <1>7 DEF Next, vars, rvars

\* Nothing of a reload is under way.
LEMMA NoReload ==
  ASSUME TypeOK, Settled, reloads = 0
  PROVE  ~Running("bridges") /\ ~Running("dispose")
<1>1. ASSUME stack # <<>> PROVE Len(stack) \in 1 .. Len(stack)
  BY <1>1 DEF TypeOK
<1> QED BY <1>1 DEF Settled, Plain, Running, Top

\* The rules stay, and so do the handlers that are peers.
LEMMA RulesStay ==
  ASSUME TypeOK, [Next]_vars, ~Reload, ~Running("bridges"), ~Running("dispose")
  PROVE  rules' = rules /\ \A p \in Peers : p \in ToSet(handlers) => p \in ToSet(handlers')
<1>0. handlers \in Seq(Peers \cup Channels)
  BY DEF TypeOK
<1>1. ASSUME NEW d \in Channels, NEW s, CloseChannel(d, s)
      PROVE  \A p \in Peers : p \in ToSet(handlers) => p \in ToSet(handlers')
  <2>1. handlers' = Without(handlers, {d})
    BY <1>1 DEF CloseChannel
  <2>2. ToSet(Without(handlers, {d})) = ToSet(handlers) \ {d}
    BY <1>0, WithoutSet
  <2> QED BY <1>1, <2>1, <2>2, NamesAssumption
<1>2. CASE Handle
  <2>1. PICK m \in cur : \/ ~InWalk /\ (NoInit(m) \/ ProcessOpen(m))
                         \/ Route(m)
                         \/ WalkRules(m)
    BY <1>2 DEF Handle
  <2>2. m.ch \in Channels
    BY TakenType
  <2>3. CASE CreateChannel(m, "new") \/ CreateChannel(m, "unsupported")
    <3>1. handlers' = Append(handlers, m.ch) /\ rules' = rules
      BY <2>3 DEF CreateChannel
    <3>2. ToSet(Append(handlers, m.ch)) = ToSet(handlers) \cup {m.ch}
      BY <1>0, <2>2, SetAppend
    <3> QED BY <3>1, <3>2
  <2>4. CASE ToLocal(m)
    <3>1. rules' = rules /\ (CloseChannel(m.ch, stack) \/ handlers' = handlers)
      BY <2>4 DEF ToLocal
    <3> QED BY <1>1, <2>2, <3>1
  <2>5. NoInit(m) \/ OpenInUse(m) \/ OpenFenced(m) \/ OpenWalk(m) \/ Unclaimed(m) \/ ToPeer(m)
        \/ RuleSkip(m) \/ RulePeer(m) \/ RulesEnd(m)
        => rules' = rules /\ handlers' = handlers
    BY DEF NoInit, OpenInUse, OpenFenced, OpenWalk, Unclaimed, ToPeer, RuleSkip, RulePeer, RulesEnd, rvars
  <2>6. OpenMalformed(m) \/ RulePayload(m) \/ RuleNotSupported(m)
        => CreateChannel(m, "new") \/ CreateChannel(m, "unsupported")
    BY DEF OpenMalformed, RulePayload, RuleNotSupported
  <2> QED BY <2>1, <2>3, <2>4, <2>5, <2>6 DEF ProcessOpen, Route, WalkRules
<1>3. CASE Continue
  <2>1. ASSUME NEW c \in Channels, Kill(c)
        PROVE  rules' = rules /\ \A p \in Peers : p \in ToSet(handlers) => p \in ToSet(handlers')
    <3>1. PICK s : rules' = rules /\ (CloseChannel(c, s) \/ handlers' = handlers)
      BY <2>1 DEF Kill
    <3> QED BY <1>1, <3>1
  <2> QED BY <1>3, <2>1 DEF Continue, ChannelSendReady, KillEnd, SetBridgesRule, SetBridgesEnd, Dispose, rvars
<1>4. CASE Frontend
  BY <1>4 DEF Frontend, FrontSend, FrontInit, FrontKill, rvars
<1>5. ASSUME NEW p \in Peers, PeerEvent(p) \/ PeerChannelEvent(p) \/ PeerTimer(p)
      PROVE  rules' = rules /\ handlers' = handlers
  BY <1>5 DEF PeerEvent, PeerChannelEvent, PeerTimer, rvars
<1>6. ASSUME NEW c \in Channels, Prepare(c) \/ LocalEvent(c)
      PROVE  rules' = rules /\ \A p \in Peers : p \in ToSet(handlers) => p \in ToSet(handlers')
  <2>1. rules' = rules /\ (CloseChannel(c, stack) \/ handlers' = handlers)
    BY <1>6 DEF Prepare, LocalEvent, ChannelPrepare, ChannelReady, ChannelClose, ChannelEnded
  <2> QED BY <1>1, <2>1
<1> QED BY <1>2, <1>3, <1>4, <1>5, <1>6 DEF Next, vars, rvars

\* A peer is reset at once.
LEMMA ResetNext ==
  ASSUME TypeOK, Running("reset"), Next
  PROVE  ResetClose /\ stack'[Len(stack)].f = "clear"
<1>1. ResetClose
  BY DEF Next, Running, Handle, Continue, Frontend, FrontSend, Recv, FrontInit, FrontKill, Reload, SetBridges,
         PeerEvent, PeerChannelEvent, PeerTimer, OtherInit, OtherInitProblem, OtherExit, OtherReady, OtherClose,
         PeerTimeout, Prepare, LocalEvent, ChannelPrepare, ChannelReady, ChannelClose, ChannelEnded, Idle,
         FlushNext, FlushEnd, FlushDangling, Walking, Orphan, OrphansEnd, ResetClear, Resume, ThawCall,
         ChannelSendReady, Kill, KillEnd, SetBridgesRule, SetBridgesEnd, Dispose
<1>2. Pop \in Seq(Frame) /\ Top \in Frame /\ Len(stack) = Len(Pop) + 1 /\ Len(Pop) \in Nat
  BY RunningStack, Appended DEF Running
<1>3. PICK z \in Peers : z = Top.p
  BY <1>2, FrameFields DEF Running
<1>4. PICK y \in Frame : y = [f |-> "clear", p |-> z] /\ y.f = "clear"
  BY Frames
<1>5. PICK s \in Seq(Frame) : s = Push(Pop, <<y>>) /\ s[Len(stack)] = y /\ Len(s) = Len(stack)
  <2>1. Push(Pop, <<y>>) = Append(Pop, y)
    BY <1>2, PushOne
  <2>2. Append(Pop, y) \in Seq(Frame) /\ Append(Pop, y)[Len(Pop) + 1] = y /\ Len(Append(Pop, y)) = Len(Pop) + 1
    BY <1>2, Appended
  <2> QED BY <1>2, <2>1, <2>2
<1>6. stack' = s \/ OtherClosed(z, s)
  BY <1>1, <1>3, <1>4, <1>5 DEF ResetClose
<1>7. CASE OtherClosed(z, s)
  <2>1. PICK r, x : Ended(z, s, r, x)
    BY <1>7, OtherClosedForm
  <2>2. x \in Frame /\ stack' = Append(s, x)
    BY <2>1 DEF Ended
  <2>3. Append(s, x)[Len(stack)] = s[Len(stack)]
    BY <1>2, <1>5, <2>2, Appended
  <2> QED BY <1>1, <1>4, <1>5, <2>2, <2>3
<1> QED BY <1>1, <1>4, <1>5, <1>6, <1>7

LEMMA PlainStep ==
  ASSUME TypeOK, StackOK, PeersOK, [Next]_vars, ~Reload, Plain, Timers,
         ~Running("bridges"), ~Running("dispose")
  PROVE  Plain'
<1> SUFFICES ASSUME NEW i \in 1 .. Len(stack')
             PROVE  /\ stack'[i].f \notin {"bridges", "dispose"}
                    /\ stack'[i].f \in {"reset", "clear"} => stack'[i].p \in Timeout
                    /\ stack'[i].f = "reset" => i = Len(stack') /\ peer'[stack'[i].p].channels = {}
  BY DEF Plain
<1>1. CASE UNCHANGED vars
  BY <1>1 DEF vars, tvars, pvars, Plain
<1>2. CASE Next
  <2>1. \/ i <= Len(stack) /\ stack'[i] = stack[i]
        \/ Fresh(stack'[i]) /\ (stack'[i].f = "reset" => i = Len(stack'))
    BY StackRises, Risen
  <2>2. CASE i <= Len(stack) /\ stack'[i] = stack[i]
    <3>1. i \in 1 .. Len(stack)
      BY <2>2 DEF TypeOK
    <3>2. ASSUME stack[i].f = "reset" PROVE FALSE
      <4>1. i = Len(stack) /\ stack # <<>> /\ Top.f = "reset"
        BY <3>1, <3>2 DEF Plain, Top, TypeOK
      <4>2. Running("reset")
        BY <4>1 DEF StackOK, Emitting, Running
      <4>3. stack'[Len(stack)].f = "clear"
        BY <1>2, <4>2, ResetNext
      <4> QED BY <2>2, <3>2, <4>1, <4>3
    <3> QED BY <2>2, <3>1, <3>2 DEF Plain
  <2>3. CASE Fresh(stack'[i]) /\ (stack'[i].f = "reset" => i = Len(stack'))
    <3>1. PICK x \in Frame : x = stack'[i]
      BY <2>3 DEF Fresh
    <3>2. Fresh(x)
      BY <2>3, <3>1
    <3>3. ASSUME NEW g, Running(g) PROVE Len(stack) \in 1 .. Len(stack) /\ stack[Len(stack)].f = g /\ Top = stack[Len(stack)]
      BY <3>3 DEF Running, Top, TypeOK
    <3>4. ASSUME x.f = "reset" PROVE x.p \in Timeout /\ peer'[x.p].channels = {}
      <4>1. x.p \in Peers
        BY <3>4, FrameFields
      <4>2. CASE Running("orphans") /\ Top.p = x.p /\ x.p \in Timeout /\ peer' = peer
        <5>1. peer[x.p].closed
          BY <3>3, <4>2 DEF StackOK, Calls
        <5> QED BY <4>1, <4>2, <5>1 DEF PeersOK
      <4>3. CASE peer[x.p].timer /\ peer'[x.p].channels = {}
        BY <4>1, <4>3 DEF Timers
      <4> QED BY <3>2, <3>4, <4>2, <4>3 DEF Fresh
    <3>5. ASSUME x.f = "clear" PROVE x.p \in Timeout
      <4>1. Running("reset") /\ Top.p = x.p
        BY <3>2, <3>5 DEF Fresh
      <4> QED BY <3>3, <4>1 DEF Plain
    <3> QED BY <2>3, <3>1, <3>2, <3>4, <3>5 DEF Fresh
  <2> QED BY <2>1, <2>2, <2>3
<1> QED BY <1>1, <1>2

LEMMA SettledStep ==
  ASSUME TypeOK, StackOK, Numbered, PeersOK, Settled, [Next]_vars
  PROVE  Settled'
<1> SUFFICES ASSUME reloads' = 0 PROVE Listed' /\ Plain' /\ Timers'
  BY DEF Settled
<1>1. reloads = 0 /\ ~Reload
  BY NotReloaded
<1>2. ~Running("bridges") /\ ~Running("dispose") /\ Listed /\ Plain /\ Timers
  BY <1>1, NoReload DEF Settled
<1>3. Listed'
  <2>1. PICK bs \in Bridges : rules = bs \o BuiltIn /\ ToSet(bs) \subseteq ToSet(handlers)
    BY <1>2 DEF Listed
  <2>2. ToSet(bs) \subseteq Peers
    BY RouterAssumption DEF ToSet
  <2>3. rules' = rules /\ \A p \in Peers : p \in ToSet(handlers) => p \in ToSet(handlers')
    BY <1>1, <1>2, RulesStay
  <2> QED BY <2>1, <2>2, <2>3 DEF Listed
<1>4. Timers'
  <2>1. \A p \in Peers : Timed(p)
    BY PeersChange DEF Changed
  <2> QED BY <1>2, <2>1 DEF Timers, Timed
<1> QED BY <1>1, <1>2, <1>3, <1>4, PlainStep

LEMMA SettledInit == Init => Settled /\ PeersOK
<1> SUFFICES ASSUME Init PROVE Settled /\ PeersOK
  OBVIOUS
<1>1. PICK bs \in Bridges : rules = bs \o BuiltIn /\ handlers = Created(bs, {})
  BY DEF Init, RouterInit
<1>2. bs \in Seq(Peers)
  BY RouterAssumption
<1>3. Reverse(bs) \in Seq(Peers) /\ ToSet(bs) \subseteq ToSet(Reverse(bs))
  <2>1. PICK n \in Nat : n = Len(bs) /\ DOMAIN bs = 1 .. n
    BY <1>2
  <2>2. Reverse(bs) = [i \in 1 .. n |-> bs[(n - i) + 1]]
    BY <2>1 DEF Reverse
  <2>3. \A i \in 1 .. n : (n - i) + 1 \in 1 .. n /\ bs[i] = bs[(n - ((n - i) + 1)) + 1]
    BY <2>1
  <2>4. DOMAIN Reverse(bs) = 1 .. n /\ \A i \in 1 .. n : Reverse(bs)[(n - i) + 1] = bs[i]
    BY <2>2, <2>3
  <2>5. Reverse(bs) \in Seq(Peers)
    BY <1>2, <2>1, <2>2
  <2>6. \A i \in 1 .. n : bs[i] \in ToSet(Reverse(bs))
    BY <2>3, <2>4 DEF ToSet
  <2> QED BY <2>1, <2>5, <2>6 DEF ToSet
<1>4. ToSet(Without(Reverse(bs), {})) = ToSet(Reverse(bs)) \ {}
  BY <1>3, WithoutSet
<1>5. Listed
  BY <1>1, <1>3, <1>4 DEF Listed, Created
<1>6. stack = <<>> /\ peer = [p \in Peers |-> NewPeer]
  BY DEF Init, TransportInit, PeerInit
<1>7. Plain
  BY <1>6 DEF Plain
<1>8. Timers /\ PeersOK
  BY <1>6 DEF Timers, PeersOK, NewPeer
<1> QED BY <1>5, <1>7, <1>8 DEF Settled

\* The bridges come before the other rules, and the last takes everything.
LEMMA RuleOrder ==
  ASSUME TypeOK, Listed
  PROVE  /\ Len(rules) \in Nat /\ Len(rules) > 0 /\ rules[Len(rules)] = "default"
         /\ \A i, j \in 1 .. Len(rules) : rules[i] \in Peers /\ rules[j] \notin Peers => i < j
<1>1. PICK bs \in Bridges : rules = bs \o BuiltIn
  BY DEF Listed
<1>2. PICK n \in Nat : n = Len(bs) /\ DOMAIN bs = 1 .. n /\ \A i \in 1 .. n : bs[i] \in Peers
  BY RouterAssumption
<1>3. /\ Len(rules) = n + 3 /\ \A i \in 1 .. n : rules[i] = bs[i]
      /\ rules[n + 1] = "hosts" /\ rules[n + 2] = "payloads" /\ rules[n + 3] = "default"
  BY <1>1, <1>2, RouterAssumption DEF BuiltIn
<1>4. "hosts" \in ToSet(BuiltIn) /\ "payloads" \in ToSet(BuiltIn) /\ "default" \in ToSet(BuiltIn)
  <2>1. DOMAIN BuiltIn = 1 .. 3 /\ BuiltIn[1] = "hosts" /\ BuiltIn[2] = "payloads" /\ BuiltIn[3] = "default"
    BY DEF BuiltIn
  <2> QED BY <2>1 DEF ToSet
<1>5. "hosts" \notin Peers /\ "payloads" \notin Peers /\ "default" \notin Peers
  BY <1>4, NamesAssumption
<1>6. \A i \in 1 .. Len(rules) : i <= n \/ i = n + 1 \/ i = n + 2 \/ i = n + 3
  BY <1>2, <1>3
<1>7. \A i \in 1 .. Len(rules) : (rules[i] \in Peers <=> i <= n)
  BY <1>2, <1>3, <1>5, <1>6
<1> QED BY <1>2, <1>3, <1>7

\* One message is handled at a time, of a channel that is not frozen.
OneMessage ==
  /\ \A m1, m2 \in cur : m1 = m2
  /\ \A m \in cur : m.ch \notin freeze

LEMMA OneMessageStep ==
  ASSUME TypeOK, OneMessage, [Next]_vars
  PROVE  OneMessage'
<1>1. Uses
  BY HandleUses, ContinueUses, EventUses, Quiet DEF Next, vars, tvars
<1>2. ASSUME NEW q, NEW m, T!Emit(q, m), freeze' = freeze PROVE OneMessage'
  BY <1>2 DEF T!Emit, OneMessage
<1>3. CASE cur' = {}
  BY <1>3 DEF OneMessage
<1>4. CASE UNCHANGED <<cur, freeze>>
  BY <1>4 DEF OneMessage
<1>5. ASSUME NEW c \in Channels, T!Recv(c) PROVE OneMessage'
  <2>1. PICK m : T!Emit(frozen, m) /\ freeze' = freeze
    BY <1>5 DEF T!Recv
  <2> QED BY <1>2, <2>1
<1>6. CASE T!FlushNext
  <2>1. PICK q, m : T!Emit(q, m) /\ freeze' = freeze
    BY <1>6 DEF T!FlushNext
  <2> QED BY <1>2, <2>1
<1>7. (\E c \in Channels : T!Thaw(c)) \/ T!Take \/ T!TakeAndFreeze \/ T!PutBack \/ T!FlushEnd \/ T!FlushDangling \/ T!Close
      => cur' = {} \/ UNCHANGED <<cur, freeze>>
  BY DEF T!Thaw, T!Take, T!TakeAndFreeze, T!PutBack, T!Requeue, T!Taken, T!FlushEnd, T!FlushDangling, T!Close
<1>8. UNCHANGED T!tvars => UNCHANGED <<cur, freeze>>
  BY DEF T!tvars
<1> QED BY <1>1, <1>3, <1>4, <1>5, <1>6, <1>7, <1>8 DEF Uses, T!TransportNext

LEMMA OneMessageInit == Init => OneMessage
BY DEF Init, TransportInit, OneMessage

-----------------------------------------------------------------------------
(* Where a channel is. *)

Refused(q) == q.closed /\ ~q.problem

\* The peers before the i-th rule that match have refused the channel.
Past(i, c) ==
  \A k \in 1 .. i - 1 : rules[k] \in Peers /\ c \in Match[rules[k]] => Refused(peer[rules[k]])

\* The walk over the rules is for a new open.
Walked ==
  reloads = 0 /\ InWalk =>
    \A m \in cur : /\ Kind(m) = "open" /\ local[m.ch] = "none" /\ m.ch \notin Malformed
                   /\ Top.i \in 1 .. Len(rules) /\ Past(Top.i, m.ch)

\* A peer's channels.
Place(p, c, i) ==
  /\ rules[i] = p /\ c \in Match[p] /\ Past(i, c)
  /\ \A k \in 1 .. i - 1 : rules[k] \in Peers /\ c \in Match[rules[k]] => rules[k] \notin Timeout

Placed ==
  reloads = 0 =>
    \A p \in Peers : \A c \in peer[p].channels :
      c \notin Malformed /\ local[c] = "none" /\ \E i \in 1 .. Len(rules) : Place(p, c, i)

\* In no list is a peer with a timeout tried for a channel before another.
Ordered ==
  \A bs \in Bridges : \A i, j \in 1 .. Len(bs) :
    i < j /\ bs[i] \in Timeout /\ bs[i] # bs[j] => Match[bs[i]] \cap Match[bs[j]] = {}

LEMMA PeerMatches ==
  ASSUME NEW p \in Peers, NEW c
  PROVE  Matches(p, c) <=> c \in Match[p]
<1>1. "hosts" \in ToSet(BuiltIn) /\ "payloads" \in ToSet(BuiltIn) /\ "default" \in ToSet(BuiltIn)
  <2>1. DOMAIN BuiltIn = 1 .. 3 /\ BuiltIn[1] = "hosts" /\ BuiltIn[2] = "payloads" /\ BuiltIn[3] = "default"
    BY DEF BuiltIn
  <2> QED BY <2>1 DEF ToSet
<1>2. p # "hosts" /\ p # "payloads" /\ p # "default"
  BY <1>1, NamesAssumption
<1> QED BY <1>2 DEF Matches

\* The next rule: the walk goes on after it.
LEMMA NextWalked ==
  ASSUME TypeOK, InWalk, NextRule
  PROVE  InWalk' /\ Top'.i = Top.i + 1 /\ Top.i \in Nat
<1>1. Pop \in Seq(Frame) /\ Top \in Frame /\ Top.f = "rules"
  BY RunningStack DEF InWalk
<1>2. Top \in [f : {"rules"}, i : Nat]
  BY <1>1, FrameFields
<1>3. PICK x : x = [Top EXCEPT !.i = @ + 1]
  OBVIOUS
<1>4. x = [f |-> "rules", i |-> Top.i + 1] /\ Top.i \in Nat
  BY <1>2, <1>3
<1>5. x \in Frame
  BY <1>4, Frames
<1>6. stack' = Append(Pop, x)
  BY <1>1, <1>3, <1>5, PushOne DEF NextRule
<1>7. stack' # <<>> /\ stack'[Len(stack')] = x
  BY <1>1, <1>5, <1>6, Appended
<1> QED BY <1>4, <1>7 DEF InWalk, Top

\* Only a handler starts or continues a walk.
LEMMA WalkHandled ==
  ASSUME TypeOK, [Next]_vars, InWalk', cur' # {}, ~UNCHANGED vars
  PROVE  Handle
<1>1. CASE Continue
  <2>1. CASE FlushNext
    <3>1. PICK i : i \in 1 .. Len(frozen) /\ stack' = Advance(i)
      BY <2>1 DEF FlushNext
    <3>2. stack # <<>> /\ Top.f = "flush" /\ stack \in Seq(Frame)
      BY <2>1 DEF FlushNext, Walking, TypeOK
    <3>3. PICK nx : stack' = [stack EXCEPT ![Len(stack)].next = nx]
      BY <3>1 DEF Advance
    <3>4. Top \in Flush
      BY <3>2, RunningStack, FrameFields
    <3>5. Len(stack') = Len(stack) /\ stack'[Len(stack)].f = "flush"
      BY <3>2, <3>3, <3>4 DEF Top, Flush
    <3> QED BY <3>5 DEF InWalk, Top
  <2>2. CASE ~FlushNext
    <3>1. cur' = {}
      BY <1>1, <2>2 DEF Continue, Running, Walking,
         FlushEnd, FlushDangling, Orphan, OrphansEnd, ResetClose, ResetClear, Resume, ThawCall,
         ChannelSendReady, Kill, KillEnd, SetBridgesRule, SetBridgesEnd, Dispose
    <3> QED BY <3>1
  <2> QED BY <2>1, <2>2
<1>2. CASE Frontend
  <2>1. stack' = <<>> \/ cur' = {}
    BY <1>2 DEF Frontend, FrontSend, Recv, FrontInit, FrontKill, Idle
  <2> QED BY <2>1 DEF InWalk
<1>3. Reload => cur' = {}
  BY DEF Reload, SetBridges, Idle
<1>4. ASSUME NEW p \in Peers, PeerEvent(p) \/ PeerChannelEvent(p) \/ PeerTimer(p)
      PROVE  cur' = {}
  BY <1>4 DEF PeerEvent, PeerChannelEvent, PeerTimer, OtherInit, OtherInitProblem, OtherExit, OtherReady, OtherClose,
              PeerTimeout, Idle, tvars
<1>5. ASSUME NEW c \in Channels, Prepare(c) \/ LocalEvent(c)
      PROVE  cur' = {}
  BY <1>5 DEF Prepare, LocalEvent, ChannelPrepare, ChannelReady, ChannelClose, ChannelEnded, Idle
<1> QED BY <1>1, <1>2, <1>3, <1>4, <1>5 DEF Next

\* A peer without a timeout that has refused a channel refuses the next.
LEMMA RefusedStays ==
  ASSUME TypeOK, Numbered, PeersOK, Settled, reloads = 0, [Next]_vars, NEW z \in Peers,
         Refused(peer[z]), z \notin Timeout
  PROVE  Refused(peer'[z])
<1>1. Kept(z) \/ Fell(z) \/ Wiped(z) \/ Turned(z)
  BY PeersChange DEF Changed
<1>2. ~peer[z].other
  BY DEF Refused, PeersOK
<1>3. CASE Kept(z)
  BY <1>3 DEF Kept, Refused
<1>4. CASE Wiped(z)
  <2>1. Running("clear") /\ Top.p = z
    BY <1>4, NoReload DEF Wiped
  <2>2. Len(stack) \in 1 .. Len(stack) /\ Top = stack[Len(stack)] /\ Top.f = "clear"
    BY <2>1 DEF Running, Top, TypeOK
  <2> QED BY <2>1, <2>2 DEF Settled, Plain
<1>5. CASE Turned(z)
  <2>1. PICK m \in cur, q \in Ensured(z) : Tried(m, z, q, peer'[z])
    BY <1>5 DEF Turned
  <2>2. PICK r : r = peer'[z]
    OBVIOUS
  <2>3. r.closed = q.closed /\ r.problem = q.problem /\ q = peer[z]
    BY <2>1, <2>2, TriedPeer DEF Refused
  <2> QED BY <2>2, <2>3 DEF Refused
<1> QED BY <1>1, <1>2, <1>3, <1>4, <1>5 DEF Fell

LEMMA WalkedStep ==
  ASSUME TypeOK, PeersOK, Settled, OneMessage, Walked, [Next]_vars
  PROVE  Walked'
<1> SUFFICES ASSUME reloads' = 0, InWalk', NEW m \in cur'
             PROVE  /\ Kind(m)' = "open" /\ local'[m.ch] = "none" /\ m.ch \notin Malformed
                    /\ Top'.i \in 1 .. Len(rules')
                    /\ (\A k \in 1 .. Top'.i - 1 : rules'[k] \in Peers /\ m.ch \in Match[rules'[k]] => Refused(peer'[rules'[k]]))
  BY DEF Walked, Past
<1>1. reloads = 0 /\ ~Reload /\ Listed
  BY NotReloaded DEF Settled
<1>2. CASE UNCHANGED vars
  BY <1>1, <1>2 DEF Walked, vars, tvars, pvars, rvars, Kind, Past, InWalk, Top
<1>3. CASE ~UNCHANGED vars
  <2>1. Handle
    BY <1>3, WalkHandled
  <2>2. PICK d \in cur : \/ ~InWalk /\ (NoInit(d) \/ ProcessOpen(d))
                         \/ Route(d)
                         \/ WalkRules(d)
    BY <2>1 DEF Handle
  <2>3. kinds' = kinds
    BY <2>1 DEF Handle
  <2>4. cur' = {} \/ cur' = cur
    BY <2>2 DEF NoInit, ProcessOpen, OpenInUse, OpenFenced, OpenMalformed, OpenWalk, CreateChannel, Requeue, Taken,
       Route, Unclaimed, ToPeer, ToLocal, WalkRules, RuleSkip, RulePeer, HandleClosed, HandleInited, HandleStarting,
       RulePayload, RuleNotSupported, RulesEnd
  <2>5. m = d /\ cur' = cur
    BY <2>4 DEF OneMessage
  <2>6. rules' = rules /\ Len(rules) \in Nat /\ Len(rules) > 0 /\ rules[Len(rules)] = "default"
    BY <1>1, NoReload, RulesStay, RuleOrder
  <2>7. CASE ~InWalk /\ OpenWalk(d) /\ ProcessOpen(d)
    <3>1. Kind(d) = "open" /\ local[d.ch] = "none" /\ d.ch \notin Malformed /\ local' = local
      BY <2>7 DEF OpenWalk, ProcessOpen, Admitted, rvars
    <3>2. Top'.i = 1
      <4>1. PICK x : x = [f |-> "rules", i |-> 1]
        OBVIOUS
      <4>2. x \in Frame /\ x.i = 1
        BY <4>1, Frames
      <4>3. stack' = Append(stack, x) /\ stack \in Seq(Frame)
        BY <2>7, <4>1, <4>2, PushOne DEF OpenWalk, TypeOK
      <4>4. stack'[Len(stack')] = x
        BY <4>2, <4>3, Appended
      <4> QED BY <4>2, <4>4 DEF Top
    <3>3. (\A k \in 1 .. Top'.i - 1 : rules'[k] \in Peers /\ m.ch \in Match[rules'[k]] => Refused(peer'[rules'[k]]))
      BY <3>2 DEF Past
    <3> QED BY <2>3, <2>5, <2>6, <3>1, <3>2, <3>3 DEF Kind
  <2>8. CASE InWalk /\ NextRule /\ WalkRules(d)
    <3>0. /\ Kind(d) = "open" /\ local[d.ch] = "none" /\ d.ch \notin Malformed
          /\ Top.i \in 1 .. Len(rules) /\ Past(Top.i, d.ch)
      BY <1>1, <2>8 DEF Walked
    <3>1. Top'.i = Top.i + 1 /\ Top.i \in Nat
      BY <2>8, NextWalked
    <3>2. CASE RuleSkip(d)
      <4>1. peer' = peer /\ local' = local /\ ~Matches(rules[Top.i], d.ch)
        BY <3>2 DEF RuleSkip, pvars, rvars
      <4>2. Top.i # Len(rules)
        BY <2>6, <4>1 DEF Matches
      <4>3. rules[Top.i] \in Peers => d.ch \notin Match[rules[Top.i]]
        BY <4>1, PeerMatches
      <4>4. \A k \in 1 .. Top.i : rules[k] \in Peers /\ d.ch \in Match[rules[k]] => Refused(peer[rules[k]])
        BY <3>0, <3>1, <4>3 DEF Past
      <4>5. (\A k \in 1 .. Top'.i - 1 : rules'[k] \in Peers /\ m.ch \in Match[rules'[k]] => Refused(peer'[rules'[k]]))
        BY <2>5, <2>6, <3>1, <4>1, <4>4 DEF Past
      <4> QED BY <2>3, <2>5, <2>6, <3>0, <3>1, <4>1, <4>2, <4>5 DEF Kind
    <3>3. CASE RulePeer(d)
      <4>1. PICK p, q, r : Tried(d, p, q, r)
        BY <3>3, RuleTried
      <4>2. p \in Peers /\ p = rules[Top.i] /\ peer' = [peer EXCEPT ![p] = r] /\ local' = local
        BY <3>3, <4>1 DEF Tried, RulePeer, rvars
      <4>3. Refused(r)
        <5>1. cur # {}
          OBVIOUS
        <5>2. HandleClosed(p, q, d) \/ HandleInited(p, q, d) \/ HandleStarting(p, q, d) => cur' = {}
          BY DEF HandleClosed, HandleInited, HandleStarting, Taken, Requeue
        <5> QED BY <2>5, <4>1, <5>1, <5>2 DEF Tried, Refuses, Refused
      <4>4. Top.i # Len(rules)
        <5>1. "default" \in ToSet(BuiltIn)
          <6>1. DOMAIN BuiltIn = 1 .. 3 /\ BuiltIn[3] = "default"
            BY DEF BuiltIn
          <6> QED BY <6>1 DEF ToSet
        <5> QED BY <2>6, <4>2, <5>1, NamesAssumption
      <4>5. \A z \in Peers : Refused(peer[z]) => Refused(peer'[z])
        BY <4>2, <4>3 DEF TypeOK
      <4>6. peer'[p] = r
        BY <4>2 DEF TypeOK
      <4>7. \A k \in 1 .. Top.i : rules[k] \in Peers /\ d.ch \in Match[rules[k]] => Refused(peer'[rules[k]])
        <5> SUFFICES ASSUME NEW k \in 1 .. Top.i, rules[k] \in Peers, d.ch \in Match[rules[k]]
                     PROVE  Refused(peer'[rules[k]])
          OBVIOUS
        <5>1. CASE k = Top.i
          BY <4>2, <4>3, <4>6, <5>1
        <5>2. CASE k # Top.i
          <6>1. k \in 1 .. Top.i - 1
            BY <3>1, <5>2
          <6> QED BY <3>0, <4>5, <6>1 DEF Past
        <5> QED BY <5>1, <5>2
      <4>8. (\A k \in 1 .. Top'.i - 1 : rules'[k] \in Peers /\ m.ch \in Match[rules'[k]] => Refused(peer'[rules'[k]]))
        BY <2>5, <2>6, <3>1, <4>7 DEF Past
      <4> QED BY <2>3, <2>5, <2>6, <3>0, <3>1, <4>2, <4>4, <4>8 DEF Kind
    <3>4. ~(RulePayload(d) \/ RuleNotSupported(d) \/ RulesEnd(d))
      BY <2>5 DEF RulePayload, RuleNotSupported, RulesEnd, CreateChannel, Taken
    <3> QED BY <2>8, <3>2, <3>3, <3>4 DEF WalkRules
  <2>9. CASE ~InWalk /\ (NoInit(d) \/ OpenInUse(d))
    <3>1. stack' = stack
      BY <2>9 DEF NoInit, OpenInUse
    <3> QED BY <2>9, <3>1 DEF InWalk, Top
  <2>10. ~(OpenFenced(d) \/ OpenMalformed(d) \/ Unclaimed(d) \/ ToPeer(d) \/ ToLocal(d))
    BY <2>5 DEF OpenFenced, OpenMalformed, Unclaimed, ToPeer, ToLocal, CreateChannel, Requeue, Taken
  <2>11. ASSUME InWalk, WalkRules(d) PROVE NextRule
    <3>2. CASE RulePeer(d)
      <4>1. PICK p, q, r : Tried(d, p, q, r)
        BY <3>2, RuleTried
      <4>2. HandleClosed(p, q, d) \/ HandleInited(p, q, d) \/ HandleStarting(p, q, d) => cur' = {}
        BY DEF HandleClosed, HandleInited, HandleStarting, Taken, Requeue
      <4> QED BY <2>5, <4>1, <4>2 DEF Tried
    <3> QED BY <2>5, <2>11, <3>2 DEF WalkRules, RuleSkip, RulePayload, RuleNotSupported, RulesEnd, CreateChannel, Taken
  <2> QED BY <2>2, <2>7, <2>8, <2>9, <2>10, <2>11 DEF ProcessOpen, Route, WalkRules
<1> QED BY <1>2, <1>3

\* The names of the built-in rules are no peers'.
LEMMA NoPeer ==
  "hosts" \notin Peers /\ "payloads" \notin Peers /\ "default" \notin Peers
<1>1. "hosts" \in ToSet(BuiltIn) /\ "payloads" \in ToSet(BuiltIn) /\ "default" \in ToSet(BuiltIn)
  <2>1. DOMAIN BuiltIn = 1 .. 3 /\ BuiltIn[1] = "hosts" /\ BuiltIn[2] = "payloads" /\ BuiltIn[3] = "default"
    BY DEF BuiltIn
  <2> QED BY <2>1 DEF ToSet
<1> QED BY <1>1, NamesAssumption

\* Of two peers that match, the one tried first has no timeout.
LEMMA EarlierUntimed ==
  ASSUME Ordered, Listed, NEW i \in 1 .. Len(rules), NEW k \in 1 .. i - 1, NEW c,
         rules[i] \in Peers, rules[k] \in Peers, rules[k] # rules[i],
         c \in Match[rules[i]], c \in Match[rules[k]]
  PROVE  rules[k] \notin Timeout
<1>1. PICK bs \in Bridges : rules = bs \o BuiltIn
  BY DEF Listed
<1>2. PICK n \in Nat : n = Len(bs) /\ DOMAIN bs = 1 .. n /\ \A j \in 1 .. n : bs[j] \in Peers
  BY RouterAssumption
<1>3. /\ Len(rules) = n + 3 /\ \A j \in 1 .. n : rules[j] = bs[j]
      /\ rules[n + 1] = "hosts" /\ rules[n + 2] = "payloads" /\ rules[n + 3] = "default"
  BY <1>1, <1>2, RouterAssumption DEF BuiltIn
<1>4. i \in 1 .. n
  <2>1. i # n + 1 /\ i # n + 2 /\ i # n + 3
    BY <1>3, NoPeer
  <2> QED BY <1>2, <1>3, <2>1
<1>5. k \in 1 .. n /\ k < i
  BY <1>2, <1>4
<1> QED BY <1>2, <1>3, <1>4, <1>5 DEF Ordered

\* A peer's channel is no local one, and stays in its place.
LEMMA PlacedStep ==
  ASSUME Ordered, TypeOK, Numbered, PeersOK, Settled, Walked, Placed, [Next]_vars
  PROVE  Placed'
<1> SUFFICES ASSUME reloads' = 0, NEW p \in Peers, NEW c \in peer'[p].channels
             PROVE  /\ c \notin Malformed /\ local'[c] = "none"
                    /\ \E i \in 1 .. Len(rules') :
                         /\ rules'[i] = p /\ c \in Match[p]
                         /\ \A k \in 1 .. i - 1 : rules'[k] \in Peers /\ c \in Match[rules'[k]]
                              => Refused(peer'[rules'[k]]) /\ rules'[k] \notin Timeout
  BY DEF Placed, Place, Past
<1>1. reloads = 0 /\ ~Reload /\ Listed
  BY NotReloaded DEF Settled
<1>2. rules' = rules /\ Len(rules) \in Nat
  BY <1>1, NoReload, RulesStay, RuleOrder
<1>3. \A z \in Peers : Refused(peer[z]) /\ z \notin Timeout => Refused(peer'[z])
  BY <1>1, RefusedStays
<1>4. CASE c \in peer[p].channels
  <2>1. /\ c \notin Malformed /\ local[c] = "none"
        /\ \E i \in 1 .. Len(rules) : Place(p, c, i)
    BY <1>1, <1>4 DEF Placed
  <2>2. PICK i \in 1 .. Len(rules) : Place(p, c, i)
    BY <2>1
  <2>3. \A k \in 1 .. i - 1 : rules[k] \in Peers /\ c \in Match[rules[k]]
          => Refused(peer'[rules[k]]) /\ rules[k] \notin Timeout
    BY <1>3, <2>2 DEF Place, Past
  <2>4. c \in Channels
    <3>1. peer[p].channels \subseteq Channels
      BY DEF TypeOK, PeerState
    <3> QED BY <1>4, <3>1
  <2>5. local'[c] = "none"
    <3>1. Moved(c)
      BY <1>1, <2>4, LocalsMove
    <3>2. ~Opened(c)
      <4> SUFFICES ASSUME Opened(c) PROVE FALSE
        OBVIOUS
      <4>1. PICK m \in cur : m.ch = c /\ InWalk /\ (RulePayload(m) \/ RuleNotSupported(m))
        BY <2>1 DEF Opened
      <4>2. rules[Top.i] \notin Peers
        BY <4>1, NoPeer DEF RulePayload, RuleNotSupported
      <4>3. Top.i \in 1 .. Len(rules) /\ Past(Top.i, c)
        BY <1>1, <4>1 DEF Walked
      <4>4. i < Top.i
        BY <1>1, <2>2, <4>2, <4>3, RuleOrder DEF Place
      <4>5. i \in 1 .. Top.i - 1
        BY <1>2, <4>3, <4>4
      <4>6. Refused(peer[p])
        BY <2>2, <4>3, <4>5 DEF Past, Place
      <4> QED BY <1>4, <4>6 DEF Refused, PeersOK
    <3> QED BY <2>1, <3>1, <3>2 DEF Moved, Stays, Readies, Closing, Closes
  <2> QED BY <1>2, <2>1, <2>2, <2>3, <2>5 DEF Place
<1>5. CASE c \notin peer[p].channels
  <2>1. Turned(p)
    <3>1. Kept(p) \/ Fell(p) \/ Wiped(p) \/ Turned(p)
      BY PeersChange DEF Changed
    <3> QED BY <1>5, <3>1 DEF Kept, Fell, Wiped
  <2>2. PICK m \in cur, q \in Ensured(p) : InWalk /\ RulePeer(m) /\ Tried(m, p, q, peer'[p])
    BY <2>1 DEF Turned
  <2>3. PICK r : r = peer'[p]
    OBVIOUS
  <2>4. m.ch = c /\ ~q.closed /\ ~peer[p].closed
    <3>1. /\ r.channels \in {peer[p].channels, peer[p].channels \cup {m.ch}}
          /\ q.closed => r.channels = peer[p].channels
          /\ peer[p].closed => q = peer[p]
      BY <2>2, <2>3, TriedPeer
    <3>2. c \in r.channels
      BY <2>3
    <3> QED BY <1>5, <3>1, <3>2
  <2>5. /\ Kind(m) = "open" /\ local[c] = "none" /\ c \notin Malformed
        /\ Top.i \in 1 .. Len(rules) /\ Past(Top.i, c)
    BY <1>1, <2>2, <2>4 DEF Walked
  <2>6. p = rules[Top.i] /\ c \in Match[p]
    BY <2>2, <2>4, PeerMatches DEF Tried
  <2>7. local' = local
    BY <2>2 DEF RulePeer, rvars
  <2>8. \A k \in 1 .. Top.i - 1 : rules[k] \in Peers /\ c \in Match[rules[k]]
          => Refused(peer'[rules[k]]) /\ rules[k] \notin Timeout
    <3> SUFFICES ASSUME NEW k \in 1 .. Top.i - 1, rules[k] \in Peers, c \in Match[rules[k]]
                 PROVE  Refused(peer'[rules[k]]) /\ rules[k] \notin Timeout
      OBVIOUS
    <3>1. Refused(peer[rules[k]])
      BY <2>5 DEF Past
    <3>2. rules[k] # rules[Top.i]
      BY <2>4, <2>6, <3>1 DEF Refused
    <3>3. rules[k] \notin Timeout
      BY <1>1, <2>5, <2>6, <3>2, EarlierUntimed
    <3> QED BY <1>3, <3>1, <3>3
  <2> QED BY <1>2, <2>5, <2>6, <2>7, <2>8
<1> QED BY <1>4, <1>5

\* At the start nothing is walked and no peer has a channel.
LEMMA PlacedInit == Init => Walked /\ Placed
<1> SUFFICES ASSUME Init PROVE Walked /\ Placed
  OBVIOUS
<1>1. stack = <<>>
  BY DEF Init, TransportInit, PeerInit
<1>2. \A p \in Peers : peer[p].channels = {}
  BY DEF Init, PeerInit, NewPeer
<1> QED BY <1>1, <1>2 DEF Walked, Placed, InWalk

\* Two peers do not have the same channel.
LEMMA PlacedOwner ==
  ASSUME TypeOK, PeersOK, Settled, Placed, reloads = 0
  PROVE  OneOwner
<1> SUFFICES ASSUME NEW c \in Channels
             PROVE  /\ Cardinality({p \in Peers : c \in peer[p].channels}) <= 1
                    /\ local[c] # "none" => \A p \in Peers : c \notin peer[p].channels
  BY DEF OneOwner
<1>1. local[c] # "none" => \A p \in Peers : c \notin peer[p].channels
  BY DEF Placed
<1>2. ASSUME NEW p \in Peers, NEW z \in Peers, NEW i \in 1 .. Len(rules), NEW j \in 1 .. Len(rules),
             c \in peer[p].channels, c \in peer[z].channels, Place(p, c, i), Place(z, c, j), i < j
      PROVE  FALSE
  <2>1. i \in 1 .. j - 1
    <3>1. Len(rules) \in Nat
      BY RuleOrder DEF Settled
    <3> QED BY <1>2, <3>1
  <2>2. Refused(peer[p])
    BY <1>2, <2>1 DEF Place, Past
  <2> QED BY <1>2, <2>2 DEF Refused, PeersOK
<1>3. ASSUME NEW p \in Peers, NEW z \in Peers, c \in peer[p].channels, c \in peer[z].channels
      PROVE  p = z
  <2>1. PICK i \in 1 .. Len(rules) : Place(p, c, i)
    BY <1>3 DEF Placed
  <2>2. PICK j \in 1 .. Len(rules) : Place(z, c, j)
    BY <1>3 DEF Placed
  <2>3. i = j
    <3>1. Len(rules) \in Nat
      BY RuleOrder DEF Settled
    <3>2. ~(i < j) /\ ~(j < i)
      BY <1>2, <1>3, <2>1, <2>2
    <3> QED BY <3>1, <3>2
  <2> QED BY <2>1, <2>2, <2>3 DEF Place
<1>4. Cardinality({p \in Peers : c \in peer[p].channels}) <= 1
  <2>1. PICK S : S = {p \in Peers : c \in peer[p].channels}
    OBVIOUS
  <2>2. \A p, z \in S : p = z
    BY <1>3, <2>1
  <2>3. Cardinality(S) \in {0, 1}
    <3>1. CASE S = {}
      BY <3>1, FS_EmptySet
    <3>2. ASSUME NEW p \in S PROVE Cardinality(S) = 1
      <4>1. S = {p}
        BY <2>2
      <4>2. Cardinality({p}) = 1
        BY FS_Singleton
      <4> QED BY <4>1, <4>2, Zenon
    <3> QED BY <3>1, <3>2
  <2> QED BY <2>1, <2>3
<1> QED BY <1>1, <1>4

OwnerInv ==
  TypeOK /\ StackOK /\ Numbered /\ PeersOK /\ Settled /\ OneMessage /\ Walked /\ Placed

LEMMA OwnerInvStep ==
  ASSUME Ordered
  PROVE  OwnerInv /\ [Next]_vars => OwnerInv'
<1> SUFFICES ASSUME OwnerInv, [Next]_vars PROVE OwnerInv'
  OBVIOUS
<1>1. TypeOK' /\ StackOK' /\ Numbered'
  BY BridgeNext, StackStep, NumberedStep DEF OwnerInv
<1>2. PeersOK' /\ Settled' /\ OneMessage' /\ Walked' /\ Placed'
  BY PeersStep, SettledStep, OneMessageStep, WalkedStep, PlacedStep DEF OwnerInv
<1> QED BY <1>1, <1>2 DEF OwnerInv

(***************************************************************************)
(* Until the packages are loaded again, a channel belongs to one peer, or  *)
(* to a local channel and to no peer, for any channels and any lists of    *)
(* bridges in which no peer with a timeout is tried for a channel before   *)
(* another (process_open, cockpit_peer_handle, on_other_closed,            *)
(* on_timeout_reset).                                                      *)
(***************************************************************************)
THEOREM OwnedOnce ==
  ASSUME Ordered
  PROVE  Spec => [](reloads = 0 => OneOwner)
<1>1. Init => OwnerInv
  BY BridgeInit, StackInit, NumberedInit, SettledInit, OneMessageInit, PlacedInit DEF OwnerInv
<1>2. OwnerInv => (reloads = 0 => OneOwner)
  BY PlacedOwner DEF OwnerInv
<1>3. OwnerInv /\ [Next]_vars => OwnerInv'
  BY OwnerInvStep
<1> QED BY <1>1, <1>2, <1>3, PTL DEF Spec

(***************************************************************************)
(* What a step does to the messages of one channel.                        *)
(***************************************************************************)
Still(c) == taken'[c] = taken[c] /\ sent'[c] = sent[c] /\ kinds'[c] = kinds[c] /\ got'[c] = got[c]

Silent(c) == Still(c) /\ (c \in freeze' => c \in freeze)

Sends(c) == \E k \in Kinds : FrontSend(c, k)

\* The open is held back.
Requeues(c) == Still(c) /\ \E m \in cur : m.ch = c /\ Kind(m) = "open"

\* The peer p takes the open, or closes the channel.
Handed(m, p, q) ==
  InWalk /\ RulePeer(m) /\ Tried(m, p, q, peer'[p]) /\ (HandleClosed(p, q, m) \/ HandleInited(p, q, m))

Took(m) ==
  \/ Kind(m) # "open" /\ (Unclaimed(m) \/ ToPeer(m) \/ ToLocal(m))
  \/ Kind(m) = "open" /\ (CreateChannel(m, "new") \/ CreateChannel(m, "unsupported"))
  \/ Kind(m) = "open" /\ \E p, q : Handed(m, p, q)

Handles(c) ==
  /\ sent'[c] = sent[c] /\ kinds'[c] = kinds[c]
  /\ \E m \in cur : m.ch = c /\ taken'[c] = m.n /\ Took(m)

\* The handlers of a message of c.
LEMMA HandleMessage ==
  ASSUME TypeOK, Walked, reloads = 0, NEW m \in cur,
         \/ ~InWalk /\ (NoInit(m) \/ ProcessOpen(m))
         \/ Route(m)
         \/ WalkRules(m),
         kinds' = kinds
  PROVE  Silent(m.ch) \/ Requeues(m.ch) \/ Handles(m.ch)
<1>1. m.ch \in Channels
  BY TakenType
<1>2. ASSUME sent' = sent, Taken(m), Took(m) PROVE Handles(m.ch)
  <2>1. taken'[m.ch] = m.n
    BY <1>1, <1>2 DEF Taken, TypeOK
  <2> QED BY <1>2, <2>1 DEF Handles
<1>3. ASSUME UNCHANGED <<taken, sent, got>>, freeze' = freeze PROVE Silent(m.ch)
  BY <1>3 DEF Silent, Still
<1>4. ASSUME UNCHANGED <<taken, sent, got>>, Kind(m) = "open" PROVE Requeues(m.ch)
  BY <1>4 DEF Requeues, Still
<1>5. CASE ~InWalk /\ NoInit(m)
  BY <1>3, <1>5 DEF NoInit, pvars
<1>6. CASE ~InWalk /\ ProcessOpen(m)
  <2>1. CASE OpenInUse(m) \/ OpenWalk(m)
    BY <1>3, <2>1 DEF OpenInUse, OpenWalk, pvars
  <2>2. CASE OpenFenced(m)
    BY <1>4, <1>6, <2>2 DEF OpenFenced, ProcessOpen, pvars
  <2>3. CASE OpenMalformed(m)
    BY <1>2, <1>6, <2>3 DEF OpenMalformed, ProcessOpen, CreateChannel, Took
  <2> QED BY <1>6, <2>1, <2>2, <2>3 DEF ProcessOpen
<1>7. CASE Route(m)
  BY <1>2, <1>7 DEF Route, Unclaimed, ToPeer, ToLocal, Took
<1>8. CASE WalkRules(m)
  <2>1. Kind(m) = "open" /\ Top.i \in 1 .. Len(rules) /\ InWalk /\ Len(rules) \in Nat
    BY <1>8 DEF WalkRules, Walked, TypeOK
  <2>2. CASE RuleSkip(m)
    BY <1>3, <2>2 DEF RuleSkip, pvars
  <2>3. CASE RulePayload(m) \/ RuleNotSupported(m)
    BY <1>2, <2>1, <2>3 DEF RulePayload, RuleNotSupported, CreateChannel, Took
  <2>4. ~RulesEnd(m)
    BY <2>1 DEF RulesEnd
  <2>5. CASE RulePeer(m)
    <3>1. PICK p, q, r : Tried(m, p, q, r)
      BY <2>5, RuleTried
    <3>2. sent' = sent
      BY <2>5 DEF RulePeer
    <3>3. peer'[p] = r
      BY <3>1 DEF Tried, TypeOK
    <3>4. CASE Refuses(q) /\ UNCHANGED <<freeze, key, frozen, cur, taken, child, out, got>>
      BY <1>3, <3>2, <3>4
    <3>5. CASE HandleClosed(p, q, m) \/ HandleInited(p, q, m)
      <4>1. Handed(m, p, q)
        BY <2>1, <2>5, <3>1, <3>3, <3>5 DEF Handed
      <4>2. Taken(m)
        BY <3>5 DEF HandleClosed, HandleInited
      <4> QED BY <1>2, <2>1, <3>2, <4>1, <4>2 DEF Took
    <3>6. CASE HandleStarting(p, q, m)
      BY <1>4, <2>1, <3>2, <3>6 DEF HandleStarting
    <3> QED BY <3>1, <3>4, <3>5, <3>6 DEF Tried
  <2> QED BY <1>8, <2>2, <2>3, <2>4, <2>5 DEF WalkRules
<1> QED BY <1>5, <1>6, <1>7, <1>8

\* A message of another channel.
LEMMA HandleOther ==
  ASSUME TypeOK, NEW c \in Channels, NEW m \in cur, m.ch # c,
         NoInit(m) \/ ProcessOpen(m) \/ Route(m) \/ WalkRules(m),
         kinds' = kinds
  PROVE  Silent(c)
<1>1. m.ch \in Channels
  BY TakenType
<1>2. Taken(m) => taken'[c] = taken[c]
  BY <1>1 DEF Taken, TypeOK
<1>3. \A h : Deliver(m, h) => got'[c] = got[c]
  BY <1>1 DEF Deliver, TypeOK
<1>4. Freeze(m.ch) => (c \in freeze' => c \in freeze)
  BY DEF Freeze
<1>5. Requeue(m) => (c \in freeze' => c \in freeze)
  BY <1>4 DEF Requeue
<1>6. ASSUME CreateChannel(m, "new") \/ CreateChannel(m, "unsupported") PROVE Silent(c)
  BY <1>2, <1>3, <1>4, <1>6 DEF CreateChannel, Silent, Still
<1>7. NoInit(m) \/ OpenInUse(m) \/ OpenWalk(m) \/ RuleSkip(m) => Silent(c)
  BY DEF NoInit, OpenInUse, OpenWalk, RuleSkip, Silent, Still, pvars
<1>8. OpenFenced(m) => Silent(c)
  BY <1>5 DEF OpenFenced, Silent, Still, pvars
<1>9. OpenMalformed(m) \/ RulePayload(m) \/ RuleNotSupported(m) => Silent(c)
  BY <1>6 DEF OpenMalformed, RulePayload, RuleNotSupported
<1>10. Unclaimed(m) \/ RulesEnd(m) => Silent(c)
  BY <1>2 DEF Unclaimed, RulesEnd, Silent, Still, pvars
<1>11. ASSUME ToPeer(m) PROVE Silent(c)
  <2>1. PICK h : PeerForward(h, m, Kind(m) = "close")
    BY <1>11 DEF ToPeer
  <2>2. got'[c] = got[c]
    BY <1>3, <2>1 DEF PeerForward
  <2> QED BY <1>2, <1>11, <2>2 DEF ToPeer, Silent, Still
<1>12. ToLocal(m) => Silent(c)
  BY <1>2, <1>3 DEF ToLocal, Silent, Still
<1>13. ASSUME RulePeer(m) PROVE Silent(c)
  <2>1. PICK p, q, r : Tried(m, p, q, r)
    BY <1>13, RuleTried
  <2>2. sent' = sent
    BY <1>13 DEF RulePeer
  <2>3. taken'[c] = taken[c] /\ got'[c] = got[c] /\ (c \in freeze' => c \in freeze)
    BY <1>2, <1>3, <1>5, <2>1 DEF Tried, HandleClosed, HandleInited, HandleStarting
  <2> QED BY <2>2, <2>3 DEF Silent, Still
<1> QED BY <1>7, <1>8, <1>9, <1>10, <1>11, <1>12, <1>13 DEF ProcessOpen, Route, WalkRules

LEMMA MessagesMove ==
  ASSUME TypeOK, Walked, reloads = 0, [Next]_vars, NEW c \in Channels
  PROVE  Silent(c) \/ Sends(c) \/ Requeues(c) \/ Handles(c)
<1>1. CASE Handle
  <2>1. PICK m \in cur : \/ ~InWalk /\ (NoInit(m) \/ ProcessOpen(m))
                         \/ Route(m)
                         \/ WalkRules(m)
    BY <1>1 DEF Handle
  <2>2. kinds' = kinds
    BY <1>1 DEF Handle
  <2>3. CASE m.ch = c
    BY <2>1, <2>2, <2>3, HandleMessage
  <2>4. CASE m.ch # c
    BY <2>1, <2>2, <2>4, HandleOther
  <2> QED BY <2>3, <2>4
<1>2. ASSUME UNCHANGED <<taken, sent, kinds, got>>, freeze' \subseteq freeze PROVE Silent(c)
  BY <1>2 DEF Silent, Still
<1>3. CASE Continue
  <2>1. UNCHANGED <<taken, sent, kinds, got>> /\ freeze' \subseteq freeze
    BY <1>3 DEF Continue, FlushNext, FlushEnd, FlushDangling, Orphan, OrphansEnd, ResetClose, ResetClear,
         ChannelSendReady, Kill, KillEnd, SetBridgesRule, SetBridgesEnd, Dispose, pvars, Resume, ThawCall
  <2> QED BY <1>2, <2>1
<1>4. CASE Frontend
  <2>1. ASSUME NEW d \in Channels, NEW k \in Kinds, FrontSend(d, k), d # c PROVE Silent(c)
    <3>1. sent'[c] = sent[c] /\ kinds'[c] = kinds[c]
      BY <2>1 DEF FrontSend, Recv, TypeOK
    <3> QED BY <2>1, <3>1 DEF FrontSend, Recv, Silent, Still, pvars
  <2>2. ASSUME NEW good, FrontInit(good) PROVE Silent(c)
    BY <1>2, <2>2 DEF FrontInit, pvars
  <2>3. ASSUME NEW g, FrontKill(g) PROVE Silent(c)
    BY <1>2, <2>3 DEF FrontKill, pvars
  <2> QED BY <1>4, <2>1, <2>2, <2>3 DEF Frontend, Sends
<1>5. CASE Reload
  BY <1>2, <1>5 DEF Reload, SetBridges, pvars
<1>6. ASSUME NEW p \in Peers, PeerEvent(p) \/ PeerChannelEvent(p) \/ PeerTimer(p) PROVE Silent(c)
  BY <1>2, <1>6 DEF PeerEvent, PeerChannelEvent, PeerTimer, OtherInit, OtherInitProblem, OtherExit, OtherReady, OtherClose,
       PeerTimeout, tvars
<1>7. ASSUME NEW d \in Channels, Prepare(d) \/ LocalEvent(d) PROVE Silent(c)
  BY <1>2, <1>7 DEF Prepare, LocalEvent, ChannelPrepare, ChannelReady, ChannelClose, ChannelEnded, pvars
<1>8. CASE UNCHANGED vars
  BY <1>2, <1>8 DEF vars, tvars, pvars
<1> QED BY <1>1, <1>3, <1>4, <1>5, <1>6, <1>7, <1>8 DEF Next

\* The next message of the channel is an open.
NextOpen(c) == taken[c] < sent[c] /\ kinds[c][taken[c] + 1] = "open"

\* A peer that is up has the channel.
Owned(c) == \E p \in Peers : c \in peer[p].channels /\ peer[p].inited /\ p \in ToSet(handlers)

\* A loop under way will close the channel.
Dooms(x, c) == x.f = "orphans" /\ x.problem /\ c \in x.chans

Doomed(c) == \E i \in 1 .. Len(stack) : Dooms(stack[i], c)

\* The loop goes on, from one channel to the next.
LEMMA OrphansNext ==
  ASSUME TypeOK, Running("orphans"), Next
  PROVE  (\E d \in Channels : Orphan(d)) \/ OrphansEnd
BY DEF Next, Running, Handle, Continue, Frontend, FrontSend, Recv, FrontInit, FrontKill, Reload, SetBridges,
       PeerEvent, PeerChannelEvent, PeerTimer, OtherInit, OtherInitProblem, OtherExit, OtherReady, OtherClose,
       PeerTimeout, Prepare, LocalEvent, ChannelPrepare, ChannelReady, ChannelClose, ChannelEnded, Idle,
       FlushNext, FlushEnd, FlushDangling, Walking, ResetClose, ResetClear, Resume, ThawCall,
       ChannelSendReady, Kill, KillEnd, SetBridgesRule, SetBridgesEnd, Dispose

LEMMA DoomedStays ==
  ASSUME TypeOK, StackOK, Settled, reloads = 0, ~Reload, [Next]_vars, NEW c \in Channels, Doomed(c)
  PROVE  Doomed(c)' \/ ClosedSent(c)'
<1>1. PICK i \in 1 .. Len(stack) : Dooms(stack[i], c)
  BY DEF Doomed
<1>2. Len(stack) \in Nat /\ stack # <<>>
  BY <1>1 DEF TypeOK
<1>3. CASE i # Len(stack)
  <2>1. i <= Len(stack') /\ stack'[i] = stack[i]
    BY <1>2, <1>3, NoReload, StackRises, Risen
  <2>2. i \in 1 .. Len(stack')
    <3>1. TypeOK'
      BY BridgeNext
    <3>2. Len(stack') \in Nat
      BY <3>1 DEF TypeOK
    <3> QED BY <1>2, <2>1, <3>2
  <2> QED BY <1>1, <2>1, <2>2 DEF Doomed
<1>4. CASE UNCHANGED vars
  BY <1>4 DEF Doomed, vars, tvars
<1>5. CASE i = Len(stack) /\ Next
  <2>1. Top.f = "orphans" /\ Top.problem /\ c \in Top.chans
    BY <1>1, <1>5 DEF Top, Dooms
  <2>2. Running("orphans")
    BY <1>2, <2>1 DEF StackOK, Emitting, Running
  <2>3. PICK d \in Channels : Orphan(d)
    BY <1>5, <2>1, <2>2, OrphansNext DEF OrphansEnd
  <2>4. CASE d = c
    <3>1. Send(c, "close")
      BY <2>1, <2>3, <2>4 DEF Orphan
    <3> QED BY <3>1, ClosedStays
  <2>5. CASE d # c
    <3>1. PICK C : C = Top.chans \ {d}
      OBVIOUS
    <3>2. Top \in [f : {"orphans"}, p : Peers, problem : BOOLEAN, chans : SUBSET Channels] /\ Pop \in Seq(Frame)
      BY <1>2, <2>1, RunningStack, FrameFields
    <3>3. PICK x : x = [f |-> "orphans", p |-> Top.p, problem |-> Top.problem, chans |-> C]
      OBVIOUS
    <3>4. [Top EXCEPT !.chans = @ \ {d}] = x
      <4>1. [Top EXCEPT !.chans = C] = x
        BY <3>2, <3>3
      <4> QED BY <3>1, <4>1
    <3>5. C \in SUBSET Channels
      BY <3>1, <3>2
    <3>6. x \in Frame /\ Dooms(x, c)
      BY <2>1, <2>5, <3>1, <3>2, <3>3, <3>5, Frames DEF Dooms
    <3>7. PICK y \in Frame : y = [f |-> "thaw", ch |-> d]
      BY Frames
    <3>8. stack' = Append(Append(Pop, x), y) /\ Append(Pop, x) \in Seq(Frame)
      BY <2>3, <3>2, <3>4, <3>6, <3>7, PushTwo DEF Orphan
    <3>9. PICK u : u = Append(Pop, x)
      OBVIOUS
    <3>10. Len(Pop) \in Nat /\ Len(u) = Len(Pop) + 1 /\ u[Len(Pop) + 1] = x
      BY <3>2, <3>6, <3>9, Appended
    <3>11. PICK t : t = stack'
      OBVIOUS
    <3>12. Len(t) = Len(u) + 1 /\ \A k \in 1 .. Len(u) : t[k] = u[k]
      BY <3>7, <3>8, <3>9, <3>11, Appended
    <3>13. Len(Pop) + 1 \in 1 .. Len(t) /\ Dooms(t[Len(Pop) + 1], c)
      BY <3>6, <3>10, <3>12
    <3> QED BY <3>11, <3>13 DEF Doomed
  <2> QED BY <2>4, <2>5
<1> QED BY <1>3, <1>4, <1>5

\* A local channel stays, or was closed.
LEMMA LocalStays ==
  ASSUME TypeOK, ~Reload, [Next]_vars, NEW c \in Channels, local[c] # "none"
  PROVE  local'[c] # "none" \/ ClosedSent(c)'
<1>1. Moved(c)
  BY LocalsMove
<1>2. ASSUME Opened(c) PROVE local'[c] # "none"
  <2>1. local' = [local EXCEPT ![c] = "new"] \/ local' = [local EXCEPT ![c] = "unsupported"]
    BY <1>2 DEF Opened, CreateChannel
  <2> QED BY <2>1 DEF TypeOK
<1> QED BY <1>1, <1>2 DEF Moved, Stays, Readies, Closing, Closes

\* Who is connected to the transport: the local channels that are not closing.
Connected ==
  reloads = 0 => \A c \in Channels : c \in ToSet(handlers) <=> local[c] \notin {"none", "closing"}

LEMMA ConnectedStep ==
  ASSUME TypeOK, Connected, [Next]_vars
  PROVE  Connected'
<1> SUFFICES ASSUME reloads' = 0, NEW c \in Channels
             PROVE  c \in ToSet(handlers') <=> local'[c] \notin {"none", "closing"}
  BY DEF Connected
<1>1. reloads = 0 /\ ~Reload
  BY NotReloaded
<1>2. c \in ToSet(handlers) <=> local[c] \notin {"none", "closing"}
  BY <1>1 DEF Connected
<1>3. Moved(c)
  BY <1>1, LocalsMove
<1>4. CASE Opened(c)
  <2>1. /\ local' = [local EXCEPT ![c] = "new"] \/ local' = [local EXCEPT ![c] = "unsupported"]
        /\ handlers' = Append(handlers, c)
    BY <1>4 DEF Opened, CreateChannel
  <2>2. ToSet(Append(handlers, c)) = ToSet(handlers) \cup {c}
    <3>1. handlers \in Seq(Peers \cup Channels) /\ c \in Peers \cup Channels
      BY DEF TypeOK
    <3> QED BY <3>1, SetAppend
  <2> QED BY <2>1, <2>2 DEF TypeOK
<1> QED BY <1>2, <1>3, <1>4 DEF Moved, Stays, Readies, Closing, Closes

LEMMA ConnectedInit == Init => Connected
<1> SUFFICES ASSUME Init, NEW c \in Channels PROVE c \notin ToSet(handlers) /\ local[c] = "none"
  BY DEF Connected
<1>1. PICK bs \in Bridges : handlers = Created(bs, {})
  BY DEF Init, RouterInit
<1>2. Created(bs, {}) \in Seq(Peers)
  BY CreatedBridges, RouterAssumption
<1>3. ToSet(handlers) \subseteq Peers
  BY <1>1, <1>2 DEF ToSet
<1>4. local[c] = "none"
  BY DEF Init, RouterInit
<1> QED BY <1>3, <1>4, NamesAssumption

\* Nothing is taken that was not sent.
Behind == reloads = 0 => \A c \in Channels : taken[c] <= sent[c]

LEMMA BehindStep ==
  ASSUME TypeOK, Numbered, Walked, Behind, [Next]_vars
  PROVE  Behind'
<1> SUFFICES ASSUME reloads' = 0, NEW c \in Channels PROVE taken'[c] <= sent'[c]
  BY DEF Behind
<1>0. reloads = 0
  BY NotReloaded
<1>1. taken[c] <= sent[c] /\ taken[c] \in Nat /\ sent[c] \in Nat
  BY <1>0 DEF Behind, TypeOK
<1>2. CASE Sends(c)
  <2>1. taken' = taken /\ sent'[c] = sent[c] + 1
    BY <1>2 DEF Sends, FrontSend, Recv, TypeOK
  <2> QED BY <1>1, <2>1
<1>3. CASE Handles(c)
  <2>1. PICK m \in cur : m.ch = c /\ taken'[c] = m.n /\ sent'[c] = sent[c]
    BY <1>3 DEF Handles
  <2> QED BY <1>1, <2>1 DEF Numbered
<1> QED BY <1>0, <1>1, <1>2, <1>3, MessagesMove DEF Silent, Requeues, Still

LEMMA NotDangled ==
  ASSUME TypeOK, [Next]_vars, ~dangled'
  PROVE  ~dangled
<1>1. Uses
  BY HandleUses, ContinueUses, EventUses, Quiet DEF Next, vars, tvars
<1>2. T!TransportNext => dangled' = dangled \/ dangled'
  BY DEF T!TransportNext, T!Recv, T!Thaw, T!Take, T!TakeAndFreeze, T!PutBack, T!FlushNext, T!FlushEnd, T!FlushDangling, T!Close
<1> QED BY <1>1, <1>2 DEF Uses, T!tvars

\* The message being handled is the next of its channel.
LEMMA NextHandled ==
  ASSUME TypeOK, Numbered, InOrder, ~dangled, NEW m \in cur
  PROVE  /\ m.ch \in Channels /\ m.n = taken[m.ch] + 1 /\ taken[m.ch] < sent[m.ch]
         /\ taken[m.ch] \in Nat /\ sent[m.ch] \in Nat
         /\ kinds[m.ch] # <<>>
         /\ NextOpen(m.ch) <=> Kind(m) = "open"
<1>1. m.ch \in Channels /\ m.n \in 1 .. sent[m.ch] /\ m.n = taken[m.ch] + 1 /\ Len(kinds[m.ch]) = sent[m.ch]
  BY TakenType DEF Numbered, InOrder
<1>2. taken[m.ch] \in Nat /\ sent[m.ch] \in Nat
  BY <1>1 DEF TypeOK
<1>3. taken[m.ch] < sent[m.ch] /\ kinds[m.ch] # <<>>
  BY <1>1, <1>2
<1> QED BY <1>1, <1>2, <1>3 DEF NextOpen, Kind

\* The first claimant is one.
LEMMA FirstClaims ==
  ASSUME TypeOK, NEW m \in cur, Claimants(m) # {}
  PROVE  /\ First(Claimants(m)) \in 1 .. Len(handlers)
         /\ Claims(handlers[First(Claimants(m))], m)
<1>1. Claimants(m) \in SUBSET Nat
  BY DEF Claimants, TypeOK
<1>2. \E i \in Claimants(m) : \A j \in Claimants(m) : i <= j
  BY <1>1, Least
<1>3. First(Claimants(m)) \in Claimants(m)
  BY <1>2 DEF First
<1> QED BY <1>3 DEF Claimants

\* Nobody claims the message: nobody connected has the channel.
LEMMA NoClaim ==
  ASSUME TypeOK, PeersOK, NEW m \in cur, Claimants(m) = {}
  PROVE  /\ m.ch \notin ToSet(handlers)
         /\ \A p \in Peers : p \in ToSet(handlers) => m.ch \notin peer[p].channels
<1>1. \A i \in 1 .. Len(handlers) : ~Claims(handlers[i], m)
  BY DEF Claimants
<1>2. DOMAIN handlers = 1 .. Len(handlers)
  BY DEF TypeOK
<1>3. m.ch \notin Peers
  BY TakenType, NamesAssumption
<1>4. m.ch \notin ToSet(handlers)
  BY <1>1, <1>2, <1>3 DEF Claims, ToSet
<1>5. ASSUME NEW p \in Peers, p \in ToSet(handlers), m.ch \in peer[p].channels PROVE FALSE
  <2>1. Claims(p, m)
    BY <1>5 DEF Claims, PeerClaims, PeersOK
  <2> QED BY <1>1, <1>2, <1>5, <2>1 DEF ToSet
<1> QED BY <1>4, <1>5

\* A peer that is forwarded a message has the channel and a process.
LEMMA Forwards ==
  ASSUME TypeOK, PeersOK, NEW m \in cur, ToPeer(m)
  PROVE  \E p \in Peers : /\ m.ch \in peer[p].channels /\ Deliver(m, p)
                          /\ Kind(m) # "close" => peer' = peer
<1>1. PICK p \in Peers : p = handlers[First(Claimants(m))] /\ PeerForward(p, m, Kind(m) = "close")
  BY DEF ToPeer
<1>2. Claims(p, m)
  BY <1>1, FirstClaims DEF ToPeer
<1>3. m.ch \in peer[p].channels
  BY <1>2 DEF Claims, PeerClaims
<1>4. Deliver(m, p)
  BY <1>1, <1>3 DEF PeerForward, PeersOK
<1> QED BY <1>1, <1>3, <1>4 DEF PeerForward

\* The peer of a rule is connected.
LEMMA RuleConnected ==
  ASSUME TypeOK, Listed, NEW i \in 1 .. Len(rules), rules[i] \in Peers
  PROVE  rules[i] \in ToSet(handlers)
<1>1. PICK bs \in Bridges : rules = bs \o BuiltIn /\ ToSet(bs) \subseteq ToSet(handlers)
  BY DEF Listed
<1>2. PICK n \in Nat : n = Len(bs) /\ DOMAIN bs = 1 .. n
  BY RouterAssumption
<1>3. /\ Len(rules) = n + 3 /\ \A j \in 1 .. n : rules[j] = bs[j]
      /\ rules[n + 1] = "hosts" /\ rules[n + 2] = "payloads" /\ rules[n + 3] = "default"
  BY <1>1, <1>2, RouterAssumption DEF BuiltIn
<1>4. i \in 1 .. n
  <2>1. i # n + 1 /\ i # n + 2 /\ i # n + 3
    BY <1>3, NoPeer
  <2> QED BY <1>2, <1>3, <2>1
<1> QED BY <1>1, <1>2, <1>3, <1>4 DEF ToSet

\* The peer that was handed an open has closed the channel, or has it.
LEMMA HandedPeer ==
  ASSUME TypeOK, PeersOK, Settled, Walked, reloads = 0, [Next]_vars, NEW m \in cur, NEW p, NEW q, Handed(m, p, q)
  PROVE  \/ q.closed /\ q.problem /\ ClosedSent(m.ch)' /\ got' = got
         \/ ~q.closed /\ Deliver(m, p) /\ Owned(m.ch)'
<1>1. m.ch \in Channels /\ p \in Peers /\ p = rules[Top.i] /\ InWalk
  BY TakenType DEF Handed, Tried
<1>2. CASE HandleClosed(p, q, m)
  <2>1. Send(m.ch, "close")
    BY <1>2 DEF HandleClosed
  <2> QED BY <1>1, <1>2, <2>1, ClosedStays DEF HandleClosed
<1>3. CASE HandleInited(p, q, m)
  <2>1. ~q.closed /\ q.inited /\ Deliver(m, p) /\ peer' = [peer EXCEPT ![p] = Adopt(q, m.ch)]
    BY <1>3 DEF HandleInited
  <2>2. peer'[p] = Adopt(q, m.ch)
    BY <1>1, <2>1 DEF TypeOK
  <2>3. q \in PeerState
    BY <1>1, PeerTypes DEF Handed, Tried
  <2>4. m.ch \in Adopt(q, m.ch).channels /\ Adopt(q, m.ch).inited
    BY <2>1, <2>3 DEF Adopt, PeerState
  <2>5. p \in ToSet(handlers)
    <3>1. Top.i \in 1 .. Len(rules)
      BY <1>1 DEF Walked
    <3> QED BY <1>1, <3>1, RuleConnected DEF Settled
  <2>6. handlers' = handlers
    BY DEF Handed, RulePeer, rvars
  <2> QED BY <1>1, <2>1, <2>2, <2>4, <2>5, <2>6 DEF Owned
<1> QED BY <1>2, <1>3 DEF Handed

\* The peer that is up keeps the channel, is told to close it, or ends.
LEMMA OwnedStays ==
  ASSUME TypeOK, StackOK, Numbered, PeersOK, Settled, reloads = 0, ~Reload, [Next]_vars,
         NEW c \in Channels, Owned(c)
  PROVE  \/ Owned(c)' \/ ClosedSent(c)'
         \/ Idle /\ Doomed(c)' /\ UNCHANGED <<freeze, taken, sent>>
<1>1. PICK p \in Peers : c \in peer[p].channels /\ peer[p].inited /\ p \in ToSet(handlers)
  BY DEF Owned
<1>2. p \in ToSet(handlers')
  BY <1>1, NoReload, RulesStay
<1>3. Kept(p) \/ Fell(p) \/ Wiped(p) \/ Turned(p)
  BY PeersChange DEF Changed
<1>4. peer[p].other /\ ~peer[p].closed
  BY <1>1 DEF PeersOK
<1>5. CASE Kept(p)
  BY <1>1, <1>2, <1>5 DEF Kept, Owned
<1>6. CASE Fell(p)
  <2>1. PICK s \in Seq(Frame), x \in Frame : stack' = Append(s, x) /\ Dooms(x, c)
    BY <1>1, <1>6 DEF Fell, Dooms
  <2>2. Doomed(c)'
    <3>1. PICK t : t = stack'
      OBVIOUS
    <3>2. Len(s) \in Nat /\ Len(t) = Len(s) + 1 /\ t[Len(s) + 1] = x
      BY <2>1, <3>1, Appended
    <3>3. Len(s) + 1 \in 1 .. Len(t)
      BY <3>2
    <3> QED BY <2>1, <3>1, <3>2, <3>3 DEF Doomed
  <2>3. ~Running("reset") \/ Top.p # p
    <3> SUFFICES ASSUME Running("reset"), Top.p = p PROVE FALSE
      OBVIOUS
    <3>1. Len(stack) \in 1 .. Len(stack) /\ stack[Len(stack)].f = "reset" /\ stack[Len(stack)].p = p
      BY DEF Running, Top, TypeOK
    <3> QED BY <1>1, <3>1 DEF Settled, Plain
  <2> QED BY <1>6, <2>2, <2>3 DEF Fell
<1>7. ~Wiped(p)
  <2> SUFFICES ASSUME Wiped(p) PROVE FALSE
    OBVIOUS
  <2>1. Running("clear") /\ Top.p = p
    BY NoReload DEF Wiped
  <2>2. Len(stack) \in 1 .. Len(stack) /\ stack[Len(stack)].f = "clear" /\ stack[Len(stack)].p = p
    BY <2>1 DEF Running, Top, TypeOK
  <2> QED BY <1>4, <2>2 DEF StackOK, Calls
<1>8. CASE Turned(p)
  <2>1. PICK m \in cur, q \in Ensured(p) : Tried(m, p, q, peer'[p])
    BY <1>8 DEF Turned
  <2>2. PICK r : r = peer'[p]
    OBVIOUS
  <2>3. r.inited = q.inited /\ q = peer[p] /\ r.channels \in {peer[p].channels, peer[p].channels \cup {m.ch}}
    BY <1>4, <2>1, <2>2, TriedPeer
  <2>4. c \in r.channels /\ r.inited
    BY <1>1, <2>3
  <2> QED BY <1>2, <2>2, <2>4 DEF Owned
<1> QED BY <1>3, <1>5, <1>6, <1>7, <1>8

(***************************************************************************)
(* No message is dropped.  A channel that has been opened is closed, is a  *)
(* local channel, belongs to a peer that is up, or its open is still to be *)
(* handled; or it has no more messages and a loop under way closes it.     *)
(***************************************************************************)
Fate(c) ==
  \/ ClosedSent(c) \/ local[c] # "none" \/ Owned(c) \/ NextOpen(c) \/ kinds[c] = <<>>
  \/ taken[c] = sent[c] /\ Doomed(c)

\* A frozen channel whose open was taken is a local one.
Held(c) == c \in freeze => local[c] # "none" \/ ClosedSent(c) \/ NextOpen(c)

\* What was taken was delivered.
Heard(c) == taken[c] <= Len(got[c]) \/ ClosedSent(c) \/ local[c] = "closing"

Cared == reloads = 0 /\ ~dangled => \A c \in Channels : Fate(c) /\ Held(c) /\ Heard(c)

\* An open still to be handled waits on, or is taken.
LEMMA NextOpenStays ==
  ASSUME TypeOK, Numbered, Walked, reloads = 0, [Next]_vars, NEW c \in Channels, NextOpen(c)
  PROVE  NextOpen(c)' \/ Handles(c)
<1>1. Silent(c) \/ Sends(c) \/ Requeues(c) \/ Handles(c)
  BY MessagesMove
<1>2. CASE Silent(c) \/ Requeues(c)
  BY <1>2 DEF Silent, Requeues, Still, NextOpen
<1>3. CASE Sends(c)
  <2>1. PICK k \in Kinds : taken' = taken /\ sent'[c] = sent[c] + 1 /\ kinds'[c] = Append(kinds[c], k)
    BY <1>3 DEF Sends, FrontSend, Recv, TypeOK
  <2>2. taken[c] \in Nat /\ sent[c] \in Nat /\ kinds[c] \in Seq(Kinds) /\ Len(kinds[c]) = sent[c]
    BY DEF TypeOK, Numbered
  <2>3. taken[c] + 1 \in 1 .. Len(kinds[c])
    BY <2>2 DEF NextOpen
  <2>4. kinds'[c][taken[c] + 1] = kinds[c][taken[c] + 1]
    BY <2>1, <2>2, <2>3
  <2> QED BY <2>1, <2>2, <2>4 DEF NextOpen
<1> QED BY <1>1, <1>2, <1>3

\* An open that was taken has gone somewhere.
LEMMA OpenTaken ==
  ASSUME TypeOK, PeersOK, Settled, Walked, reloads = 0, [Next]_vars, NEW m \in cur, Took(m), Kind(m) = "open"
  PROVE  ClosedSent(m.ch)' \/ local'[m.ch] # "none" \/ Owned(m.ch)'
<1>1. m.ch \in Channels
  BY TakenType
<1>2. CASE CreateChannel(m, "new") \/ CreateChannel(m, "unsupported")
  <2>1. local'[m.ch] \in {"new", "unsupported"}
    BY <1>1, <1>2 DEF CreateChannel, TypeOK
  <2> QED BY <2>1
<1>3. ASSUME NEW p, NEW q, Handed(m, p, q) PROVE ClosedSent(m.ch)' \/ Owned(m.ch)'
  BY <1>3, HandedPeer
<1> QED BY <1>2, <1>3 DEF Took

LEMMA FateStep ==
  ASSUME TypeOK, StackOK, Numbered, PeersOK, Settled, Walked, Behind, InOrder, NoneLeftBehind,
         reloads = 0, ~Reload, ~dangled, [Next]_vars, NEW c \in Channels, Fate(c), Held(c)
  PROVE  Fate(c)'
<1>1. CASE ClosedSent(c)
  BY <1>1, ClosedStays DEF Fate
<1>2. CASE local[c] # "none"
  BY <1>2, LocalStays DEF Fate
<1>3. CASE NextOpen(c)
  <2>1. CASE Handles(c)
    <3>1. PICK m \in cur : m.ch = c /\ Took(m)
      BY <2>1 DEF Handles
    <3>2. Kind(m) = "open"
      BY <1>3, <3>1, NextHandled
    <3> QED BY <3>1, <3>2, OpenTaken DEF Fate
  <2> QED BY <1>3, <2>1, NextOpenStays DEF Fate
<1>4. Silent(c) \/ Sends(c) \/ Requeues(c) \/ Handles(c)
  BY MessagesMove
<1>5. taken[c] \in Nat /\ sent[c] \in Nat /\ taken[c] <= sent[c] /\ Len(kinds[c]) = sent[c] /\ kinds[c] \in Seq(Kinds)
  BY DEF TypeOK, Behind, Numbered
<1>6. CASE kinds[c] = <<>>
  <2>1. sent[c] = 0 /\ taken[c] = 0
    BY <1>5, <1>6
  <2>2. ~Requeues(c) /\ ~Handles(c)
    BY <1>6, NextHandled DEF Requeues, Handles
  <2>3. CASE Sends(c)
    <3>1. PICK k \in Kinds : /\ taken' = taken /\ sent'[c] = sent[c] + 1 /\ kinds'[c] = Append(kinds[c], k)
                             /\ FrontMay(c, k)
      BY <2>3 DEF Sends, FrontSend, Recv, TypeOK
    <3>2. ~FrontOpen(c)
      BY <1>6 DEF FrontOpen
    <3>3. k = "open"
      BY <3>1, <3>2 DEF FrontMay, Kinds
    <3>4. kinds'[c][1] = "open"
      BY <1>6, <3>1, <3>3
    <3> QED BY <2>1, <3>1, <3>4 DEF Fate, NextOpen
  <2> QED BY <1>4, <1>6, <2>2, <2>3 DEF Silent, Still, Fate
<1>7. CASE taken[c] = sent[c] /\ Doomed(c)
  <2>1. ~Requeues(c) /\ ~Handles(c)
    BY <1>5, <1>7, NextHandled DEF Requeues, Handles
  <2>2. ~Sends(c)
    BY <1>7 DEF Sends, FrontSend, Recv, Doomed
  <2> QED BY <1>4, <1>7, <2>1, <2>2, DoomedStays DEF Silent, Still, Fate
<1>8. CASE Owned(c)
  <2>1. CASE Idle /\ Doomed(c)' /\ UNCHANGED <<freeze, taken, sent>>
    <3>1. CASE taken[c] = sent[c]
      BY <2>1, <3>1 DEF Fate
    <3>2. CASE taken[c] # sent[c]
      <4>1. c \in freeze
        BY <2>1, <3>2 DEF NoneLeftBehind, Idle
      <4> QED BY <1>1, <1>2, <1>3, <4>1 DEF Held
    <3> QED BY <3>1, <3>2
  <2> QED BY <1>8, <2>1, OwnedStays DEF Fate
<1> QED BY <1>1, <1>2, <1>3, <1>6, <1>7, <1>8 DEF Fate

LEMMA HeldStep ==
  ASSUME TypeOK, Numbered, Walked, OneMessage, InOrder,
         reloads = 0, ~Reload, ~dangled, [Next]_vars, NEW c \in Channels, Held(c)
  PROVE  Held(c)'
<1> SUFFICES ASSUME c \in freeze' PROVE local'[c] # "none" \/ ClosedSent(c)' \/ NextOpen(c)'
  BY DEF Held
<1>1. Silent(c) \/ Sends(c) \/ Requeues(c) \/ Handles(c)
  BY MessagesMove
<1>2. CASE c \in freeze
  <2>1. CASE local[c] # "none" \/ ClosedSent(c)
    BY <2>1, LocalStays, ClosedStays
  <2>2. CASE NextOpen(c)
    <3>1. ~Handles(c)
      BY <1>2 DEF Handles, OneMessage
    <3> QED BY <2>2, <3>1, NextOpenStays
  <2> QED BY <1>2, <2>1, <2>2 DEF Held
<1>3. CASE c \notin freeze
  <2>1. ~Silent(c) /\ ~Sends(c)
    BY <1>3 DEF Silent, Sends, FrontSend, Recv
  <2>2. CASE Requeues(c)
    BY <2>2, NextHandled DEF Requeues, Still, NextOpen
  <2>3. CASE Handles(c)
    <3>1. PICK m \in cur : m.ch = c /\ Took(m)
      BY <2>3 DEF Handles
    <3>2. CASE CreateChannel(m, "new") \/ CreateChannel(m, "unsupported")
      <4>1. local'[c] \in {"new", "unsupported"}
        BY <3>1, <3>2 DEF CreateChannel, TypeOK
      <4> QED BY <4>1
    <3>3. ~(CreateChannel(m, "new") \/ CreateChannel(m, "unsupported")) => freeze' = freeze
      BY <3>1 DEF Took, Unclaimed, ToPeer, ToLocal, Handed, HandleClosed, HandleInited
    <3> QED BY <1>3, <3>2, <3>3
  <2> QED BY <1>1, <2>1, <2>2, <2>3
<1> QED BY <1>2, <1>3

\* A channel that is closing is not opened.
LEMMA ClosingStays ==
  ASSUME TypeOK, Walked, reloads = 0, ~Reload, [Next]_vars, NEW c \in Channels, local[c] = "closing"
  PROVE  local'[c] = "closing" \/ ClosedSent(c)'
<1>1. Moved(c)
  BY LocalsMove
<1>2. ~Opened(c)
  BY DEF Opened, Admitted, Walked
<1> QED BY <1>1, <1>2 DEF Moved, Stays, Readies, Closing, Closes

\* One more was delivered.
LEMMA DeliveredOne ==
  ASSUME TypeOK, NEW m \in cur, NEW h, Deliver(m, h)
  PROVE  Len(got'[m.ch]) = Len(got[m.ch]) + 1 /\ Len(got[m.ch]) \in Nat
<1>1. m.ch \in Channels
  BY TakenType
<1>2. got[m.ch] \in Seq([n : Nat, by : Peers \cup {"local"}])
  BY <1>1 DEF TypeOK
<1>3. got'[m.ch] = Append(got[m.ch], [n |-> m.n, by |-> h])
  BY <1>1 DEF Deliver, TypeOK
<1> QED BY <1>2, <1>3

LEMMA HeardStep ==
  ASSUME TypeOK, Numbered, PeersOK, Settled, Walked, Connected, InOrder,
         reloads = 0, ~Reload, ~dangled, [Next]_vars, NEW c \in Channels, Fate(c), Heard(c)
  PROVE  Heard(c)'
<1>1. Silent(c) \/ Sends(c) \/ Requeues(c) \/ Handles(c)
  BY MessagesMove
<1>2. ClosedSent(c) \/ local[c] = "closing" => Heard(c)'
  BY ClosedStays, ClosingStays DEF Heard
<1>3. CASE taken[c] <= Len(got[c]) /\ ~Handles(c)
  <2>1. taken'[c] = taken[c] /\ got'[c] = got[c]
    BY <1>1, <1>3 DEF Silent, Requeues, Sends, Still, FrontSend, Recv, pvars
  <2> QED BY <1>3, <2>1 DEF Heard
<1>4. CASE taken[c] <= Len(got[c]) /\ Handles(c)
  <2>1. PICK m \in cur : m.ch = c /\ taken'[c] = m.n /\ Took(m)
    BY <1>4 DEF Handles
  <2>2. taken'[c] = taken[c] + 1 /\ taken[c] \in Nat /\ taken[c] < sent[c] /\ kinds[c] # <<>>
    BY <2>1, NextHandled
  <2>3. ASSUME NEW h, Deliver(m, h) PROVE Heard(c)'
    <3>1. Len(got'[c]) = Len(got[c]) + 1 /\ Len(got[c]) \in Nat
      BY <2>1, <2>3, DeliveredOne
    <3>2. taken'[c] <= Len(got'[c])
      BY <1>4, <2>2, <3>1
    <3> QED BY <3>2 DEF Heard
  <2>4. CASE Kind(m) # "open" /\ Unclaimed(m)
    <3>1. /\ c \notin ToSet(handlers)
          /\ \A p \in Peers : p \in ToSet(handlers) => c \notin peer[p].channels
      BY <2>1, <2>4, NoClaim DEF Unclaimed
    <3>2. ~Owned(c)
      BY <3>1 DEF Owned
    <3>3. ~NextOpen(c)
      BY <2>1, <2>4, NextHandled
    <3>4. ClosedSent(c) \/ local[c] # "none"
      BY <2>2, <3>2, <3>3 DEF Fate, TypeOK
    <3> QED BY <1>2, <3>1, <3>4 DEF Connected
  <2>5. CASE ToPeer(m)
    BY <2>3, <2>5, Forwards
  <2>6. CASE ToLocal(m) \/ CreateChannel(m, "new") \/ CreateChannel(m, "unsupported")
    BY <2>3, <2>6 DEF ToLocal, CreateChannel
  <2>7. ASSUME NEW p, NEW q, Handed(m, p, q) PROVE Heard(c)'
    BY <2>1, <2>3, <2>7, HandedPeer DEF Heard
  <2> QED BY <2>1, <2>4, <2>5, <2>6, <2>7 DEF Took
<1> QED BY <1>2, <1>3, <1>4 DEF Heard

LEMMA CaredStep ==
  ASSUME TypeOK, StackOK, Numbered, PeersOK, Settled, OneMessage, Walked, Connected, Behind,
         InOrder, NoneLeftBehind, Cared, [Next]_vars
  PROVE  Cared'
<1> SUFFICES ASSUME reloads' = 0, ~dangled', NEW c \in Channels PROVE Fate(c)' /\ Held(c)' /\ Heard(c)'
  BY DEF Cared
<1>1. reloads = 0 /\ ~Reload /\ ~dangled
  BY NotReloaded, NotDangled
<1>2. Fate(c) /\ Held(c) /\ Heard(c)
  BY <1>1 DEF Cared
<1> QED BY <1>1, <1>2, FateStep, HeldStep, HeardStep

LEMMA CaredInit == Init => Connected /\ Behind /\ Cared
<1> SUFFICES ASSUME Init PROVE Behind /\ Cared
  BY ConnectedInit
<1>1. \A c \in Channels : taken[c] = 0 /\ sent[c] = 0 /\ kinds[c] = <<>> /\ got[c] = <<>>
  BY DEF Init, TransportInit, PeerInit
<1>2. freeze = {}
  BY DEF Init, TransportInit
<1> QED BY <1>1, <1>2 DEF Behind, Cared, Fate, Held, Heard

CaredInv ==
  /\ TypeOK /\ StackOK /\ Numbered /\ PeersOK /\ Settled /\ OneMessage /\ Walked
  /\ Connected /\ Behind /\ Cared

LEMMA CaredInvStep == CaredInv /\ InOrder /\ NoneLeftBehind /\ [Next]_vars => CaredInv'
<1> SUFFICES ASSUME CaredInv, InOrder, NoneLeftBehind, [Next]_vars PROVE CaredInv'
  OBVIOUS
<1>1. TypeOK' /\ StackOK' /\ Numbered'
  BY BridgeNext, StackStep, NumberedStep DEF CaredInv
<1>2. PeersOK' /\ Settled' /\ OneMessage' /\ Walked'
  BY PeersStep, SettledStep, OneMessageStep, WalkedStep DEF CaredInv
<1>3. Connected' /\ Behind' /\ Cared'
  BY ConnectedStep, BehindStep, CaredStep DEF CaredInv
<1> QED BY <1>1, <1>2, <1>3 DEF CaredInv

(***************************************************************************)
(* Until the packages are loaded again, and as long as no walk has met a   *)
(* freed link, no message of a channel is dropped unless one end has       *)
(* closed it: for any channels, peers, rules, fences and timeouts, and     *)
(* ids opened again (process_open, cockpit_peer_handle, on_other_closed).  *)
(***************************************************************************)
THEOREM NoneDropped == Spec => [](reloads = 0 /\ ~dangled => NothingDropped)
<1>1. Init => CaredInv
  BY BridgeInit, StackInit, NumberedInit, SettledInit, OneMessageInit, PlacedInit, CaredInit DEF CaredInv
<1>2. CaredInv => (reloads = 0 /\ ~dangled => NothingDropped)
  <2> SUFFICES ASSUME CaredInv, reloads = 0, ~dangled, NEW c \in Channels, taken[c] > Len(got[c])
               PROVE  ClosedSent(c) \/ local[c] = "closing"
    BY DEF NothingDropped
  <2>1. Heard(c)
    BY DEF CaredInv, Cared
  <2>2. taken[c] \in Nat /\ Len(got[c]) \in Nat
    BY DEF CaredInv, TypeOK
  <2> QED BY <2>1, <2>2 DEF Heard
<1> QED BY <1>1, <1>2, CaredInvStep, BridgeOrder, BridgeCompleteness, PTL DEF Spec

(***************************************************************************)
(* One handler.  The first message of a channel, and no other, opens it.   *)
(***************************************************************************)
OpensOnce(c) == \A n \in 1 .. sent[c] : kinds[c][n] = "open" <=> n = 1

\* Nobody has the channel.
Gone(c) == c \notin ToSet(handlers) /\ \A p \in Peers : c \notin peer[p].channels

\* What was delivered starts with the open, has no gap, and went to the one
\* who has the channel; once a message was dropped, nobody has it.
Bound(c) ==
  /\ Len(got[c]) <= taken[c]
  /\ Len(got[c]) < taken[c] => Gone(c)
  /\ got[c] # <<>> => /\ \A p \in Peers : c \in peer[p].channels => p = got[c][1].by
                      /\ c \in ToSet(handlers) => got[c][1].by = "local"
  /\ \A i \in 1 .. Len(got[c]) : got[c][i].n = i /\ got[c][i].by = got[c][1].by

Single == reloads = 0 /\ ~dangled => \A c \in Channels \ Reused : OpensOnce(c) /\ Bound(c)

LEMMA OpensOnceStep ==
  ASSUME TypeOK, Numbered, Walked, reloads = 0, [Next]_vars, NEW c \in Channels \ Reused, OpensOnce(c)
  PROVE  OpensOnce(c)'
<1>1. Silent(c) \/ Sends(c) \/ Requeues(c) \/ Handles(c)
  BY MessagesMove
<1>2. CASE ~Sends(c)
  <2>1. sent'[c] = sent[c] /\ kinds'[c] = kinds[c]
    BY <1>1, <1>2 DEF Silent, Requeues, Still, Handles
  <2> QED BY <2>1 DEF OpensOnce
<1>3. CASE Sends(c)
  <2>1. PICK k \in Kinds : sent'[c] = sent[c] + 1 /\ kinds'[c] = Append(kinds[c], k) /\ FrontMay(c, k)
    BY <1>3 DEF Sends, FrontSend, Recv, TypeOK
  <2>2. sent[c] \in Nat /\ kinds[c] \in Seq(Kinds) /\ Len(kinds[c]) = sent[c]
    BY DEF TypeOK, Numbered
  <2>3. k = "open" <=> kinds[c] = <<>>
    <3>1. FrontOpen(c) => kinds[c] # <<>>
      BY DEF FrontOpen
    <3> QED BY <2>1, <3>1 DEF FrontMay, Kinds
  <2>4. kinds[c] = <<>> <=> sent[c] = 0
    BY <2>2
  <2>5. kinds'[c][sent[c] + 1] = k /\ \A n \in 1 .. sent[c] : kinds'[c][n] = kinds[c][n]
    BY <2>1, <2>2
  <2>6. ASSUME NEW n \in 1 .. sent'[c] PROVE kinds'[c][n] = "open" <=> n = 1
    <3>1. CASE n = sent[c] + 1
      BY <2>2, <2>3, <2>4, <2>5, <3>1
    <3>2. CASE n # sent[c] + 1
      <4>1. n \in 1 .. sent[c]
        BY <2>1, <2>2, <3>2
      <4> QED BY <2>5, <4>1 DEF OpensOnce
    <3> QED BY <3>1, <3>2
  <2> QED BY <2>6 DEF OpensOnce
<1> QED BY <1>2, <1>3

\* An open is the first message.
LEMMA OpenFirst ==
  ASSUME TypeOK, Numbered, InOrder, ~dangled, NEW m \in cur, OpensOnce(m.ch)
  PROVE  Kind(m) = "open" <=> taken[m.ch] = 0
<1>1. m.ch \in Channels /\ m.n = taken[m.ch] + 1 /\ taken[m.ch] < sent[m.ch] /\ taken[m.ch] \in Nat /\ sent[m.ch] \in Nat
  BY NextHandled
<1>2. m.n \in 1 .. sent[m.ch]
  BY <1>1
<1>3. m.n = 1 <=> taken[m.ch] = 0
  BY <1>1
<1> QED BY <1>2, <1>3 DEF OpensOnce, Kind

\* After its open a channel gets no other owner.
LEMMA NoNewOwner ==
  ASSUME TypeOK, Numbered, PeersOK, Walked, InOrder, reloads = 0, ~Reload, ~dangled, [Next]_vars,
         NEW c \in Channels, OpensOnce(c), taken[c] # 0
  PROVE  /\ \A p \in Peers : c \in peer'[p].channels => c \in peer[p].channels
         /\ c \in ToSet(handlers') => c \in ToSet(handlers)
<1>1. ASSUME NEW p \in Peers, c \in peer'[p].channels, c \notin peer[p].channels PROVE FALSE
  <2>1. Kept(p) \/ Fell(p) \/ Wiped(p) \/ Turned(p)
    BY PeersChange DEF Changed
  <2>2. Turned(p)
    BY <1>1, <2>1 DEF Kept, Fell, Wiped
  <2>3. PICK m \in cur, q \in Ensured(p) : InWalk /\ RulePeer(m) /\ Tried(m, p, q, peer'[p])
    BY <2>2 DEF Turned
  <2>4. PICK r : r = peer'[p]
    OBVIOUS
  <2>5. m.ch = c
    <3>1. r.channels \in {peer[p].channels, peer[p].channels \cup {m.ch}}
      BY <2>3, <2>4, TriedPeer
    <3>2. c \in r.channels
      BY <1>1, <2>4
    <3> QED BY <1>1, <3>1, <3>2
  <2>6. Kind(m) = "open"
    BY <2>3 DEF Walked
  <2> QED BY <2>5, <2>6, OpenFirst
<1>2. ASSUME c \in ToSet(handlers'), c \notin ToSet(handlers) PROVE FALSE
  <2>1. Moved(c)
    BY LocalsMove
  <2>2. Opened(c)
    BY <1>2, <2>1 DEF Moved, Stays, Readies, Closing, Closes
  <2>3. PICK m \in cur : m.ch = c /\ Kind(m) = "open"
    BY <2>2 DEF Opened, Walked
  <2> QED BY <2>3, OpenFirst
<1> QED BY <1>1, <1>2

\* The one who already has a channel whose open is walked.
LEMMA WalkOwner ==
  ASSUME TypeOK, PeersOK, Settled, Walked, Placed, reloads = 0, NEW m \in cur, NEW p, NEW q, Handed(m, p, q),
         NEW z \in Peers, m.ch \in peer[z].channels
  PROVE  z = p /\ ~q.closed
<1>1. p \in Peers /\ p = rules[Top.i] /\ q \in Ensured(p) /\ Matches(p, m.ch) /\ InWalk /\ ~Refuses(q)
  BY DEF Handed, Tried, HandleClosed, HandleInited, Refuses
<1>2. m.ch \in Match[p]
  BY <1>1, PeerMatches
<1>3. Top.i \in 1 .. Len(rules) /\ Past(Top.i, m.ch) /\ Len(rules) \in Nat
  BY <1>1 DEF Walked, TypeOK
<1>4. PICK i \in 1 .. Len(rules) : Place(z, m.ch, i)
  BY DEF Placed
<1>5. peer[z].other /\ ~peer[z].closed
  BY DEF PeersOK
<1>6. ~(i < Top.i)
  <2> SUFFICES ASSUME i < Top.i PROVE FALSE
    OBVIOUS
  <2>1. i \in 1 .. Top.i - 1
    BY <1>3
  <2> QED BY <1>3, <1>4, <1>5, <2>1 DEF Past, Place, Refused
<1>7. ~(Top.i < i)
  <2> SUFFICES ASSUME Top.i < i PROVE FALSE
    OBVIOUS
  <2>1. Top.i \in 1 .. i - 1
    BY <1>3
  <2>2. Refused(peer[p])
    BY <1>1, <1>2, <1>4, <2>1 DEF Past, Place
  <2> QED BY <1>1, <2>2 DEF Refused, Refuses, Ensured
<1>8. i = Top.i
  BY <1>3, <1>6, <1>7
<1>9. z = p
  BY <1>1, <1>4, <1>8 DEF Place
<1> QED BY <1>1, <1>5, <1>9 DEF Ensured

\* One more delivery, to h.
LEMMA DeliveredTo ==
  ASSUME TypeOK, NEW m \in cur, NEW h, Deliver(m, h)
  PROVE  /\ Len(got'[m.ch]) = Len(got[m.ch]) + 1 /\ Len(got[m.ch]) \in Nat
         /\ got'[m.ch][Len(got[m.ch]) + 1].n = m.n /\ got'[m.ch][Len(got[m.ch]) + 1].by = h
         /\ \A i \in 1 .. Len(got[m.ch]) : got'[m.ch][i] = got[m.ch][i]
<1>1. m.ch \in Channels
  BY TakenType
<1>2. got[m.ch] \in Seq([n : Nat, by : Peers \cup {"local"}])
  BY <1>1 DEF TypeOK
<1>3. PICK x : x = [n |-> m.n, by |-> h]
  OBVIOUS
<1>4. x.n = m.n /\ x.by = h
  BY <1>3
<1>5. got'[m.ch] = Append(got[m.ch], x)
  BY <1>1, <1>3 DEF Deliver, TypeOK
<1> QED BY <1>2, <1>4, <1>5

\* The open of a channel is delivered, to its first owner, or dropped.
LEMMA BoundOpen ==
  ASSUME TypeOK, Numbered, PeersOK, Settled, Walked, Placed, Connected, InOrder,
         reloads = 0, reloads' = 0, ~dangled, [Next]_vars, Placed',
         NEW m \in cur, m.ch \in Channels, OpensOnce(m.ch), Bound(m.ch),
         taken'[m.ch] = m.n, Kind(m) = "open", Took(m)
  PROVE  Bound(m.ch)'
<1> DEFINE c == m.ch
<1> HIDE DEF c
<1>0. c \in Channels /\ m.ch = c
  BY DEF c
<1>1. taken[c] = 0 /\ taken'[c] = 1
  BY OpenFirst, NextHandled DEF c
<1>2. got[c] = <<>> /\ Len(got[c]) = 0
  <2>1. got[c] \in Seq([n : Nat, by : Peers \cup {"local"}]) /\ Len(got[c]) <= 0
    BY <1>0, <1>1 DEF Bound, TypeOK
  <2> QED BY <2>1
<1>3. ASSUME NEW h, Deliver(m, h),
             \A p \in Peers : c \in peer'[p].channels => p = h,
             c \in ToSet(handlers') => h = "local"
      PROVE  Bound(c)'
  <2>1. Len(got'[c]) = 1 /\ got'[c][1].n = m.n /\ got'[c][1].by = h
    <3>1. /\ Len(got'[m.ch]) = Len(got[m.ch]) + 1
          /\ got'[m.ch][Len(got[m.ch]) + 1].n = m.n /\ got'[m.ch][Len(got[m.ch]) + 1].by = h
      BY <1>3, DeliveredTo
    <3>2. Len(got[m.ch]) + 1 = 1
      BY <1>0, <1>2
    <3>3. Len(got'[m.ch]) = 1 /\ got'[m.ch][1].n = m.n /\ got'[m.ch][1].by = h
      BY <3>1, <3>2
    <3> QED BY <1>0, <3>3
  <2>2. m.n = 1
    BY <1>0, <1>1, NextHandled
  <2>3. \A i \in 1 .. Len(got'[c]) : got'[c][i].n = i /\ got'[c][i].by = got'[c][1].by
    BY <2>1, <2>2
  <2> QED BY <1>1, <1>3, <2>1, <2>3 DEF Bound
<1>4. CASE CreateChannel(m, "new") \/ CreateChannel(m, "unsupported")
  <2>1. local'[c] \in {"new", "unsupported"}
    BY <1>0, <1>4 DEF CreateChannel, TypeOK
  <2>2. \A p \in Peers : c \notin peer'[p].channels
    BY <2>1 DEF Placed
  <2>3. Deliver(m, "local")
    BY <1>4 DEF CreateChannel
  <2>4. Bound(c)'
    BY <1>3, <2>2, <2>3
  <2> QED BY <1>0, <2>4
<1>5. ASSUME NEW p, NEW q, Handed(m, p, q) PROVE Bound(c)'
  <2>1. p \in Peers /\ peer' = [peer EXCEPT ![p] = peer'[p]] /\ InWalk
    BY <1>5 DEF Handed, Tried
  <2>2. c \notin ToSet(handlers')
    <3>1. local[c] = "none"
      BY <1>0, <2>1 DEF Walked
    <3>2. handlers' = handlers
      BY <1>5 DEF Handed, RulePeer, rvars
    <3> QED BY <1>0, <3>1, <3>2 DEF Connected
  <2>3. \A z \in Peers : c \in peer[z].channels => z = p /\ ~q.closed
    BY <1>0, <1>5, WalkOwner
  <2>4. \A z \in Peers : z # p => peer'[z] = peer[z]
    BY <2>1 DEF TypeOK
  <2>5. CASE q.closed /\ q.problem /\ got' = got
    <3>1. c \notin peer'[p].channels
      <4>1. PICK r : r = peer'[p]
        OBVIOUS
      <4>2. r.channels = peer[p].channels
        BY <1>5, <2>1, <2>5, <4>1, TriedPeer DEF Handed
      <4> QED BY <2>1, <2>3, <2>5, <4>1, <4>2
    <3>2. \A z \in Peers : c \notin peer'[z].channels
      BY <2>3, <2>4, <2>5, <3>1
    <3>3. Gone(c)'
      BY <2>2, <3>2 DEF Gone
    <3>4. Len(got'[c]) = 0 /\ got'[c] = <<>>
      BY <1>2, <2>5
    <3> QED BY <1>1, <3>3, <3>4 DEF Bound
  <2>6. CASE ~q.closed /\ Deliver(m, p)
    BY <1>3, <2>2, <2>3, <2>4, <2>6
  <2> QED BY <1>5, <2>5, <2>6, HandedPeer
<1> QED BY <1>0, <1>4, <1>5 DEF Took

\* A later message is delivered to the owner, or there is none.
LEMMA BoundLater ==
  ASSUME TypeOK, Numbered, PeersOK, Settled, Walked, Placed, InOrder,
         reloads = 0, ~Reload, ~dangled, [Next]_vars,
         NEW m \in cur, m.ch \in Channels, OpensOnce(m.ch), Bound(m.ch),
         taken'[m.ch] = m.n, Kind(m) # "open", Took(m)
  PROVE  Bound(m.ch)'
<1> DEFINE c == m.ch
<1> HIDE DEF c
<1>0. c \in Channels /\ m.ch = c
  BY DEF c
<1>1. taken[c] # 0 /\ taken'[c] = taken[c] + 1 /\ taken[c] \in Nat /\ m.n = taken[c] + 1
  BY OpenFirst, NextHandled DEF c
<1>2. /\ \A p \in Peers : c \in peer'[p].channels => c \in peer[p].channels
      /\ c \in ToSet(handlers') => c \in ToSet(handlers)
  BY <1>0, <1>1, NoNewOwner
<1>3. Bound(c) /\ Len(got[c]) \in Nat
  BY <1>0 DEF TypeOK
<1>4. ASSUME NEW h, Deliver(m, h), ~Gone(c), got[c] # <<>> => h = got[c][1].by
      PROVE  Bound(c)'
  <2>1. Len(got[c]) = taken[c]
    BY <1>1, <1>3, <1>4 DEF Bound
  <2>2. got[c] # <<>> /\ 1 \in 1 .. Len(got[c])
    BY <1>1, <2>1
  <2>3. /\ Len(got'[c]) = Len(got[c]) + 1
        /\ got'[c][Len(got[c]) + 1].n = m.n /\ got'[c][Len(got[c]) + 1].by = h
        /\ \A i \in 1 .. Len(got[c]) : got'[c][i] = got[c][i]
    BY <1>0, <1>4, DeliveredTo
  <2>4. got'[c][1] = got[c][1] /\ got'[c] # <<>>
    BY <2>2, <2>3
  <2>5. ASSUME NEW i \in 1 .. Len(got'[c]) PROVE got'[c][i].n = i /\ got'[c][i].by = got'[c][1].by
    <3>1. CASE i = Len(got[c]) + 1
      BY <1>1, <1>4, <2>1, <2>2, <2>3, <2>4, <3>1
    <3>2. CASE i # Len(got[c]) + 1
      <4>1. i \in 1 .. Len(got[c])
        BY <1>3, <2>3, <3>2
      <4> QED BY <1>3, <2>3, <2>4, <4>1 DEF Bound
    <3> QED BY <3>1, <3>2
  <2>6. Len(got'[c]) = taken'[c] /\ taken'[c] \in Nat
    BY <1>1, <2>1, <2>3
  <2> QED BY <1>2, <1>3, <2>2, <2>4, <2>5, <2>6 DEF Bound
<1>5. CASE Unclaimed(m)
  <2>1. /\ c \notin ToSet(handlers)
        /\ \A p \in Peers : p \in ToSet(handlers) => c \notin peer[p].channels
    BY <1>0, <1>5, NoClaim DEF Unclaimed
  <2>2. ASSUME NEW p \in Peers, c \in peer[p].channels PROVE p \in ToSet(handlers)
    <3>1. PICK i \in 1 .. Len(rules) : rules[i] = p
      BY <2>2 DEF Placed, Place
    <3> QED BY <3>1, RuleConnected DEF Settled
  <2>3. Gone(c)'
    BY <1>2, <2>1, <2>2 DEF Gone
  <2>4. got' = got
    BY <1>5 DEF Unclaimed, pvars
  <2>5. Len(got'[c]) <= taken'[c]
    BY <1>1, <1>3, <2>4 DEF Bound
  <2>6. Bound(c)'
    BY <1>2, <1>3, <2>3, <2>4, <2>5 DEF Bound
  <2> QED BY <1>0, <2>6
<1>6. CASE ToPeer(m)
  <2>1. PICK p \in Peers : c \in peer[p].channels /\ Deliver(m, p)
    BY <1>0, <1>6, Forwards
  <2>2. ~Gone(c)
    BY <2>1 DEF Gone
  <2>3. got[c] # <<>> => p = got[c][1].by
    BY <1>3, <2>1 DEF Bound
  <2>4. Bound(c)'
    BY <1>4, <2>1, <2>2, <2>3
  <2> QED BY <1>0, <2>4
<1>7. CASE ToLocal(m)
  <2>1. Deliver(m, "local")
    BY <1>7 DEF ToLocal
  <2>2. c \in ToSet(handlers)
    <3>1. First(Claimants(m)) \in 1 .. Len(handlers) /\ handlers[First(Claimants(m))] = c
      BY <1>0, <1>7, FirstClaims DEF ToLocal
    <3>2. DOMAIN handlers = 1 .. Len(handlers)
      BY DEF TypeOK
    <3> QED BY <3>1, <3>2 DEF ToSet
  <2>3. ~Gone(c) /\ (got[c] # <<>> => got[c][1].by = "local")
    BY <1>3, <2>2 DEF Gone, Bound
  <2>4. Bound(c)'
    BY <1>4, <2>1, <2>3
  <2> QED BY <1>0, <2>4
<1> QED BY <1>0, <1>5, <1>6, <1>7 DEF Took

LEMMA SingleStep ==
  ASSUME TypeOK, Numbered, PeersOK, Settled, Walked, Placed, Connected, InOrder, Single, [Next]_vars, Placed'
  PROVE  Single'
<1> SUFFICES ASSUME reloads' = 0, ~dangled', NEW c \in Channels \ Reused PROVE OpensOnce(c)' /\ Bound(c)'
  BY DEF Single
<1>1. reloads = 0 /\ ~Reload /\ ~dangled
  BY NotReloaded, NotDangled
<1>2. OpensOnce(c) /\ Bound(c)
  BY <1>1 DEF Single
<1>3. OpensOnce(c)'
  BY <1>1, <1>2, OpensOnceStep
<1>4. CASE Handles(c)
  <2>1. PICK m \in cur : m.ch = c /\ taken'[c] = m.n /\ Took(m)
    BY <1>4 DEF Handles
  <2>2. CASE Kind(m) = "open"
    <3>1. Bound(m.ch)'
      BY <1>1, <1>2, <2>1, <2>2, BoundOpen
    <3> QED BY <1>3, <2>1, <3>1
  <2>3. CASE Kind(m) # "open"
    <3>1. Bound(m.ch)'
      BY <1>1, <1>2, <2>1, <2>3, BoundLater
    <3> QED BY <1>3, <2>1, <3>1
  <2> QED BY <2>2, <2>3
<1>5. CASE ~Handles(c)
  <2>1. taken'[c] = taken[c] /\ got'[c] = got[c]
    BY <1>1, <1>5, MessagesMove DEF Silent, Requeues, Sends, Still, FrontSend, Recv, pvars
  <2>2. CASE taken[c] = 0
    <3>1. got[c] \in Seq([n : Nat, by : Peers \cup {"local"}]) /\ Len(got[c]) <= 0
      BY <1>2, <2>2 DEF Bound, TypeOK
    <3>2. got[c] = <<>> /\ Len(got[c]) = 0
      BY <3>1
    <3> QED BY <1>3, <2>1, <2>2, <3>2 DEF Bound
  <2>3. CASE taken[c] # 0
    <3>1. /\ \A p \in Peers : c \in peer'[p].channels => c \in peer[p].channels
          /\ c \in ToSet(handlers') => c \in ToSet(handlers)
      BY <1>1, <1>2, <2>3, NoNewOwner
    <3>2. Gone(c) => Gone(c)'
      BY <3>1 DEF Gone
    <3> QED BY <1>2, <1>3, <2>1, <3>1, <3>2 DEF Bound
  <2> QED BY <2>2, <2>3
<1> QED BY <1>4, <1>5

LEMMA SingleInit == Init => Single
<1> SUFFICES ASSUME Init, NEW c \in Channels PROVE OpensOnce(c) /\ Bound(c)
  BY DEF Single
<1>1. sent[c] = 0 /\ taken[c] = 0 /\ got[c] = <<>>
  BY DEF Init, TransportInit, PeerInit
<1> QED BY <1>1 DEF OpensOnce, Bound

SingleInv == OwnerInv /\ Connected /\ Single

(***************************************************************************)
(* Until the packages are loaded again, and as long as no walk has met a   *)
(* freed link, one handler gets all messages of a channel, from its open   *)
(* on and in order, for any channels and any lists of bridges in which no  *)
(* peer with a timeout is tried for a channel before another               *)
(* (process_open, cockpit_peer_handle, on_other_closed).                   *)
(***************************************************************************)
THEOREM OneHandler ==
  ASSUME Ordered
  PROVE  Spec => [](reloads = 0 /\ ~dangled => OneHandlerInOrder)
<1>1. Init => SingleInv
  BY BridgeInit, StackInit, NumberedInit, SettledInit, OneMessageInit, PlacedInit, ConnectedInit, SingleInit
     DEF SingleInv, OwnerInv
<1>2. SingleInv => (reloads = 0 /\ ~dangled => OneHandlerInOrder)
  <2> SUFFICES ASSUME SingleInv, reloads = 0, ~dangled, NEW c \in Channels \ Reused, NEW i \in DOMAIN got[c]
               PROVE  got[c][i].n = i /\ got[c][i].by = got[c][1].by
    BY DEF OneHandlerInOrder
  <2>1. Bound(c)
    BY DEF SingleInv, Single
  <2>2. i \in 1 .. Len(got[c])
    BY DEF SingleInv, OwnerInv, TypeOK
  <2> QED BY <2>1, <2>2 DEF Bound
<1>3. SingleInv /\ InOrder /\ [Next]_vars => SingleInv'
  <2> SUFFICES ASSUME SingleInv, InOrder, [Next]_vars PROVE SingleInv'
    OBVIOUS
  <2>1. OwnerInv'
    BY OwnerInvStep DEF SingleInv
  <2>2. Connected' /\ Single'
    BY <2>1, ConnectedStep, SingleStep DEF SingleInv, OwnerInv
  <2> QED BY <2>1, <2>2 DEF SingleInv
<1> QED BY <1>1, <1>2, <1>3, BridgeOrder, PTL DEF Spec
=============================================================================
